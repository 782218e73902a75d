-------------------------- MODULE OutputBatchesProofs --------------------------
(***************************************************************************)
(* The lines of all destinations with their accounts: nobody waits for a      *)
(* batch that no release will wake, the byte budgets and the ranges of        *)
(* retired orders are exact, all lines agree on the order of two parents,     *)
(* and a line does what OutputLine says of it.  The module ends with the      *)
(* invariant and the theorems; the folds of the model come first.             *)
(***************************************************************************)
EXTENDS OutputBatches, FiniteSetTheorems, SequenceTheorems, WellFoundedInduction, TLAPS

OLP == INSTANCE OutputLineProofs

-------------------------------------------------------------------------------
(* Induction over a set of numbers, and over what a fold has gone through.    *)

\* A set of rounds with the first and with each next one holds them all.
LEMMA Rounds ==
    ASSUME NEW n \in Nat, NEW X, 0 \in X, \A i \in 1 .. n : i - 1 \in X => i \in X
    PROVE  \A i \in 0 .. n : i \in X
<1> DEFINE Y == {i \in 0 .. n : i \notin X}
<1>1. SUFFICES ASSUME Y # {} PROVE FALSE
  OBVIOUS
<1>2. Y \subseteq Nat
  OBVIOUS
<1>3. PICK m \in Y : \A i \in Y : ~(<<i, m>> \in OpToRel(<, Nat))
  BY <1>1, <1>2, NatLessThanWellFounded, WFMin
<1>4. \A i \in Y : ~(i < m)
  BY <1>2, <1>3 DEF OpToRel
<1>5. m \in 1 .. n
  <2>1. m \in 0 .. n /\ m \notin X
    OBVIOUS
  <2>2. m # 0
    BY <2>1
  <2>. QED
    BY <2>1, <2>2
<1>6. m - 1 \in 0 .. n /\ m - 1 < m
  BY <1>5
<1>7. m - 1 \in X
  BY <1>4, <1>6
<1>. QED
  BY <1>3, <1>5, <1>7

Picks(pick, D) == \A s \in SUBSET D : s # {} => pick[s] \in s
FoldsSet(it, D, base, F, pick) == \A s \in SUBSET D :
    it[s] = IF s = {} THEN base ELSE F[<<pick[s], it[s \ {pick[s]}]>>]
FoldsSequence(it, base, F, q) == it = [s \in SUBSET DOMAIN q |->
    IF s = {} THEN base ELSE F[<<it[s \ {Max(s)}], q[Max(s)]>>]]

\* A fold goes through a finite set, one element at a time: the function the
\* library folds with exists, whichever element is picked next.
LEMMA FoldTable ==
    ASSUME NEW D, IsFiniteSet(D), NEW U, NEW base \in U, NEW F \in [D \X U -> U],
           NEW pick, Picks(pick, D)
    PROVE  \E it \in [SUBSET D -> U] : FoldsSet(it, D, base, F, pick)
<1> DEFINE Small(n) == {s \in SUBSET D : Cardinality(s) <= n}
           Follows(n, it) == \A s \in Small(n) :
               it[s] = IF s = {} THEN base ELSE F[<<pick[s], it[s \ {pick[s]}]>>]
           X == {n \in Nat : \E it \in [Small(n) -> U] : Follows(n, it)}
<1>c. \A s \in SUBSET D : s # {} => pick[s] \in s
  BY DEF Picks
<1>1. \A s \in SUBSET D : /\ IsFiniteSet(s) /\ Cardinality(s) \in Nat
                          /\ Cardinality(s) <= Cardinality(D)
                          /\ Cardinality(s) = 0 <=> s = {}
                          /\ s # {} => Cardinality(s \ {pick[s]}) = Cardinality(s) - 1
  <2> SUFFICES ASSUME NEW s \in SUBSET D
               PROVE  /\ IsFiniteSet(s) /\ Cardinality(s) \in Nat
                      /\ Cardinality(s) <= Cardinality(D)
                      /\ Cardinality(s) = 0 <=> s = {}
                      /\ s # {} => Cardinality(s \ {pick[s]}) = Cardinality(s) - 1
    OBVIOUS
  <2>1. IsFiniteSet(s) /\ Cardinality(s) <= Cardinality(D)
    BY FS_Subset
  <2>. QED
    BY <2>1, <1>c, FS_EmptySet, FS_CardinalityType, FS_RemoveElement
<1>a. \A n \in Nat : {} \in Small(n)
  BY FS_EmptySet
<1>b. \A s \in SUBSET D : Cardinality(s) \in Nat /\ (Cardinality(s) = 0 => s = {})
  BY <1>1
<1>2. 0 \in X
  <2>1. Small(0) = {{}}
    <3>1. \A s \in Small(0) : s = {}
      BY <1>b
    <3>. QED
      BY <1>a, <3>1
  <2>2. [s \in Small(0) |-> base] \in [Small(0) -> U] /\ Follows(0, [s \in Small(0) |-> base])
    BY <2>1
  <2>. QED
    BY <2>2
<1>3. ASSUME NEW n \in Nat, n \in X PROVE n + 1 \in X
  <2>1. PICK it \in [Small(n) -> U] : Follows(n, it)
    BY <1>3
  <2> DEFINE next == [s \in Small(n + 1) |->
                        IF s = {} THEN base ELSE F[<<pick[s], it[s \ {pick[s]}]>>]]
  <2>2. Small(n) \subseteq Small(n + 1)
    BY <1>b
  <2>3. \A s \in Small(n + 1) : s # {} => s \ {pick[s]} \in Small(n)
    <3> SUFFICES ASSUME NEW s \in Small(n + 1), s # {} PROVE s \ {pick[s]} \in Small(n)
      OBVIOUS
    <3>1. s \in SUBSET D /\ Cardinality(s) \in Nat /\ Cardinality(s) <= n + 1
      BY <1>1
    <3>2. Cardinality(s \ {pick[s]}) = Cardinality(s) - 1
      BY <1>1, <3>1
    <3>. QED
      BY <3>1, <3>2
  <2>4. next \in [Small(n + 1) -> U]
    <3> SUFFICES ASSUME NEW s \in Small(n + 1), s # {}
                 PROVE  F[<<pick[s], it[s \ {pick[s]}]>>] \in U
      OBVIOUS
    <3>1. it[s \ {pick[s]}] \in U /\ pick[s] \in D
      BY <2>1, <2>3, <1>c
    <3>. QED
      BY <3>1
  <2>5. \A s \in Small(n) : next[s] = it[s]
    BY <2>1, <2>2, <1>a
  <2>6. Follows(n + 1, next)
    <3> SUFFICES ASSUME NEW s \in Small(n + 1), s # {}
                 PROVE  next[s] = F[<<pick[s], next[s \ {pick[s]}]>>]
      OBVIOUS
    <3>1. next[s \ {pick[s]}] = it[s \ {pick[s]}]
      BY <2>3, <2>5
    <3>. QED
      BY <3>1
  <2>7. \E jt \in [Small(n + 1) -> U] : Follows(n + 1, jt)
    <3> HIDE DEF next, Small, Follows
    <3>. QED
      BY <2>4, <2>6
  <2> HIDE DEF Small, Follows
  <2>. QED
    BY <2>7
<1>4. Cardinality(D) \in Nat
  BY FS_CardinalityType
<1>5. Cardinality(D) \in X
  <2>1. \A i \in 1 .. Cardinality(D) : i - 1 \in X => i \in X
    <3> SUFFICES ASSUME NEW i \in 1 .. Cardinality(D), i - 1 \in X PROVE i \in X
      OBVIOUS
    <3>1. i - 1 \in Nat /\ (i - 1) + 1 = i
      BY <1>4
    <3> HIDE DEF X
    <3>2. (i - 1) + 1 \in X
      BY <1>3, <3>1
    <3>. QED
      BY <3>1, <3>2
  <2> HIDE DEF X
  <2>. QED
    BY <1>2, <1>4, <2>1, Rounds
<1>6. Small(Cardinality(D)) = SUBSET D
  BY <1>1
<1>7. PICK it \in [SUBSET D -> U] : Follows(Cardinality(D), it)
  BY <1>5, <1>6
<1>8. FoldsSet(it, D, base, F, pick)
  BY <1>6, <1>7 DEF FoldsSet
<1>. QED
  BY <1>7, <1>8

\* The largest of some numbers up to n.
LEMMA LargestOf ==
    ASSUME NEW n \in Nat, NEW S \in SUBSET (1 .. n), S # {}
    PROVE  Max(S) \in S /\ \A x \in S : x <= Max(S)
<1> DEFINE R == {n - x : x \in S}
<1>1. R \subseteq Nat /\ R # {}
  <2>1. \A x \in S : n - x \in Nat
    OBVIOUS
  <2>2. PICK x \in S : TRUE
    OBVIOUS
  <2>3. n - x \in R
    OBVIOUS
  <2>. QED
    BY <2>1, <2>3
<1>2. PICK r \in R : \A x \in R : ~(<<x, r>> \in OpToRel(<, Nat))
  BY <1>1, NatLessThanWellFounded, WFMin
<1>3. \A x \in R : ~(x < r)
  BY <1>1, <1>2 DEF OpToRel
<1>4. PICK m \in S : r = n - m
  OBVIOUS
<1>5. ASSUME NEW x \in S PROVE m >= x
  <2>1. n - x \in R /\ ~(n - x < n - m)
    BY <1>3, <1>4
  <2>. QED
    BY <2>1
<1>6. \E y \in S : \A x \in S : y >= x
  BY <1>5
<1>7. Max(S) \in S /\ \A x \in S : Max(S) >= x
  BY <1>6 DEF Max
<1>. QED
  BY <1>7

\* The rounds of a fold over a sequence take its places in order.
LEMMA LastPlace ==
    ASSUME NEW i \in Nat \ {0}
    PROVE  Max(1 .. i) = i /\ (1 .. i) \ {i} = 1 .. i - 1
<1>1. Max(1 .. i) \in 1 .. i /\ \A x \in 1 .. i : x <= Max(1 .. i)
  <2>1. 1 .. i \in SUBSET (1 .. i) /\ 1 .. i # {} /\ i \in Nat
    OBVIOUS
  <2>. QED
    BY <2>1, LargestOf
<1>. QED
  BY <1>1

\* The function the library folds a sequence with exists.
LEMMA SequenceTable ==
    ASSUME NEW U, NEW base \in U, NEW T, NEW F \in [U \X T -> U], NEW q \in Seq(T)
    PROVE  \E it \in [SUBSET DOMAIN q -> U] : FoldsSequence(it, base, F, q)
<1> DEFINE D == DOMAIN q
           G == [x \in D \X U |-> F[<<x[2], q[x[1]]>>]]
           pick == [s \in SUBSET D |-> Max(s)]
<1>1. Len(q) \in Nat /\ D = 1 .. Len(q)
  BY LenProperties
<1>2. IsFiniteSet(D)
  BY <1>1, FS_Interval
<1>3. \A i \in D : q[i] \in T
  BY <1>1, ElementOfSeq
<1>4. G \in [D \X U -> U]
  BY <1>3
<1>5. \A s \in SUBSET D : s # {} => pick[s] \in s
  BY <1>1, LargestOf
<1>c. Picks(pick, D)
  BY <1>5 DEF Picks
<1>p. \A s \in SUBSET D : pick[s] = Max(s)
  OBVIOUS
<1>d. PICK it \in [SUBSET D -> U] : FoldsSet(it, D, base, G, pick)
  <2> HIDE DEF D, G, pick
  <2>. QED
    BY <1>2, <1>4, <1>c, FoldTable
<1>6. \A s \in SUBSET D :
          it[s] = IF s = {} THEN base ELSE G[<<pick[s], it[s \ {pick[s]}]>>]
  <2> HIDE DEF D, G, pick
  <2>. QED
    BY <1>d DEF FoldsSet
<1>7. ASSUME NEW s \in SUBSET D, s # {}
      PROVE  it[s] = F[<<it[s \ {Max(s)}], q[Max(s)]>>]
  <2>1. Max(s) \in D /\ s \ {Max(s)} \in SUBSET D /\ it[s \ {Max(s)}] \in U
    BY <1>5, <1>p, <1>d, <1>7
  <2>2. it[s] = G[<<Max(s), it[s \ {Max(s)}]>>]
    BY <1>p, <1>6, <1>7
  <2>. QED
    BY <2>1, <2>2
<1>8. it[{}] = base
  BY <1>6
<1>9. it = [s \in SUBSET D |-> IF s = {} THEN base ELSE F[<<it[s \ {Max(s)}], q[Max(s)]>>]]
  <2> HIDE DEF D
  <2>. QED
    BY <1>d, <1>7, <1>8
<1>. QED
  BY <1>d, <1>9 DEF FoldsSequence

-------------------------------------------------------------------------------
(* The ranges of retired orders.                                          *)

Pair == Nat \X Nat
Merging == [start : Nat, end : Nat, merged : Seq(Pair), inserted : BOOLEAN]

\* The smaller and the larger of two numbers.
LEMMA OfTwo ==
    ASSUME NEW a \in Nat, NEW b \in Nat
    PROVE  /\ Min({a, b}) = IF a <= b THEN a ELSE b
           /\ Max({a, b}) = IF a <= b THEN b ELSE a
<1>1. \E x \in {a, b} : \A y \in {a, b} : x <= y
  OBVIOUS
<1>2. \E x \in {a, b} : \A y \in {a, b} : x >= y
  OBVIOUS
<1>3. Min({a, b}) \in {a, b} /\ \A y \in {a, b} : Min({a, b}) <= y
  BY <1>1 DEF Min
<1>4. Max({a, b}) \in {a, b} /\ \A y \in {a, b} : Max({a, b}) >= y
  BY <1>2 DEF Max
<1>. QED
  BY <1>3, <1>4

\* One round of remember_retired_order yields bounds and a list of ranges.
LEMMA JoinTypes ==
    ASSUME NEW acc \in Merging, NEW r \in Pair
    PROVE  Join(acc, r) \in Merging
<1>1. /\ acc.start \in Nat /\ acc.end \in Nat /\ acc.merged \in Seq(Pair)
      /\ r[1] \in Nat /\ r[2] \in Nat
  BY DEF Merging, Pair
<1>2. Min({acc.start, r[1]}) \in Nat /\ Max({acc.end, r[2]}) \in Nat
  BY <1>1, OfTwo
<1>3. <<acc.start, acc.end>> \in Pair
  BY <1>1 DEF Pair
<1>4. <<<<acc.start, acc.end>>, r>> \in Seq(Pair)
  BY <1>3
<1>5. acc.merged \o <<<<acc.start, acc.end>>, r>> \in Seq(Pair)
  BY <1>1, <1>4
<1>6. Append(acc.merged, r) \in Seq(Pair)
  BY <1>1
<1>. QED
  BY <1>2, <1>5, <1>6 DEF Join, Merging

\* What holds before the first round and is kept by each round holds after all.
LEMMA JoinRounds ==
    ASSUME NEW base \in Merging, NEW q \in Seq(Pair),
           NEW S \in [0 .. Len(q) -> SUBSET Merging], base \in S[0],
           \A i \in 1 .. Len(q) : \A acc \in S[i - 1] : Join(acc, q[i]) \in S[i]
    PROVE  FoldLeft(Join, base, q) \in S[Len(q)]
<1> DEFINE F == [x \in Merging \X Pair |-> Join(x[1], x[2])]
           D == SUBSET DOMAIN q
           Eq(g) == g = [s \in D |-> IF s = {} THEN base ELSE Join(g[s \ {Max(s)}], q[Max(s)])]
           it == CHOOSE g : Eq(g)
<1>1. FoldLeft(Join, base, q) = it[DOMAIN q]
  BY DEF FoldLeft, MapThenFoldSet
<1>2. Len(q) \in Nat /\ DOMAIN q = 1 .. Len(q) /\ \A i \in DOMAIN q : q[i] \in Pair
  BY LenProperties, ElementOfSeq
<1>3. \E g : Eq(g)
  <2>1. F \in [Merging \X Pair -> Merging]
    BY JoinTypes
  <2>2. PICK g \in [SUBSET DOMAIN q -> Merging] : FoldsSequence(g, base, F, q)
    <3> HIDE DEF F
    <3>. QED
      BY <2>1, SequenceTable
  <2>3. ASSUME NEW s \in D, s # {}
        PROVE  F[<<g[s \ {Max(s)}], q[Max(s)]>>] = Join(g[s \ {Max(s)}], q[Max(s)])
    <3>1. Max(s) \in DOMAIN q /\ s \ {Max(s)} \in D
      BY <1>2, <2>3, LargestOf
    <3>2. g[s \ {Max(s)}] \in Merging /\ q[Max(s)] \in Pair
      BY <1>2, <2>2, <3>1
    <3>. QED
      BY <3>2
  <2>4. Eq(g)
    <3>1. g = [s \in D |-> IF s = {} THEN base ELSE F[<<g[s \ {Max(s)}], q[Max(s)]>>]]
      BY <2>2 DEF FoldsSequence
    <3> HIDE DEF F, D
    <3>. QED
      BY <2>3, <3>1
  <2>. QED
    BY <2>4
<1>4. Eq(it)
  <2> HIDE DEF Eq
  <2>. QED
    BY <1>3
<1>5. it[{}] = base
  <2>1. {} \in D
    OBVIOUS
  <2> HIDE DEF D, it
  <2>. QED
    BY <1>4, <2>1
<1>6. ASSUME NEW i \in 1 .. Len(q)
      PROVE  it[1 .. i] = Join(it[1 .. i - 1], q[i])
  <2>1. 1 .. i \in D /\ 1 .. i # {} /\ i \in Nat \ {0}
    <3>1. i \in Nat /\ 1 <= i /\ i <= Len(q)
      BY <1>2
    <3>2. 1 .. i \subseteq 1 .. Len(q)
      BY <1>2, <3>1
    <3>3. 1 \in 1 .. i
      BY <3>1
    <3>. QED
      BY <1>2, <3>1, <3>2, <3>3
  <2>2. Max(1 .. i) = i /\ (1 .. i) \ {i} = 1 .. i - 1
    BY <2>1, LastPlace
  <2> HIDE DEF D, it
  <2>. QED
    BY <1>4, <2>1, <2>2
<1> HIDE DEF it
<1> DEFINE X == {i \in 0 .. Len(q) : it[1 .. i] \in S[i]}
<1>7. 0 \in X
  BY <1>2, <1>5
<1>8. \A i \in 1 .. Len(q) : i - 1 \in X => i \in X
  <2> SUFFICES ASSUME NEW i \in 1 .. Len(q), i - 1 \in X PROVE i \in X
    OBVIOUS
  <2>1. it[1 .. i - 1] \in S[i - 1] /\ i \in 0 .. Len(q)
    BY <1>2
  <2>2. it[1 .. i] \in S[i]
    BY <1>6, <2>1
  <2>. QED
    BY <2>1, <2>2
<1>9. Len(q) \in X
  <2> HIDE DEF X
  <2>1. \A i \in 0 .. Len(q) : i \in X
    BY <1>2, <1>7, <1>8, Rounds
  <2>. QED
    BY <1>2, <2>1
<1>. QED
  BY <1>1, <1>2, <1>9

Covers(m, x) == \E i \in 1 .. Len(m) : m[i][1] <= x /\ x <= m[i][2]
Apart(m) == /\ \A i \in 1 .. Len(m) : m[i][1] <= m[i][2]
            /\ \A i, j \in 1 .. Len(m) : i < j => m[i][2] + 1 < m[j][1]
Below(m, b) == \A i \in 1 .. Len(m) : m[i][2] + 1 < b

\* Ranges stay apart when one behind them all is appended.
LEMMA AppendRange ==
    ASSUME NEW m \in Seq(Pair), Apart(m), NEW r \in Pair, r[1] <= r[2], Below(m, r[1])
    PROVE  /\ Append(m, r) \in Seq(Pair) /\ Apart(Append(m, r))
           /\ \A x : Covers(Append(m, r), x) <=> Covers(m, x) \/ (r[1] <= x /\ x <= r[2])
           /\ \A b \in Nat : r[2] + 1 < b => Below(Append(m, r), b)
<1> DEFINE n == Append(m, r)
<1>1. /\ n \in Seq(Pair) /\ Len(n) = Len(m) + 1 /\ Len(m) \in Nat
      /\ \A i \in 1 .. Len(m) : n[i] = m[i]
      /\ n[Len(m) + 1] = r
  OBVIOUS
<1>2. \A i \in 1 .. Len(m) : m[i][1] \in Nat /\ m[i][2] \in Nat
  <2>1. \A i \in 1 .. Len(m) : m[i] \in Pair
    BY ElementOfSeq
  <2>. QED
    BY <2>1 DEF Pair
<1>3. r[1] \in Nat /\ r[2] \in Nat
  BY DEF Pair
<1> HIDE DEF n
<1>4. \A i \in 1 .. Len(n) : i \in 1 .. Len(m) \/ i = Len(m) + 1
  BY <1>1
<1>5. Apart(n)
  <2>1. ASSUME NEW i \in 1 .. Len(n) PROVE n[i][1] <= n[i][2]
    BY <1>1, <1>4 DEF Apart
  <2>2. ASSUME NEW i \in 1 .. Len(n), NEW j \in 1 .. Len(n), i < j
        PROVE  n[i][2] + 1 < n[j][1]
    <3>1. i \in 1 .. Len(m) /\ n[i] = m[i]
      BY <1>1, <2>2
    <3>2. CASE j \in 1 .. Len(m)
      BY <1>1, <2>2, <3>1, <3>2 DEF Apart
    <3>3. CASE j = Len(m) + 1
      BY <1>1, <3>1, <3>3 DEF Below
    <3>. QED
      BY <1>4, <3>2, <3>3
  <2>. QED
    BY <2>1, <2>2 DEF Apart
<1>6. ASSUME NEW x PROVE Covers(n, x) <=> Covers(m, x) \/ (r[1] <= x /\ x <= r[2])
  <2>1. Covers(n, x) => Covers(m, x) \/ (r[1] <= x /\ x <= r[2])
    BY <1>1, <1>4 DEF Covers
  <2>2. Covers(m, x) => Covers(n, x)
    <3>1. \A i \in 1 .. Len(m) : i \in 1 .. Len(n)
      BY <1>1
    <3>. QED
      BY <1>1, <3>1 DEF Covers
  <2>3. r[1] <= x /\ x <= r[2] => Covers(n, x)
    <3>1. Len(m) + 1 \in 1 .. Len(n)
      BY <1>1
    <3>. QED
      BY <1>1, <3>1 DEF Covers
  <2>. QED
    BY <2>1, <2>2, <2>3
<1>7. ASSUME NEW b \in Nat, r[2] + 1 < b PROVE Below(n, b)
  <2> SUFFICES ASSUME NEW i \in 1 .. Len(n) PROVE n[i][2] + 1 < b
    BY DEF Below
  <2>1. CASE i \in 1 .. Len(m)
    <3>1. m[i][2] + 1 < r[1]
      BY <2>1 DEF Below
    <3>. QED
      BY <1>1, <1>2, <1>3, <1>7, <2>1, <3>1
  <2>2. CASE i = Len(m) + 1
    BY <1>1, <1>7, <2>2
  <2>. QED
    BY <1>4, <2>1, <2>2
<1>. QED
  BY <1>1, <1>5, <1>6, <1>7 DEF n

\* What a fold of the ranges q that takes in the order k knows before round i + 1:
\* its list and its bounds cover k and the ranges so far, and leave a gap to the
\* ranges to come.
Merged(acc, q, k, i) ==
    /\ acc.start <= acc.end
    /\ Apart(acc.merged)
    /\ \A j \in i + 1 .. Len(q) : Below(acc.merged, q[j][1])
    /\ acc.inserted => \A j \in i + 1 .. Len(q) : acc.end + 1 < q[j][1]
    /\ ~acc.inserted => Below(acc.merged, acc.start)
    /\ \A x \in Nat :
          (Covers(acc.merged, x) \/ (~acc.inserted /\ acc.start <= x /\ x <= acc.end))
             <=> (x = k \/ \E j \in 1 .. i : q[j][1] <= x /\ x <= q[j][2])

\* Two ranges that touch make one, of the smaller start and the larger end.
LEMMA Hull ==
    ASSUME NEW a \in Nat, NEW b \in Nat, NEW c \in Nat, NEW d \in Nat, NEW x \in Nat,
           a <= b, c <= d, ~(d + 1 < a), ~(b + 1 < c)
    PROVE  (IF a <= c THEN a ELSE c) <= x /\ x <= (IF b <= d THEN d ELSE b)
             <=> (a <= x /\ x <= b) \/ (c <= x /\ x <= d)
  OBVIOUS

\* A range that begins beyond another one ends beyond it too.
LEMMA Farther ==
    ASSUME NEW a \in Nat, NEW b \in Nat, NEW c \in Nat, NEW d \in Nat,
           a + 1 < b, b <= c, c + 1 < d
    PROVE  a + 1 < d
  OBVIOUS

\* Two elements behind a sequence, together or one by one.
LEMMA AppendTwo ==
    ASSUME NEW T, NEW s \in Seq(T), NEW a \in T, NEW b \in T
    PROVE  s \o <<a, b>> = Append(Append(s, a), b)
<1> DEFINE u == s \o <<a, b>>
           v == Append(Append(s, a), b)
<1>1. <<a, b>> \in Seq(T) /\ Len(<<a, b>>) = 2 /\ Len(s) \in Nat
  OBVIOUS
<1>2. /\ u \in Seq(T) /\ Len(u) = Len(s) + 2
      /\ \A i \in 1 .. Len(s) + 2 : u[i] = IF i <= Len(s) THEN s[i] ELSE <<a, b>>[i - Len(s)]
  BY <1>1, ConcatProperties
<1>3. /\ v \in Seq(T) /\ Len(v) = Len(s) + 2
      /\ \A i \in 1 .. Len(s) : v[i] = s[i]
      /\ v[Len(s) + 1] = a /\ v[Len(s) + 2] = b
  BY <1>1, AppendProperties
<1> HIDE DEF u, v
<1>4. u[Len(s) + 1] = a /\ u[Len(s) + 2] = b
  BY <1>1, <1>2
<1>5. \A i \in 1 .. Len(u) : u[i] = v[i]
  <2>1. \A i \in 1 .. Len(u) : i \in 1 .. Len(s) \/ i = Len(s) + 1 \/ i = Len(s) + 2
    BY <1>1, <1>2
  <2>. QED
    BY <1>1, <1>2, <1>3, <1>4, <2>1
<1>6. u = v
  BY <1>2, <1>3, <1>5, SeqEqual
<1>. QED
  BY <1>6 DEF u, v

\* One round of remember_retired_order.
LEMMA JoinMerges ==
    ASSUME NEW q \in Seq(Pair), Apart(q), NEW k \in Nat, NEW i \in 1 .. Len(q),
           NEW acc \in Merging, Merged(acc, q, k, i - 1)
    PROVE  Merged(Join(acc, q[i]), q, k, i)
<1>0. Len(q) \in Nat
  BY LenProperties
<1>1. /\ acc.start \in Nat /\ acc.end \in Nat /\ acc.merged \in Seq(Pair)
      /\ acc.inserted \in BOOLEAN
  BY DEF Merging
<1>2. \A j \in 1 .. Len(q) : q[j] \in Pair /\ q[j][1] \in Nat /\ q[j][2] \in Nat
  <2>1. \A j \in 1 .. Len(q) : q[j] \in Pair
    BY ElementOfSeq
  <2>. QED
    BY <2>1 DEF Pair
<1> DEFINE r == q[i]
<1>3. r \in Pair /\ r[1] \in Nat /\ r[2] \in Nat /\ r[1] <= r[2]
  BY <1>2 DEF Apart
<1>4. \A j \in i + 1 .. Len(q) : r[2] + 1 < q[j][1] /\ j \in 1 .. Len(q)
  <2> SUFFICES ASSUME NEW j \in i + 1 .. Len(q)
               PROVE  r[2] + 1 < q[j][1] /\ j \in 1 .. Len(q)
    OBVIOUS
  <2>1. j \in 1 .. Len(q) /\ i < j
    BY <1>0
  <2>. QED
    BY <2>1 DEF Apart
<1>5. i - 1 + 1 = i /\ i \in i .. Len(q) /\ \A j \in i + 1 .. Len(q) : j \in i .. Len(q)
  BY <1>0
<1>6. /\ acc.start <= acc.end
      /\ Apart(acc.merged)
      /\ \A j \in i .. Len(q) : Below(acc.merged, q[j][1])
      /\ acc.inserted => \A j \in i .. Len(q) : acc.end + 1 < q[j][1]
      /\ ~acc.inserted => Below(acc.merged, acc.start)
  BY <1>5 DEF Merged
<1>7. \A x \in Nat :
          (Covers(acc.merged, x) \/ (~acc.inserted /\ acc.start <= x /\ x <= acc.end))
             <=> (x = k \/ \E j \in 1 .. i - 1 : q[j][1] <= x /\ x <= q[j][2])
  BY DEF Merged
<1>8. ASSUME NEW x
      PROVE  (\E j \in 1 .. i : q[j][1] <= x /\ x <= q[j][2])
               <=> ((\E j \in 1 .. i - 1 : q[j][1] <= x /\ x <= q[j][2])
                     \/ (r[1] <= x /\ x <= r[2]))
  <2>1. \A j \in 1 .. i : j \in 1 .. i - 1 \/ j = i
    BY <1>0
  <2>2. i \in 1 .. i /\ \A j \in 1 .. i - 1 : j \in 1 .. i
    BY <1>0
  <2>. QED
    BY <2>1, <2>2
<1>9. Below(acc.merged, r[1]) /\ (acc.inserted => acc.end + 1 < r[1])
  BY <1>5, <1>6
<1> HIDE DEF r
<1> DEFINE next == Join(acc, r)
<1>10. CASE r[2] + 1 < acc.start
  <2>1. ~acc.inserted
    <3>1. acc.start \in Nat /\ acc.end \in Nat /\ acc.start <= acc.end
      BY <1>1, <1>6
    <3>2. ~(acc.end + 1 < r[1])
      BY <1>3, <1>10, <3>1
    <3>. QED
      BY <1>9, <3>2
  <2>2. /\ next.merged = Append(acc.merged, r) /\ next.start = acc.start
        /\ next.end = acc.end /\ next.inserted = acc.inserted
    BY <1>1, <1>10 DEF Join, Merging
  <2> HIDE DEF next
  <2>3. /\ Apart(next.merged)
        /\ \A x : Covers(next.merged, x) <=> Covers(acc.merged, x) \/ (r[1] <= x /\ x <= r[2])
        /\ \A b \in Nat : r[2] + 1 < b => Below(next.merged, b)
    BY <1>1, <1>3, <1>6, <1>9, <2>2, AppendRange
  <2>4. \A j \in i + 1 .. Len(q) : Below(next.merged, q[j][1])
    BY <1>2, <1>4, <2>3
  <2>5. Below(next.merged, next.start)
    BY <1>1, <1>10, <2>2, <2>3
  <2>6. ASSUME NEW x \in Nat
        PROVE  (Covers(next.merged, x) \/ (~next.inserted /\ next.start <= x /\ x <= next.end))
                 <=> (x = k \/ \E j \in 1 .. i : q[j][1] <= x /\ x <= q[j][2])
    BY <1>7, <1>8, <2>1, <2>2, <2>3
  <2>7. Merged(next, q, k, i)
    BY <1>6, <2>1, <2>2, <2>3, <2>4, <2>5, <2>6 DEF Merged
  <2>. QED
    BY <2>7 DEF next, r
<1>11. CASE ~(r[2] + 1 < acc.start) /\ acc.end + 1 < r[1] /\ acc.inserted
  <2>2. /\ next.merged = Append(acc.merged, r) /\ next.start = acc.start
        /\ next.end = acc.end /\ next.inserted = TRUE
    BY <1>1, <1>11 DEF Join, Merging
  <2> HIDE DEF next
  <2>3. /\ Apart(next.merged)
        /\ \A x : Covers(next.merged, x) <=> Covers(acc.merged, x) \/ (r[1] <= x /\ x <= r[2])
        /\ \A b \in Nat : r[2] + 1 < b => Below(next.merged, b)
    BY <1>1, <1>3, <1>6, <1>9, <2>2, AppendRange
  <2>4. \A j \in i + 1 .. Len(q) : Below(next.merged, q[j][1])
    BY <1>2, <1>4, <2>3
  <2>5. \A j \in i + 1 .. Len(q) : next.end + 1 < q[j][1]
    BY <1>5, <1>6, <1>11, <2>2
  <2>6. ASSUME NEW x \in Nat
        PROVE  (Covers(next.merged, x) \/ (~next.inserted /\ next.start <= x /\ x <= next.end))
                 <=> (x = k \/ \E j \in 1 .. i : q[j][1] <= x /\ x <= q[j][2])
    BY <1>7, <1>8, <1>11, <2>2, <2>3
  <2>7. Merged(next, q, k, i)
    BY <1>6, <2>2, <2>3, <2>4, <2>5, <2>6 DEF Merged
  <2>. QED
    BY <2>7 DEF next, r
<1>12. CASE ~(r[2] + 1 < acc.start) /\ acc.end + 1 < r[1] /\ ~acc.inserted
  <2> DEFINE p == <<acc.start, acc.end>>
             m == Append(acc.merged, p)
  <2>1. p \in Pair /\ p[1] = acc.start /\ p[2] = acc.end
    BY <1>1 DEF Pair
  <2>2. /\ next.merged = acc.merged \o <<p, r>> /\ next.start = acc.start
        /\ next.end = acc.end /\ next.inserted = TRUE
    BY <1>1, <1>12 DEF Join, Merging
  <2> HIDE DEF next, p
  <2>3. next.merged = Append(m, r)
    <3>1. acc.merged \in Seq(Pair) /\ p \in Pair /\ r \in Pair
      BY <1>1, <1>3, <2>1
    <3>2. acc.merged \o <<p, r>> = Append(Append(acc.merged, p), r)
      BY <3>1, AppendTwo
    <3>. QED
      BY <2>2, <3>2
  <2>4. /\ m \in Seq(Pair) /\ Apart(m)
        /\ \A x : Covers(m, x) <=> Covers(acc.merged, x) \/ (p[1] <= x /\ x <= p[2])
        /\ \A b \in Nat : p[2] + 1 < b => Below(m, b)
    BY <1>1, <1>6, <1>12, <2>1, AppendRange
  <2> HIDE DEF m
  <2>5. /\ Apart(next.merged)
        /\ \A x : Covers(next.merged, x) <=> Covers(m, x) \/ (r[1] <= x /\ x <= r[2])
        /\ \A b \in Nat : r[2] + 1 < b => Below(next.merged, b)
    <3>1. Below(m, r[1])
      BY <1>3, <1>12, <2>1, <2>4
    <3>. QED
      BY <1>3, <2>3, <2>4, <3>1, AppendRange
  <2>6. \A j \in i + 1 .. Len(q) : Below(next.merged, q[j][1])
    BY <1>2, <1>4, <2>5
  <2>7. ASSUME NEW j \in i + 1 .. Len(q) PROVE next.end + 1 < q[j][1]
    <3>1. r[2] + 1 < q[j][1] /\ q[j][1] \in Nat /\ acc.end + 1 < r[1]
      BY <1>2, <1>4, <1>12
    <3>2. next.end = acc.end /\ acc.end \in Nat
      BY <1>1, <2>2
    <3>3. acc.end + 1 < q[j][1]
      BY <1>3, <3>1, <3>2, Farther
    <3>. QED
      BY <3>2, <3>3
  <2>8. ASSUME NEW x \in Nat
        PROVE  (Covers(next.merged, x) \/ (~next.inserted /\ next.start <= x /\ x <= next.end))
                 <=> (x = k \/ \E j \in 1 .. i : q[j][1] <= x /\ x <= q[j][2])
    BY <1>7, <1>8, <1>12, <2>1, <2>2, <2>4, <2>5
  <2>9. Merged(next, q, k, i)
    BY <1>6, <2>2, <2>5, <2>6, <2>7, <2>8 DEF Merged
  <2>. QED
    BY <2>9 DEF next, r
<1>13. CASE ~(r[2] + 1 < acc.start) /\ ~(acc.end + 1 < r[1])
  <2>1. ~acc.inserted
    BY <1>9, <1>13
  <2>2. /\ next.merged = acc.merged /\ next.inserted = acc.inserted
        /\ next.start = (IF acc.start <= r[1] THEN acc.start ELSE r[1])
        /\ next.end = (IF acc.end <= r[2] THEN r[2] ELSE acc.end)
    <3>1. Join(acc, r) = [acc EXCEPT !.start = Min({@, r[1]}), !.end = Max({@, r[2]})]
      BY <1>13 DEF Join
    <3>2. /\ Min({acc.start, r[1]}) = (IF acc.start <= r[1] THEN acc.start ELSE r[1])
          /\ Max({acc.end, r[2]}) = (IF acc.end <= r[2] THEN r[2] ELSE acc.end)
      BY <1>1, <1>3, OfTwo
    <3>. QED
      BY <1>1, <3>1, <3>2 DEF Merging
  <2> HIDE DEF next
  <2>3. next.start <= next.end /\ Below(next.merged, next.start)
    BY <1>1, <1>3, <1>6, <1>9, <2>1, <2>2
  <2>4. \A j \in i + 1 .. Len(q) : Below(next.merged, q[j][1])
    BY <1>5, <1>6, <2>2
  <2>5. ASSUME NEW x \in Nat
        PROVE  (Covers(next.merged, x) \/ (~next.inserted /\ next.start <= x /\ x <= next.end))
                 <=> (x = k \/ \E j \in 1 .. i : q[j][1] <= x /\ x <= q[j][2])
    <3>1. next.start <= x /\ x <= next.end <=>
             (acc.start <= x /\ x <= acc.end) \/ (r[1] <= x /\ x <= r[2])
      <4>1. PICK a \in Nat : a = acc.start
        BY <1>1
      <4>2. PICK b \in Nat : b = acc.end
        BY <1>1
      <4>3. PICK c \in Nat : c = r[1]
        BY <1>3
      <4>4. PICK d \in Nat : d = r[2]
        BY <1>3
      <4>5. a <= b /\ c <= d /\ ~(d + 1 < a) /\ ~(b + 1 < c)
        BY <1>3, <1>6, <1>13, <4>1, <4>2, <4>3, <4>4
      <4>6. (IF a <= c THEN a ELSE c) <= x /\ x <= (IF b <= d THEN d ELSE b)
              <=> (a <= x /\ x <= b) \/ (c <= x /\ x <= d)
        BY <4>5, Hull
      <4>. QED
        BY <2>2, <4>1, <4>2, <4>3, <4>4, <4>6
    <3>. QED
      BY <1>7, <1>8, <2>1, <2>2, <3>1
  <2>6. Merged(next, q, k, i)
    BY <1>6, <2>1, <2>2, <2>3, <2>4, <2>5 DEF Merged
  <2>. QED
    BY <2>6 DEF next, r
<1>. QED
  BY <1>10, <1>11, <1>12, <1>13

\* remember_retired_order: the ranges stay apart, and cover one order more.
LEMMA WithOrderExact ==
    ASSUME NEW q \in Seq(Pair), NEW k \in Nat
    PROVE  /\ WithOrder(q, k) \in Seq(Pair)
           /\ Apart(q) => /\ Apart(WithOrder(q, k))
                          /\ \A x \in Nat : Covers(WithOrder(q, k), x) <=> Covers(q, x) \/ x = k
<1> DEFINE base == [start |-> k, end |-> k, merged |-> <<>>, inserted |-> FALSE]
           S == [i \in 0 .. Len(q) |-> {acc \in Merging : Apart(q) => Merged(acc, q, k, i)}]
           last == FoldLeft(Join, base, q)
<1>1. Len(q) \in Nat /\ \A i \in 1 .. Len(q) : q[i] \in Pair
  BY LenProperties, ElementOfSeq
<1>2. base \in Merging
  BY DEF Merging
<1>3. Merged(base, q, k, 0)
  <2>1. <<>> \in Seq(Pair) /\ Len(<<>>) = 0 /\ 1 .. 0 = {}
    OBVIOUS
  <2>2. Apart(<<>>) /\ \A x : ~Covers(<<>>, x) /\ Below(<<>>, x)
    BY <2>1 DEF Apart, Covers, Below
  <2>. QED
    BY <2>1, <2>2 DEF Merged
<1>4. S \in [0 .. Len(q) -> SUBSET Merging] /\ base \in S[0]
  BY <1>1, <1>2, <1>3
<1>5. \A i \in 1 .. Len(q) : \A acc \in S[i - 1] : Join(acc, q[i]) \in S[i]
  <2> SUFFICES ASSUME NEW i \in 1 .. Len(q), NEW acc \in S[i - 1]
               PROVE  Join(acc, q[i]) \in S[i]
    OBVIOUS
  <2>1. acc \in Merging /\ (Apart(q) => Merged(acc, q, k, i - 1))
    BY <1>1
  <2>2. Join(acc, q[i]) \in Merging /\ (Apart(q) => Merged(Join(acc, q[i]), q, k, i))
    BY <1>1, <2>1, JoinTypes, JoinMerges
  <2>. QED
    BY <1>1, <2>2
<1>6. last \in S[Len(q)]
  <2> HIDE DEF S, base
  <2>. QED
    BY <1>2, <1>4, <1>5, JoinRounds
<1>7. last \in Merging /\ (Apart(q) => Merged(last, q, k, Len(q)))
  BY <1>1, <1>6
<1>8. WithOrder(q, k) = IF last.inserted THEN last.merged
                        ELSE Append(last.merged, <<last.start, last.end>>)
  BY DEF WithOrder
<1> HIDE DEF last
<1>9. /\ last.start \in Nat /\ last.end \in Nat /\ last.merged \in Seq(Pair)
      /\ last.inserted \in BOOLEAN
  BY <1>7 DEF Merging
<1> DEFINE p == <<last.start, last.end>>
<1>10. p \in Pair /\ p[1] = last.start /\ p[2] = last.end
  BY <1>9 DEF Pair
<1> HIDE DEF p
<1>11. WithOrder(q, k) \in Seq(Pair)
  BY <1>8, <1>9, <1>10 DEF p
<1>12. ASSUME Apart(q)
       PROVE  /\ Apart(WithOrder(q, k))
              /\ \A x \in Nat : Covers(WithOrder(q, k), x) <=> Covers(q, x) \/ x = k
  <2>1. /\ last.start <= last.end /\ Apart(last.merged)
        /\ ~last.inserted => Below(last.merged, last.start)
        /\ \A x \in Nat :
             (Covers(last.merged, x) \/ (~last.inserted /\ last.start <= x /\ x <= last.end))
                <=> (x = k \/ Covers(q, x))
    BY <1>7, <1>12 DEF Merged, Covers
  <2>2. CASE last.inserted
    BY <1>8, <2>1, <2>2
  <2>3. CASE ~last.inserted
    <3>1. WithOrder(q, k) = Append(last.merged, p)
      BY <1>8, <2>3 DEF p
    <3>2. /\ Apart(Append(last.merged, p))
          /\ \A x : Covers(Append(last.merged, p), x)
                      <=> Covers(last.merged, x) \/ (p[1] <= x /\ x <= p[2])
      BY <1>9, <1>10, <2>1, <2>3, AppendRange
    <3>. QED
      BY <1>10, <2>1, <2>3, <3>1, <3>2
  <2>. QED
    BY <2>2, <2>3
<1>. QED
  BY <1>11, <1>12

-------------------------------------------------------------------------------
(* The bytes of a scope.                                                  *)

Total(f) == FoldFunction(+, 0, f)
One(s) == CHOOSE x \in s : TRUE

\* The sums of the library over the subsets of a domain.
SumsOf(it, f) == it = [s \in SUBSET DOMAIN f |->
    IF s = {} THEN 0 ELSE f[One(s)] + it[s \ {One(s)}]]

\* Sums over the same part of two accounts are the same.
LEMMA SumsAgree ==
    ASSUME NEW D, NEW f \in [D -> Nat], NEW E, NEW h \in [E -> Nat],
           NEW S, IsFiniteSet(S), S \subseteq D, S \subseteq E,
           \A x \in S : f[x] = h[x],
           NEW a, SumsOf(a, f), NEW b, SumsOf(b, h)
    PROVE  \A s \in SUBSET S : a[s] = b[s]
<1> DEFINE X == {n \in Nat : \A s \in SUBSET S : Cardinality(s) = n => a[s] = b[s]}
<1>1. \A s \in SUBSET S : /\ a[s] = IF s = {} THEN 0 ELSE f[One(s)] + a[s \ {One(s)}]
                          /\ b[s] = IF s = {} THEN 0 ELSE h[One(s)] + b[s \ {One(s)}]
  <2>1. DOMAIN f = D /\ DOMAIN h = E
    OBVIOUS
  <2>2. \A s \in SUBSET S : s \in SUBSET D /\ s \in SUBSET E
    OBVIOUS
  <2>. QED
    BY <2>1, <2>2 DEF SumsOf
<1>2. ASSUME NEW s \in SUBSET S
      PROVE  /\ Cardinality(s) \in Nat /\ Cardinality(s) <= Cardinality(S)
             /\ Cardinality(s) = 0 <=> s = {}
             /\ s # {} => /\ One(s) \in s
                          /\ Cardinality(s \ {One(s)}) = Cardinality(s) - 1
  <2>1. IsFiniteSet(s) /\ Cardinality(s) <= Cardinality(S)
    BY FS_Subset
  <2>2. s # {} => One(s) \in s
    BY DEF One
  <2>. QED
    BY <2>1, <2>2, FS_EmptySet, FS_CardinalityType, FS_RemoveElement
<1>3. 0 \in X
  BY <1>1, <1>2
<1>4. ASSUME NEW n \in Nat \ {0}, n - 1 \in X PROVE n \in X
  <2> SUFFICES ASSUME NEW s \in SUBSET S, Cardinality(s) = n PROVE a[s] = b[s]
    OBVIOUS
  <2>1. s # {} /\ One(s) \in S /\ s \ {One(s)} \in SUBSET S
    BY <1>2
  <2>2. Cardinality(s \ {One(s)}) = n - 1
    BY <1>2, <2>1
  <2>3. a[s \ {One(s)}] = b[s \ {One(s)}]
    BY <1>4, <2>1, <2>2
  <2>. QED
    BY <1>1, <2>1, <2>3
<1>5. Cardinality(S) \in Nat
  BY FS_CardinalityType
<1>6. \A i \in 1 .. Cardinality(S) : i - 1 \in X => i \in X
  <2> HIDE DEF X
  <2>. QED
    BY <1>4, <1>5
<1>7. \A i \in 0 .. Cardinality(S) : i \in X
  <2> HIDE DEF X
  <2>. QED
    BY <1>3, <1>5, <1>6, Rounds
<1>8. \A s \in SUBSET S : Cardinality(s) \in X
  <2> HIDE DEF X
  <2>1. ASSUME NEW s \in SUBSET S PROVE Cardinality(s) \in 0 .. Cardinality(S)
    <3>1. Cardinality(s) \in Nat /\ Cardinality(s) <= Cardinality(S)
      BY <1>2
    <3>. QED
      BY <1>5, <3>1
  <2>. QED
    BY <1>7, <2>1
<1>. QED
  BY <1>8

\* The function the library adds up a finite account with exists.
LEMMA SumTable ==
    ASSUME NEW D, IsFiniteSet(D), NEW f \in [D -> Nat]
    PROVE  \E it \in [SUBSET D -> Nat] : SumsOf(it, f) /\ Total(f) = it[D]
<1> DEFINE F == [x \in D \X Nat |-> f[x[1]] + x[2]]
           pick == [s \in SUBSET D |-> One(s)]
           it == CHOOSE g : SumsOf(g, f)
<1>1. \A s \in SUBSET D : pick[s] = One(s) /\ (s # {} => One(s) \in s)
  BY DEF One
<1>2. Picks(pick, D)
  BY <1>1 DEF Picks
<1>3. F \in [D \X Nat -> Nat]
  OBVIOUS
<1>4. PICK g \in [SUBSET D -> Nat] : FoldsSet(g, D, 0, F, pick)
  <2> HIDE DEF F, pick
  <2>1. 0 \in Nat
    OBVIOUS
  <2>. QED
    BY <1>2, <1>3, <2>1, FoldTable
<1>5. ASSUME NEW s \in SUBSET D
      PROVE  g[s] = IF s = {} THEN 0 ELSE f[One(s)] + g[s \ {One(s)}]
  <2>1. CASE s = {}
    BY <1>4, <2>1 DEF FoldsSet
  <2>2. CASE s # {}
    <3>1. One(s) \in D /\ s \ {One(s)} \in SUBSET D /\ g[s \ {One(s)}] \in Nat
      BY <1>1, <1>4, <2>2
    <3>2. g[s] = F[<<One(s), g[s \ {One(s)}]>>]
      <4> HIDE DEF F, pick
      <4>. QED
        BY <1>1, <1>4, <2>2 DEF FoldsSet
    <3>. QED
      BY <2>2, <3>1, <3>2
  <2>. QED
    BY <2>1, <2>2
<1>6. DOMAIN f = D
  OBVIOUS
<1>7. SumsOf(g, f)
  <2>1. g = [s \in SUBSET D |-> IF s = {} THEN 0 ELSE f[One(s)] + g[s \ {One(s)}]]
    BY <1>4, <1>5
  <2>. QED
    BY <1>6, <2>1 DEF SumsOf
<1>8. SumsOf(it, f)
  BY <1>7
<1>9. Total(f) = it[D]
  BY <1>6 DEF Total, FoldFunction, FoldFunctionOnSet, MapThenFoldSet, SumsOf, One
<1> HIDE DEF it
<1>10. \A s \in SUBSET D : it[s] = g[s]
  BY <1>7, <1>8, SumsAgree
<1>11. it \in [SUBSET D -> Nat]
  <2>1. it = [s \in SUBSET D |-> IF s = {} THEN 0 ELSE f[One(s)] + it[s \ {One(s)}]]
    BY <1>6, <1>8 DEF SumsOf
  <2>2. it = [s \in SUBSET D |-> it[s]]
    BY <2>1
  <2>. QED
    BY <1>4, <1>10, <2>2
<1>. QED
  BY <1>8, <1>9, <1>11

\* it is the function that adds up the account f of the set D.
Sums(it, f, D) == f \in [D -> Nat] /\ it \in [SUBSET D -> Nat] /\ SumsOf(it, f)

\* Whichever entry is taken out of an account first, the sum is the same.
LEMMA AnyFirst ==
    ASSUME NEW D, IsFiniteSet(D), NEW f, NEW it, Sums(it, f, D)
    PROVE  \A s \in SUBSET D : \A x \in s : it[s] = f[x] + it[s \ {x}]
<1>0. f \in [D -> Nat] /\ it \in [SUBSET D -> Nat] /\ SumsOf(it, f)
  BY DEF Sums
<1> USE <1>0
<1> DEFINE X == {n \in Nat : \A s \in SUBSET D : Cardinality(s) = n =>
                                \A x \in s : it[s] = f[x] + it[s \ {x}]}
<1>1. \A s \in SUBSET D : s # {} => it[s] = f[One(s)] + it[s \ {One(s)}]
  <2>1. DOMAIN f = D
    OBVIOUS
  <2>. QED
    BY <2>1 DEF SumsOf
<1>2. ASSUME NEW s \in SUBSET D
      PROVE  /\ Cardinality(s) \in Nat /\ Cardinality(s) <= Cardinality(D)
             /\ Cardinality(s) = 0 <=> s = {}
             /\ \A x \in s : Cardinality(s \ {x}) = Cardinality(s) - 1
  <2>1. IsFiniteSet(s) /\ Cardinality(s) <= Cardinality(D)
    BY FS_Subset
  <2>. QED
    BY <2>1, FS_EmptySet, FS_CardinalityType, FS_RemoveElement
<1>3. 0 \in X
  BY <1>2
<1>4. ASSUME NEW n \in Nat \ {0}, n - 1 \in X PROVE n \in X
  <2> SUFFICES ASSUME NEW s \in SUBSET D, Cardinality(s) = n, NEW x \in s
               PROVE  it[s] = f[x] + it[s \ {x}]
    OBVIOUS
  <2>1. PICK y \in s : y = One(s)
    BY DEF One
  <2>2. it[s] = f[y] + it[s \ {y}]
    BY <1>1, <2>1
  <2>3. CASE y = x
    BY <2>2, <2>3
  <2>4. CASE y # x
    <3>1. PICK r \in SUBSET D : r = (s \ {y}) \ {x} /\ r = (s \ {x}) \ {y}
      OBVIOUS
    <3>2. it[s \ {y}] = f[x] + it[r]
      <4>1. s \ {y} \in SUBSET D /\ Cardinality(s \ {y}) = n - 1 /\ x \in s \ {y}
        BY <1>2, <2>4
      <4>. QED
        BY <1>4, <3>1, <4>1
    <3>3. it[s \ {x}] = f[y] + it[r]
      <4>1. s \ {x} \in SUBSET D /\ Cardinality(s \ {x}) = n - 1 /\ y \in s \ {x}
        BY <1>2, <2>4
      <4>. QED
        BY <1>4, <3>1, <4>1
    <3>4. f[x] \in Nat /\ f[y] \in Nat /\ it[r] \in Nat
      OBVIOUS
    <3>. QED
      BY <2>2, <3>2, <3>3, <3>4
  <2>. QED
    BY <2>3, <2>4
<1>5. Cardinality(D) \in Nat
  BY FS_CardinalityType
<1>6. \A i \in 1 .. Cardinality(D) : i - 1 \in X => i \in X
  <2> HIDE DEF X
  <2>. QED
    BY <1>4, <1>5
<1>7. \A i \in 0 .. Cardinality(D) : i \in X
  <2> HIDE DEF X
  <2>. QED
    BY <1>3, <1>5, <1>6, Rounds
<1>8. \A s \in SUBSET D : Cardinality(s) \in X
  <2> HIDE DEF X
  <2>1. ASSUME NEW s \in SUBSET D PROVE Cardinality(s) \in 0 .. Cardinality(D)
    BY <1>2, <1>5
  <2>. QED
    BY <1>7, <2>1
<1>. QED
  BY <1>8

\* h is the account f of the set D without the entry of k.
Without(h, f, D, k) == h \in [D \ {k} -> Nat] /\ \A j \in D \ {k} : h[j] = f[j]

\* The sum of an account and of the account without one entry.
LEMMA TotalWithout ==
    ASSUME NEW D, IsFiniteSet(D), NEW f \in [D -> Nat], NEW k \in D,
           NEW h, Without(h, f, D, k)
    PROVE  Total(f) \in Nat /\ Total(h) \in Nat /\ Total(f) = f[k] + Total(h)
<1>0. h \in [D \ {k} -> Nat] /\ \A j \in D \ {k} : h[j] = f[j]
  BY DEF Without
<1> USE <1>0
<1> DEFINE R == D \ {k}
<1>1. IsFiniteSet(R) /\ h \in [R -> Nat]
  BY FS_RemoveElement
<1>2. PICK a \in [SUBSET D -> Nat] : SumsOf(a, f) /\ Total(f) = a[D]
  BY SumTable
<1>3. PICK b \in [SUBSET R -> Nat] : SumsOf(b, h) /\ Total(h) = b[R]
  <2> HIDE DEF R
  <2>. QED
    BY <1>1, SumTable
<1>4. a[D] = f[k] + a[R]
  <2>1. Sums(a, f, D)
    BY <1>2 DEF Sums
  <2>2. ASSUME NEW s \in SUBSET D, NEW x \in s
        PROVE  a[s] = f[x] + a[s \ {x}]
    BY <2>1, AnyFirst
  <2>. QED
    BY <2>2
<1>5. a[R] = b[R]
  <2>1. R \subseteq D /\ \A x \in R : f[x] = h[x]
    OBVIOUS
  <2> HIDE DEF R
  <2>2. \A s \in SUBSET R : a[s] = b[s]
    BY <1>1, <1>2, <1>3, <2>1, SumsAgree
  <2>. QED
    BY <2>2
<1>. QED
  BY <1>2, <1>3, <1>4, <1>5

\* A total is a number.
LEMMA TotalIsNat ==
    ASSUME NEW D, IsFiniteSet(D), NEW f \in [D -> Nat]
    PROVE  Total(f) \in Nat
<1>1. PICK it \in [SUBSET D -> Nat] : SumsOf(it, f) /\ Total(f) = it[D]
  BY SumTable
<1>. QED
  BY <1>1

\* An account without entries.
LEMMA TotalOfNone == ASSUME NEW f \in [{} -> Nat] PROVE Total(f) = 0
<1>1. PICK a \in [SUBSET {} -> Nat] : SumsOf(a, f) /\ Total(f) = a[{}]
  BY SumTable, FS_EmptySet
<1>2. DOMAIN f = {} /\ {} \in SUBSET {}
  OBVIOUS
<1>3. a[{}] = 0
  BY <1>1, <1>2 DEF SumsOf
<1>. QED
  BY <1>1, <1>3

-------------------------------------------------------------------------------
(* One line: its type, and the places in it.                              *)

Held == UNION {[A -> Nat] : A \in SUBSET Key}
LineType ==
    [active : Key \union {Nobody}, waiting : Seq(Key), held : Held, reserved : Nat,
     unready : SUBSET Key, over : SUBSET Parent, ranges : [Generation -> Seq(Pair)]]

Elements(q, m) == {q[j] : j \in m .. Len(q)}
Distinct(q) == \A i, j \in 1 .. Len(q) : q[i] = q[j] => i = j

\* The active batch and the waiting ones are in the line once each, they are the
\* batches of the scope, and those that wait are those that are not ready.
Placed(l) ==
    /\ l.active = Nobody => l.waiting = <<>>
    /\ Distinct(Queue(l))
    /\ DOMAIN l.held = Elements(Queue(l), 1)
    /\ l.unready = Elements(Queue(l), 2)

\* The keys are numbers, and nobody is not one of them.
LEMMA KeyNat ==
    /\ Key \subseteq Nat /\ Parent \subseteq Key /\ Event \subseteq Key /\ Nobody \notin Key
    /\ \A k \in Key : k \in Event <=> k \notin Parent
  BY CountAssumption DEF Key, Parent, Event, Nobody

\* There are finitely many keys.
LEMMA KeyFinite == ASSUME NEW A \in SUBSET Key PROVE IsFiniteSet(A)
<1>1. IsFiniteSet(1 .. N + M) /\ Key \subseteq 1 .. N + M
  BY CountAssumption, FS_Interval DEF Key, Parent, Event
<1>. QED
  BY <1>1, FS_Subset

\* The entries of a line.
LEMMA LineFields ==
    ASSUME NEW l \in LineType
    PROVE  /\ l.active \in Key \union {Nobody} /\ l.waiting \in Seq(Key) /\ l.held \in Held
           /\ DOMAIN l.held \in SUBSET Key /\ l.held \in [DOMAIN l.held -> Nat]
           /\ l.reserved \in Nat /\ l.unready \in SUBSET Key /\ l.over \in SUBSET Parent
           /\ l.ranges \in [Generation -> Seq(Pair)]
           /\ l = [active |-> l.active, waiting |-> l.waiting, held |-> l.held,
                   reserved |-> l.reserved, unready |-> l.unready, over |-> l.over,
                   ranges |-> l.ranges]
<1>1. /\ l.active \in Key \union {Nobody} /\ l.waiting \in Seq(Key) /\ l.held \in Held
      /\ l.reserved \in Nat /\ l.unready \in SUBSET Key /\ l.over \in SUBSET Parent
      /\ l.ranges \in [Generation -> Seq(Pair)]
      /\ l = [active |-> l.active, waiting |-> l.waiting, held |-> l.held,
              reserved |-> l.reserved, unready |-> l.unready, over |-> l.over,
              ranges |-> l.ranges]
  BY DEF LineType
<1>2. PICK A \in SUBSET Key : l.held \in [A -> Nat]
  BY <1>1 DEF Held
<1>3. DOMAIN l.held = A
  BY <1>2
<1>. QED
  BY <1>1, <1>2, <1>3

\* An account of some keys is one that a line may have.
LEMMA HeldMade == ASSUME NEW A \in SUBSET Key, NEW h \in [A -> Nat] PROVE h \in Held
  BY DEF Held

\* The places of a line, the active one first.
LEMMA QueuePlaces ==
    ASSUME NEW l \in LineType
    PROVE  /\ Queue(l) \in Seq(Key) /\ Len(Queue(l)) \in Nat /\ Len(l.waiting) \in Nat
           /\ l.active = Nobody => Queue(l) = <<>> /\ Len(Queue(l)) = 0
           /\ l.active # Nobody =>
                 /\ Len(Queue(l)) = Len(l.waiting) + 1
                 /\ Queue(l)[1] = l.active
                 /\ \A i \in 1 .. Len(l.waiting) : Queue(l)[i + 1] = l.waiting[i]
<1>1. l.active \in Key \union {Nobody} /\ l.waiting \in Seq(Key) /\ Len(l.waiting) \in Nat
  BY LineFields, LenProperties
<1>2. CASE l.active = Nobody
  <2>1. Queue(l) = <<>>
    BY <1>2 DEF Queue
  <2>. QED
    BY <1>1, <1>2, <2>1, EmptySeq
<1>3. CASE l.active # Nobody
  <2> DEFINE u == <<l.active>> \o l.waiting
  <2>1. Queue(l) = u
    BY <1>3 DEF Queue
  <2>2. <<l.active>> \in Seq(Key) /\ Len(<<l.active>>) = 1 /\ <<l.active>>[1] = l.active
    BY <1>1, <1>3
  <2>3. /\ u \in Seq(Key) /\ Len(u) = 1 + Len(l.waiting)
        /\ \A i \in 1 .. 1 + Len(l.waiting) :
              u[i] = IF i <= 1 THEN <<l.active>>[i] ELSE l.waiting[i - 1]
    BY <1>1, <2>2, ConcatProperties
  <2> HIDE DEF u
  <2>4. u[1] = l.active
    BY <1>1, <2>2, <2>3
  <2>5. ASSUME NEW i \in 1 .. Len(l.waiting) PROVE u[i + 1] = l.waiting[i]
    <3>1. i + 1 \in 1 .. 1 + Len(l.waiting) /\ ~(i + 1 <= 1) /\ (i + 1) - 1 = i
      BY <1>1
    <3>. QED
      BY <2>3, <3>1
  <2>. QED
    BY <1>1, <1>3, <2>1, <2>3, <2>4, <2>5
<1>. QED
  BY <1>2, <1>3

\* The library removes an element in the same way for both modules.
LEMMA SameRemoves ==
    /\ \A q, e : RemoveFirst(q, e) = OLP!RemoveFirst(q, e)
    /\ \A q, i : RemoveAt(q, i) = OLP!RemoveAt(q, i) /\ RemoveAt(q, i) = Line!RemoveAt(q, i)
  BY DEF RemoveFirst, OLP!RemoveFirst, RemoveAt, OLP!RemoveAt, Line!RemoveAt,
         SelectInSeq, OLP!SelectInSeq, Min, OLP!Min

\* Taking one place out keeps the others in order.
LEMMA WithoutPlace ==
    ASSUME NEW q \in Seq(Key), NEW i \in 1 .. Len(q)
    PROVE  /\ RemoveAt(q, i) \in Seq(Key)
           /\ Len(RemoveAt(q, i)) = Len(q) - 1
           /\ \A j \in 1 .. Len(q) - 1 :
                 RemoveAt(q, i)[j] = IF j < i THEN q[j] ELSE q[j + 1]
<1>1. PICK p : p = OLP!RemoveAt(q, i)
  OBVIOUS
<1>2. RemoveAt(q, i) = p
  BY <1>1, SameRemoves
<1>3. /\ p \in Seq(Key) /\ Len(p) = Len(q) - 1
      /\ \A j \in 1 .. Len(q) - 1 : p[j] = IF j < i THEN q[j] ELSE q[j + 1]
  BY <1>1, OLP!RemoveAtElements
<1>. QED
  BY <1>2, <1>3

\* waiting.remove(key), of a key that is there once, and of one that is not.
LEMMA RemovedOnce ==
    ASSUME NEW q \in Seq(Key), NEW k
    PROVE  /\ (\A i \in 1 .. Len(q) : q[i] # k) => RemoveFirst(q, k) = q
           /\ \A i \in 1 .. Len(q) :
                 q[i] = k /\ (\A j \in 1 .. Len(q) : q[j] = k => j = i)
                    => RemoveFirst(q, k) = RemoveAt(q, i)
<1>1. (\A i \in 1 .. Len(q) : q[i] # k) => RemoveFirst(q, k) = q
  BY DEF RemoveFirst
<1>2. ASSUME NEW i \in 1 .. Len(q), q[i] = k, \A j \in 1 .. Len(q) : q[j] = k => j = i
      PROVE  RemoveFirst(q, k) = RemoveAt(q, i)
  <2>1. PICK j \in 1 .. Len(q) : OLP!RemoveFirst(q, k) = OLP!RemoveAt(q, j) /\ q[j] = k
    BY <1>2, OLP!RemovedPlace
  <2>2. j = i
    BY <1>2, <2>1
  <2>. QED
    BY <2>1, <2>2, SameRemoves
<1>. QED
  BY <1>1, <1>2

\* remember_terminal touches what is remembered alone.
LEMMA RememberEffect ==
    ASSUME generation \in [Parent -> Generation], NEW l \in LineType, NEW k \in Key
    PROVE  /\ Remember(l, k) \in LineType
           /\ Remember(l, k).active = l.active /\ Remember(l, k).waiting = l.waiting
           /\ Remember(l, k).held = l.held /\ Remember(l, k).reserved = l.reserved
           /\ Remember(l, k).unready = l.unready
           /\ k \in Event => Remember(l, k) = l
           /\ k \notin Event =>
                 /\ k \in Parent
                 /\ Remember(l, k).over = l.over \union {k}
                 /\ Remember(l, k).ranges =
                       [l.ranges EXCEPT ![generation[k]] = WithOrder(@, k)]
<1>1. k \in Event => Remember(l, k) = l
  BY DEF Remember
<1>2. ASSUME k \notin Event
      PROVE  /\ k \in Parent /\ Remember(l, k) \in LineType
             /\ Remember(l, k).active = l.active /\ Remember(l, k).waiting = l.waiting
             /\ Remember(l, k).held = l.held /\ Remember(l, k).reserved = l.reserved
             /\ Remember(l, k).unready = l.unready
             /\ Remember(l, k).over = l.over \union {k}
             /\ Remember(l, k).ranges =
                   [l.ranges EXCEPT ![generation[k]] = WithOrder(@, k)]
  <2>1. k \in Parent /\ k \in Nat /\ generation[k] \in Generation
    BY <1>2, KeyNat
  <2> DEFINE o == l.over \union {k}
             g == [l.ranges EXCEPT ![generation[k]] = WithOrder(@, k)]
  <2>2. WithOrder(l.ranges[generation[k]], k) \in Seq(Pair)
    BY <2>1, LineFields, WithOrderExact
  <2>3. g \in [Generation -> Seq(Pair)] /\ o \in SUBSET Parent
    BY <2>1, <2>2, LineFields
  <2>4. Remember(l, k) = [l EXCEPT !.over = o, !.ranges = g]
    BY <1>2, LineFields DEF Remember
  <2> HIDE DEF o, g
  <2>5. Remember(l, k) =
          [active |-> l.active, waiting |-> l.waiting, held |-> l.held,
           reserved |-> l.reserved, unready |-> l.unready, over |-> o, ranges |-> g]
    BY <2>4, LineFields
  <2>6. Remember(l, k) \in LineType
    BY <2>3, <2>5, LineFields DEF LineType
  <2>7. /\ Remember(l, k).active = l.active /\ Remember(l, k).waiting = l.waiting
        /\ Remember(l, k).held = l.held /\ Remember(l, k).reserved = l.reserved
        /\ Remember(l, k).unready = l.unready
        /\ Remember(l, k).over = o /\ Remember(l, k).ranges = g
    BY <2>5
  <2>. QED
    BY <2>1, <2>6, <2>7 DEF o, g
<1>. QED
  BY <1>1, <1>2

\* The account without one batch, and what is left of the budget.
Freed(l, k) == IF l.reserved > l.held[k] THEN l.reserved - l.held[k] ELSE 0
Others(l, k) == [j \in DOMAIN l.held \ {k} |-> l.held[j]]

\* The batch leaves the accounts and the deque, and is remembered.
LEMMA LeaveEffect ==
    ASSUME generation \in [Parent -> Generation], NEW l \in LineType, Placed(l),
           NEW k \in DOMAIN l.held, NEW left, left = Remember(Leave(l, k), k)
    PROVE  /\ left \in LineType
           /\ left.active = l.active /\ left.waiting = RemoveFirst(l.waiting, k)
           /\ left.held = Others(l, k) /\ left.reserved = Freed(l, k)
           /\ left.unready = l.unready \ {k}
           /\ left.over = Remember(l, k).over /\ left.ranges = Remember(l, k).ranges
<1>1. k \in Key
  BY LineFields
<1> DEFINE m == [active |-> l.active, waiting |-> RemoveFirst(l.waiting, k),
                 held |-> Others(l, k), reserved |-> Freed(l, k),
                 unready |-> l.unready \ {k}, over |-> l.over, ranges |-> l.ranges]
<1>2. Leave(l, k) = m
  <2> DEFINE w == RemoveFirst(l.waiting, k)
             u == l.unready \ {k}
             h == Others(l, k)
             b == Freed(l, k)
  <2>1. PICK r : r = Leave(l, k)
    OBVIOUS
  <2>2. r = [l EXCEPT !.held = h, !.reserved = b, !.unready = u, !.waiting = w]
    BY <2>1 DEF Leave, Others, Freed
  <2> HIDE DEF u, w, h, b
  <2>3. r = [active |-> l.active, waiting |-> w, held |-> h, reserved |-> b,
             unready |-> u, over |-> l.over, ranges |-> l.ranges]
    BY <2>2 DEF LineType
  <2>. QED
    BY <2>1, <2>3 DEF u, w, h, b
<1>3. m \in LineType
  <2>1. RemoveFirst(l.waiting, k) \in Seq(Key)
    BY LineFields, SameRemoves, OLP!RemoveFirstElements
  <2>2. Freed(l, k) \in Nat
    BY LineFields DEF Freed
  <2>3. Others(l, k) \in Held
    <3>1. DOMAIN l.held \ {k} \in SUBSET Key
      BY LineFields
    <3>2. Others(l, k) \in [DOMAIN l.held \ {k} -> Nat]
      BY LineFields DEF Others
    <3>. QED
      BY <3>1, <3>2, HeldMade
  <2>4. l.unready \ {k} \in SUBSET Key
    BY LineFields
  <2>. QED
    BY <2>1, <2>2, <2>3, <2>4, LineFields DEF LineType
<1>4. m.active = l.active /\ m.waiting = RemoveFirst(l.waiting, k) /\ m.held = Others(l, k)
      /\ m.reserved = Freed(l, k) /\ m.unready = l.unready \ {k}
      /\ m.over = l.over /\ m.ranges = l.ranges
  OBVIOUS
<1> HIDE DEF m
<1>5. left = Remember(m, k)
  BY <1>2
<1>6. /\ left \in LineType /\ left.active = m.active /\ left.waiting = m.waiting
      /\ left.held = m.held /\ left.reserved = m.reserved /\ left.unready = m.unready
  <2>1. /\ Remember(m, k) \in LineType
        /\ Remember(m, k).active = m.active /\ Remember(m, k).waiting = m.waiting
        /\ Remember(m, k).held = m.held /\ Remember(m, k).reserved = m.reserved
        /\ Remember(m, k).unready = m.unready
    BY <1>1, <1>3, RememberEffect
  <2>. QED
    BY <1>5, <2>1
<1>7. CASE k \in Event
  <2>1. left = m /\ Remember(l, k) = l
    BY <1>1, <1>3, <1>5, <1>7, RememberEffect
  <2>. QED
    BY <1>4, <1>6, <2>1
<1>8. CASE k \notin Event
  <2>1. /\ left.over = m.over \union {k} /\ Remember(l, k).over = l.over \union {k}
        /\ left.ranges = [m.ranges EXCEPT ![generation[k]] = WithOrder(@, k)]
        /\ Remember(l, k).ranges = [l.ranges EXCEPT ![generation[k]] = WithOrder(@, k)]
    BY <1>1, <1>3, <1>5, <1>8, RememberEffect
  <2>. QED
    BY <1>4, <1>6, <2>1
<1>. QED
  BY <1>7, <1>8

\* The batches of a line, and those that wait, when one of them has left.
LEMMA PlacesWithout ==
    ASSUME NEW q \in Seq(Key), Distinct(q), NEW i \in 1 .. Len(q), NEW p, p = RemoveAt(q, i)
    PROVE  /\ Distinct(p)
           /\ Elements(p, 1) = Elements(q, 1) \ {q[i]}
           /\ i = 1 => Elements(p, 2) = Elements(q, 2) \ {q[2]}
           /\ i # 1 => Elements(p, 2) = Elements(q, 2) \ {q[i]}
<1>1. /\ Len(q) \in Nat /\ Len(p) = Len(q) - 1
      /\ \A j \in 1 .. Len(p) : p[j] = IF j < i THEN q[j] ELSE q[j + 1]
  BY LenProperties, WithoutPlace
<1>2. ASSUME NEW j \in 1 .. Len(p)
      PROVE  \E m \in 1 .. Len(q) : /\ m # i /\ p[j] = q[m]
                                    /\ m = IF j < i THEN j ELSE j + 1
  <2>1. CASE j < i
    BY <1>1, <2>1
  <2>2. CASE ~(j < i)
    <3>1. j + 1 \in 1 .. Len(q) /\ j + 1 # i /\ p[j] = q[j + 1]
      BY <1>1, <2>2
    <3>. QED
      BY <2>2, <3>1
  <2>. QED
    BY <2>1, <2>2
<1>3. ASSUME NEW m \in 1 .. Len(q), m # i
      PROVE  \E j \in 1 .. Len(p) : p[j] = q[m] /\ j = IF m < i THEN m ELSE m - 1
  <2>1. CASE m < i
    BY <1>1, <2>1
  <2>2. CASE ~(m < i)
    <3>1. m - 1 \in 1 .. Len(p) /\ ~(m - 1 < i) /\ (m - 1) + 1 = m
      BY <1>1, <1>3, <2>2
    <3>2. p[m - 1] = q[m]
      BY <1>1, <3>1
    <3>. QED
      BY <2>2, <3>1, <3>2
  <2>. QED
    BY <2>1, <2>2
<1>4. Distinct(p)
  <2> SUFFICES ASSUME NEW a \in 1 .. Len(p), NEW b \in 1 .. Len(p), p[a] = p[b]
               PROVE  a = b
    BY DEF Distinct
  <2>1. PICK m \in 1 .. Len(q) : p[a] = q[m] /\ m = IF a < i THEN a ELSE a + 1
    BY <1>2
  <2>2. PICK n \in 1 .. Len(q) : p[b] = q[n] /\ n = IF b < i THEN b ELSE b + 1
    BY <1>2
  <2>3. m = n
    BY <2>1, <2>2 DEF Distinct
  <2>. QED
    BY <2>1, <2>2, <2>3
<1>5. Elements(p, 1) = Elements(q, 1) \ {q[i]}
  <2>1. ASSUME NEW x \in Elements(p, 1) PROVE x \in Elements(q, 1) \ {q[i]}
    <3>1. PICK j \in 1 .. Len(p) : x = p[j]
      BY DEF Elements
    <3>2. PICK m \in 1 .. Len(q) : m # i /\ p[j] = q[m]
      BY <1>2
    <3>. QED
      BY <3>1, <3>2 DEF Elements, Distinct
  <2>2. ASSUME NEW x \in Elements(q, 1) \ {q[i]} PROVE x \in Elements(p, 1)
    <3>1. PICK m \in 1 .. Len(q) : x = q[m] /\ m # i
      BY DEF Elements
    <3>2. PICK j \in 1 .. Len(p) : p[j] = q[m]
      BY <1>3, <3>1
    <3>. QED
      BY <3>1, <3>2 DEF Elements
  <2>. QED
    BY <2>1, <2>2
<1>6. ASSUME i # 1 PROVE Elements(p, 2) = Elements(q, 2) \ {q[i]}
  <2>1. ASSUME NEW x \in Elements(p, 2) PROVE x \in Elements(q, 2) \ {q[i]}
    <3>1. PICK j \in 2 .. Len(p) : x = p[j]
      BY DEF Elements
    <3>2. PICK m \in 1 .. Len(q) : m # i /\ p[j] = q[m] /\ m = IF j < i THEN j ELSE j + 1
      BY <1>1, <1>2
    <3>3. m \in 2 .. Len(q)
      BY <1>1, <3>1, <3>2
    <3>. QED
      BY <3>1, <3>2, <3>3 DEF Elements, Distinct
  <2>2. ASSUME NEW x \in Elements(q, 2) \ {q[i]} PROVE x \in Elements(p, 2)
    <3>1. PICK m \in 2 .. Len(q) : x = q[m] /\ m # i
      BY DEF Elements
    <3>2. PICK j \in 1 .. Len(p) : p[j] = q[m] /\ j = IF m < i THEN m ELSE m - 1
      BY <1>1, <1>3, <3>1
    <3>3. j \in 2 .. Len(p)
      BY <1>1, <1>6, <3>1, <3>2
    <3>. QED
      BY <3>1, <3>2, <3>3 DEF Elements
  <2>. QED
    BY <2>1, <2>2
<1>7. ASSUME i = 1 PROVE Elements(p, 2) = Elements(q, 2) \ {q[2]}
  <2>1. ASSUME NEW x \in Elements(p, 2) PROVE x \in Elements(q, 2) \ {q[2]}
    <3>1. PICK j \in 2 .. Len(p) : x = p[j]
      BY DEF Elements
    <3>2. p[j] = q[j + 1] /\ j + 1 \in 2 .. Len(q) /\ j + 1 # 2 /\ 2 \in 1 .. Len(q)
      BY <1>1, <1>7, <3>1
    <3>3. j + 1 \in 1 .. Len(q)
      BY <3>2
    <3>. QED
      BY <3>1, <3>2, <3>3 DEF Elements, Distinct
  <2>2. ASSUME NEW x \in Elements(q, 2) \ {q[2]} PROVE x \in Elements(p, 2)
    <3>1. PICK m \in 2 .. Len(q) : x = q[m] /\ m # 2
      BY DEF Elements
    <3>2. PICK j \in 1 .. Len(p) : p[j] = q[m] /\ j = IF m < i THEN m ELSE m - 1
      BY <1>1, <1>3, <1>7, <3>1
    <3>3. j \in 2 .. Len(p)
      BY <1>1, <1>7, <3>1, <3>2
    <3>. QED
      BY <3>1, <3>2, <3>3 DEF Elements
  <2>. QED
    BY <2>1, <2>2
<1>. QED
  BY <1>4, <1>5, <1>6, <1>7

\* The first batch that waits, if any, becomes the active one.
LEMMA PromoteEffect ==
    ASSUME NEW l \in LineType, NEW r, r = Promote(l)
    PROVE  /\ r \in LineType /\ r.held = l.held /\ r.reserved = l.reserved
           /\ r.over = l.over /\ r.ranges = l.ranges
           /\ l.waiting = <<>> =>
                 r.active = Nobody /\ r.waiting = <<>> /\ r.unready = l.unready
           /\ l.waiting # <<>> =>
                 /\ r.active = l.waiting[1] /\ r.waiting = Tail(l.waiting)
                 /\ r.unready = l.unready \ {l.waiting[1]}
                 /\ l.waiting[1] \in Key
<1>1. CASE l.waiting = <<>>
  <2>1. r = [l EXCEPT !.active = Nobody]
    BY <1>1 DEF Promote
  <2>2. r = [active |-> Nobody, waiting |-> l.waiting, held |-> l.held,
             reserved |-> l.reserved, unready |-> l.unready, over |-> l.over,
             ranges |-> l.ranges]
    BY <2>1 DEF LineType
  <2>3. r \in LineType
    BY <2>2, LineFields DEF LineType
  <2>. QED
    BY <1>1, <2>2, <2>3
<1>2. CASE l.waiting # <<>>
  <2> DEFINE h == Head(l.waiting)
             w == Tail(l.waiting)
             u == l.unready \ {Head(l.waiting)}
  <2>1. r = [l EXCEPT !.active = h, !.waiting = w, !.unready = u]
    BY <1>2 DEF Promote
  <2>2. l.waiting \in Seq(Key)
    BY LineFields
  <2>3. h = l.waiting[1] /\ h \in Key /\ w \in Seq(Key) /\ u = l.unready \ {h}
    BY <1>2, <2>2
  <2>4. u \in SUBSET Key
    BY LineFields
  <2> HIDE DEF h, w, u
  <2>5. r = [active |-> h, waiting |-> w, held |-> l.held,
             reserved |-> l.reserved, unready |-> u, over |-> l.over,
             ranges |-> l.ranges]
    BY <2>1 DEF LineType
  <2>6. r \in LineType
    BY <2>3, <2>4, <2>5, LineFields DEF LineType
  <2>7. r.active = h /\ r.waiting = w /\ r.unready = u /\ r.held = l.held
        /\ r.reserved = l.reserved /\ r.over = l.over /\ r.ranges = l.ranges
    BY <2>5
  <2>. QED
    BY <1>2, <2>3, <2>6, <2>7 DEF w
<1>. QED
  BY <1>1, <1>2

\* release: the batch gives up its place, and the line moves up behind it.
LEMMA ReleaseEffect ==
    ASSUME generation \in [Parent -> Generation], NEW l \in LineType, Placed(l),
           NEW k \in DOMAIN l.held, NEW r, r = Release(l, k)
    PROVE  /\ r \in LineType /\ Placed(r)
           /\ r.held = Others(l, k) /\ r.reserved = Freed(l, k)
           /\ r.over = Remember(l, k).over /\ r.ranges = Remember(l, k).ranges
           /\ \E i \in 1 .. Len(Queue(l)) :
                 Queue(l)[i] = k /\ Queue(r) = RemoveAt(Queue(l), i)
<1>1. PICK left : left = Remember(Leave(l, k), k)
  OBVIOUS
<1>2. /\ left \in LineType
      /\ left.active = l.active /\ left.waiting = RemoveFirst(l.waiting, k)
      /\ left.held = Others(l, k) /\ left.reserved = Freed(l, k)
      /\ left.unready = l.unready \ {k}
      /\ left.over = Remember(l, k).over /\ left.ranges = Remember(l, k).ranges
  BY <1>1, LeaveEffect
<1>3. r = IF l.active = k THEN Promote(left) ELSE left
  BY <1>1 DEF Release
<1>4. /\ l.active = Nobody => l.waiting = <<>>
      /\ Distinct(Queue(l))
      /\ DOMAIN l.held = Elements(Queue(l), 1)
      /\ l.unready = Elements(Queue(l), 2)
  BY DEF Placed
<1>5. PICK q : q = Queue(l)
  OBVIOUS
<1>6. PICK w : w = l.waiting
  OBVIOUS
<1>7. /\ q \in Seq(Key) /\ Len(q) \in Nat /\ w \in Seq(Key) /\ Len(w) \in Nat
      /\ l.active = Nobody => Len(q) = 0
      /\ l.active # Nobody =>
            /\ Len(q) = Len(w) + 1 /\ q[1] = l.active
            /\ \A i \in 1 .. Len(w) : q[i + 1] = w[i]
  BY <1>5, <1>6, QueuePlaces, LineFields
<1>8. PICK i \in 1 .. Len(q) : q[i] = k
  BY <1>4, <1>5 DEF Elements
<1>9. l.active # Nobody /\ Len(q) = Len(w) + 1 /\ q[1] = l.active
      /\ \A j \in 1 .. Len(w) : q[j + 1] = w[j]
  BY <1>7, <1>8
<1>10. PICK p : p = RemoveAt(q, i)
  OBVIOUS
<1>11. /\ p \in Seq(Key) /\ Len(p) = Len(w)
       /\ \A j \in 1 .. Len(p) : p[j] = IF j < i THEN q[j] ELSE q[j + 1]
  <2>1. /\ p \in Seq(Key) /\ Len(p) = Len(q) - 1
        /\ \A j \in 1 .. Len(q) - 1 : p[j] = IF j < i THEN q[j] ELSE q[j + 1]
    BY <1>7, <1>10, WithoutPlace
  <2>2. Len(p) = Len(w)
    BY <1>7, <1>9, <2>1
  <2>. QED
    BY <2>1, <2>2
<1>12. /\ Distinct(p) /\ Elements(p, 1) = DOMAIN l.held \ {k}
       /\ i = 1 => Elements(p, 2) = l.unready \ {q[2]}
       /\ i # 1 => Elements(p, 2) = l.unready \ {k}
  BY <1>4, <1>5, <1>7, <1>8, <1>10, PlacesWithout
<1>13. \A j \in 1 .. Len(w) : j + 1 \in 1 .. Len(q)
  BY <1>7, <1>9
<1>14. CASE i = 1
  <2>1. l.active = k
    BY <1>8, <1>9, <1>14
  <2>2. \A j \in 1 .. Len(w) : w[j] # k
    <3> SUFFICES ASSUME NEW j \in 1 .. Len(w), w[j] = k PROVE FALSE
      OBVIOUS
    <3>1. q[j + 1] = q[i] /\ j + 1 \in 1 .. Len(q)
      BY <1>8, <1>9, <1>13
    <3>2. j + 1 = i
      BY <1>4, <1>5, <3>1 DEF Distinct
    <3>. QED
      BY <1>7, <1>14, <3>2
  <2>3. left.waiting = w
    BY <1>2, <1>6, <1>7, <2>2, RemovedOnce
  <2>4. k \notin l.unready
    <3> SUFFICES ASSUME k \in l.unready PROVE FALSE
      OBVIOUS
    <3>1. PICK j \in 2 .. Len(q) : q[j] = k
      BY <1>4, <1>5 DEF Elements
    <3>2. j \in 1 .. Len(q) /\ j # 1
      BY <3>1
    <3>. QED
      BY <1>4, <1>5, <1>8, <1>14, <3>1, <3>2 DEF Distinct
  <2>5. left.unready = l.unready
    BY <1>2, <2>4
  <2>6. \A j \in 1 .. Len(p) : p[j] = w[j]
    <3> SUFFICES ASSUME NEW j \in 1 .. Len(p) PROVE p[j] = w[j]
      OBVIOUS
    <3>1. ~(j < i) /\ j \in 1 .. Len(w)
      BY <1>11, <1>14
    <3>. QED
      BY <1>9, <1>11, <3>1
  <2>7. p = w
    BY <1>7, <1>11, <2>6, SeqEqual
  <2>8. r = Promote(left)
    BY <1>3, <2>1
  <2>9. /\ r \in LineType /\ r.held = left.held /\ r.reserved = left.reserved
        /\ r.over = left.over /\ r.ranges = left.ranges
        /\ w = <<>> => r.active = Nobody /\ r.waiting = <<>> /\ r.unready = l.unready
        /\ w # <<>> => /\ r.active = w[1] /\ r.waiting = Tail(w)
                       /\ r.unready = l.unready \ {w[1]} /\ w[1] \in Key
    <3>1. /\ r \in LineType /\ r.held = left.held /\ r.reserved = left.reserved
          /\ r.over = left.over /\ r.ranges = left.ranges
          /\ left.waiting = <<>> =>
                r.active = Nobody /\ r.waiting = <<>> /\ r.unready = left.unready
          /\ left.waiting # <<>> =>
                /\ r.active = left.waiting[1] /\ r.waiting = Tail(left.waiting)
                /\ r.unready = left.unready \ {left.waiting[1]} /\ left.waiting[1] \in Key
      BY <1>2, <2>8, PromoteEffect
    <3>. QED
      BY <2>3, <2>5, <3>1
  <2>10. Queue(r) = p /\ r.unready = Elements(p, 2) /\ (r.active = Nobody => r.waiting = <<>>)
    <3>1. CASE w = <<>>
      <4>1. Queue(r) = <<>>
        BY <2>9, <3>1 DEF Queue
      <4>2. Len(p) = 0 /\ Len(q) = 1
        BY <1>9, <1>11, <3>1
      <4>3. Elements(q, 2) = {} /\ Elements(p, 2) = {}
        BY <4>2 DEF Elements
      <4>. QED
        BY <1>4, <1>5, <2>7, <2>9, <3>1, <4>1, <4>3
    <3>2. CASE w # <<>>
      <4>1. r.active # Nobody /\ 1 \in 1 .. Len(w)
        BY <1>7, <2>9, <3>2, KeyNat
      <4>2. Queue(r) = <<w[1]>> \o Tail(w)
        BY <2>9, <3>2, <4>1 DEF Queue
      <4>3. <<w[1]>> \o Tail(w) = w
        <5>1. /\ w \in Seq(Key) /\ <<w[1]>> \in Seq(Key) /\ Len(<<w[1]>>) = 1
              /\ <<w[1]>>[1] = w[1]
          BY <1>7, <2>9, <3>2
        <5>2. /\ Tail(w) \in Seq(Key) /\ Len(Tail(w)) = Len(w) - 1
              /\ \A j \in 1 .. Len(Tail(w)) : Tail(w)[j] = w[j + 1]
          BY <3>2, <5>1, HeadTailProperties
        <5> DEFINE v == <<w[1]>> \o Tail(w)
        <5>3. /\ v \in Seq(Key) /\ Len(v) = Len(w)
              /\ \A j \in 1 .. Len(w) :
                    v[j] = IF j <= 1 THEN <<w[1]>>[j] ELSE Tail(w)[j - 1]
          <6>1. /\ v \in Seq(Key) /\ Len(v) = 1 + (Len(w) - 1)
                /\ \A j \in 1 .. 1 + (Len(w) - 1) :
                      v[j] = IF j <= 1 THEN <<w[1]>>[j] ELSE Tail(w)[j - 1]
            BY <5>1, <5>2, ConcatProperties
          <6>. QED
            BY <1>7, <6>1
        <5> HIDE DEF v
        <5>4. ASSUME NEW j \in 1 .. Len(w) PROVE v[j] = w[j]
          <6>1. CASE j = 1
            BY <5>1, <5>3, <6>1
          <6>2. CASE j # 1
            <7>1. ~(j <= 1) /\ j - 1 \in 1 .. Len(Tail(w)) /\ (j - 1) + 1 = j
              BY <1>7, <5>2, <6>2
            <7>. QED
              BY <5>2, <5>3, <7>1
          <6>. QED
            BY <6>1, <6>2
        <5>5. v = w
          BY <1>7, <5>3, <5>4, SeqEqual
        <5>. QED
          BY <5>5 DEF v
      <4>4. q[2] = w[1]
        BY <1>9, <4>1
      <4>. QED
        BY <1>12, <1>14, <2>7, <2>9, <3>2, <4>1, <4>2, <4>3, <4>4
    <3>. QED
      BY <3>1, <3>2
  <2>11. DOMAIN r.held = Elements(p, 1)
    BY <1>2, <1>12, <2>9 DEF Others
  <2>12. Placed(r)
    BY <1>12, <2>10, <2>11 DEF Placed
  <2>. QED
    BY <1>2, <1>5, <1>8, <1>10, <2>9, <2>10, <2>12
<1>15. CASE i # 1
  <2>1. l.active # k
    <3> SUFFICES ASSUME l.active = k PROVE FALSE
      OBVIOUS
    <3>1. 1 \in 1 .. Len(q) /\ q[1] = q[i]
      BY <1>7, <1>8, <1>9
    <3>. QED
      BY <1>4, <1>5, <1>15, <3>1 DEF Distinct
  <2>2. r = left
    BY <1>3, <2>1
  <2>3. i - 1 \in 1 .. Len(w) /\ (i - 1) + 1 = i
    BY <1>7, <1>9, <1>15
  <2>4. w[i - 1] = k
    BY <1>8, <1>9, <2>3
  <2>5. \A j \in 1 .. Len(w) : w[j] = k => j = i - 1
    <3> SUFFICES ASSUME NEW j \in 1 .. Len(w), w[j] = k PROVE j = i - 1
      OBVIOUS
    <3>1. q[j + 1] = q[i] /\ j + 1 \in 1 .. Len(q)
      BY <1>8, <1>9, <1>13
    <3>2. j + 1 = i
      BY <1>4, <1>5, <3>1 DEF Distinct
    <3>. QED
      BY <1>7, <3>2
  <2>6. PICK v : v = RemoveAt(w, i - 1)
    OBVIOUS
  <2>7. left.waiting = v
    <3>1. RemoveFirst(w, k) = RemoveAt(w, i - 1)
      BY <1>7, <2>3, <2>4, <2>5, RemovedOnce
    <3>. QED
      BY <1>2, <1>6, <2>6, <3>1
  <2>8. /\ v \in Seq(Key) /\ Len(v) = Len(w) - 1
        /\ \A j \in 1 .. Len(w) - 1 : v[j] = IF j < i - 1 THEN w[j] ELSE w[j + 1]
    BY <1>7, <2>3, <2>6, WithoutPlace
  <2>9. PICK u : u = Queue(r)
    OBVIOUS
  <2>10. /\ u \in Seq(Key) /\ Len(u) = Len(v) + 1 /\ u[1] = l.active
         /\ \A j \in 1 .. Len(v) : u[j + 1] = v[j]
    BY <1>2, <1>9, <2>2, <2>7, <2>9, QueuePlaces
  <2>11. ASSUME NEW j \in 1 .. Len(u) PROVE u[j] = p[j]
    <3>1. Len(u) = Len(p) /\ Len(p) \in Nat
      BY <1>7, <1>11, <2>8, <2>10
    <3>2. CASE j = 1
      BY <1>9, <1>11, <1>15, <2>10, <3>1, <3>2
    <3>3. CASE j # 1 /\ j < i
      <4>1. j - 1 \in 1 .. Len(v) /\ (j - 1) + 1 = j /\ j - 1 < i - 1 /\ j - 1 \in 1 .. Len(w)
        BY <1>7, <2>3, <2>8, <2>10, <3>3
      <4>2. u[j] = v[j - 1]
        BY <2>10, <4>1
      <4>3. v[j - 1] = w[j - 1]
        BY <2>8, <4>1
      <4>4. w[j - 1] = q[j]
        BY <1>9, <4>1
      <4>. QED
        BY <1>11, <3>1, <3>3, <4>2, <4>3, <4>4
    <3>4. CASE ~(j < i)
      <4>1. j - 1 \in 1 .. Len(v) /\ (j - 1) + 1 = j /\ ~(j - 1 < i - 1) /\ j \in 1 .. Len(w)
        BY <1>7, <1>15, <2>3, <2>8, <2>10, <3>4
      <4>2. u[j] = v[j - 1]
        BY <2>10, <4>1
      <4>3. v[j - 1] = w[j]
        BY <2>8, <4>1
      <4>4. w[j] = q[j + 1]
        BY <1>9, <4>1
      <4>. QED
        BY <1>11, <3>1, <3>4, <4>2, <4>3, <4>4
    <3>. QED
      BY <3>2, <3>3, <3>4
  <2>12. u = p
    <3>1. Len(u) = Len(p)
      BY <1>7, <1>11, <2>8, <2>10
    <3>. QED
      BY <1>11, <2>10, <2>11, <3>1, SeqEqual
  <2>13. Placed(r)
    <3>1. DOMAIN r.held = Elements(p, 1)
      BY <1>2, <1>12, <2>2 DEF Others
    <3>2. r.unready = Elements(p, 2)
      BY <1>2, <1>12, <1>15, <2>2
    <3>3. r.active # Nobody
      BY <1>2, <1>9, <2>2
    <3>. QED
      BY <1>12, <2>9, <2>12, <3>1, <3>2, <3>3 DEF Placed
  <2>. QED
    BY <1>2, <1>5, <1>8, <1>10, <2>2, <2>9, <2>12, <2>13
<1>. QED
  BY <1>14, <1>15

-------------------------------------------------------------------------------
(* One line: what every operation of the admission keeps.                 *)

\* The parents of a line stand in their turn order.
InOrder(q) == \A i, j \in 1 .. Len(q) :
    i < j /\ q[i] \in Parent /\ q[j] \in Parent => q[i] < q[j]

\* The budget is what the batches hold, and keeps its limits.
Charged(l) ==
    /\ l.reserved = Total(l.held) /\ l.reserved <= ScopeBytes
    /\ \A k \in DOMAIN l.held : l.held[k] <= BatchBytes

\* The ranges of a generation cover the orders of it that are over.
Exact(l, g) ==
    /\ Apart(l.ranges[g])
    /\ \A x \in Nat : Covers(l.ranges[g], x) <=> x \in l.over /\ generation[x] = g

\* The lines the program can be in.
Sound == {l \in LineType :
    Placed(l) /\ Len(l.waiting) <= MaxUnsent /\ InOrder(Queue(l)) /\ Charged(l)}

\* What releasing batches does to a line.
Lessens(l, r) ==
    /\ DOMAIN r.held \subseteq DOMAIN l.held
    /\ r.reserved <= l.reserved
    /\ \A g \in Generation : Exact(l, g) => Exact(r, g)

\* Remembering a parent keeps the ranges of every generation exact.
LEMMA RememberExact ==
    ASSUME generation \in [Parent -> Generation], NEW l \in LineType, NEW k \in Key,
           NEW g \in Generation, Exact(l, g), NEW r,
           r.over = Remember(l, k).over, r.ranges = Remember(l, k).ranges
    PROVE  Exact(r, g)
<1>1. CASE k \in Event
  <2>1. Remember(l, k) = l
    BY <1>1, RememberEffect
  <2>. QED
    BY <2>1 DEF Exact
<1>2. CASE k \notin Event
  <2>1. /\ k \in Parent /\ k \in Nat
        /\ r.over = l.over \union {k}
        /\ r.ranges = [l.ranges EXCEPT ![generation[k]] = WithOrder(@, k)]
    BY <1>2, RememberEffect, KeyNat
  <2>2. l.ranges \in [Generation -> Seq(Pair)] /\ l.ranges[g] \in Seq(Pair)
    BY LineFields
  <2>3. CASE generation[k] = g
    <3>1. r.ranges[g] = WithOrder(l.ranges[g], k)
      BY <2>1, <2>2, <2>3
    <3>2. /\ Apart(l.ranges[g])
          /\ \A x \in Nat : Covers(l.ranges[g], x) <=> x \in l.over /\ generation[x] = g
      BY DEF Exact
    <3>3. /\ Apart(WithOrder(l.ranges[g], k))
          /\ \A x \in Nat : Covers(WithOrder(l.ranges[g], k), x)
                              <=> Covers(l.ranges[g], x) \/ x = k
      BY <2>1, <2>2, <3>2, WithOrderExact
    <3>4. /\ Apart(r.ranges[g])
          /\ \A x \in Nat : Covers(r.ranges[g], x) <=> Covers(l.ranges[g], x) \/ x = k
      BY <3>1, <3>3
    <3>. QED
      BY <2>1, <2>3, <3>2, <3>4 DEF Exact
  <2>4. CASE generation[k] # g
    <3>1. r.ranges[g] = l.ranges[g]
      BY <2>1, <2>2, <2>4
    <3>. QED
      BY <2>1, <2>4, <3>1 DEF Exact
  <2>. QED
    BY <2>3, <2>4
<1>. QED
  BY <1>1, <1>2

\* The parents of a line keep their order when one batch leaves.
LEMMA OrderWithout ==
    ASSUME NEW q \in Seq(Key), InOrder(q), NEW i \in 1 .. Len(q)
    PROVE  InOrder(RemoveAt(q, i))
<1>1. PICK p : p = RemoveAt(q, i)
  OBVIOUS
<1>2. /\ Len(q) \in Nat /\ Len(p) = Len(q) - 1
      /\ \A j \in 1 .. Len(p) : p[j] = IF j < i THEN q[j] ELSE q[j + 1]
  BY <1>1, LenProperties, WithoutPlace
<1>3. \A j \in 1 .. Len(p) : \E m \in 1 .. Len(q) :
          p[j] = q[m] /\ m = IF j < i THEN j ELSE j + 1
  BY <1>2
<1>4. ASSUME NEW a \in 1 .. Len(p), NEW b \in 1 .. Len(p), a < b,
             p[a] \in Parent, p[b] \in Parent
      PROVE  p[a] < p[b]
  <2>1. PICK m \in 1 .. Len(q) : p[a] = q[m] /\ m = IF a < i THEN a ELSE a + 1
    BY <1>3
  <2>2. PICK n \in 1 .. Len(q) : p[b] = q[n] /\ n = IF b < i THEN b ELSE b + 1
    BY <1>3
  <2>3. m < n
    BY <1>4, <2>1, <2>2
  <2>. QED
    BY <1>4, <2>1, <2>2, <2>3 DEF InOrder
<1>. QED
  BY <1>1, <1>4 DEF InOrder

\* release keeps a line sound, and the batch is gone.
LEMMA ReleaseSound ==
    ASSUME generation \in [Parent -> Generation], NEW l \in Sound,
           NEW k \in DOMAIN l.held, NEW r, r = Release(l, k)
    PROVE  /\ r \in Sound /\ Lessens(l, r)
           /\ DOMAIN r.held = DOMAIN l.held \ {k}
           /\ Len(r.waiting) < MaxUnsent
           /\ \E i \in 1 .. Len(Queue(l)) :
                 Queue(l)[i] = k /\ Queue(r) = RemoveAt(Queue(l), i)
<1>1. /\ l \in LineType /\ Placed(l) /\ Len(l.waiting) <= MaxUnsent
      /\ InOrder(Queue(l)) /\ Charged(l)
  BY DEF Sound
<1>2. /\ r \in LineType /\ Placed(r)
      /\ r.held = Others(l, k) /\ r.reserved = Freed(l, k)
      /\ r.over = Remember(l, k).over /\ r.ranges = Remember(l, k).ranges
      /\ \E i \in 1 .. Len(Queue(l)) :
            Queue(l)[i] = k /\ Queue(r) = RemoveAt(Queue(l), i)
  BY <1>1, ReleaseEffect
<1>3. PICK i \in 1 .. Len(Queue(l)) : Queue(l)[i] = k /\ Queue(r) = RemoveAt(Queue(l), i)
  BY <1>2
<1>4. /\ Queue(l) \in Seq(Key) /\ Len(Queue(l)) \in Nat /\ Len(l.waiting) \in Nat
      /\ l.active = Nobody => Len(Queue(l)) = 0
      /\ l.active # Nobody => Len(Queue(l)) = Len(l.waiting) + 1
  BY <1>1, QueuePlaces
<1>5. /\ Len(Queue(r)) \in Nat /\ Len(r.waiting) \in Nat
      /\ r.active = Nobody => Len(Queue(r)) = 0
      /\ r.active # Nobody => Len(Queue(r)) = Len(r.waiting) + 1
  BY <1>2, QueuePlaces
<1>6. Len(Queue(r)) = Len(Queue(l)) - 1 /\ InOrder(Queue(r))
  BY <1>1, <1>3, <1>4, WithoutPlace, OrderWithout
<1>7. Len(r.waiting) < MaxUnsent
  <2>1. CASE r.active = Nobody
    <3>1. r.waiting = <<>>
      BY <1>2, <2>1 DEF Placed
    <3>2. Len(r.waiting) = 0
      BY <3>1
    <3>. QED
      BY <3>2, LimitAssumption
  <2>2. CASE r.active # Nobody
    <3>1. l.active # Nobody
      BY <1>3, <1>4
    <3>2. Len(r.waiting) = Len(l.waiting) - 1
      BY <1>4, <1>5, <1>6, <2>2, <3>1
    <3>. QED
      BY <1>1, <1>4, <3>2, LimitAssumption
  <2>. QED
    BY <2>1, <2>2
<1>8. /\ DOMAIN l.held \in SUBSET Key /\ l.held \in [DOMAIN l.held -> Nat]
      /\ l.reserved \in Nat /\ IsFiniteSet(DOMAIN l.held)
  BY <1>1, LineFields, KeyFinite
<1>9. /\ Total(l.held) \in Nat /\ Total(Others(l, k)) \in Nat
      /\ Total(l.held) = l.held[k] + Total(Others(l, k))
  <2>1. PICK f : f = l.held
    OBVIOUS
  <2>2. PICK D : D = DOMAIN l.held
    OBVIOUS
  <2>3. IsFiniteSet(D) /\ f \in [D -> Nat] /\ k \in D
    BY <1>8, <2>1, <2>2
  <2>4. PICK o \in [D \ {k} -> Nat] : o = [j \in D \ {k} |-> f[j]]
    BY <2>3
  <2>5. Total(f) \in Nat /\ Total(o) \in Nat /\ Total(f) = f[k] + Total(o)
    <3>1. Without(o, f, D, k)
      BY <2>3, <2>4 DEF Without
    <3>. QED
      BY <2>3, <3>1, TotalWithout
  <2>. QED
    BY <2>1, <2>2, <2>4, <2>5 DEF Others
<1>10. /\ DOMAIN r.held = DOMAIN l.held \ {k}
       /\ \A j \in DOMAIN r.held : r.held[j] = l.held[j]
  BY <1>2 DEF Others
<1>11. l.held[k] \in Nat
  BY <1>8
<1>12. r.reserved = Total(r.held) /\ r.reserved <= l.reserved
  <2>1. r.reserved = IF l.reserved > l.held[k] THEN l.reserved - l.held[k] ELSE 0
    BY <1>2 DEF Freed
  <2>2. l.reserved = l.held[k] + Total(r.held) /\ Total(r.held) \in Nat
    BY <1>1, <1>2, <1>9 DEF Charged
  <2>. QED
    BY <1>8, <1>11, <2>1, <2>2
<1>13. Charged(r)
  <2>1. r.reserved \in Nat
    BY <1>2, LineFields
  <2>2. l.reserved <= ScopeBytes /\ \A j \in DOMAIN l.held : l.held[j] <= BatchBytes
    BY <1>1 DEF Charged
  <2>3. r.reserved <= ScopeBytes
    BY <1>8, <1>12, <2>1, <2>2, LimitAssumption
  <2>. QED
    BY <1>10, <1>12, <2>2, <2>3 DEF Charged
<1>14. k \in Key
  BY <1>8
<1>15. \A g \in Generation : Exact(l, g) => Exact(r, g)
  BY <1>1, <1>2, <1>14, RememberExact
<1>16. r \in Sound
  <2>1. Len(r.waiting) <= MaxUnsent
    BY <1>5, <1>7, LimitAssumption
  <2>. QED
    BY <1>2, <1>6, <1>13, <2>1 DEF Sound
<1>. QED
  BY <1>3, <1>7, <1>10, <1>12, <1>15, <1>16 DEF Lessens

\* One round of ReleaseAll, and one of Relieved.
Swept(l, k, batches) == IF k \in batches THEN Release(l, k) ELSE l
Evicted(l, k, bytes) == IF Pressured(l, bytes) THEN Release(l, k) ELSE l

\* A release keeps a line sound whether or not the batch is in it.
LEMMA ReleaseAny ==
    ASSUME generation \in [Parent -> Generation], NEW l \in Sound, NEW k
    PROVE  /\ Release(l, k) \in Sound /\ Lessens(l, Release(l, k))
           /\ DOMAIN Release(l, k).held = DOMAIN l.held \ {k}
<1>1. CASE k \in DOMAIN l.held
  <2>1. PICK r : r = Release(l, k)
    OBVIOUS
  <2>2. r \in Sound /\ Lessens(l, r) /\ DOMAIN r.held = DOMAIN l.held \ {k}
    BY <1>1, <2>1, ReleaseSound
  <2>. QED
    BY <2>1, <2>2
<1>2. CASE k \notin DOMAIN l.held
  <2>1. Release(l, k) = l
    BY <1>2 DEF Release
  <2>2. l.reserved \in Nat
    BY LineFields DEF Sound
  <2>3. Lessens(l, l)
    BY <2>2 DEF Lessens
  <2>. QED
    BY <1>2, <2>1, <2>3
<1>. QED
  BY <1>1, <1>2

\* What holds before the first round and is kept by each round holds after all:
\* the fold of ReleaseAll.
LEMMA SweepRounds ==
    ASSUME generation \in [Parent -> Generation], NEW batches, NEW l \in Sound,
           NEW q \in Seq(Key), q = Queue(l),
           NEW S \in [0 .. Len(q) -> SUBSET Sound], l \in S[0],
           \A i \in 1 .. Len(q) : \A acc \in S[i - 1] : Swept(acc, q[i], batches) \in S[i]
    PROVE  ReleaseAll(l, batches) \in S[Len(q)]
<1> DEFINE F == [x \in Sound \X Key |-> Swept(x[1], x[2], batches)]
           D == SUBSET DOMAIN q
           Eq(g) == g = [s \in D |->
               IF s = {} THEN l ELSE Swept(g[s \ {Max(s)}], q[Max(s)], batches)]
           it == CHOOSE g : Eq(g)
<1>1. ReleaseAll(l, batches) = it[DOMAIN q]
  BY DEF ReleaseAll, FoldLeft, MapThenFoldSet, Swept
<1>2. Len(q) \in Nat /\ DOMAIN q = 1 .. Len(q) /\ \A i \in DOMAIN q : q[i] \in Key
  BY LenProperties, ElementOfSeq
<1>3. \E g : Eq(g)
  <2>1. F \in [Sound \X Key -> Sound]
    BY ReleaseAny DEF Swept
  <2>2. PICK g \in [SUBSET DOMAIN q -> Sound] : FoldsSequence(g, l, F, q)
    <3> HIDE DEF F
    <3>. QED
      BY <2>1, SequenceTable
  <2>3. ASSUME NEW s \in D, s # {}
        PROVE  F[<<g[s \ {Max(s)}], q[Max(s)]>>] = Swept(g[s \ {Max(s)}], q[Max(s)], batches)
    <3>1. Max(s) \in DOMAIN q /\ s \ {Max(s)} \in D
      BY <1>2, <2>3, LargestOf
    <3>2. g[s \ {Max(s)}] \in Sound /\ q[Max(s)] \in Key
      BY <1>2, <2>2, <3>1
    <3>. QED
      BY <3>2
  <2>4. Eq(g)
    <3>1. g = [s \in D |-> IF s = {} THEN l ELSE F[<<g[s \ {Max(s)}], q[Max(s)]>>]]
      BY <2>2 DEF FoldsSequence
    <3> HIDE DEF F, D
    <3>. QED
      BY <2>3, <3>1
  <2>. QED
    BY <2>4
<1>4. Eq(it)
  <2> HIDE DEF Eq
  <2>. QED
    BY <1>3
<1>5. it[{}] = l
  <2>1. {} \in D
    OBVIOUS
  <2> HIDE DEF D, it
  <2>. QED
    BY <1>4, <2>1
<1>6. ASSUME NEW i \in 1 .. Len(q)
      PROVE  it[1 .. i] = Swept(it[1 .. i - 1], q[i], batches)
  <2>1. 1 .. i \in D /\ 1 .. i # {} /\ i \in Nat \ {0}
    <3>1. i \in Nat \ {0} /\ 1 \in 1 .. i /\ \A j \in 1 .. i : j \in 1 .. Len(q)
      BY <1>2
    <3>. QED
      BY <1>2, <3>1
  <2>2. Max(1 .. i) = i /\ (1 .. i) \ {i} = 1 .. i - 1
    BY <2>1, LastPlace
  <2> HIDE DEF D, it
  <2>. QED
    BY <1>4, <2>1, <2>2
<1> HIDE DEF it
<1> DEFINE X == {i \in 0 .. Len(q) : it[1 .. i] \in S[i]}
<1>7. 0 \in X
  BY <1>2, <1>5
<1>8. \A i \in 1 .. Len(q) : i - 1 \in X => i \in X
  <2> SUFFICES ASSUME NEW i \in 1 .. Len(q), i - 1 \in X PROVE i \in X
    OBVIOUS
  <2>1. it[1 .. i - 1] \in S[i - 1] /\ i \in 0 .. Len(q)
    BY <1>2
  <2>2. it[1 .. i] \in S[i]
    BY <1>6, <2>1
  <2>. QED
    BY <2>1, <2>2
<1>9. Len(q) \in X
  <2> HIDE DEF X
  <2>1. \A i \in 0 .. Len(q) : i \in X
    BY <1>2, <1>7, <1>8, Rounds
  <2>. QED
    BY <1>2, <2>1
<1>. QED
  BY <1>1, <1>2, <1>9

\* What holds before the first round and is kept by each round holds after all:
\* the fold of Relieved.
LEMMA ReliefRounds ==
    ASSUME generation \in [Parent -> Generation], NEW bytes, NEW l \in Sound,
           NEW q \in Seq(Key), q = l.waiting,
           NEW S \in [0 .. Len(q) -> SUBSET Sound], l \in S[0],
           \A i \in 1 .. Len(q) : \A acc \in S[i - 1] : Evicted(acc, q[i], bytes) \in S[i]
    PROVE  Relieved(l, bytes) \in S[Len(q)]
<1> DEFINE F == [x \in Sound \X Key |-> Evicted(x[1], x[2], bytes)]
           D == SUBSET DOMAIN q
           Eq(g) == g = [s \in D |->
               IF s = {} THEN l ELSE Evicted(g[s \ {Max(s)}], q[Max(s)], bytes)]
           it == CHOOSE g : Eq(g)
<1>1. Relieved(l, bytes) = it[DOMAIN q]
  BY DEF Relieved, FoldLeft, MapThenFoldSet, Evicted
<1>2. Len(q) \in Nat /\ DOMAIN q = 1 .. Len(q) /\ \A i \in DOMAIN q : q[i] \in Key
  BY LenProperties, ElementOfSeq
<1>3. \E g : Eq(g)
  <2>1. F \in [Sound \X Key -> Sound]
    BY ReleaseAny DEF Evicted
  <2>2. PICK g \in [SUBSET DOMAIN q -> Sound] : FoldsSequence(g, l, F, q)
    <3> HIDE DEF F
    <3>. QED
      BY <2>1, SequenceTable
  <2>3. ASSUME NEW s \in D, s # {}
        PROVE  F[<<g[s \ {Max(s)}], q[Max(s)]>>] = Evicted(g[s \ {Max(s)}], q[Max(s)], bytes)
    <3>1. Max(s) \in DOMAIN q /\ s \ {Max(s)} \in D
      BY <1>2, <2>3, LargestOf
    <3>2. g[s \ {Max(s)}] \in Sound /\ q[Max(s)] \in Key
      BY <1>2, <2>2, <3>1
    <3>. QED
      BY <3>2
  <2>4. Eq(g)
    <3>1. g = [s \in D |-> IF s = {} THEN l ELSE F[<<g[s \ {Max(s)}], q[Max(s)]>>]]
      BY <2>2 DEF FoldsSequence
    <3> HIDE DEF F, D
    <3>. QED
      BY <2>3, <3>1
  <2>. QED
    BY <2>4
<1>4. Eq(it)
  <2> HIDE DEF Eq
  <2>. QED
    BY <1>3
<1>5. it[{}] = l
  <2>1. {} \in D
    OBVIOUS
  <2> HIDE DEF D, it
  <2>. QED
    BY <1>4, <2>1
<1>6. ASSUME NEW i \in 1 .. Len(q)
      PROVE  it[1 .. i] = Evicted(it[1 .. i - 1], q[i], bytes)
  <2>1. 1 .. i \in D /\ 1 .. i # {} /\ i \in Nat \ {0}
    <3>1. i \in Nat \ {0} /\ 1 \in 1 .. i /\ \A j \in 1 .. i : j \in 1 .. Len(q)
      BY <1>2
    <3>. QED
      BY <1>2, <3>1
  <2>2. Max(1 .. i) = i /\ (1 .. i) \ {i} = 1 .. i - 1
    BY <2>1, LastPlace
  <2> HIDE DEF D, it
  <2>. QED
    BY <1>4, <2>1, <2>2
<1> HIDE DEF it
<1> DEFINE X == {i \in 0 .. Len(q) : it[1 .. i] \in S[i]}
<1>7. 0 \in X
  BY <1>2, <1>5
<1>8. \A i \in 1 .. Len(q) : i - 1 \in X => i \in X
  <2> SUFFICES ASSUME NEW i \in 1 .. Len(q), i - 1 \in X PROVE i \in X
    OBVIOUS
  <2>1. it[1 .. i - 1] \in S[i - 1] /\ i \in 0 .. Len(q)
    BY <1>2
  <2>2. it[1 .. i] \in S[i]
    BY <1>6, <2>1
  <2>. QED
    BY <2>1, <2>2
<1>9. Len(q) \in X
  <2> HIDE DEF X
  <2>1. \A i \in 0 .. Len(q) : i \in X
    BY <1>2, <1>7, <1>8, Rounds
  <2>. QED
    BY <1>2, <2>1
<1>. QED
  BY <1>1, <1>2, <1>9

\* Releasing batches one after the other adds up.
LEMMA LessensAdds ==
    ASSUME NEW l \in Sound, NEW m \in Sound, NEW r \in Sound
    PROVE  /\ Lessens(l, l)
           /\ Lessens(l, m) /\ Lessens(m, r) => Lessens(l, r)
<1>1. l.reserved \in Nat /\ m.reserved \in Nat /\ r.reserved \in Nat
  BY LineFields DEF Sound
<1>. QED
  BY <1>1 DEF Lessens

\* A line without batches is an empty queue.
LEMMA NoBatches ==
    ASSUME NEW l \in Sound, DOMAIN l.held = {}
    PROVE  Queue(l) = <<>> /\ l.reserved = 0 /\ l.active = Nobody
<1>1. /\ l \in LineType /\ Queue(l) \in Seq(Key) /\ Len(Queue(l)) \in Nat
      /\ l.active # Nobody => Len(Queue(l)) = Len(l.waiting) + 1
      /\ Len(l.waiting) \in Nat
  BY QueuePlaces DEF Sound
<1>2. Elements(Queue(l), 1) = {} /\ l.reserved = Total(l.held)
  BY DEF Sound, Placed, Charged
<1>3. Len(Queue(l)) = 0
  <2> SUFFICES ASSUME Len(Queue(l)) # 0 PROVE FALSE
    OBVIOUS
  <2>1. 1 \in 1 .. Len(Queue(l))
    BY <1>1
  <2>2. Queue(l)[1] \in Elements(Queue(l), 1)
    BY <2>1 DEF Elements
  <2>. QED
    BY <1>2, <2>2
<1>4. Queue(l) = <<>>
  BY <1>1, <1>3, EmptySeq
<1>5. l.held \in [{} -> Nat]
  BY <1>1, LineFields
<1>. QED
  BY <1>1, <1>2, <1>3, <1>4, <1>5, TotalOfNone

\* Several batches leave: the line stays sound, and those named are gone.
LEMMA ReleaseAllEffect ==
    ASSUME generation \in [Parent -> Generation], NEW l \in Sound, NEW batches,
           NEW r, r = ReleaseAll(l, batches)
    PROVE  /\ r \in Sound /\ Lessens(l, r)
           /\ DOMAIN l.held \subseteq batches => Queue(r) = <<>>
<1>1. PICK q : q = Queue(l)
  OBVIOUS
<1>2. /\ l \in LineType /\ q \in Seq(Key) /\ Len(q) \in Nat
      /\ DOMAIN l.held = Elements(q, 1)
  BY <1>1, QueuePlaces DEF Sound, Placed
<1> DEFINE Gone(acc, i) == \A j \in 1 .. i : q[j] \in batches => q[j] \notin DOMAIN acc.held
           S == [i \in 0 .. Len(q) |-> {acc \in Sound : Lessens(l, acc) /\ Gone(acc, i)}]
<1>3. S \in [0 .. Len(q) -> SUBSET Sound] /\ l \in S[0]
  BY <1>2, LessensAdds
<1>4. \A i \in 1 .. Len(q) : \A acc \in S[i - 1] : Swept(acc, q[i], batches) \in S[i]
  <2> SUFFICES ASSUME NEW i \in 1 .. Len(q), NEW acc \in S[i - 1]
               PROVE  Swept(acc, q[i], batches) \in S[i]
    OBVIOUS
  <2>1. acc \in Sound /\ Lessens(l, acc) /\ Gone(acc, i - 1)
    BY <1>2
  <2>2. CASE q[i] \in batches
    <3>1. PICK m : m = Release(acc, q[i])
      OBVIOUS
    <3>2. m \in Sound /\ Lessens(acc, m) /\ DOMAIN m.held = DOMAIN acc.held \ {q[i]}
      BY <2>1, <3>1, ReleaseAny
    <3>3. Lessens(l, m)
      BY <2>1, <3>2, LessensAdds
    <3>4. \A j \in 1 .. i : j \in 1 .. i - 1 \/ j = i
      OBVIOUS
    <3>5. Gone(m, i)
      BY <2>1, <3>2, <3>4
    <3>6. m \in S[i]
      <4>1. S[i] = {x \in Sound : Lessens(l, x) /\ Gone(x, i)}
        BY <1>2
      <4> HIDE DEF S, Gone
      <4>. QED
        BY <3>2, <3>3, <3>5, <4>1
    <3>. QED
      BY <2>2, <3>1, <3>6 DEF Swept
  <2>3. CASE q[i] \notin batches
    <3>1. \A j \in 1 .. i : j \in 1 .. i - 1 \/ j = i
      OBVIOUS
    <3>2. Gone(acc, i)
      BY <2>1, <2>3, <3>1
    <3>3. acc \in S[i]
      BY <1>2, <2>1, <3>2
    <3>. QED
      BY <2>3, <3>3 DEF Swept
  <2>. QED
    BY <2>2, <2>3
<1>6. r \in S[Len(q)]
  <2> HIDE DEF S
  <2>. QED
    BY <1>1, <1>2, <1>3, <1>4, SweepRounds
<1>7. r \in Sound /\ Lessens(l, r) /\ Gone(r, Len(q))
  BY <1>2, <1>6
<1>8. ASSUME DOMAIN l.held \subseteq batches PROVE Queue(r) = <<>>
  <2>1. \A k \in DOMAIN l.held : \E j \in 1 .. Len(q) : q[j] = k
    BY <1>2 DEF Elements
  <2>2. DOMAIN r.held \subseteq DOMAIN l.held
    BY <1>7 DEF Lessens
  <2>3. DOMAIN r.held = {}
    BY <1>7, <1>8, <2>1, <2>2
  <2>. QED
    BY <1>7, <2>3, NoBatches
<1>. QED
  BY <1>7, <1>8

\* In a crowded line the oldest batch that waits has the second place.
LEMMA OldestWaiting ==
    ASSUME NEW l \in Sound, Crowded(l)
    PROVE  /\ Head(l.waiting) = l.waiting[1] /\ l.waiting[1] \in DOMAIN l.held
           /\ Len(Queue(l)) = MaxUnsent + 1 /\ Queue(l)[2] = l.waiting[1]
           /\ Distinct(Queue(l))
<1>1. /\ l \in LineType /\ Placed(l) /\ Len(l.waiting) <= MaxUnsent
      /\ l.active # Nobody /\ Len(l.waiting) >= MaxUnsent
  BY DEF Sound, Crowded
<1>2. /\ Len(l.waiting) \in Nat /\ Len(Queue(l)) = Len(l.waiting) + 1
      /\ \A i \in 1 .. Len(l.waiting) : Queue(l)[i + 1] = l.waiting[i]
      /\ l.waiting \in Seq(Key)
  BY <1>1, QueuePlaces, LineFields
<1>3. Len(l.waiting) = MaxUnsent /\ 1 \in 1 .. Len(l.waiting)
  BY <1>1, <1>2, LimitAssumption
<1>4. Queue(l)[2] = l.waiting[1] /\ 2 \in 1 .. Len(Queue(l))
  BY <1>2, <1>3
<1>5. l.waiting[1] \in DOMAIN l.held /\ Distinct(Queue(l))
  BY <1>1, <1>4 DEF Placed, Elements
<1>6. Head(l.waiting) = l.waiting[1]
  BY <1>2, <1>3
<1>. QED
  BY <1>2, <1>3, <1>4, <1>5, <1>6

\* Evicting keeps a line sound, and where the bytes do not press it makes room by
\* evicting the oldest waiting batch of a crowded line.
LEMMA RelievedEffect ==
    ASSUME generation \in [Parent -> Generation], NEW l \in Sound, NEW bytes \in Nat,
           NEW r, r = Relieved(l, bytes)
    PROVE  /\ r \in Sound /\ Lessens(l, r)
           /\ l.reserved + bytes <= ScopeBytes =>
                 r = IF Crowded(l) THEN Release(l, l.waiting[1]) ELSE l
<1>1. PICK w : w = l.waiting
  OBVIOUS
<1>2. l \in LineType /\ w \in Seq(Key) /\ Len(w) \in Nat
  BY <1>1, LineFields, LenProperties DEF Sound
<1>4. r \in Sound /\ Lessens(l, r)
  <2> DEFINE S == [i \in 0 .. Len(w) |-> {acc \in Sound : Lessens(l, acc)}]
  <2>1. S \in [0 .. Len(w) -> SUBSET Sound] /\ l \in S[0]
    BY <1>2, LessensAdds
  <2>2. \A i \in 1 .. Len(w) : \A acc \in S[i - 1] : Evicted(acc, w[i], bytes) \in S[i]
    <3> SUFFICES ASSUME NEW i \in 1 .. Len(w), NEW acc \in S[i - 1]
                 PROVE  Evicted(acc, w[i], bytes) \in S[i]
      OBVIOUS
    <3>1. acc \in Sound /\ Lessens(l, acc) /\ acc \in S[i]
      BY <1>2
    <3>2. PICK m : m = Release(acc, w[i])
      OBVIOUS
    <3>3. m \in Sound /\ Lessens(acc, m)
      BY <3>1, <3>2, ReleaseAny
    <3>4. Lessens(l, m)
      BY <3>1, <3>3, LessensAdds
    <3>5. m \in S[i]
      BY <1>2, <3>3, <3>4
    <3>. QED
      BY <3>1, <3>2, <3>5 DEF Evicted
  <2>3. r \in S[Len(w)]
    <3> HIDE DEF S
    <3>. QED
      BY <1>1, <1>2, <2>1, <2>2, ReliefRounds
  <2>. QED
    BY <1>2, <2>3
<1>5. ASSUME l.reserved + bytes <= ScopeBytes
      PROVE  r = IF Crowded(l) THEN Release(l, l.waiting[1]) ELSE l
  <2>1. PICK m : m = IF Crowded(l) THEN Release(l, w[1]) ELSE l
    OBVIOUS
  <2>2. m \in Sound /\ ~Pressured(m, bytes) /\ (Pressured(l, bytes) => Crowded(l))
    <3>1. Pressured(l, bytes) => Crowded(l)
      <4>1. ~(l.reserved + bytes > ScopeBytes)
        BY <1>2, <1>5, LineFields, LimitAssumption
      <4>. QED
        BY <4>1 DEF Pressured
    <3>2. CASE Crowded(l)
      <4>1. m = Release(l, w[1]) /\ w[1] \in DOMAIN l.held
        BY <1>1, <2>1, <3>2, OldestWaiting
      <4>2. m \in Sound /\ Lessens(l, m) /\ Len(m.waiting) < MaxUnsent
        BY <4>1, ReleaseSound
      <4>3. l.reserved \in Nat /\ m.reserved \in Nat /\ m.reserved <= l.reserved
            /\ Len(m.waiting) \in Nat
        BY <4>2, LineFields, LenProperties DEF Sound, Lessens
      <4>4. ~(m.reserved + bytes > ScopeBytes) /\ ~(Len(m.waiting) >= MaxUnsent)
        BY <1>5, <4>2, <4>3, LimitAssumption
      <4>. QED
        BY <3>1, <4>2, <4>4 DEF Pressured, Crowded
    <3>3. CASE ~Crowded(l)
      BY <2>1, <3>1, <3>3
    <3>. QED
      BY <3>2, <3>3
  <2> DEFINE S == [i \in 0 .. Len(w) |-> IF i = 0 THEN {l} ELSE {m}]
  <2>3. S \in [0 .. Len(w) -> SUBSET Sound] /\ l \in S[0]
    BY <1>2, <2>2
  <2>4. \A i \in 1 .. Len(w) : \A acc \in S[i - 1] : Evicted(acc, w[i], bytes) \in S[i]
    <3> SUFFICES ASSUME NEW i \in 1 .. Len(w), NEW acc \in S[i - 1]
                 PROVE  Evicted(acc, w[i], bytes) \in S[i]
      OBVIOUS
    <3>1. S[i] = {m} /\ i - 1 \in 0 .. Len(w)
      BY <1>2
    <3>2. CASE i = 1
      <4>1. acc = l
        BY <1>2, <3>2
      <4>2. Crowded(l) => Pressured(l, bytes)
        BY DEF Pressured
      <4>. QED
        BY <2>1, <2>2, <3>1, <3>2, <4>1, <4>2 DEF Evicted
    <3>3. CASE i # 1
      <4>1. acc = m
        BY <1>2, <3>1, <3>3
      <4>. QED
        BY <2>2, <3>1, <4>1 DEF Evicted
    <3>. QED
      BY <3>2, <3>3
  <2>5. r \in S[Len(w)]
    <3> HIDE DEF S
    <3>. QED
      BY <1>1, <1>2, <2>3, <2>4, ReliefRounds
  <2>6. CASE Len(w) = 0
    <3>1. r = l
      BY <1>2, <2>5, <2>6
    <3>2. ~Crowded(l)
      BY <1>1, <2>6, LimitAssumption DEF Crowded
    <3>. QED
      BY <3>1, <3>2
  <2>7. CASE Len(w) # 0
    <3>1. r = m
      BY <1>2, <2>5, <2>7
    <3>. QED
      BY <1>1, <2>1, <3>1
  <2>. QED
    BY <2>6, <2>7
<1>. QED
  BY <1>4, <1>5

\* The batch k is new to the queue, and a parent behind those that are there.
Behind(q, k) ==
    /\ k \notin Elements(q, 1)
    /\ \A j \in Elements(q, 1) : j \in Parent /\ k \in Parent => j < k

\* A place behind the last one.
LEMMA PlacesWith ==
    ASSUME NEW q \in Seq(Key), Distinct(q), InOrder(q), NEW k \in Key,
           Behind(q, k), NEW p, p = Append(q, k)
    PROVE  /\ p \in Seq(Key) /\ Distinct(p) /\ InOrder(p) /\ Len(p) = Len(q) + 1
           /\ Elements(p, 1) = Elements(q, 1) \union {k}
           /\ Len(q) = 0 => Elements(p, 2) = {} /\ Elements(q, 2) = {}
           /\ Len(q) # 0 => Elements(p, 2) = Elements(q, 2) \union {k}
<1>1. /\ p \in Seq(Key) /\ Len(p) = Len(q) + 1 /\ Len(q) \in Nat
      /\ \A i \in 1 .. Len(q) : p[i] = q[i]
      /\ p[Len(q) + 1] = k
  OBVIOUS
<1>b. /\ k \notin Elements(q, 1)
      /\ \A j \in Elements(q, 1) : j \in Parent /\ k \in Parent => j < k
  BY DEF Behind
<1>2. \A i \in 1 .. Len(p) : i \in 1 .. Len(q) \/ i = Len(q) + 1
  BY <1>1
<1>3. \A i \in 1 .. Len(q) : q[i] \in Elements(q, 1) /\ q[i] # k /\ i \in 1 .. Len(p)
  BY <1>1, <1>b DEF Elements
<1>4. Distinct(p)
  <2> SUFFICES ASSUME NEW a \in 1 .. Len(p), NEW b \in 1 .. Len(p), p[a] = p[b]
               PROVE  a = b
    BY DEF Distinct
  <2>1. CASE a \in 1 .. Len(q) /\ b \in 1 .. Len(q)
    BY <1>1, <2>1 DEF Distinct
  <2>2. CASE ~(a \in 1 .. Len(q) /\ b \in 1 .. Len(q))
    BY <1>1, <1>2, <1>3, <2>2
  <2>. QED
    BY <2>1, <2>2
<1>5. InOrder(p)
  <2> SUFFICES ASSUME NEW a \in 1 .. Len(p), NEW b \in 1 .. Len(p), a < b,
                      p[a] \in Parent, p[b] \in Parent
               PROVE  p[a] < p[b]
    BY DEF InOrder
  <2>1. a \in 1 .. Len(q)
    BY <1>1, <1>2
  <2>2. CASE b \in 1 .. Len(q)
    BY <1>1, <2>1, <2>2 DEF InOrder
  <2>3. CASE b = Len(q) + 1
    BY <1>1, <1>3, <1>b, <2>1, <2>3
  <2>. QED
    BY <1>2, <2>2, <2>3
<1>6. Elements(p, 1) = Elements(q, 1) \union {k}
  <2>1. \A x \in Elements(p, 1) : x \in Elements(q, 1) \union {k}
    BY <1>1, <1>2, <1>3 DEF Elements
  <2>2. \A x \in Elements(q, 1) : x \in Elements(p, 1)
    <3> SUFFICES ASSUME NEW x \in Elements(q, 1) PROVE x \in Elements(p, 1)
      OBVIOUS
    <3>1. PICK i \in 1 .. Len(q) : x = q[i]
      BY DEF Elements
    <3>2. i \in 1 .. Len(p) /\ p[i] = x
      BY <1>1, <3>1
    <3>. QED
      BY <3>2 DEF Elements
  <2>3. k \in Elements(p, 1)
    <3>1. Len(q) + 1 \in 1 .. Len(p)
      BY <1>1
    <3>. QED
      BY <1>1, <3>1 DEF Elements
  <2>. QED
    BY <2>1, <2>2, <2>3
<1>7. ASSUME Len(q) = 0 PROVE Elements(p, 2) = {} /\ Elements(q, 2) = {}
  BY <1>1, <1>7 DEF Elements
<1>8. ASSUME Len(q) # 0 PROVE Elements(p, 2) = Elements(q, 2) \union {k}
  <2>1. ASSUME NEW x \in Elements(p, 2) PROVE x \in Elements(q, 2) \union {k}
    <3>1. PICK i \in 2 .. Len(p) : x = p[i]
      BY DEF Elements
    <3>2. i \in 2 .. Len(q) \/ i = Len(q) + 1
      BY <1>1, <3>1
    <3>3. CASE i \in 2 .. Len(q)
      <4>1. i \in 1 .. Len(q)
        BY <3>3
      <4>. QED
        BY <1>1, <3>1, <3>3, <4>1 DEF Elements
    <3>. QED
      BY <1>1, <3>1, <3>2, <3>3
  <2>2. ASSUME NEW x \in Elements(q, 2) PROVE x \in Elements(p, 2)
    <3>1. PICK i \in 2 .. Len(q) : x = q[i]
      BY DEF Elements
    <3>2. i \in 1 .. Len(q) /\ i \in 2 .. Len(p)
      BY <1>1, <3>1
    <3>. QED
      BY <1>1, <3>1, <3>2 DEF Elements
  <2>3. k \in Elements(p, 2)
    <3>1. Len(q) + 1 \in 2 .. Len(p)
      BY <1>1, <1>8
    <3>. QED
      BY <1>1, <3>1 DEF Elements
  <2>. QED
    BY <2>1, <2>2, <2>3
<1>. QED
  BY <1>1, <1>4, <1>5, <1>6, <1>7, <1>8

\* The accounts f with that of k.
Account(f, k, bytes) == [j \in DOMAIN f \union {k} |-> IF j = k THEN bytes ELSE f[j]]

\* A new account is added to the total.
LEMMA AccountAdds ==
    ASSUME NEW A, IsFiniteSet(A), NEW f \in [A -> Nat], NEW k, k \notin A,
           NEW h \in [A \union {k} -> Nat], \A j \in A \ {k} : h[j] = f[j]
    PROVE  Total(h) = h[k] + Total(f)
<1>1. PICK D : D = A \union {k}
  OBVIOUS
<1>2. IsFiniteSet(D) /\ k \in D /\ h \in [D -> Nat]
  BY <1>1, FS_AddElement
<1>3. Without(f, h, D, k)
  BY <1>1 DEF Without
<1>. QED
  BY <1>2, <1>3, TotalWithout

\* A changed account replaces the old one in the total.
LEMMA AccountChanges ==
    ASSUME NEW A, IsFiniteSet(A), NEW f \in [A -> Nat], NEW k \in A,
           NEW h \in [A -> Nat], \A j \in A \ {k} : h[j] = f[j]
    PROVE  /\ Total(f) \in Nat /\ f[k] <= Total(f)
           /\ Total(h) = Total(f) - f[k] + h[k]
<1>1. PICK o : o = [j \in A \ {k} |-> f[j]]
  OBVIOUS
<1>2. Without(o, f, A, k) /\ Without(o, h, A, k)
  BY <1>1 DEF Without
<1>3. Total(f) \in Nat /\ Total(o) \in Nat /\ Total(f) = f[k] + Total(o)
  BY <1>2, TotalWithout
<1>4. Total(h) = h[k] + Total(o)
  BY <1>2, TotalWithout
<1>5. f[k] \in Nat /\ h[k] \in Nat
  OBVIOUS
<1>. QED
  BY <1>3, <1>4, <1>5

\* _insert: a batch that fits gets the place behind the last one.
LEMMA InsertSound ==
    ASSUME NEW l \in Sound, NEW k \in Key, k \notin DOMAIN l.held, NEW bytes \in Nat,
           bytes <= BatchBytes, ~Pressured(l, bytes),
           \A j \in DOMAIN l.held : j \in Parent /\ k \in Parent => j < k,
           NEW r, r = Insert(l, k, bytes)
    PROVE  /\ r \in Sound /\ DOMAIN r.held = DOMAIN l.held \union {k}
           /\ Queue(r) = Append(Queue(l), k)
           /\ r.over = l.over /\ r.ranges = l.ranges
<1>1. /\ l \in LineType /\ Placed(l) /\ Len(l.waiting) <= MaxUnsent
      /\ InOrder(Queue(l)) /\ Charged(l)
  BY DEF Sound
<1>2. PICK h : h = Account(l.held, k, bytes)
  OBVIOUS
<1>a. h = [j \in DOMAIN l.held \union {k} |-> IF j = k THEN bytes ELSE l.held[j]]
  BY <1>2 DEF Account
<1>3. /\ DOMAIN l.held \in SUBSET Key /\ l.held \in [DOMAIN l.held -> Nat]
      /\ l.reserved \in Nat /\ l.waiting \in Seq(Key) /\ Len(l.waiting) \in Nat
      /\ l.active \in Key \union {Nobody} /\ l.unready \in SUBSET Key
  BY <1>1, LineFields, LenProperties
<1>4. /\ h \in [DOMAIN l.held \union {k} -> Nat] /\ Total(h) = Total(l.held) + bytes
      /\ DOMAIN h = DOMAIN l.held \union {k} /\ h \in Held
  <2>1. PICK A : A = DOMAIN l.held
    OBVIOUS
  <2>0. PICK f : f = l.held
    OBVIOUS
  <2>b. IsFiniteSet(A)
    BY <1>3, <2>1, KeyFinite
  <2>2. A \in SUBSET Key /\ f \in [A -> Nat] /\ k \notin A
        /\ h = Account(f, k, bytes)
    BY <1>2, <1>3, <2>0, <2>1
  <2>c. IsFiniteSet(A) /\ f \in [A -> Nat] /\ k \notin A /\ bytes \in Nat
    BY <2>2, <2>b
  <2>d. h \in [A \union {k} -> Nat] /\ h[k] = bytes /\ \A j \in A \ {k} : h[j] = f[j]
    BY <2>2, <2>c DEF Account
  <2>e. Total(h) = h[k] + Total(f)
    BY <2>c, <2>d, AccountAdds
  <2>f. Total(f) \in Nat
    BY <2>c, TotalIsNat
  <2>3. h \in [A \union {k} -> Nat] /\ Total(h) = Total(l.held) + bytes
    BY <2>0, <2>c, <2>d, <2>e, <2>f
  <2>4. A \union {k} \in SUBSET Key
    BY <2>2
  <2>5. h \in Held
    BY <2>3, <2>4, HeldMade
  <2>. QED
    BY <2>1, <2>3, <2>5
<1>5. PICK b : b = l.reserved + bytes
  OBVIOUS
<1>6. b \in Nat /\ b = Total(h) /\ b <= ScopeBytes
  <2>1. b = Total(h)
    BY <1>1, <1>4, <1>5 DEF Charged
  <2>2. CASE l.active = Nobody
    <3>1. Elements(Queue(l), 1) = {}
      <4>1. Len(Queue(l)) = 0
        BY <1>1, <2>2, QueuePlaces
      <4>. QED
        BY <4>1 DEF Elements
    <3>2. l.reserved = 0
      BY <1>1, <3>1, NoBatches DEF Placed
    <3>. QED
      BY <1>5, <2>1, <3>2, LimitAssumption
  <2>3. CASE l.active # Nobody
    <3>1. ~(b > ScopeBytes)
      BY <1>5, <2>3 DEF Pressured
    <3>. QED
      BY <1>3, <1>5, <2>1, <3>1, LimitAssumption
  <2>. QED
    BY <2>2, <2>3
<1>7. \A j \in DOMAIN h : h[j] <= BatchBytes
  <2>1. \A j \in DOMAIN l.held : l.held[j] <= BatchBytes
    BY <1>1 DEF Charged
  <2>. QED
    BY <1>a, <2>1
<1>8. PICK q : q = Queue(l)
  OBVIOUS
<1>9. PICK p : p = Append(q, k)
  OBVIOUS
<1>10. /\ q \in Seq(Key) /\ Len(q) \in Nat
       /\ l.active = Nobody => q = <<>> /\ Len(q) = 0
       /\ l.active # Nobody =>
             /\ Len(q) = Len(l.waiting) + 1 /\ q[1] = l.active
             /\ \A i \in 1 .. Len(l.waiting) : q[i + 1] = l.waiting[i]
  BY <1>1, <1>8, QueuePlaces
<1>11. /\ Distinct(q) /\ InOrder(q) /\ DOMAIN l.held = Elements(q, 1)
       /\ l.unready = Elements(q, 2) /\ (l.active = Nobody => l.waiting = <<>>)
  BY <1>1, <1>8 DEF Placed
<1>12. /\ p \in Seq(Key) /\ Distinct(p) /\ InOrder(p) /\ Len(p) = Len(q) + 1
       /\ Elements(p, 1) = Elements(q, 1) \union {k}
       /\ Len(q) = 0 => Elements(p, 2) = {} /\ Elements(q, 2) = {}
       /\ Len(q) # 0 => Elements(p, 2) = Elements(q, 2) \union {k}
  <2>1. Behind(q, k)
    BY <1>11 DEF Behind
  <2>2. q \in Seq(Key) /\ Distinct(q) /\ InOrder(q)
    BY <1>10, <1>11
  <2>. QED
    BY <1>9, <2>1, <2>2, PlacesWith
<1>13. CASE l.active = Nobody
  <2>1. r = [l EXCEPT !.held = h, !.reserved = b, !.active = k]
    BY <1>a, <1>5, <1>13 DEF Insert
  <2>2. r = [active |-> k, waiting |-> l.waiting, held |-> h, reserved |-> b,
             unready |-> l.unready, over |-> l.over, ranges |-> l.ranges]
    BY <1>1, <2>1 DEF LineType
  <2>3. r \in LineType
    BY <1>1, <1>4, <1>6, <2>2, LineFields DEF LineType
  <2>4. /\ r.active = k /\ r.waiting = l.waiting /\ r.held = h /\ r.reserved = b
        /\ r.unready = l.unready /\ r.over = l.over /\ r.ranges = l.ranges
    BY <2>2
  <2>5. Queue(r) = p
    <3>1. k # Nobody /\ l.waiting = <<>> /\ q = <<>>
      BY <1>10, <1>11, <1>13, KeyNat
    <3>2. Queue(r) = <<k>> \o <<>>
      BY <2>4, <3>1 DEF Queue
    <3>. QED
      BY <1>9, <3>1, <3>2
  <2>6. r.active # Nobody
    BY <2>4, KeyNat
  <2>7. Placed(r)
    BY <1>4, <1>10, <1>11, <1>12, <1>13, <2>4, <2>5, <2>6 DEF Placed
  <2>8. Charged(r)
    BY <1>6, <1>7, <2>4 DEF Charged
  <2>9. r \in Sound
    BY <1>1, <1>12, <2>3, <2>4, <2>5, <2>7, <2>8 DEF Sound
  <2>. QED
    BY <1>4, <1>8, <1>9, <2>4, <2>5, <2>9
<1>14. CASE l.active # Nobody
  <2> DEFINE w == Append(l.waiting, k)
             u == l.unready \union {k}
  <2>1. r = [l EXCEPT !.held = h, !.reserved = b, !.waiting = w, !.unready = u]
    BY <1>a, <1>5, <1>14 DEF Insert
  <2>2. /\ w \in Seq(Key) /\ Len(w) = Len(l.waiting) + 1 /\ u \in SUBSET Key
        /\ \A i \in 1 .. Len(l.waiting) : w[i] = l.waiting[i]
        /\ w[Len(l.waiting) + 1] = k
    BY <1>3
  <2>3. u = Elements(p, 2)
    BY <1>10, <1>11, <1>12, <1>14, <1>3
  <2> HIDE DEF w, u
  <2>4. r = [active |-> l.active, waiting |-> w, held |-> h, reserved |-> b,
             unready |-> u, over |-> l.over, ranges |-> l.ranges]
    BY <1>1, <2>1 DEF LineType
  <2>5. r \in LineType
    BY <1>1, <1>4, <1>6, <2>2, <2>4, LineFields DEF LineType
  <2>6. /\ r.active = l.active /\ r.waiting = w /\ r.held = h /\ r.reserved = b
        /\ r.unready = u /\ r.over = l.over /\ r.ranges = l.ranges
    BY <2>4
  <2>7. PICK v : v = Queue(r)
    OBVIOUS
  <2>8. /\ v \in Seq(Key) /\ Len(v) = Len(w) + 1 /\ v[1] = l.active
        /\ \A i \in 1 .. Len(w) : v[i + 1] = w[i]
    BY <1>14, <2>5, <2>6, <2>7, QueuePlaces
  <2>9. ASSUME NEW i \in 1 .. Len(v) PROVE v[i] = p[i]
    <3>1. Len(v) = Len(q) + 1 /\ Len(q) = Len(l.waiting) + 1
      BY <1>10, <1>14, <2>2, <2>8
    <3>2. /\ \A j \in 1 .. Len(q) : p[j] = q[j]
          /\ p[Len(q) + 1] = k
      BY <1>9, <1>10
    <3>3. CASE i = 1
      <4>1. 1 \in 1 .. Len(q)
        BY <1>3, <3>1
      <4>. QED
        BY <1>10, <1>14, <2>8, <3>2, <3>3, <4>1
    <3>4. CASE i # 1 /\ i \in 1 .. Len(q)
      <4>1. /\ i - 1 \in 1 .. Len(l.waiting) /\ i - 1 \in 1 .. Len(w) /\ (i - 1) + 1 = i
        BY <1>3, <2>2, <3>1, <3>4
      <4>2. v[i] = w[i - 1] /\ w[i - 1] = l.waiting[i - 1] /\ q[i] = l.waiting[i - 1]
        BY <1>10, <1>14, <2>2, <2>8, <4>1
      <4>. QED
        BY <3>2, <3>4, <4>2
    <3>5. CASE i = Len(q) + 1
      <4>1. /\ Len(l.waiting) + 1 \in 1 .. Len(w) /\ (Len(l.waiting) + 1) + 1 = i
        BY <1>3, <2>2, <3>1, <3>5
      <4>2. v[i] = w[Len(l.waiting) + 1]
        BY <2>8, <4>1
      <4>. QED
        BY <2>2, <3>2, <3>5, <4>2
    <3>. QED
      BY <1>10, <3>1, <3>3, <3>4, <3>5
  <2>10. v = p
    <3>1. Len(v) = Len(p)
      BY <1>10, <1>12, <1>14, <2>2, <2>8
    <3>. QED
      BY <1>12, <2>8, <2>9, <3>1, SeqEqual
  <2>11. Placed(r)
    BY <1>4, <1>11, <1>12, <1>14, <2>3, <2>6, <2>7, <2>10 DEF Placed
  <2>12. Charged(r)
    BY <1>6, <1>7, <2>6 DEF Charged
  <2>13. Len(r.waiting) <= MaxUnsent
    <3>1. ~(Len(l.waiting) >= MaxUnsent)
      BY <1>14 DEF Pressured, Crowded
    <3>. QED
      BY <1>3, <2>2, <2>6, <3>1, LimitAssumption
  <2>14. r \in Sound
    BY <1>12, <2>5, <2>7, <2>10, <2>11, <2>12, <2>13 DEF Sound
  <2>. QED
    BY <1>4, <1>8, <1>9, <2>6, <2>7, <2>10, <2>14
<1>. QED
  BY <1>13, <1>14

\* The ranges of every generation stay exact.
Carries(l, r) == \A g \in Generation : Exact(l, g) => Exact(r, g)

\* resize_parent: the accounts follow the payloads, or the batch is released.
LEMMA ResizedSound ==
    ASSUME generation \in [Parent -> Generation], NEW l \in Sound, NEW p \in Key,
           NEW bytes \in Nat, NEW r, r = Resized(l, p, bytes)
    PROVE  /\ r \in Sound /\ DOMAIN r.held \subseteq DOMAIN l.held /\ Carries(l, r)
           /\ Queue(r) = Queue(l) \/ r = Release(l, p)
<1>1. CASE r = l
  BY <1>1 DEF Carries
<1>2. CASE r = Release(l, p)
  <2>1. r \in Sound /\ Lessens(l, r)
    BY <1>2, ReleaseAny
  <2>. QED
    BY <1>2, <2>1 DEF Lessens, Carries
<1>3. CASE p \in DOMAIN l.held /\ bytes <= BatchBytes
           /\ ~(l.reserved + bytes - l.held[p] > ScopeBytes)
           /\ r = [l EXCEPT !.held[p] = bytes, !.reserved = @ + bytes - l.held[p]]
  <2>1. /\ l \in LineType /\ Placed(l) /\ Len(l.waiting) <= MaxUnsent
        /\ InOrder(Queue(l)) /\ Charged(l)
    BY DEF Sound
  <2>2. PICK A : A = DOMAIN l.held
    OBVIOUS
  <2>3. PICK f : f = l.held
    OBVIOUS
  <2>4. PICK h : h = [f EXCEPT ![p] = bytes]
    OBVIOUS
  <2>5. PICK b : b = l.reserved + bytes - f[p]
    OBVIOUS
  <2>6. /\ A \in SUBSET Key /\ f \in [A -> Nat] /\ p \in A /\ IsFiniteSet(A)
        /\ l.reserved \in Nat /\ f[p] \in Nat
    BY <1>3, <2>1, <2>2, <2>3, LineFields, KeyFinite
  <2>7. h \in [A -> Nat] /\ h[p] = bytes /\ \A j \in A \ {p} : h[j] = f[j]
    BY <2>4, <2>6
  <2>8. Total(f) \in Nat /\ f[p] <= Total(f) /\ Total(h) = Total(f) - f[p] + h[p]
    BY <2>6, <2>7, AccountChanges
  <2>9. l.reserved = Total(f) /\ \A j \in A : f[j] <= BatchBytes
    BY <2>1, <2>2, <2>3 DEF Charged
  <2>10. b \in Nat /\ b = Total(h) /\ b <= ScopeBytes
    <3>1. b = Total(h) /\ b \in Nat
      BY <2>5, <2>6, <2>7, <2>8, <2>9
    <3>2. ~(b > ScopeBytes)
      BY <1>3, <2>3, <2>5
    <3>. QED
      BY <3>1, <3>2, LimitAssumption
  <2>11. \A j \in DOMAIN h : h[j] <= BatchBytes
    <3>1. \A j \in A : j = p \/ j \in A \ {p}
      OBVIOUS
    <3>. QED
      BY <1>3, <2>7, <2>9, <3>1
  <2>12. r = [l EXCEPT !.held = h, !.reserved = b]
    BY <1>3, <2>1, <2>3, <2>4, <2>5 DEF LineType
  <2>13. r = [active |-> l.active, waiting |-> l.waiting, held |-> h, reserved |-> b,
              unready |-> l.unready, over |-> l.over, ranges |-> l.ranges]
    BY <2>1, <2>12 DEF LineType
  <2>14. h \in Held
    BY <2>6, <2>7, HeldMade
  <2>15. r \in LineType
    BY <2>1, <2>10, <2>13, <2>14, LineFields DEF LineType
  <2>16. /\ r.active = l.active /\ r.waiting = l.waiting /\ r.held = h /\ r.reserved = b
         /\ r.unready = l.unready /\ r.over = l.over /\ r.ranges = l.ranges
    BY <2>13
  <2>17. Queue(r) = Queue(l)
    BY <2>16 DEF Queue
  <2>18. DOMAIN r.held = A
    BY <2>7, <2>16
  <2>19. Placed(r)
    BY <2>1, <2>2, <2>16, <2>17, <2>18 DEF Placed
  <2>20. Charged(r)
    BY <2>10, <2>11, <2>16 DEF Charged
  <2>21. r \in Sound
    BY <2>1, <2>15, <2>16, <2>17, <2>19, <2>20 DEF Sound
  <2>22. Carries(l, r)
    BY <2>16 DEF Carries, Exact
  <2>. QED
    BY <2>2, <2>17, <2>18, <2>21, <2>22
<1>4. p \in DOMAIN l.held => bytes \in Nat /\ BatchBytes \in Nat
  BY LimitAssumption
<1>. QED
  BY <1>1, <1>2, <1>3, <1>4 DEF Resized

\* A release of one batch is the release of OutputLine.
LEMMA LineReleases ==
    ASSUME generation \in [Parent -> Generation], NEW l \in Sound, NEW k \in DOMAIN l.held,
           NEW r, r = Release(l, k)
    PROVE  Queue(r) = Line!Release(Queue(l), k)
<1>1. PICK q : q = Queue(l)
  OBVIOUS
<1>2. q \in Seq(Key) /\ Distinct(q) /\ DOMAIN q = 1 .. Len(q)
  BY <1>1, QueuePlaces DEF Sound, Placed
<1>3. PICK i \in 1 .. Len(q) : q[i] = k /\ Queue(r) = RemoveAt(q, i)
  BY <1>1, ReleaseSound
<1>4. Line!InLine(q, k)
  BY <1>2, <1>3 DEF Line!InLine
<1>5. Line!Position(q, k) = i
  <2>1. \A j \in DOMAIN q : q[j] = k <=> j = i
    BY <1>2, <1>3 DEF Distinct
  <2>. QED
    BY <1>2, <2>1 DEF Line!Position
<1>. QED
  BY <1>1, <1>3, <1>4, <1>5, SameRemoves DEF Line!Release

\* Where a crowded line has evicted its oldest waiting batch, a batch behind the
\* others is the admission of OutputLine.
LEMMA LineAdmits ==
    ASSUME generation \in [Parent -> Generation], NEW l \in Sound, NEW k,
           NEW room, room = IF Crowded(l) THEN Release(l, l.waiting[1]) ELSE l,
           NEW q, q = Append(Queue(room), k)
    PROVE  q = Line!Admit(Queue(l), k, MaxUnsent)
<1>1. l \in LineType /\ Len(l.waiting) <= MaxUnsent
  BY DEF Sound
<1>2. /\ Queue(l) \in Seq(Key) /\ Len(Queue(l)) \in Nat /\ Len(l.waiting) \in Nat
      /\ l.active = Nobody => Queue(l) = <<>>
      /\ l.active # Nobody => Len(Queue(l)) = Len(l.waiting) + 1
  BY <1>1, QueuePlaces
<1>3. CASE Crowded(l)
  <2>1. /\ l.waiting[1] \in DOMAIN l.held
        /\ Len(Queue(l)) = MaxUnsent + 1 /\ Queue(l)[2] = l.waiting[1]
        /\ Distinct(Queue(l))
    BY <1>3, OldestWaiting
  <2>2. room = Release(l, l.waiting[1])
    BY <1>3
  <2>3. PICK i \in 1 .. Len(Queue(l)) :
            Queue(l)[i] = l.waiting[1] /\ Queue(room) = RemoveAt(Queue(l), i)
    BY <2>1, <2>2, ReleaseSound
  <2>4. 2 \in 1 .. Len(Queue(l))
    BY <2>1, LimitAssumption
  <2>5. i = 2
    BY <2>1, <2>3, <2>4 DEF Distinct
  <2>6. Queue(l) # <<>> /\ Len(Queue(l)) > MaxUnsent
    <3>1. Len(Queue(l)) > MaxUnsent /\ Len(Queue(l)) # 0
      BY <2>1, LimitAssumption
    <3>. QED
      BY <3>1
  <2>7. Line!Pressured(Queue(l), MaxUnsent)
    BY <2>6 DEF Line!Pressured
  <2>. QED
    BY <2>3, <2>5, <2>7, SameRemoves DEF Line!Admit, Line!EvictOldest
<1>4. CASE ~Crowded(l)
  <2>1. ~Line!Pressured(Queue(l), MaxUnsent)
    <3>1. CASE l.active = Nobody
      BY <1>2, <3>1 DEF Line!Pressured
    <3>2. CASE l.active # Nobody
      <4>1. ~(Len(l.waiting) >= MaxUnsent)
        BY <1>4, <3>2 DEF Crowded
      <4>2. ~(Len(Queue(l)) > MaxUnsent)
        BY <1>2, <3>2, <4>1, LimitAssumption
      <4>. QED
        BY <4>2 DEF Line!Pressured
    <3>. QED
      BY <3>1, <3>2
  <2>2. room = l
    BY <1>4
  <2>. QED
    BY <2>1, <2>2 DEF Line!Admit
<1>. QED
  BY <1>3, <1>4

\* A line is not touched, or it does what OutputLine admits.
Admits(l, r, k) == Queue(r) = Queue(l) \/ Queue(r) = Line!Admit(Queue(l), k, MaxUnsent)

\* admit_parent: the parent has the last place, or is remembered as refused.
LEMMA AdmittedSound ==
    ASSUME generation \in [Parent -> Generation], NEW l \in Sound, NEW p \in Parent,
           p \notin DOMAIN l.held, \A j \in DOMAIN l.held : j \in Parent => j < p,
           NEW bytes \in Nat, bytes <= BatchBytes, NEW r, r = Admitted(l, p, bytes)
    PROVE  /\ r \in Sound /\ DOMAIN r.held \subseteq DOMAIN l.held \union {p}
           /\ Carries(l, r)
           /\ origin[p] # "manual" /\ l.reserved + bytes <= ScopeBytes => Admits(l, r, p)
<1>0. p \in Key /\ l \in LineType /\ l.reserved \in Nat
  BY KeyNat, LineFields DEF Sound
<1>1. PICK room : room = IF origin[p] = "manual" THEN l ELSE Relieved(l, bytes)
  OBVIOUS
<1>2. /\ room \in Sound /\ Lessens(l, room)
      /\ origin[p] # "manual" /\ l.reserved + bytes <= ScopeBytes =>
            room = IF Crowded(l) THEN Release(l, l.waiting[1]) ELSE l
  <2>1. CASE origin[p] = "manual"
    BY <1>1, <2>1, LessensAdds
  <2>2. CASE origin[p] # "manual"
    BY <1>1, <2>2, RelievedEffect
  <2>. QED
    BY <2>1, <2>2
<1>3. /\ DOMAIN room.held \subseteq DOMAIN l.held /\ room.reserved <= l.reserved
      /\ Carries(l, room) /\ room \in LineType /\ room.reserved \in Nat
  BY <1>2, LineFields DEF Lessens, Carries, Sound
<1>4. r = IF Pressured(room, bytes) THEN Remember(room, p) ELSE Insert(room, p, bytes)
  BY <1>1 DEF Admitted
<1>5. CASE Pressured(room, bytes)
  <2>1. r = Remember(room, p)
    BY <1>4, <1>5
  <2>2. /\ r \in LineType
        /\ r.active = room.active /\ r.waiting = room.waiting
        /\ r.held = room.held /\ r.reserved = room.reserved /\ r.unready = room.unready
    <3>1. /\ Remember(room, p) \in LineType
          /\ Remember(room, p).active = room.active
          /\ Remember(room, p).waiting = room.waiting
          /\ Remember(room, p).held = room.held
          /\ Remember(room, p).reserved = room.reserved
          /\ Remember(room, p).unready = room.unready
      BY <1>0, <1>3, RememberEffect
    <3>. QED
      BY <2>1, <3>1
  <2>3. Queue(r) = Queue(room)
    BY <2>2 DEF Queue
  <2>4. r \in Sound
    BY <1>2, <2>2, <2>3 DEF Sound, Placed, Charged
  <2>5. Carries(room, r)
    BY <1>0, <1>3, <2>1, RememberExact DEF Carries
  <2>6. Carries(l, r)
    BY <1>3, <2>5 DEF Carries
  <2>7. ASSUME origin[p] # "manual", l.reserved + bytes <= ScopeBytes
        PROVE  Admits(l, r, p)
    <3>1. ~(room.reserved + bytes > ScopeBytes)
      BY <1>0, <1>3, <2>7, LimitAssumption
    <3>2. Crowded(room)
      BY <1>5, <3>1 DEF Pressured
    <3>3. ~Crowded(l)
      <4> SUFFICES ASSUME Crowded(l) PROVE FALSE
        OBVIOUS
      <4>1. l.waiting[1] \in DOMAIN l.held /\ room = Release(l, l.waiting[1])
        BY <1>2, <2>7, OldestWaiting
      <4>2. Len(room.waiting) < MaxUnsent
        BY <4>1, ReleaseSound
      <4>3. Len(room.waiting) >= MaxUnsent /\ Len(room.waiting) \in Nat
        BY <1>3, <3>2, LineFields, LenProperties DEF Crowded
      <4>. QED
        BY <4>2, <4>3, LimitAssumption
    <3>4. room = l
      BY <1>2, <2>7, <3>3
    <3>. QED
      BY <2>3, <3>4 DEF Admits
  <2>. QED
    BY <1>3, <2>2, <2>4, <2>6, <2>7
<1>6. CASE ~Pressured(room, bytes)
  <2>1. r = Insert(room, p, bytes)
    BY <1>4, <1>6
  <2>2. p \notin DOMAIN room.held
        /\ \A j \in DOMAIN room.held : j \in Parent /\ p \in Parent => j < p
    BY <1>3
  <2>3. /\ r \in Sound /\ DOMAIN r.held = DOMAIN room.held \union {p}
        /\ Queue(r) = Append(Queue(room), p)
        /\ r.over = room.over /\ r.ranges = room.ranges
    BY <1>0, <1>2, <1>6, <2>1, <2>2, InsertSound
  <2>4. Carries(l, r)
    BY <1>3, <2>3 DEF Carries, Exact
  <2>5. ASSUME origin[p] # "manual", l.reserved + bytes <= ScopeBytes
        PROVE  Admits(l, r, p)
    <3>1. room = IF Crowded(l) THEN Release(l, l.waiting[1]) ELSE l
      BY <1>2, <2>5
    <3>. QED
      BY <2>3, <3>1, LineAdmits DEF Admits
  <2>. QED
    BY <1>3, <2>3, <2>4, <2>5
<1>. QED
  BY <1>5, <1>6

\* What register_overlay_event makes of the line of its scope.
Registered(l, e, bytes) ==
    LET room == IF Crowded(l) THEN Release(l, Head(l.waiting)) ELSE l
    IN  IF bytes > BatchBytes THEN l
        ELSE IF room.reserved + bytes > ScopeBytes THEN room
        ELSE Insert(room, e, bytes)

\* register_overlay_event: the event has the last place, or nobody has it.
LEMMA RegisteredSound ==
    ASSUME generation \in [Parent -> Generation], NEW l \in Sound, NEW e \in Event,
           e \notin DOMAIN l.held, NEW bytes \in Nat, NEW r, r = Registered(l, e, bytes)
    PROVE  /\ r \in Sound /\ DOMAIN r.held \subseteq DOMAIN l.held \union {e}
           /\ Carries(l, r)
           /\ l.reserved + BatchBytes <= ScopeBytes => Admits(l, r, e)
<1>0. e \in Key /\ e \notin Parent /\ l \in LineType /\ l.reserved \in Nat
  BY KeyNat, LineFields DEF Sound
<1>1. PICK room : room = IF Crowded(l) THEN Release(l, l.waiting[1]) ELSE l
  OBVIOUS
<1>2. Crowded(l) => l.waiting[1] \in DOMAIN l.held /\ Head(l.waiting) = l.waiting[1]
  BY OldestWaiting
<1>3. r = IF bytes > BatchBytes THEN l
          ELSE IF room.reserved + bytes > ScopeBytes THEN room
          ELSE Insert(room, e, bytes)
  BY <1>1, <1>2 DEF Registered
<1>4. room \in Sound /\ Lessens(l, room) /\ ~Crowded(room)
  <2>1. CASE Crowded(l)
    <3>1. room \in Sound /\ Lessens(l, room) /\ Len(room.waiting) < MaxUnsent
      BY <1>1, <1>2, <2>1, ReleaseSound
    <3>2. Len(room.waiting) \in Nat
      BY <3>1, LineFields, LenProperties DEF Sound
    <3>3. ~(Len(room.waiting) >= MaxUnsent)
      BY <3>1, <3>2, LimitAssumption
    <3>. QED
      BY <3>1, <3>3 DEF Crowded
  <2>2. CASE ~Crowded(l)
    BY <1>1, <2>2, LessensAdds
  <2>. QED
    BY <2>1, <2>2
<1>5. /\ DOMAIN room.held \subseteq DOMAIN l.held /\ room.reserved <= l.reserved
      /\ Carries(l, room) /\ room \in LineType /\ room.reserved \in Nat
  BY <1>4, LineFields DEF Lessens, Carries, Sound
<1>6. CASE bytes > BatchBytes
  <2>1. r = l
    BY <1>3, <1>6
  <2>. QED
    BY <2>1 DEF Carries, Admits
<1>7. CASE ~(bytes > BatchBytes) /\ room.reserved + bytes > ScopeBytes
  <2>1. r = room
    BY <1>3, <1>7
  <2>2. ~(l.reserved + BatchBytes <= ScopeBytes)
    BY <1>0, <1>5, <1>7, LimitAssumption
  <2>. QED
    BY <1>4, <1>5, <2>1, <2>2
<1>8. CASE ~(bytes > BatchBytes) /\ ~(room.reserved + bytes > ScopeBytes)
  <2>1. r = Insert(room, e, bytes)
    BY <1>3, <1>8
  <2>2. /\ ~Pressured(room, bytes) /\ bytes <= BatchBytes /\ e \notin DOMAIN room.held
        /\ \A j \in DOMAIN room.held : j \in Parent /\ e \in Parent => j < e
    BY <1>0, <1>4, <1>5, <1>8, LimitAssumption DEF Pressured
  <2>3. /\ r \in Sound /\ DOMAIN r.held = DOMAIN room.held \union {e}
        /\ Queue(r) = Append(Queue(room), e)
        /\ r.over = room.over /\ r.ranges = room.ranges
    BY <1>0, <1>4, <2>1, <2>2, InsertSound
  <2>4. Carries(l, r)
    BY <1>5, <2>3 DEF Carries, Exact
  <2>5. Admits(l, r, e)
    BY <1>1, <2>3, LineAdmits DEF Admits
  <2>. QED
    BY <1>5, <2>3, <2>4, <2>5
<1>. QED
  BY <1>6, <1>7, <1>8

\* The ranges of the generations below g are dropped, and nothing else.
LEMMA DroppedSound ==
    ASSUME NEW l \in Sound, NEW s, NEW c, NEW g \in Generation, NEW r, r = Dropped(l, s, c, g)
    PROVE  /\ r \in Sound /\ Queue(r) = Queue(l) /\ r.held = l.held
           /\ \A h \in Generation :
                 Exact(l, h) => Exact(r, h) \/ (s[1] \in {c, "manual"} /\ h < g)
<1>1. CASE s[1] \notin {c, "manual"}
  BY <1>1 DEF Dropped
<1>2. CASE s[1] \in {c, "manual"}
  <2> DEFINE m == [h \in Generation |-> IF h < g THEN <<>> ELSE l.ranges[h]]
  <2>1. l \in LineType
    BY DEF Sound
  <2>2. r = [l EXCEPT !.ranges = m]
    BY <1>2, <2>1 DEF Dropped, LineType
  <2>3. m \in [Generation -> Seq(Pair)]
    <3>1. \A h \in Generation : l.ranges[h] \in Seq(Pair)
      BY <2>1, LineFields
    <3>2. <<>> \in Seq(Pair)
      OBVIOUS
    <3>. QED
      BY <3>1, <3>2
  <2>4. \A h \in Generation : ~(h < g) => m[h] = l.ranges[h]
    OBVIOUS
  <2> HIDE DEF m
  <2>5. r = [active |-> l.active, waiting |-> l.waiting, held |-> l.held,
             reserved |-> l.reserved, unready |-> l.unready, over |-> l.over,
             ranges |-> m]
    BY <2>1, <2>2 DEF LineType
  <2>6. r \in LineType
    BY <2>1, <2>3, <2>5, LineFields DEF LineType
  <2>7. /\ r.active = l.active /\ r.waiting = l.waiting /\ r.held = l.held
        /\ r.reserved = l.reserved /\ r.unready = l.unready /\ r.over = l.over
        /\ r.ranges = m
    BY <2>5
  <2>8. Queue(r) = Queue(l)
    BY <2>7 DEF Queue
  <2>9. r \in Sound
    BY <2>6, <2>7, <2>8 DEF Sound, Placed, Charged
  <2>10. \A h \in Generation : ~(h < g) => (Exact(l, h) => Exact(r, h))
    BY <2>4, <2>7 DEF Exact
  <2>. QED
    BY <1>2, <2>7, <2>8, <2>9, <2>10
<1>. QED
  BY <1>1, <1>2

-------------------------------------------------------------------------------
(* The invariant.                                                         *)

TypeOK ==
    /\ origin \in [Parent -> Origin] /\ generation \in [Parent -> Generation]
    /\ born \in SUBSET Key /\ line \in [Scope -> LineType]
    /\ retired \in [Channel -> -1 .. MaxGeneration] /\ open \in BOOLEAN

\* Parents are submitted in their order.
Submitted == \A p, q \in Parent : q < p /\ p \in born => q \in born

\* A batch was submitted, and a parent stands in lines of its own origin and is of
\* no generation later than the current one, which follows the last one retired.
InPlace(s) == \A k \in DOMAIN line[s].held :
    /\ k \in born
    /\ k \in Parent => origin[k] = s[1] /\ generation[k] <= retired[ChannelOf(s[1])] + 1

\* What is remembered of a live generation.
Remembered(s) == \A g \in Generation : ~MayBeDropped(s, g) => Exact(line[s], g)

IInv ==
    /\ TypeOK /\ Submitted
    /\ \A s \in Scope : line[s] \in Sound /\ InPlace(s) /\ Remembered(s)

\* What a step does to the line of s.
LineMoves(s) ==
    /\ line'[s] \in Sound
    /\ \A k \in DOMAIN line'[s].held :
          \/ k \in DOMAIN line[s].held
          \/ /\ k \in born'
             /\ k \in Parent =>
                   origin[k] = s[1] /\ generation[k] <= retired[ChannelOf(s[1])] + 1
    /\ \A g \in Generation :
          Exact(line[s], g) => Exact(line'[s], g) \/ MayBeDropped(s, g)'
    /\ s[1] # "manual" /\ line[s].reserved + BatchBytes <= ScopeBytes =>
          LineStep(Queue(line[s]), Queue(line'[s]))

\* A step whose lines move so keeps the invariant.
LEMMA MovesKeep ==
    ASSUME IInv, origin' = origin, generation' = generation,
           born' \in SUBSET Key, born \subseteq born', Submitted',
           line' \in [Scope -> Sound],
           retired' \in [Channel -> -1 .. MaxGeneration],
           \A c \in Channel : retired[c] <= retired'[c],
           open' \in BOOLEAN, \A s \in Scope : LineMoves(s)
    PROVE  IInv'
<1>1. /\ origin \in [Parent -> Origin] /\ generation \in [Parent -> Generation]
      /\ retired \in [Channel -> -1 .. MaxGeneration] /\ MaxGeneration \in Nat
      /\ Generation \subseteq Nat
  BY CountAssumption DEF IInv, TypeOK, Generation
<1>2. TypeOK'
  <2>1. Sound \subseteq LineType
    BY DEF Sound
  <2>2. line' \in [Scope -> LineType]
    BY <2>1
  <2>. QED
    BY <1>1, <2>2 DEF TypeOK
<1>3. ASSUME NEW s \in Scope
      PROVE  (line[s] \in Sound)' /\ InPlace(s)' /\ Remembered(s)'
  <2>1. LineMoves(s) /\ InPlace(s) /\ Remembered(s)
    BY DEF IInv
  <2>2. ChannelOf(s[1]) \in Channel
    BY DEF Scope, Channel
  <2>3. /\ retired[ChannelOf(s[1])] <= retired'[ChannelOf(s[1])]
        /\ retired[ChannelOf(s[1])] \in Int /\ retired'[ChannelOf(s[1])] \in Int
    BY <1>1, <2>2
  <2>4. InPlace(s)'
    <3> SUFFICES ASSUME NEW k \in DOMAIN line'[s].held
                 PROVE  /\ k \in born'
                        /\ k \in Parent => /\ origin[k] = s[1]
                                           /\ generation[k] <= retired'[ChannelOf(s[1])] + 1
      BY DEF InPlace
    <3>1. /\ k \in born'
          /\ k \in Parent => /\ origin[k] = s[1]
                             /\ generation[k] <= retired[ChannelOf(s[1])] + 1
      BY <2>1 DEF LineMoves, InPlace
    <3>2. k \in Parent => generation[k] \in Nat
      BY <1>1
    <3>. QED
      BY <2>3, <3>1, <3>2
  <2>5. Remembered(s)'
    <3> SUFFICES ASSUME NEW g \in Generation, ~MayBeDropped(s, g)'
                 PROVE  Exact(line'[s], g)
      BY DEF Remembered, Exact
    <3>1. ~MayBeDropped(s, g)
      <4>1. \A c \in Channel : retired[c] \in Int /\ retired'[c] \in Int /\ g \in Nat
        BY <1>1
      <4>. QED
        BY <4>1 DEF MayBeDropped
    <3>2. Exact(line[s], g)
      BY <2>1, <3>1 DEF Remembered
    <3>. QED
      BY <2>1, <3>2 DEF LineMoves
  <2>. QED
    BY <2>1, <2>4, <2>5 DEF LineMoves
<1>. QED
  BY <1>2, <1>3 DEF IInv

\* A line that loses batches, or nothing.
LEMMA LosesMoves ==
    ASSUME NEW s \in Scope, line'[s] \in Sound,
           DOMAIN line'[s].held \subseteq DOMAIN line[s].held,
           Carries(line[s], line'[s]),
           LineStep(Queue(line[s]), Queue(line'[s]))
    PROVE  LineMoves(s)
  BY DEF LineMoves, Carries

\* A line that the step does not touch.
LEMMA UntouchedMoves ==
    ASSUME NEW s \in Scope, line[s] \in Sound, line'[s] = line[s]
    PROVE  LineMoves(s)
<1>1. LineStep(Queue(line[s]), Queue(line'[s])) /\ Carries(line[s], line'[s])
  BY DEF LineStep, Carries
<1>. QED
  BY <1>1, LosesMoves

\* A line that one batch leaves, if it is there.
LEMMA ReleasedMoves ==
    ASSUME generation \in [Parent -> Generation], NEW s \in Scope, line[s] \in Sound,
           NEW k \in Key, line'[s] = Release(line[s], k)
    PROVE  LineMoves(s)
<1>1. CASE k \in DOMAIN line[s].held
  <2>1. PICK r : r = Release(line[s], k)
    OBVIOUS
  <2>2. PICK l : l = line[s]
    OBVIOUS
  <2>3. r \in Sound /\ Lessens(l, r) /\ Queue(r) = Line!Release(Queue(l), k)
    BY <1>1, <2>1, <2>2, ReleaseSound, LineReleases
  <2>4. LineStep(Queue(l), Queue(r)) /\ Carries(l, r) /\ DOMAIN r.held \subseteq DOMAIN l.held
    BY <2>3 DEF LineStep, Carries, Lessens
  <2>. QED
    BY <2>1, <2>2, <2>3, <2>4, LosesMoves
<1>2. CASE k \notin DOMAIN line[s].held
  <2>1. line'[s] = line[s]
    BY <1>2 DEF Release
  <2>. QED
    BY <2>1, UntouchedMoves
<1>. QED
  BY <1>1, <1>2

\* A line that all its batches leave.
LEMMA SweptMoves ==
    ASSUME generation \in [Parent -> Generation], NEW s \in Scope, line[s] \in Sound,
           NEW batches, DOMAIN line[s].held \subseteq batches,
           line'[s] = ReleaseAll(line[s], batches)
    PROVE  LineMoves(s)
<1>1. PICK r : r = ReleaseAll(line[s], batches)
  OBVIOUS
<1>2. PICK l : l = line[s]
  OBVIOUS
<1>3. r \in Sound /\ Lessens(l, r) /\ Queue(r) = <<>>
  BY <1>1, <1>2, ReleaseAllEffect
<1>4. /\ LineStep(Queue(l), Queue(r)) /\ Carries(l, r)
      /\ DOMAIN r.held \subseteq DOMAIN l.held
  BY <1>3 DEF LineStep, Line!RetireGeneration, Carries, Lessens
<1>. QED
  BY <1>1, <1>2, <1>3, <1>4, LosesMoves

\* A line that admits the batch k, or refuses it.
LEMMA AdmittedMoves ==
    ASSUME NEW s \in Scope, NEW k \in Key, line'[s] \in Sound,
           DOMAIN line'[s].held \subseteq DOMAIN line[s].held \union {k},
           Carries(line[s], line'[s]), k \in born',
           k \in Parent => origin[k] = s[1] /\ generation[k] <= retired[ChannelOf(s[1])] + 1,
           s[1] # "manual" /\ line[s].reserved + BatchBytes <= ScopeBytes =>
              Admits(line[s], line'[s], k)
    PROVE  LineMoves(s)
<1>1. Admits(line[s], line'[s], k) => LineStep(Queue(line[s]), Queue(line'[s]))
  BY DEF Admits, LineStep
<1>. QED
  BY <1>1 DEF LineMoves, Carries

\* The parts of the invariant.
LEMMA InvParts ==
    ASSUME IInv
    PROVE  /\ origin \in [Parent -> Origin] /\ generation \in [Parent -> Generation]
           /\ \A p \in Parent : generation[p] \in Nat
           /\ born \in SUBSET Key /\ line \in [Scope -> LineType]
           /\ retired \in [Channel -> -1 .. MaxGeneration] /\ open \in BOOLEAN
           /\ \A c \in Channel : retired[c] \in Int /\ retired[c] <= retired[c]
           /\ \A s \in Scope : line[s] \in Sound /\ ChannelOf(s[1]) \in Channel
           /\ Submitted
<1>1. \A s \in Scope : ChannelOf(s[1]) \in Channel
  BY DEF Scope, Channel
<1>2. Generation \subseteq Nat
  BY CountAssumption DEF Generation
<1>3. TypeOK /\ Submitted /\ \A s \in Scope : line[s] \in Sound
  BY DEF IInv
<1>4. \A p \in Parent : generation[p] \in Nat
  BY <1>2, <1>3 DEF TypeOK
<1>5. \A c \in Channel : retired[c] \in Int
  <2>1. -1 .. MaxGeneration \subseteq Int
    BY CountAssumption
  <2>. QED
    BY <1>3, <2>1 DEF TypeOK
<1>6. \A c \in Channel : retired[c] <= retired[c]
  BY <1>5
<1>. QED
  BY <1>1, <1>3, <1>4, <1>5, <1>6 DEF TypeOK

\* The sizes that payloads may have.
LEMMA SizeNat == ASSUME NEW bytes \in Size PROVE bytes \in Nat
  BY LimitAssumption

\* A step that submits nobody and retires nothing.
LEMMA QuietKeeps ==
    ASSUME IInv, UNCHANGED <<origin, generation, born, retired>>, open' \in BOOLEAN,
           line' \in [Scope -> Sound], \A s \in Scope : LineMoves(s)
    PROVE  IInv'
<1>1. /\ origin' = origin /\ generation' = generation /\ born' = born /\ retired' = retired
      /\ born' \in SUBSET Key /\ born \subseteq born'
      /\ retired' \in [Channel -> -1 .. MaxGeneration]
      /\ \A c \in Channel : retired[c] <= retired'[c]
  BY InvParts
<1>2. Submitted'
  BY <1>1, InvParts DEF Submitted
<1>. QED
  BY <1>1, <1>2, MovesKeep

\* The lines of a step are those it was said to make.
LEMMA LinesMade ==
    ASSUME NEW f, line' = f, DOMAIN f = Scope, f = [s \in Scope |-> f[s]],
           \A s \in Scope : LineMoves(s)
    PROVE  line' \in [Scope -> Sound]
<1>1. \A s \in Scope : f[s] \in Sound
  BY DEF LineMoves
<1>. QED
  BY <1>1

\* Parents are submitted one after the other.
LEMMA SubmitNext ==
    ASSUME Submitted, NEW p \in Parent, \A q \in Parent : q < p => q \in born,
           born' = born \union {p}
    PROVE  Submitted'
<1>1. SUFFICES ASSUME NEW a \in Parent, NEW b \in Parent, b < a, a \in born'
               PROVE  b \in born'
  BY DEF Submitted
<1>. QED
  BY <1>1 DEF Submitted

\* A parent is admitted, or refused, in the lines of its destinations.
LEMMA AdmitParentKeeps ==
    ASSUME IInv, NEW p \in Parent, NEW D \in SUBSET Destination, NEW bytes \in Size,
           AdmitParent(p, D, bytes)
    PROVE  IInv' /\ \A s \in Scope : LineMoves(s)
<1>1. /\ open /\ p \notin born /\ \A q \in Parent : q < p => q \in born
      /\ born' = born \union {p}
      /\ generation[p] - retired[ChannelOf(origin[p])] \in {0, 1}
      /\ line' = [s \in Scope |->
            IF s[1] = origin[p] /\ s[2] \in D /\ bytes <= BatchBytes
            THEN Admitted(line[s], p, bytes) ELSE line[s]]
      /\ origin' = origin /\ generation' = generation /\ retired' = retired /\ open' = open
  BY DEF AdmitParent
<1>2. p \in Key /\ p \in Nat /\ bytes \in Nat
  BY KeyNat, SizeNat
<1>3. ASSUME NEW s \in Scope PROVE LineMoves(s)
  <2>1. line[s] \in Sound /\ InPlace(s) /\ ChannelOf(s[1]) \in Channel
        /\ generation \in [Parent -> Generation]
    BY InvParts DEF IInv
  <2>2. CASE s[1] = origin[p] /\ s[2] \in D /\ bytes <= BatchBytes
    <3>1. line'[s] = Admitted(line[s], p, bytes)
      BY <1>1, <2>2
    <3>2. p \notin DOMAIN line[s].held
      BY <1>1, <2>1 DEF InPlace
    <3>3. \A j \in DOMAIN line[s].held : j \in Parent => j < p
      <4> SUFFICES ASSUME NEW j \in DOMAIN line[s].held, j \in Parent PROVE j < p
        OBVIOUS
      <4>1. j \in born /\ j # p /\ j \in Nat
        BY <1>1, <2>1, KeyNat DEF InPlace
      <4>2. ~(p < j)
        BY <1>1, <4>1, InvParts DEF Submitted
      <4>. QED
        BY <1>2, <4>1, <4>2
    <3>4. PICK r : r = Admitted(line[s], p, bytes)
      OBVIOUS
    <3>5. PICK l : l = line[s]
      OBVIOUS
    <3>6. /\ r \in Sound /\ DOMAIN r.held \subseteq DOMAIN l.held \union {p}
          /\ Carries(l, r)
          /\ origin[p] # "manual" /\ l.reserved + bytes <= ScopeBytes => Admits(l, r, p)
      BY <1>2, <2>1, <2>2, <3>2, <3>3, <3>4, <3>5, AdmittedSound
    <3>7. l.reserved \in Nat
      BY <2>1, <3>5, LineFields DEF Sound
    <3>8. s[1] # "manual" /\ l.reserved + BatchBytes <= ScopeBytes => Admits(l, r, p)
      <4>1. l.reserved + BatchBytes <= ScopeBytes => l.reserved + bytes <= ScopeBytes
        BY <1>2, <2>2, <3>7, LimitAssumption
      <4>. QED
        BY <2>2, <3>6, <4>1
    <3>9. generation[p] <= retired[ChannelOf(s[1])] + 1 /\ origin[p] = s[1] /\ p \in born'
      <4>1. generation[p] \in Nat /\ retired[ChannelOf(s[1])] \in Int
        BY <2>1, InvParts
      <4>. QED
        BY <1>1, <2>2, <4>1
    <3>. QED
      BY <1>2, <3>1, <3>4, <3>5, <3>6, <3>8, <3>9, AdmittedMoves
  <2>3. CASE ~(s[1] = origin[p] /\ s[2] \in D /\ bytes <= BatchBytes)
    <3>1. line'[s] = line[s]
      BY <1>1, <2>3
    <3>. QED
      BY <2>1, <3>1, UntouchedMoves
  <2>. QED
    BY <2>2, <2>3
<1>4. line' \in [Scope -> Sound]
  BY <1>1, <1>3, LinesMade
<1>5. Submitted'
  BY <1>1, InvParts, SubmitNext
<1>6. /\ born' \in SUBSET Key /\ born \subseteq born' /\ open' \in BOOLEAN
      /\ retired' \in [Channel -> -1 .. MaxGeneration]
      /\ \A c \in Channel : retired[c] <= retired'[c]
  BY <1>1, <1>2, InvParts
<1>. QED
  BY <1>1, <1>3, <1>4, <1>5, <1>6, MovesKeep

\* An event is registered in one line.
LEMMA RegisterEventKeeps ==
    ASSUME IInv, NEW e \in Event, NEW s \in Scope, NEW bytes \in Size,
           RegisterEvent(e, s, bytes)
    PROVE  IInv' /\ \A t \in Scope : LineMoves(t)
<1>1. /\ e \notin born /\ s[1] # "manual" /\ born' = born \union {e}
      /\ line' = [line EXCEPT ![s] = Registered(line[s], e, bytes)]
      /\ origin' = origin /\ generation' = generation /\ retired' = retired /\ open' = open
  BY DEF RegisterEvent, Registered
<1>2. e \in Key /\ e \notin Parent /\ bytes \in Nat
  BY KeyNat, SizeNat
<1>3. \A t \in Scope : line[t] \in Sound /\ InPlace(t)
  BY DEF IInv
<1>4. line \in [Scope -> LineType] /\ generation \in [Parent -> Generation]
  BY InvParts
<1>5. LineMoves(s)
  <2>1. PICK l : l = line[s]
    OBVIOUS
  <2>2. PICK r : r = Registered(l, e, bytes)
    OBVIOUS
  <2>3. line'[s] = r
    BY <1>1, <1>4, <2>1, <2>2
  <2>4. l \in Sound /\ e \notin DOMAIN l.held
    BY <1>1, <1>3, <2>1 DEF InPlace
  <2>5. /\ r \in Sound /\ DOMAIN r.held \subseteq DOMAIN l.held \union {e}
        /\ Carries(l, r)
        /\ l.reserved + BatchBytes <= ScopeBytes => Admits(l, r, e)
    BY <1>2, <1>4, <2>2, <2>4, RegisteredSound
  <2>. QED
    BY <1>1, <1>2, <2>1, <2>3, <2>5, AdmittedMoves
<1>6. ASSUME NEW t \in Scope PROVE LineMoves(t)
  <2>1. CASE t = s
    BY <1>5, <2>1
  <2>2. CASE t # s
    <3>1. line'[t] = line[t]
      BY <1>1, <1>4, <2>2
    <3>. QED
      BY <1>3, <3>1, UntouchedMoves
  <2>. QED
    BY <2>1, <2>2
<1>7. line' \in [Scope -> Sound]
  <2>1. PICK f : f = line'
    OBVIOUS
  <2>2. DOMAIN f = Scope /\ f = [t \in Scope |-> f[t]]
    BY <1>1, <1>4, <2>1
  <2>. QED
    BY <1>6, <2>1, <2>2, LinesMade
<1>8. Submitted'
  <2>1. \A q \in Parent : q \in born' <=> q \in born
    BY <1>1, <1>2
  <2>. QED
    BY <2>1, InvParts DEF Submitted
<1>9. /\ born' \in SUBSET Key /\ born \subseteq born' /\ open' \in BOOLEAN
      /\ retired' \in [Channel -> -1 .. MaxGeneration]
      /\ \A c \in Channel : retired[c] <= retired'[c]
  BY <1>1, <1>2, InvParts
<1>. QED
  BY <1>1, <1>6, <1>7, <1>8, <1>9, MovesKeep

\* The payloads of a parent take more or fewer bytes.
LEMMA ResizeParentKeeps ==
    ASSUME IInv, NEW p \in Parent, NEW D \in SUBSET Destination, NEW bytes \in Size,
           ResizeParent(p, D, bytes)
    PROVE  IInv' /\ \A s \in Scope : LineMoves(s)
<1>1. /\ line' = [s \in Scope |->
            IF s \in Of(p, D) THEN Resized(line[s], p, bytes) ELSE line[s]]
      /\ UNCHANGED <<origin, generation, born, retired>> /\ open' = open
  BY DEF ResizeParent
<1>2. p \in Key /\ bytes \in Nat /\ generation \in [Parent -> Generation]
  BY KeyNat, SizeNat, InvParts
<1>3. ASSUME NEW s \in Scope PROVE LineMoves(s)
  <2>1. line[s] \in Sound
    BY InvParts
  <2>2. CASE s \in Of(p, D)
    <3>1. PICK r : r = Resized(line[s], p, bytes)
      OBVIOUS
    <3>2. PICK l : l = line[s]
      OBVIOUS
    <3>3. /\ r \in Sound /\ DOMAIN r.held \subseteq DOMAIN l.held /\ Carries(l, r)
          /\ Queue(r) = Queue(l) \/ r = Release(l, p)
      BY <1>2, <2>1, <3>1, <3>2, ResizedSound
    <3>4. line'[s] = r
      BY <1>1, <2>2, <3>1
    <3>5. CASE Queue(r) = Queue(l)
      <4>1. LineStep(Queue(l), Queue(r))
        BY <3>5 DEF LineStep
      <4>. QED
        BY <3>2, <3>3, <3>4, <4>1, LosesMoves
    <3>6. CASE r = Release(l, p)
      BY <1>2, <2>1, <3>2, <3>4, <3>6, ReleasedMoves
    <3>. QED
      BY <3>3, <3>5, <3>6
  <2>3. CASE s \notin Of(p, D)
    <3>1. line'[s] = line[s]
      BY <1>1, <2>3
    <3>. QED
      BY <2>1, <3>1, UntouchedMoves
  <2>. QED
    BY <2>2, <2>3
<1>4. line' \in [Scope -> Sound]
  BY <1>1, <1>3, LinesMade
<1>5. open' \in BOOLEAN
  BY <1>1, InvParts
<1>. QED
  BY <1>1, <1>3, <1>4, <1>5, QuietKeeps

\* A parent is complete in some destinations.
LEMMA CompleteParentKeeps ==
    ASSUME IInv, NEW p \in Parent, NEW D \in SUBSET Destination, CompleteParent(p, D)
    PROVE  IInv' /\ \A s \in Scope : LineMoves(s)
<1>1. /\ line' = [s \in Scope |-> IF s \in Of(p, D) THEN Release(line[s], p) ELSE line[s]]
      /\ UNCHANGED <<origin, generation, born, retired>> /\ open' = open
  BY DEF CompleteParent
<1>2. p \in Key /\ generation \in [Parent -> Generation]
  BY KeyNat, InvParts
<1>3. ASSUME NEW s \in Scope PROVE LineMoves(s)
  <2>1. line[s] \in Sound
    BY InvParts
  <2>2. CASE s \in Of(p, D)
    <3>1. line'[s] = Release(line[s], p)
      BY <1>1, <2>2
    <3>. QED
      BY <1>2, <2>1, <3>1, ReleasedMoves
  <2>3. CASE s \notin Of(p, D)
    <3>1. line'[s] = line[s]
      BY <1>1, <2>3
    <3>. QED
      BY <2>1, <3>1, UntouchedMoves
  <2>. QED
    BY <2>2, <2>3
<1>4. line' \in [Scope -> Sound]
  BY <1>1, <1>3, LinesMade
<1>5. open' \in BOOLEAN
  BY <1>1, InvParts
<1>. QED
  BY <1>1, <1>3, <1>4, <1>5, QuietKeeps

\* An event ends.
LEMMA EventEndsKeeps ==
    ASSUME IInv, NEW e \in Event, EventEnds(e)
    PROVE  IInv' /\ \A s \in Scope : LineMoves(s)
<1>1. /\ line' = [s \in Scope |-> Release(line[s], e)]
      /\ UNCHANGED <<origin, generation, born, retired>> /\ open' = open
  BY DEF EventEnds
<1>2. e \in Key /\ generation \in [Parent -> Generation]
  BY KeyNat, InvParts
<1>3. ASSUME NEW s \in Scope PROVE LineMoves(s)
  <2>1. line[s] \in Sound /\ line'[s] = Release(line[s], e)
    BY <1>1, InvParts
  <2>. QED
    BY <1>2, <2>1, ReleasedMoves
<1>4. line' \in [Scope -> Sound]
  BY <1>1, <1>3, LinesMade
<1>5. open' \in BOOLEAN
  BY <1>1, InvParts
<1>. QED
  BY <1>1, <1>3, <1>4, <1>5, QuietKeeps

\* All batches of a line are keys.
LEMMA BatchesAreKeys ==
    ASSUME NEW l \in Sound
    PROVE  DOMAIN l.held \subseteq Key
  BY LineFields DEF Sound

\* Another overlay takes over.
LEMMA ReplaceOverlayKeeps ==
    ASSUME IInv, ReplaceOverlay
    PROVE  IInv' /\ \A s \in Scope : LineMoves(s)
<1>1. /\ line' = [s \in Scope |->
            IF s[2] = "overlay" THEN ReleaseAll(line[s], Key) ELSE line[s]]
      /\ UNCHANGED <<origin, generation, born, retired>> /\ open' = open
  BY DEF ReplaceOverlay
<1>2. generation \in [Parent -> Generation]
  BY InvParts
<1>3. ASSUME NEW s \in Scope PROVE LineMoves(s)
  <2>1. line[s] \in Sound /\ DOMAIN line[s].held \subseteq Key
    BY InvParts, BatchesAreKeys
  <2>2. CASE s[2] = "overlay"
    <3>1. line'[s] = ReleaseAll(line[s], Key)
      BY <1>1, <2>2
    <3>. QED
      BY <1>2, <2>1, <3>1, SweptMoves
  <2>3. CASE s[2] # "overlay"
    <3>1. line'[s] = line[s]
      BY <1>1, <2>3
    <3>. QED
      BY <2>1, <3>1, UntouchedMoves
  <2>. QED
    BY <2>2, <2>3
<1>4. line' \in [Scope -> Sound]
  BY <1>1, <1>3, LinesMade
<1>5. open' \in BOOLEAN
  BY <1>1, InvParts
<1>. QED
  BY <1>1, <1>3, <1>4, <1>5, QuietKeeps

\* The output runtime closes.
LEMMA CloseKeeps ==
    ASSUME IInv, Close
    PROVE  IInv' /\ \A s \in Scope : LineMoves(s)
<1>1. /\ line' = [s \in Scope |-> ReleaseAll(line[s], Key)]
      /\ UNCHANGED <<origin, generation, born, retired>> /\ open' = FALSE
  BY DEF Close
<1>2. generation \in [Parent -> Generation]
  BY InvParts
<1>3. ASSUME NEW s \in Scope PROVE LineMoves(s)
  <2>1. line[s] \in Sound /\ DOMAIN line[s].held \subseteq Key
    BY InvParts, BatchesAreKeys
  <2>2. line'[s] = ReleaseAll(line[s], Key)
    BY <1>1
  <2>. QED
    BY <1>2, <2>1, <2>2, SweptMoves
<1>4. line' \in [Scope -> Sound]
  BY <1>1, <1>3, LinesMade
<1>5. open' \in BOOLEAN
  BY <1>1
<1>. QED
  BY <1>1, <1>3, <1>4, <1>5, QuietKeeps

\* A generation of a channel is retired: every batch of the channel is older.
LEMMA RetireGenerationKeeps ==
    ASSUME IInv, NEW c \in Channel, NEW g \in Generation, RetireGeneration(c, g)
    PROVE  IInv' /\ \A s \in Scope : LineMoves(s)
<1>1. /\ g - 1 > retired[c] /\ retired' = [retired EXCEPT ![c] = g - 1]
      /\ line' = [s \in Scope |->
            Dropped(IF ChannelOf(s[1]) = c THEN ReleaseAll(line[s], Outdated(g))
                    ELSE line[s], s, c, g)]
      /\ origin' = origin /\ generation' = generation /\ born' = born /\ open' = open
  BY DEF RetireGeneration
<1>2. /\ generation \in [Parent -> Generation] /\ retired \in [Channel -> -1 .. MaxGeneration]
      /\ \A d \in Channel : retired[d] \in Int
      /\ \A p \in Parent : generation[p] \in Nat
  BY InvParts
<1>3. g \in Nat /\ g <= MaxGeneration /\ MaxGeneration \in Nat /\ retired[c] \in Int
  BY <1>2, CountAssumption DEF Generation
<1>4. retired'[c] = g - 1 /\ \A d \in Channel : d # c => retired'[d] = retired[d]
  BY <1>1, <1>2
<1>5. /\ retired' \in [Channel -> -1 .. MaxGeneration]
      /\ \A d \in Channel : retired[d] <= retired'[d]
  <2>1. g - 1 \in -1 .. MaxGeneration
    BY <1>3
  <2>2. retired' \in [Channel -> -1 .. MaxGeneration]
    BY <1>1, <1>2, <2>1
  <2>3. ASSUME NEW d \in Channel PROVE retired[d] <= retired'[d]
    <3>1. CASE d = c
      BY <1>1, <1>3, <1>4, <3>1
    <3>2. CASE d # c
      BY <1>2, <1>4, <3>2
    <3>. QED
      BY <3>1, <3>2
  <2>. QED
    BY <2>2, <2>3
<1>6. ASSUME NEW s \in Scope PROVE LineMoves(s)
  <2>1. line[s] \in Sound /\ InPlace(s)
    BY DEF IInv
  <2>2. PICK m : m = IF ChannelOf(s[1]) = c THEN ReleaseAll(line[s], Outdated(g)) ELSE line[s]
    OBVIOUS
  <2>3. PICK l : l = line[s]
    OBVIOUS
  <2>4. /\ m \in Sound /\ Carries(l, m) /\ DOMAIN m.held \subseteq DOMAIN l.held
        /\ LineStep(Queue(l), Queue(m))
    <3>1. CASE ChannelOf(s[1]) = c
      <4>1. DOMAIN l.held \subseteq Outdated(g)
        <5> SUFFICES ASSUME NEW k \in DOMAIN l.held PROVE k \in Outdated(g)
          OBVIOUS
        <5>1. k \in Key
          BY <2>1, <2>3, BatchesAreKeys
        <5>2. k \in Parent => generation[k] <= retired[c] + 1
          BY <2>1, <2>3, <3>1 DEF InPlace
        <5>3. k \in Parent => generation[k] < g
          BY <1>1, <1>2, <1>3, <5>2
        <5>. QED
          BY <5>1, <5>3, KeyNat DEF Outdated
      <4>2. m = ReleaseAll(l, Outdated(g))
        BY <2>2, <2>3, <3>1
      <4>3. m \in Sound /\ Lessens(l, m) /\ Queue(m) = <<>>
        BY <1>2, <2>1, <2>3, <4>1, <4>2, ReleaseAllEffect
      <4>. QED
        BY <4>3 DEF Lessens, Carries, LineStep, Line!RetireGeneration
    <3>2. CASE ChannelOf(s[1]) # c
      <4>1. m = l
        BY <2>2, <2>3, <3>2
      <4>. QED
        BY <2>1, <2>3, <4>1 DEF Carries, LineStep
    <3>. QED
      BY <3>1, <3>2
  <2>5. PICK r : r = Dropped(m, s, c, g)
    OBVIOUS
  <2>6. line'[s] = r
    BY <1>1, <2>2, <2>5
  <2>7. /\ r \in Sound /\ Queue(r) = Queue(m) /\ r.held = m.held
        /\ \A h \in Generation :
              Exact(m, h) => Exact(r, h) \/ (s[1] \in {c, "manual"} /\ h < g)
    BY <2>4, <2>5, DroppedSound
  <2>8. ASSUME NEW h \in Generation, Exact(l, h)
        PROVE  Exact(r, h) \/ MayBeDropped(s, h)'
    <3>1. Exact(m, h)
      BY <2>4, <2>8 DEF Carries
    <3>2. (s[1] \in {c, "manual"} /\ h < g) => MayBeDropped(s, h)'
      <4>1. h < g => h <= retired'[c]
        BY <1>3, <1>4, CountAssumption DEF Generation
      <4>. QED
        BY <4>1 DEF MayBeDropped
    <3>. QED
      BY <2>7, <3>1, <3>2
  <2>. QED
    BY <2>3, <2>4, <2>6, <2>7, <2>8 DEF LineMoves
<1>7. line' \in [Scope -> Sound]
  BY <1>1, <1>6, LinesMade
<1>8. Submitted' /\ born' \in SUBSET Key /\ born \subseteq born' /\ open' \in BOOLEAN
  BY <1>1, InvParts DEF Submitted
<1>. QED
  BY <1>1, <1>5, <1>6, <1>7, <1>8, MovesKeep

-------------------------------------------------------------------------------
(* The theorems.                                                          *)

\* A line that nobody has used is sound, and remembers nothing.
LEMMA EmptyLine ==
    Empty \in Sound /\ DOMAIN Empty.held = {} /\ \A g \in Generation : Exact(Empty, g)
<1>1. <<>> \in Seq(Key) /\ <<>> \in Seq(Pair) /\ Len(<<>>) = 0 /\ DOMAIN <<>> = {}
  OBVIOUS
<1>2. <<>> \in [{} -> Nat] /\ <<>> \in Held
  <2>1. <<>> \in [{} -> Nat]
    BY <1>1
  <2>. QED
    BY <2>1, HeldMade
<1>3. /\ Empty.active = Nobody /\ Empty.waiting = <<>> /\ Empty.held = <<>>
      /\ Empty.reserved = 0 /\ Empty.unready = {} /\ Empty.over = {}
      /\ Empty.ranges = [g \in Generation |-> <<>>]
      /\ Empty = [active |-> Nobody, waiting |-> <<>>, held |-> <<>>, reserved |-> 0,
                  unready |-> {}, over |-> {}, ranges |-> [g \in Generation |-> <<>>]]
  BY DEF Empty
<1>4. [g \in Generation |-> <<>>] \in [Generation -> Seq(Pair)]
  BY <1>1
<1>5. Empty \in LineType
  BY <1>1, <1>2, <1>3, <1>4 DEF LineType
<1>6. Queue(Empty) = <<>>
  BY <1>3 DEF Queue
<1>7. Elements(<<>>, 1) = {} /\ Elements(<<>>, 2) = {} /\ Distinct(<<>>) /\ InOrder(<<>>)
  BY <1>1 DEF Elements, Distinct, InOrder
<1>8. Placed(Empty)
  BY <1>1, <1>3, <1>6, <1>7 DEF Placed
<1>9. Charged(Empty)
  <2>1. Total(<<>>) = 0
    BY <1>2, TotalOfNone
  <2>. QED
    BY <1>1, <1>3, <2>1, LimitAssumption DEF Charged
<1>10. Empty \in Sound
  <2>1. Len(Empty.waiting) <= MaxUnsent
    BY <1>1, <1>3, LimitAssumption
  <2>. QED
    BY <1>5, <1>6, <1>7, <1>8, <1>9, <2>1 DEF Sound
<1>11. ASSUME NEW g \in Generation PROVE Exact(Empty, g)
  <2>1. Empty.ranges[g] = <<>>
    BY <1>3
  <2>2. Apart(<<>>) /\ \A x : ~Covers(<<>>, x)
    BY <1>1 DEF Apart, Covers
  <2>. QED
    BY <1>3, <2>1, <2>2 DEF Exact
<1>. QED
  BY <1>1, <1>3, <1>10, <1>11

\* The invariant holds at the start.
LEMMA InitInv == Init => IInv
<1> SUFFICES ASSUME Init PROVE IInv
  OBVIOUS
<1>1. /\ origin \in [Parent -> Origin] /\ generation \in [Parent -> Generation]
      /\ born = {} /\ line = [s \in Scope |-> Empty]
      /\ retired = [c \in Channel |-> -1] /\ open = TRUE
  BY DEF Init
<1>2. \A s \in Scope : line[s] = Empty
  BY <1>1
<1>3. Empty \in LineType
  BY EmptyLine DEF Sound
<1>4. retired \in [Channel -> -1 .. MaxGeneration]
  <2>1. -1 \in -1 .. MaxGeneration
    BY CountAssumption
  <2>. QED
    BY <1>1, <2>1
<1>5. TypeOK
  BY <1>1, <1>3, <1>4 DEF TypeOK
<1>6. Submitted
  BY <1>1 DEF Submitted
<1>7. \A s \in Scope : line[s] \in Sound /\ InPlace(s) /\ Remembered(s)
  BY <1>2, EmptyLine DEF InPlace, Remembered
<1>. QED
  BY <1>5, <1>6, <1>7 DEF IInv

\* Every step keeps the invariant and moves the lines as OutputLine says.
LEMMA NextInv == IInv /\ [Next]_vars => IInv' /\ \A s \in Scope : LineMoves(s)
<1> SUFFICES ASSUME IInv, [Next]_vars PROVE IInv' /\ \A s \in Scope : LineMoves(s)
  OBVIOUS
<1>1. ASSUME NEW p \in Parent, NEW D \in SUBSET Destination, NEW bytes \in Size,
             AdmitParent(p, D, bytes)
      PROVE  IInv' /\ \A s \in Scope : LineMoves(s)
  BY <1>1, AdmitParentKeeps
<1>2. ASSUME NEW p \in Parent, NEW D \in SUBSET Destination, NEW bytes \in Size,
             ResizeParent(p, D, bytes)
      PROVE  IInv' /\ \A s \in Scope : LineMoves(s)
  BY <1>2, ResizeParentKeeps
<1>3. ASSUME NEW p \in Parent, NEW D \in SUBSET Destination, CompleteParent(p, D)
      PROVE  IInv' /\ \A s \in Scope : LineMoves(s)
  BY <1>3, CompleteParentKeeps
<1>4. ASSUME NEW e \in Event, NEW s \in Scope, NEW bytes \in Size, RegisterEvent(e, s, bytes)
      PROVE  IInv' /\ \A t \in Scope : LineMoves(t)
  BY <1>4, RegisterEventKeeps
<1>5. ASSUME NEW e \in Event, EventEnds(e)
      PROVE  IInv' /\ \A s \in Scope : LineMoves(s)
  BY <1>5, EventEndsKeeps
<1>6. ASSUME NEW c \in Channel, NEW g \in Generation, RetireGeneration(c, g)
      PROVE  IInv' /\ \A s \in Scope : LineMoves(s)
  BY <1>6, RetireGenerationKeeps
<1>7. CASE ReplaceOverlay
  BY <1>7, ReplaceOverlayKeeps
<1>8. CASE Close
  BY <1>8, CloseKeeps
<1>9. CASE UNCHANGED vars
  <2>1. /\ UNCHANGED <<origin, generation, born, retired>> /\ open' = open /\ line' = line
    BY <1>9 DEF vars
  <2>2. \A s \in Scope : LineMoves(s)
    BY <2>1, InvParts, UntouchedMoves
  <2>3. line' \in [Scope -> Sound]
    <3>1. \A s \in Scope : line[s] \in Sound
      BY InvParts
    <3>2. line \in [Scope -> LineType]
      BY InvParts
    <3>. QED
      BY <2>1, <3>1, <3>2
  <2>4. open' \in BOOLEAN
    BY <2>1, InvParts
  <2>. QED
    BY <2>1, <2>2, <2>3, <2>4, QuietKeeps
<1>. QED
  BY <1>1, <1>2, <1>3, <1>4, <1>5, <1>6, <1>7, <1>8, <1>9 DEF Next

\* The inductive invariant: the lines are sound, and what they hold and remember
\* agrees with who was submitted and which generations are retired.
THEOREM Invariance == Spec => []IInv
<1>1. IInv /\ [Next]_vars => IInv'
  BY NextInv
<1>. QED
  BY InitInv, <1>1, PTL DEF Spec

\* The entries of every line keep their types: only submitted batches are active,
\* waiting or charged, and only parents are remembered.
THEOREM TypeCorrect == Spec => []TypeOK
<1>1. IInv => TypeOK
  BY DEF IInv
<1>. QED
  BY Invariance, <1>1, PTL

\* As many batches wait as there are places behind the active one.
LEMMA WaitingCount ==
    ASSUME NEW w \in Seq(Key), Distinct(w)
    PROVE  Cardinality(ToSet(w)) = Len(w)
<1>1. Len(w) \in Nat /\ DOMAIN w = 1 .. Len(w) /\ w \in [1 .. Len(w) -> Key]
  BY LenProperties
<1>2. PICK f : f = [i \in 1 .. Len(w) |-> w[i]]
  OBVIOUS
<1>3. PICK T : T = ToSet(w)
  OBVIOUS
<1>4. T = {w[i] : i \in 1 .. Len(w)}
  BY <1>1, <1>3 DEF ToSet
<1>5. f \in [1 .. Len(w) -> T] /\ \A t \in T : \E i \in 1 .. Len(w) : f[i] = t
  BY <1>2, <1>4
<1>6. \A i, j \in 1 .. Len(w) : f[i] = f[j] => i = j
  BY <1>2 DEF Distinct
<1>7. f \in Surjection(1 .. Len(w), T)
  BY <1>5 DEF Surjection
<1>8. f \in Injection(1 .. Len(w), T)
  BY <1>5, <1>6 DEF Injection, IsInjective
<1>9. IsFiniteSet(1 .. Len(w)) /\ Cardinality(1 .. Len(w)) = Len(w)
  BY <1>1, FS_Interval
<1>10. Cardinality(T) = Cardinality(1 .. Len(w))
  BY <1>7, <1>8, <1>9, FS_Surjection
<1>. QED
  BY <1>3, <1>9, <1>10

\* The waiting batches, and the places behind the active one.
LEMMA WaitingPlaces ==
    ASSUME NEW l \in Sound
    PROVE  /\ ToSet(l.waiting) = Elements(Queue(l), 2) /\ Distinct(l.waiting)
           /\ l.active \notin ToSet(l.waiting)
           /\ ToSet(Queue(l)) = Elements(Queue(l), 1)
           /\ l.active = Nobody => ToSet(l.waiting) = {}
<1>1. /\ l \in LineType /\ Distinct(Queue(l)) /\ (l.active = Nobody => l.waiting = <<>>)
      /\ l.waiting \in Seq(Key) /\ Len(l.waiting) \in Nat /\ DOMAIN l.waiting = 1 .. Len(l.waiting)
  BY LineFields, LenProperties DEF Sound, Placed
<1>2. PICK q : q = Queue(l)
  OBVIOUS
<1>3. PICK w : w = l.waiting
  OBVIOUS
<1>4. /\ q \in Seq(Key) /\ Len(q) \in Nat /\ DOMAIN q = 1 .. Len(q) /\ Len(w) \in Nat
      /\ l.active = Nobody => Len(q) = 0
      /\ l.active # Nobody =>
            /\ Len(q) = Len(w) + 1 /\ q[1] = l.active
            /\ \A i \in 1 .. Len(w) : q[i + 1] = w[i]
  BY <1>1, <1>2, <1>3, QueuePlaces, LenProperties
<1>5. ToSet(q) = Elements(q, 1)
  BY <1>4 DEF ToSet, Elements
<1>6. ToSet(w) = {w[i] : i \in 1 .. Len(w)}
  BY <1>1, <1>3 DEF ToSet
<1>7. CASE l.active = Nobody
  <2>1. Len(w) = 0 /\ w = <<>>
    BY <1>1, <1>3, <1>7
  <2>2. ToSet(w) = {} /\ Elements(q, 2) = {} /\ Distinct(w)
    BY <1>4, <1>6, <1>7, <2>1 DEF Elements, Distinct
  <2>. QED
    BY <1>2, <1>3, <1>5, <2>2
<1>8. CASE l.active # Nobody
  <2>1. /\ Len(q) = Len(w) + 1 /\ q[1] = l.active
        /\ \A i \in 1 .. Len(w) : q[i + 1] = w[i] /\ i + 1 \in 2 .. Len(q) /\ i + 1 \in 1 .. Len(q)
    <3>1. /\ Len(q) = Len(w) + 1 /\ q[1] = l.active
          /\ \A i \in 1 .. Len(w) : q[i + 1] = w[i]
      BY <1>4, <1>8
    <3>2. Len(w) \in Nat
      BY <1>4
    <3>3. \A i \in 1 .. Len(w) : i + 1 \in 2 .. Len(w) + 1 /\ i + 1 \in 1 .. Len(w) + 1
      BY <3>2
    <3>. QED
      BY <3>1, <3>3
  <2>2. \A j \in 2 .. Len(q) : j - 1 \in 1 .. Len(w) /\ q[j] = w[j - 1]
    <3> SUFFICES ASSUME NEW j \in 2 .. Len(q) PROVE j - 1 \in 1 .. Len(w) /\ q[j] = w[j - 1]
      OBVIOUS
    <3>1. j - 1 \in 1 .. Len(w) /\ (j - 1) + 1 = j
      BY <1>4, <2>1
    <3>. QED
      BY <2>1, <3>1
  <2>3. ToSet(w) = Elements(q, 2)
    <3>1. \A x \in ToSet(w) : x \in Elements(q, 2)
      BY <1>6, <2>1 DEF Elements
    <3>2. \A x \in Elements(q, 2) : x \in ToSet(w)
      BY <1>6, <2>2 DEF Elements
    <3>. QED
      BY <3>1, <3>2
  <2>4. Distinct(w)
    <3> SUFFICES ASSUME NEW i \in 1 .. Len(w), NEW j \in 1 .. Len(w), w[i] = w[j]
                 PROVE  i = j
      BY DEF Distinct
    <3>1. i + 1 = j + 1
      BY <1>1, <1>2, <2>1 DEF Distinct
    <3>2. i \in Int /\ j \in Int
      OBVIOUS
    <3>. QED
      BY <3>1, <3>2
  <2>5. l.active \notin ToSet(w)
    <3> SUFFICES ASSUME NEW i \in 1 .. Len(w), w[i] = l.active PROVE FALSE
      BY <1>6
    <3>1. q[i + 1] = q[1] /\ i + 1 \in 1 .. Len(q) /\ 1 \in 1 .. Len(q)
      BY <1>4, <2>1
    <3>2. i + 1 = 1
      BY <1>1, <1>2, <3>1 DEF Distinct
    <3>3. i \in Int /\ i >= 1
      OBVIOUS
    <3>. QED
      BY <3>2, <3>3
  <2>. QED
    BY <1>2, <1>3, <1>5, <1>8, <2>3, <2>4, <2>5
<1>. QED
  BY <1>7, <1>8

\* Whoever waits for a batch is woken: release and promotion never leave a batch
\* unready that no active batch stands before.
THEOREM Stranded == Spec => []NobodyStranded
<1>1. ASSUME IInv PROVE NobodyStranded
  <2> SUFFICES ASSUME NEW s \in Scope, NEW l, l = line[s]
               PROVE  /\ l.unready = ToSet(l.waiting)
                      /\ Cardinality(ToSet(l.waiting)) = Len(l.waiting)
                      /\ DOMAIN l.held = ToSet(Queue(l))
                      /\ l.active \notin ToSet(l.waiting)
                      /\ l.active = Nobody => ToSet(l.waiting) = {}
    BY DEF NobodyStranded
  <2>1. l \in Sound /\ l.waiting \in Seq(Key)
    <3>1. l \in Sound
      BY <1>1 DEF IInv
    <3>. QED
      BY <3>1, LineFields DEF Sound
  <2>2. DOMAIN l.held = Elements(Queue(l), 1) /\ l.unready = Elements(Queue(l), 2)
    BY <2>1 DEF Sound, Placed
  <2>. QED
    BY <2>1, <2>2, WaitingPlaces, WaitingCount
<1>. QED
  BY Invariance, <1>1, PTL

\* The byte budget of a scope is what its batches hold, through admissions,
\* evictions, releases and changes of size, and it is never exceeded.
THEOREM Bytes == Spec => []BytesExact
<1>1. IInv => BytesExact
  BY DEF IInv, Sound, Charged, Total, BytesExact
<1>. QED
  BY Invariance, <1>1, PTL

\* The merged ranges of retired orders say exactly which parents of a live
\* generation are over, in increasing order and without touching.
THEOREM Ranges == Spec => []RangesExact
<1>1. ASSUME IInv PROVE RangesExact
  <2> SUFFICES ASSUME NEW s \in Scope, NEW g \in Generation, NEW m, m = line[s].ranges[g],
                      ~MayBeDropped(s, g)
               PROVE  /\ UNION {m[i][1] .. m[i][2] : i \in DOMAIN m}
                            = {p \in line[s].over : generation[p] = g}
                      /\ \A i \in DOMAIN m : m[i][1] <= m[i][2]
                      /\ \A i, j \in DOMAIN m : i < j => m[i][2] + 1 < m[j][1]
    BY DEF RangesExact
  <2>1. line[s] \in LineType /\ Exact(line[s], g)
    BY <1>1 DEF IInv, Remembered, Sound
  <2>2. m \in Seq(Pair) /\ DOMAIN m = 1 .. Len(m)
    BY <2>1, LineFields, LenProperties
  <2>3. \A i \in DOMAIN m : m[i][1] \in Nat /\ m[i][2] \in Nat
    <3>1. \A i \in DOMAIN m : m[i] \in Pair
      BY <2>2, ElementOfSeq
    <3>. QED
      BY <3>1 DEF Pair
  <2>4. Apart(m) /\ \A x \in Nat : Covers(m, x) <=> x \in line[s].over /\ generation[x] = g
    BY <2>1 DEF Exact
  <2>5. ASSUME NEW x \in UNION {m[i][1] .. m[i][2] : i \in DOMAIN m}
        PROVE  x \in line[s].over /\ generation[x] = g
    <3>1. PICK i \in DOMAIN m : x \in m[i][1] .. m[i][2]
      OBVIOUS
    <3>2. x \in Nat /\ m[i][1] <= x /\ x <= m[i][2]
      BY <2>3, <3>1
    <3>3. Covers(m, x)
      BY <2>2, <3>2 DEF Covers
    <3>. QED
      BY <2>4, <3>2, <3>3
  <2>6. ASSUME NEW x \in line[s].over, generation[x] = g
        PROVE  x \in UNION {m[i][1] .. m[i][2] : i \in DOMAIN m}
    <3>1. x \in Nat
      <4>1. x \in Parent
        BY <2>1, LineFields
      <4>. QED
        BY <4>1, KeyNat
    <3>2. PICK i \in 1 .. Len(m) : m[i][1] <= x /\ x <= m[i][2]
      BY <2>4, <2>6, <3>1 DEF Covers
    <3>3. x \in m[i][1] .. m[i][2]
      BY <2>2, <2>3, <3>1, <3>2
    <3>. QED
      BY <2>2, <3>3
  <2>. QED
    BY <2>2, <2>4, <2>5, <2>6 DEF Apart
<1>. QED
  BY Invariance, <1>1, PTL

\* No two lines disagree on the order of two parents, so that two publishers that
\* wait for their places one after the other never wait for each other.
THEOREM SameOrder == Spec => []SameOrderEverywhere
<1>1. ASSUME IInv PROVE SameOrderEverywhere
  <2>1. ASSUME NEW s \in Scope, NEW a \in Parent, NEW b \in Parent, Before(Queue(line[s]), a, b)
        PROVE  a < b
    <3>1. line[s] \in LineType /\ InOrder(Queue(line[s]))
      BY <1>1 DEF IInv, Sound
    <3>2. DOMAIN Queue(line[s]) = 1 .. Len(Queue(line[s]))
      BY <3>1, QueuePlaces, LenProperties
    <3>3. PICK i \in DOMAIN Queue(line[s]), j \in DOMAIN Queue(line[s]) :
              i < j /\ Queue(line[s])[i] = a /\ Queue(line[s])[j] = b
      BY <2>1 DEF Before
    <3>. QED
      BY <3>1, <3>2, <3>3 DEF InOrder
  <2> SUFFICES ASSUME NEW o \in Origin, NEW d \in Destination, NEW e \in Destination,
                      NEW a \in Parent, NEW b \in Parent,
                      Before(Queue(line[<<o, d>>]), a, b), Before(Queue(line[<<o, e>>]), b, a)
               PROVE  FALSE
    BY DEF SameOrderEverywhere
  <2>2. <<o, d>> \in Scope /\ <<o, e>> \in Scope
    BY DEF Scope
  <2>3. a < b /\ b < a
    BY <2>1, <2>2
  <2>4. a \in Nat /\ b \in Nat
    BY KeyNat
  <2>. QED
    BY <2>3, <2>4
<1>. QED
  BY Invariance, <1>1, PTL

\* Every step of the admission is, on a line where another batch fits in the bytes,
\* a step of OutputLine: it admits behind the others after evicting the oldest that
\* waits, releases one place, or empties the line.
THEOREM Implements == Spec => ImplementsLine
<1>1. ASSUME IInv, [Next]_vars
      PROVE  \A s \in Scope :
                s[1] # "manual" /\ line[s].reserved + BatchBytes <= ScopeBytes =>
                    LineStep(Queue(line[s]), Queue(line'[s]))
  BY <1>1, NextInv DEF LineMoves
<1>2. IInv /\ [Next]_vars =>
          [\A s \in Scope :
              s[1] # "manual" /\ line[s].reserved + BatchBytes <= ScopeBytes =>
                  LineStep(Queue(line[s]), Queue(line'[s]))]_vars
  BY <1>1
<1>. QED
  BY Invariance, <1>2, PTL DEF Spec, ImplementsLine
===============================================================================
