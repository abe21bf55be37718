--------------------------- MODULE TieringProofs ---------------------------
(***************************************************************************)
(* What the maintenance calls pick keeps the caps and outweighs its        *)
(* largest input, every turn of their loops leaves fewer segments, and no  *)
(* step of them loses a live item: for every list of segments and every    *)
(* TierConfig.                                                             *)
(***************************************************************************)
EXTENDS Tiering, FiniteSetTheorems, TLAPS

-----------------------------------------------------------------------------
(* Induction over the naturals, as a fact about sets of them.              *)

\* A set with 0 and, with n, n + 1 holds every natural number.
LEMMA NatsBySteps ==
  ASSUME NEW S, 0 \in S, \A n \in Nat : n \in S => n + 1 \in S
  PROVE  \A n \in Nat : n \in S
<1> DEFINE less    == {ss \in Nat \X Nat : ss[1] < ss[2]}
           outside == {n \in Nat : n \notin S}
<1> SUFFICES ASSUME outside # {} PROVE FALSE
  OBVIOUS
<1>1. \A x, y \in Nat : <<x, y>> \in less <=> x < y
  OBVIOUS
<1>2. IsWellFoundedOn(less, Nat)
  BY NatLessThanWellFounded, Zenon DEF OpToRel
<1> HIDE DEF less
<1>3. PICK n \in outside : \A m \in outside : ~(<<m, n>> \in less)
  <2>1. outside \in SUBSET Nat
    OBVIOUS
  <2> QED  BY <1>2, <2>1, WFMin
<1>4. n \in Nat /\ n \notin S /\ n # 0
  OBVIOUS
<1>5. n - 1 \in Nat /\ n - 1 < n /\ (n - 1) + 1 = n
  BY <1>4
<1>6. n - 1 \in outside
  BY <1>4, <1>5
<1> QED  BY <1>1, <1>3, <1>4, <1>5, <1>6

-----------------------------------------------------------------------------
(* Sums.                                                                   *)

\* Step k of the sum of the sizes of a group.
Adds(sizes, group, sum, k) ==
  sum[k] = sum[k - 1] + (IF k \in group THEN sizes[k] ELSE 0)

\* sum holds the running sums of a group's sizes.
Sums(sizes, group, sum) ==
  /\ sum \in [0 .. Len(sizes) -> Nat]
  /\ sum[0] = 0
  /\ \A k \in 1 .. Len(sizes) : Adds(sizes, group, sum, k)

\* What the recursion of Total makes of a function, up to position n.
Summed(sizes, group, f, n) ==
  [k \in 0 .. n |-> IF k = 0 THEN 0
                     ELSE f[k - 1] + (IF k \in group THEN sizes[k] ELSE 0)]

\* The recursion of Total has a solution.
LEMMA SumExists ==
  ASSUME NEW sizes, NEW group, NEW n \in Nat
  PROVE  \E f : f = Summed(sizes, group, f, n)
<1> DEFINE F(f, m) == Summed(sizes, group, f, m)
           S == {m \in Nat : \E f : f = F(f, m)}
<1> USE DEF Summed
<1>1. 0 \in S
  <2> DEFINE g == [k \in 0 .. 0 |-> 0]
  <2>1. g = F(g, 0)
    OBVIOUS
  <2> QED  BY <2>1
<1>2. ASSUME NEW m \in Nat, m \in S
      PROVE  m + 1 \in S
  <2>1. PICK f : f = F(f, m)
    BY <1>2
  <2> DEFINE g == [k \in 0 .. m + 1 |->
                     IF k = 0 THEN 0
                       ELSE f[k - 1] + (IF k \in group THEN sizes[k] ELSE 0)]
  <2>2. \A k \in 0 .. m : g[k] = f[k]
    <3> SUFFICES ASSUME NEW k \in 0 .. m PROVE g[k] = f[k]
      OBVIOUS
    <3>1. k \in 0 .. m + 1
      OBVIOUS
    <3>2. F(f, m)[k] = g[k]
      BY <3>1
    <3> QED  BY <2>1, <3>2
  <2>3. \A k \in 0 .. m + 1 :
          g[k] = IF k = 0 THEN 0
                   ELSE g[k - 1] + (IF k \in group THEN sizes[k] ELSE 0)
    <3> SUFFICES ASSUME NEW k \in 0 .. m + 1, k # 0
                 PROVE  g[k] = g[k - 1] + (IF k \in group THEN sizes[k] ELSE 0)
      OBVIOUS
    <3>1. k - 1 \in 0 .. m
      OBVIOUS
    <3> QED  BY <2>2, <3>1
  <2>4. g = F(g, m + 1)
    BY <2>3
  <2> HIDE DEF g, F
  <2>5. \E h : h = F(h, m + 1)
    BY <2>4
  <2> QED  BY <2>5
<1> HIDE DEF S, Summed
<1>3. n \in S
  BY <1>1, <1>2, NatsBySteps
<1> QED  BY <1>3 DEF S

\* Total is the last of the running sums.
LEMMA TotalSums ==
  ASSUME NEW sizes \in Seq(Nat), NEW group
  PROVE  \E sum : Sums(sizes, group, sum) /\ Total(sizes, group) = sum[Len(sizes)]
<1>9. \E f : f = Summed(sizes, group, f, Len(sizes))
  <2>1. Len(sizes) \in Nat
    OBVIOUS
  <2> QED  BY <2>1, SumExists
<1> DEFINE F(f) == [k \in 0 .. Len(sizes) |->
                      IF k = 0 THEN 0
                        ELSE f[k - 1] + (IF k \in group THEN sizes[k] ELSE 0)]
           sum == CHOOSE f : f = F(f)
           S == {k \in Nat : k <= Len(sizes) => sum[k] \in Nat}
<1>0. Len(sizes) \in Nat /\ \A k \in 1 .. Len(sizes) : sizes[k] \in Nat
  OBVIOUS
<1>1. sum = F(sum)
  <2>1. \E f : f = F(f)
    BY <1>9 DEF Summed
  <2> HIDE DEF F
  <2> QED  BY <2>1
<1>2. Total(sizes, group) = sum[Len(sizes)]
  BY DEF Total
<1> HIDE DEF sum
<1>3. /\ DOMAIN sum = 0 .. Len(sizes)
      /\ sum[0] = 0
      /\ \A k \in 1 .. Len(sizes) :
           sum[k] = sum[k - 1] + (IF k \in group THEN sizes[k] ELSE 0)
  <2>1. \A k \in 0 .. Len(sizes) :
          sum[k] = IF k = 0 THEN 0
                     ELSE sum[k - 1] + (IF k \in group THEN sizes[k] ELSE 0)
    <3> HIDE DEF F
    <3>1. \A k \in 0 .. Len(sizes) : sum[k] = F(sum)[k]
      BY <1>1
    <3> QED  BY <3>1 DEF F
  <2>2. DOMAIN sum = 0 .. Len(sizes)
    BY <1>1
  <2> QED  BY <1>0, <2>1, <2>2
<1>4. \A k \in 0 .. Len(sizes) : sum[k] \in Nat
  <2>1. 0 \in S
    BY <1>3
  <2>2. ASSUME NEW k \in Nat, k \in S
        PROVE  k + 1 \in S
    <3>1. CASE k + 1 <= Len(sizes)
      <4>1. k + 1 \in 1 .. Len(sizes) /\ (k + 1) - 1 = k /\ sum[k] \in Nat
        BY <1>0, <2>2, <3>1
      <4>2. sum[k + 1] = sum[k] + (IF k + 1 \in group THEN sizes[k + 1] ELSE 0)
        BY <1>3, <4>1
      <4>3. sum[k + 1] \in Nat
        BY <1>0, <4>1, <4>2
      <4> QED  BY <4>3
    <3> QED  BY <3>1
  <2> HIDE DEF S
  <2>3. \A k \in Nat : k \in S
    BY <2>1, <2>2, NatsBySteps
  <2> QED  BY <1>0, <2>3 DEF S
<1>5. sum \in [0 .. Len(sizes) -> Nat]
  <2>1. sum = [k \in 0 .. Len(sizes) |-> sum[k]]
    BY <1>1
  <2> QED  BY <1>4, <2>1
<1> QED  BY <1>2, <1>3, <1>5 DEF Sums, Adds

\* A total is a natural number.
LEMMA TotalType ==
  ASSUME NEW sizes \in Seq(Nat), NEW group
  PROVE  Total(sizes, group) \in Nat
<1>1. PICK sum : Sums(sizes, group, sum) /\ Total(sizes, group) = sum[Len(sizes)]
  BY TotalSums
<1> QED  BY <1>1 DEF Sums

\* The total of two groups apart is the sum of theirs.
LEMMA TotalUnion ==
  ASSUME NEW sizes \in Seq(Nat), NEW a, NEW b, a \cap b = {}
  PROVE  Total(sizes, a \cup b) = Total(sizes, a) + Total(sizes, b)
<1>0. Len(sizes) \in Nat /\ \A k \in 1 .. Len(sizes) : sizes[k] \in Nat
  OBVIOUS
<1>1. PICK f : Sums(sizes, a, f) /\ Total(sizes, a) = f[Len(sizes)]
  BY TotalSums
<1>2. PICK g : Sums(sizes, b, g) /\ Total(sizes, b) = g[Len(sizes)]
  BY TotalSums
<1>3. PICK h : Sums(sizes, a \cup b, h) /\ Total(sizes, a \cup b) = h[Len(sizes)]
  BY TotalSums
<1> DEFINE S == {k \in Nat : k <= Len(sizes) => h[k] = f[k] + g[k]}
<1>4. 0 \in S
  BY <1>1, <1>2, <1>3 DEF Sums
<1>5. ASSUME NEW k \in Nat, k \in S
      PROVE  k + 1 \in S
  <2>1. CASE k + 1 <= Len(sizes)
    <3>1. k + 1 \in 1 .. Len(sizes) /\ k \in 0 .. Len(sizes) /\ (k + 1) - 1 = k
          /\ h[k] = f[k] + g[k]
      BY <1>0, <1>5, <2>1
    <3>2. f[k] \in Nat /\ g[k] \in Nat /\ sizes[k + 1] \in Nat
      BY <1>0, <1>1, <1>2, <3>1 DEF Sums
    <3>3. /\ f[k + 1] = f[k] + (IF k + 1 \in a THEN sizes[k + 1] ELSE 0)
          /\ g[k + 1] = g[k] + (IF k + 1 \in b THEN sizes[k + 1] ELSE 0)
          /\ h[k + 1] = h[k] + (IF k + 1 \in a \cup b THEN sizes[k + 1] ELSE 0)
      BY <1>1, <1>2, <1>3, <3>1 DEF Sums, Adds
    <3>4. ~(k + 1 \in a /\ k + 1 \in b)
      OBVIOUS
    <3>5. h[k + 1] = f[k + 1] + g[k + 1]
      BY <3>1, <3>2, <3>3, <3>4
    <3> QED  BY <3>5
  <2> QED  BY <2>1
<1> HIDE DEF S
<1>6. Len(sizes) \in S
  BY <1>0, <1>4, <1>5, NatsBySteps
<1> QED  BY <1>0, <1>1, <1>2, <1>3, <1>6 DEF S

\* Sizes at most as large, at every position of the group, total at most as much.
LEMMA TotalPointwise ==
  ASSUME NEW s \in Seq(Nat), NEW t \in Seq(Nat), Len(s) = Len(t), NEW group,
         \A k \in DOMAIN s : k \in group => s[k] <= t[k]
  PROVE  Total(s, group) <= Total(t, group)
<1>0. /\ Len(s) \in Nat
      /\ \A k \in 1 .. Len(s) : s[k] \in Nat
      /\ \A k \in 1 .. Len(s) : t[k] \in Nat
      /\ \A k \in 1 .. Len(s) : k \in group => s[k] <= t[k]
  <2>1. DOMAIN s = 1 .. Len(s)
    OBVIOUS
  <2>2. \A k \in 1 .. Len(s) : s[k] \in Nat
    OBVIOUS
  <2>3. \A k \in 1 .. Len(s) : t[k] \in Nat
    OBVIOUS
  <2> QED  BY <2>1, <2>2, <2>3
<1>1. PICK f : Sums(s, group, f) /\ Total(s, group) = f[Len(s)]
  BY TotalSums
<1>2. PICK g : Sums(t, group, g) /\ Total(t, group) = g[Len(s)]
  BY TotalSums
<1> DEFINE S == {k \in Nat : k <= Len(s) => f[k] <= g[k]}
<1>4. 0 \in S
  BY <1>1, <1>2 DEF Sums
<1>5. ASSUME NEW k \in Nat, k \in S
      PROVE  k + 1 \in S
  <2>1. CASE k + 1 <= Len(s)
    <3>1. k + 1 \in 1 .. Len(s) /\ k \in 0 .. Len(s) /\ (k + 1) - 1 = k /\ f[k] <= g[k]
      BY <1>0, <1>5, <2>1
    <3>2. f[k] \in Nat /\ g[k] \in Nat /\ s[k + 1] \in Nat /\ t[k + 1] \in Nat
      BY <1>0, <1>1, <1>2, <3>1 DEF Sums
    <3>3. /\ f[k + 1] = f[k] + (IF k + 1 \in group THEN s[k + 1] ELSE 0)
          /\ g[k + 1] = g[k] + (IF k + 1 \in group THEN t[k + 1] ELSE 0)
      BY <1>1, <1>2, <3>1 DEF Sums, Adds
    <3>5. f[k + 1] <= g[k + 1]
      BY <1>0, <3>1, <3>2, <3>3
    <3> QED  BY <3>5
  <2> QED  BY <2>1
<1> HIDE DEF S
<1>6. Len(s) \in S
  BY <1>0, <1>4, <1>5, NatsBySteps
<1> QED  BY <1>0, <1>1, <1>2, <1>6 DEF S

\* Only the positions of the sequence count.
LEMMA TotalSame ==
  ASSUME NEW s \in Seq(Nat), NEW t \in Seq(Nat), Len(s) = Len(t), NEW a, NEW b,
         \A k \in DOMAIN s : (k \in a <=> k \in b) /\ (k \in a => s[k] = t[k])
  PROVE  Total(s, a) = Total(t, b)
<1>0. /\ Len(s) \in Nat
      /\ \A k \in 1 .. Len(s) : (k \in a <=> k \in b) /\ (k \in a => s[k] = t[k])
  OBVIOUS
<1>1. PICK f : Sums(s, a, f) /\ Total(s, a) = f[Len(s)]
  BY TotalSums
<1>2. PICK g : Sums(t, b, g) /\ Total(t, b) = g[Len(s)]
  BY TotalSums
<1> DEFINE S == {k \in Nat : k <= Len(s) => f[k] = g[k]}
<1>4. 0 \in S
  BY <1>1, <1>2 DEF Sums
<1>5. ASSUME NEW k \in Nat, k \in S
      PROVE  k + 1 \in S
  <2>1. CASE k + 1 <= Len(s)
    <3>1. k + 1 \in 1 .. Len(s) /\ (k + 1) - 1 = k /\ f[k] = g[k]
      BY <1>0, <1>5, <2>1
    <3>3. /\ f[k + 1] = f[k] + (IF k + 1 \in a THEN s[k + 1] ELSE 0)
          /\ g[k + 1] = g[k] + (IF k + 1 \in b THEN t[k + 1] ELSE 0)
      BY <1>1, <1>2, <3>1 DEF Sums, Adds
    <3>5. f[k + 1] = g[k + 1]
      BY <1>0, <3>1, <3>3
    <3> QED  BY <3>5
  <2> QED  BY <2>1
<1> HIDE DEF S
<1>6. Len(s) \in S
  BY <1>0, <1>4, <1>5, NatsBySteps
<1> QED  BY <1>0, <1>1, <1>2, <1>6 DEF S

\* The first n positions are n.
LEMMA FirstPositions ==
  ASSUME NEW n \in Nat
  PROVE  IsFiniteSet(1 .. n) /\ Cardinality(1 .. n) = n
<1>1. 1 \in Int /\ n \in Int
  OBVIOUS
<1>2. /\ IsFiniteSet(1 .. n)
      /\ Cardinality(1 .. n) = IF 1 > n THEN 0 ELSE n - 1 + 1
  BY <1>1, FS_Interval, Zenon
<1> QED  BY <1>2

\* A group whose sizes are all zero totals zero.
LEMMA TotalZero ==
  ASSUME NEW s \in Seq(Nat), NEW group, \A k \in DOMAIN s : k \in group => s[k] = 0
  PROVE  Total(s, group) = 0
<1>0. Len(s) \in Nat /\ \A k \in 1 .. Len(s) : k \in group => s[k] = 0
  OBVIOUS
<1>1. PICK f : Sums(s, group, f) /\ Total(s, group) = f[Len(s)]
  BY TotalSums
<1> DEFINE S == {k \in Nat : k <= Len(s) => f[k] = 0}
<1>2. 0 \in S
  BY <1>1 DEF Sums
<1>3. ASSUME NEW k \in Nat, k \in S
      PROVE  k + 1 \in S
  <2>1. CASE k + 1 <= Len(s)
    <3>1. k + 1 \in 1 .. Len(s) /\ (k + 1) - 1 = k /\ f[k] = 0
      BY <1>0, <1>3, <2>1
    <3>2. f[k + 1] = f[k] + (IF k + 1 \in group THEN s[k + 1] ELSE 0)
      BY <1>1, <3>1 DEF Sums, Adds
    <3>3. f[k + 1] = 0
      BY <1>0, <3>1, <3>2
    <3> QED  BY <3>3
  <2> QED  BY <2>1
<1> HIDE DEF S
<1>4. Len(s) \in S
  BY <1>0, <1>2, <1>3, NatsBySteps
<1> QED  BY <1>0, <1>1, <1>4 DEF S

\* A group of one totals its size.
LEMMA TotalSingle ==
  ASSUME NEW s \in Seq(Nat), NEW i \in DOMAIN s
  PROVE  Total(s, {i}) = s[i]
<1>0. Len(s) \in Nat /\ i \in 1 .. Len(s) /\ s[i] \in Nat
  OBVIOUS
<1>1. PICK f : Sums(s, {i}, f) /\ Total(s, {i}) = f[Len(s)]
  BY TotalSums
<1> DEFINE S == {k \in Nat : k <= Len(s) => f[k] = IF k < i THEN 0 ELSE s[i]}
<1>2. 0 \in S
  BY <1>0, <1>1 DEF Sums
<1>3. ASSUME NEW k \in Nat, k \in S
      PROVE  k + 1 \in S
  <2>1. CASE k + 1 <= Len(s)
    <3>1. /\ k + 1 \in 1 .. Len(s)
          /\ (k + 1) - 1 = k
          /\ f[k] = IF k < i THEN 0 ELSE s[i]
      BY <1>0, <1>3, <2>1
    <3>2. f[k + 1] = f[k] + (IF k + 1 \in {i} THEN s[k + 1] ELSE 0)
      BY <1>1, <3>1 DEF Sums, Adds
    <3>3. f[k + 1] = IF k + 1 < i THEN 0 ELSE s[i]
      BY <1>0, <3>1, <3>2
    <3> QED  BY <3>3
  <2> QED  BY <2>1
<1> HIDE DEF S
<1>4. Len(s) \in S
  BY <1>0, <1>2, <1>3, NatsBySteps
<1> QED  BY <1>0, <1>1, <1>4 DEF S

\* A group of equal sizes totals as many times that size as it has members.
LEMMA TotalConstant ==
  ASSUME NEW s \in Seq(Nat), NEW group \in SUBSET DOMAIN s, NEW v \in Nat,
         \A k \in group : s[k] = v
  PROVE  Total(s, group) = v * Cardinality(group)
<1>0. /\ Len(s) \in Nat
      /\ group \in SUBSET (1 .. Len(s))
      /\ IsFiniteSet(1 .. Len(s))
  <2>1. Len(s) \in Nat /\ DOMAIN s = 1 .. Len(s)
    OBVIOUS
  <2> QED  BY <2>1, FirstPositions
<1>1. PICK f : Sums(s, group, f) /\ Total(s, group) = f[Len(s)]
  BY TotalSums
<1> DEFINE Upto(k) == {j \in group : j <= k}
           S == {k \in Nat : k <= Len(s) => f[k] = v * Cardinality(Upto(k))}
<1>5. \A k \in Nat : IsFiniteSet(Upto(k)) /\ Cardinality(Upto(k)) \in Nat
  <2> SUFFICES ASSUME NEW k \in Nat
               PROVE  IsFiniteSet(Upto(k)) /\ Cardinality(Upto(k)) \in Nat
    OBVIOUS
  <2>1. Upto(k) \in SUBSET (1 .. Len(s))
    BY <1>0
  <2>2. IsFiniteSet(Upto(k))
    BY <1>0, <2>1, FS_Subset
  <2> QED  BY <2>2, FS_CardinalityType
<1>2. 0 \in S
  <2>1. Upto(0) = {}
    BY <1>0
  <2>2. Cardinality(Upto(0)) = 0
    BY <2>1, FS_EmptySet
  <2>3. v * 0 = 0 /\ f[0] = 0
    BY <1>1 DEF Sums
  <2> HIDE DEF Upto
  <2> QED  BY <2>2, <2>3
<1>3. ASSUME NEW k \in Nat, k \in S
      PROVE  k + 1 \in S
  <2>1. CASE k + 1 <= Len(s)
    <3>1. /\ k + 1 \in 1 .. Len(s)
          /\ (k + 1) - 1 = k
          /\ f[k] = v * Cardinality(Upto(k))
      BY <1>0, <1>3, <2>1
    <3>2. f[k + 1] = f[k] + (IF k + 1 \in group THEN s[k + 1] ELSE 0)
      BY <1>1, <3>1 DEF Sums, Adds
    <3>3. CASE k + 1 \in group
      <4>1. Upto(k + 1) = Upto(k) \cup {k + 1} /\ k + 1 \notin Upto(k)
        BY <1>0, <3>3
      <4>2. Cardinality(Upto(k + 1)) = Cardinality(Upto(k)) + 1
        <5> HIDE DEF Upto
        <5> QED  BY <1>5, <4>1, FS_AddElement
      <4> HIDE DEF Upto
      <4>3. Cardinality(Upto(k)) \in Nat
        BY <1>5
      <4>4. v * (Cardinality(Upto(k)) + 1) = v * Cardinality(Upto(k)) + v
        BY <4>3
      <4>5. f[k + 1] = v * Cardinality(Upto(k + 1))
        BY <3>1, <3>2, <3>3, <4>2, <4>4
      <4> QED  BY <4>5
    <3>4. CASE k + 1 \notin group
      <4>1. Upto(k + 1) = Upto(k)
        BY <1>0, <3>4
      <4> HIDE DEF Upto
      <4>2. Cardinality(Upto(k)) \in Nat
        BY <1>5
      <4>3. f[k + 1] = v * Cardinality(Upto(k + 1))
        BY <3>1, <3>2, <3>4, <4>1, <4>2
      <4> QED  BY <4>3
    <3> QED  BY <3>3, <3>4
  <2> QED  BY <2>1
<1>6. Upto(Len(s)) = group
  BY <1>0
<1> HIDE DEF S
<1>4. Len(s) \in S
  BY <1>0, <1>2, <1>3, NatsBySteps
<1> HIDE DEF Upto
<1>7. f[Len(s)] = v * Cardinality(Upto(Len(s)))
  BY <1>0, <1>4 DEF S
<1> QED  BY <1>1, <1>6, <1>7

\* A group's members are finitely many positions.
LEMMA GroupFinite ==
  ASSUME NEW s, NEW X, s \in Seq(X), NEW group \in SUBSET DOMAIN s
  PROVE  /\ IsFiniteSet(group) /\ Cardinality(group) \in Nat
         /\ Cardinality(group) <= Len(s)
<1>1. Len(s) \in Nat /\ DOMAIN s = 1 .. Len(s)
  OBVIOUS
<1>2. IsFiniteSet(1 .. Len(s)) /\ Cardinality(1 .. Len(s)) = Len(s)
  BY <1>1, FirstPositions
<1>3. IsFiniteSet(group) /\ Cardinality(group) <= Len(s)
  BY <1>1, <1>2, FS_Subset
<1> QED  BY <1>3, FS_CardinalityType

\* Members at most as large as v total at most v for each of them.
LEMMA TotalAtMost ==
  ASSUME NEW s \in Seq(Nat), NEW group \in SUBSET DOMAIN s, NEW v \in Nat,
         \A k \in group : s[k] <= v
  PROVE  Total(s, group) <= v * Cardinality(group)
<1> DEFINE t == [k \in DOMAIN s |-> v]
<1>1. t \in Seq(Nat) /\ Len(t) = Len(s) /\ DOMAIN t = DOMAIN s
  OBVIOUS
<1>2. \A k \in DOMAIN s : t[k] = v
  OBVIOUS
<1> HIDE DEF t
<1>3. Total(t, group) = v * Cardinality(group)
  BY <1>1, <1>2, TotalConstant
<1>4. Total(s, group) <= Total(t, group)
  BY <1>1, <1>2, TotalPointwise
<1> QED  BY <1>3, <1>4

\* Members at least as large as v total at least v for each of them.
LEMMA TotalAtLeast ==
  ASSUME NEW s \in Seq(Nat), NEW group \in SUBSET DOMAIN s, NEW v \in Nat,
         \A k \in group : v <= s[k]
  PROVE  v * Cardinality(group) <= Total(s, group)
<1> DEFINE t == [k \in DOMAIN s |-> v]
<1>1. t \in Seq(Nat) /\ Len(t) = Len(s) /\ DOMAIN t = DOMAIN s
  OBVIOUS
<1>2. \A k \in DOMAIN s : t[k] = v
  OBVIOUS
<1> HIDE DEF t
<1>3. Total(t, group) = v * Cardinality(group)
  BY <1>1, <1>2, TotalConstant
<1>4. Total(t, group) <= Total(s, group)
  BY <1>1, <1>2, TotalPointwise
<1> QED  BY <1>3, <1>4

\* A part of a group totals at most what the group does.
LEMMA TotalMonotone ==
  ASSUME NEW s \in Seq(Nat), NEW a, NEW b, a \subseteq b
  PROVE  Total(s, a) <= Total(s, b)
<1>1. a \cap (b \ a) = {} /\ a \cup (b \ a) = b
  OBVIOUS
<1>2. Total(s, b) = Total(s, a) + Total(s, b \ a)
  BY <1>1, TotalUnion
<1>3. Total(s, a) \in Nat /\ Total(s, b \ a) \in Nat
  BY TotalType
<1> QED  BY <1>2, <1>3

\* Any member's size is at most the total.
LEMMA TotalMember ==
  ASSUME NEW s \in Seq(Nat), NEW group, NEW i \in DOMAIN s, i \in group
  PROVE  s[i] <= Total(s, group)
<1>1. Total(s, {i}) <= Total(s, group)
  BY TotalMonotone
<1> QED  BY <1>1, TotalSingle

\* One more size at the end adds to the total of all.
LEMMA TotalAppend ==
  ASSUME NEW s \in Seq(Nat), NEW x \in Nat
  PROVE  Total(Append(s, x), DOMAIN Append(s, x)) = Total(s, DOMAIN s) + x
<1> DEFINE t == Append(s, x)
<1>0. /\ t \in Seq(Nat) /\ Len(t) = Len(s) + 1 /\ Len(s) \in Nat
      /\ DOMAIN t = 1 .. Len(s) + 1 /\ DOMAIN s = 1 .. Len(s)
      /\ \A k \in 1 .. Len(s) : t[k] = s[k]
      /\ t[Len(s) + 1] = x
      /\ \A k \in 1 .. Len(s) : s[k] \in Nat
  OBVIOUS
<1> HIDE DEF t
<1>1. PICK f : Sums(s, DOMAIN s, f) /\ Total(s, DOMAIN s) = f[Len(s)]
  BY TotalSums
<1>2. PICK g : Sums(t, DOMAIN t, g) /\ Total(t, DOMAIN t) = g[Len(t)]
  BY <1>0, TotalSums
<1> DEFINE S == {k \in Nat : k <= Len(s) => f[k] = g[k]}
<1>4. 0 \in S
  BY <1>1, <1>2 DEF Sums
<1>5. ASSUME NEW k \in Nat, k \in S
      PROVE  k + 1 \in S
  <2>1. CASE k + 1 <= Len(s)
    <3>1. /\ k + 1 \in 1 .. Len(s) /\ k + 1 \in 1 .. Len(t) /\ (k + 1) - 1 = k
          /\ k + 1 \in DOMAIN s /\ k + 1 \in DOMAIN t
          /\ f[k] = g[k]
      BY <1>0, <1>5, <2>1
    <3>3. f[k + 1] = f[k] + s[k + 1] /\ g[k + 1] = g[k] + t[k + 1]
      BY <1>1, <1>2, <3>1 DEF Sums, Adds
    <3>5. f[k + 1] = g[k + 1]
      BY <1>0, <3>1, <3>3
    <3> QED  BY <3>5
  <2> QED  BY <2>1
<1> HIDE DEF S
<1>6. Len(s) \in S
  BY <1>0, <1>4, <1>5, NatsBySteps
<1>7. f[Len(s)] = g[Len(s)]
  BY <1>0, <1>6 DEF S
<1>8. g[Len(t)] = g[Len(s)] + x
  <2>1. Len(t) \in 1 .. Len(t) /\ Len(t) \in DOMAIN t /\ Len(t) - 1 = Len(s)
    BY <1>0
  <2> QED  BY <1>0, <1>2, <2>1 DEF Sums, Adds
<1> QED  BY <1>1, <1>2, <1>7, <1>8 DEF t

-----------------------------------------------------------------------------
(* Order within a group.                                                   *)

\* The members up to one of the group are some of it, that one with them.
LEMMA UpToFinite ==
  ASSUME NEW s \in Seq(Nat), NEW group \in SUBSET DOMAIN s, NEW i \in group
  PROVE  /\ UpTo(s, group, i) \in SUBSET group
         /\ i \in UpTo(s, group, i)
         /\ IsFiniteSet(UpTo(s, group, i))
         /\ Cardinality(UpTo(s, group, i)) \in Nat
         /\ Cardinality(UpTo(s, group, i)) >= 1
         /\ Cardinality(UpTo(s, group, i)) <= Cardinality(group)
<1>1. i \in Nat /\ s[i] \in Nat
  OBVIOUS
<1>2. UpTo(s, group, i) \in SUBSET group /\ i \in UpTo(s, group, i)
  BY <1>1 DEF UpTo
<1>3. IsFiniteSet(group) /\ Cardinality(group) \in Nat
  BY GroupFinite
<1>4. /\ IsFiniteSet(UpTo(s, group, i))
      /\ Cardinality(UpTo(s, group, i)) <= Cardinality(group)
  BY <1>2, <1>3, FS_Subset
<1>5. Cardinality(UpTo(s, group, i)) \in Nat
  BY <1>4, FS_CardinalityType
<1>6. Cardinality(UpTo(s, group, i)) # 0
  BY <1>2, <1>4, FS_EmptySet
<1> QED  BY <1>2, <1>4, <1>5, <1>6

\* Of two members one is up to the other, and each up to the other only when
\* they are one.
LEMMA UpToChain ==
  ASSUME NEW s \in Seq(Nat), NEW group \in SUBSET DOMAIN s,
         NEW i \in group, NEW j \in group
  PROVE  /\ i \in UpTo(s, group, j) \/ j \in UpTo(s, group, i)
         /\ i \in UpTo(s, group, j) /\ j \in UpTo(s, group, i) => i = j
<1>1. i \in Nat /\ s[i] \in Nat /\ j \in Nat /\ s[j] \in Nat
  OBVIOUS
<1> QED  BY <1>1 DEF UpTo

\* What is up to one member is up to every later one.
LEMMA UpToTransitive ==
  ASSUME NEW s \in Seq(Nat), NEW group \in SUBSET DOMAIN s,
         NEW i \in group, NEW j \in UpTo(s, group, i)
  PROVE  UpTo(s, group, j) \subseteq UpTo(s, group, i)
<1> SUFFICES ASSUME NEW k \in UpTo(s, group, j)
             PROVE  k \in UpTo(s, group, i)
  OBVIOUS
<1>1. j \in group /\ k \in group
  BY DEF UpTo
<1>2. /\ i \in Nat /\ s[i] \in Nat /\ j \in Nat /\ s[j] \in Nat
      /\ k \in Nat /\ s[k] \in Nat
  BY <1>1
<1> QED  BY <1>1, <1>2 DEF UpTo

\* A later member has more members up to it.
LEMMA UpToCounts ==
  ASSUME NEW s \in Seq(Nat), NEW group \in SUBSET DOMAIN s,
         NEW i \in group, NEW j \in group
  PROVE  /\ j \in UpTo(s, group, i) <=>
              Cardinality(UpTo(s, group, j)) <= Cardinality(UpTo(s, group, i))
         /\ Cardinality(UpTo(s, group, j)) = Cardinality(UpTo(s, group, i)) => i = j
<1>1. ASSUME NEW a \in group, NEW b \in group, a \in UpTo(s, group, b)
      PROVE  /\ Cardinality(UpTo(s, group, a)) <= Cardinality(UpTo(s, group, b))
             /\ Cardinality(UpTo(s, group, a)) = Cardinality(UpTo(s, group, b)) => a = b
  <2>1. UpTo(s, group, a) \in SUBSET UpTo(s, group, b)
    BY <1>1, UpToTransitive
  <2>2. IsFiniteSet(UpTo(s, group, b))
    BY UpToFinite
  <2>3. /\ Cardinality(UpTo(s, group, a)) <= Cardinality(UpTo(s, group, b))
        /\ Cardinality(UpTo(s, group, b)) = Cardinality(UpTo(s, group, a)) =>
             UpTo(s, group, b) = UpTo(s, group, a)
    BY <2>1, <2>2, FS_Subset
  <2>4. b \in UpTo(s, group, b)
    BY UpToFinite
  <2> QED  BY <1>1, <2>3, <2>4, UpToChain
<1>2. i \in UpTo(s, group, j) \/ j \in UpTo(s, group, i)
  BY UpToChain
<1>3. /\ Cardinality(UpTo(s, group, i)) \in Nat
      /\ Cardinality(UpTo(s, group, j)) \in Nat
  BY UpToFinite
<1>4. j \in UpTo(s, group, j)
  BY UpToFinite
<1> QED  BY <1>1, <1>2, <1>3, <1>4

\* Every number of members, from one to all, is up to some member.
LEMMA RankExists ==
  ASSUME NEW s \in Seq(Nat), NEW group \in SUBSET DOMAIN s,
         NEW n \in 1 .. Cardinality(group)
  PROVE  \E i \in group : Cardinality(UpTo(s, group, i)) = n
<1> DEFINE size == Cardinality(group)
           rank == [i \in group |-> Cardinality(UpTo(s, group, i))]
<1>1. IsFiniteSet(group) /\ size \in Nat
  BY GroupFinite
<1>2. IsFiniteSet(1 .. size) /\ Cardinality(1 .. size) = size
  BY <1>1, FirstPositions
<1>3. rank \in [group -> 1 .. size]
  <2>1. \A i \in group : Cardinality(UpTo(s, group, i)) \in 1 .. size
    BY <1>1, UpToFinite
  <2> QED  BY <2>1
<1>4. \A i, j \in group : rank[i] = rank[j] => i = j
  BY UpToCounts
<1>5. rank \in Injection(group, 1 .. size)
  BY <1>3, <1>4 DEF Injection, IsInjective
<1> HIDE DEF rank
<1>6. rank \in Surjection(group, 1 .. size)
  BY <1>2, <1>5, FS_Injection
<1>7. PICK i \in group : rank[i] = n
  BY <1>6 DEF Surjection
<1> QED  BY <1>7 DEF rank

\* The first n members are those up to one of them.
LEMMA FirstIsUpTo ==
  ASSUME NEW s \in Seq(Nat), NEW group \in SUBSET DOMAIN s,
         NEW i \in group
  PROVE  First(s, group, Cardinality(UpTo(s, group, i))) = UpTo(s, group, i)
<1>1. UpTo(s, group, i) \subseteq group
  BY UpToFinite
<1> QED  BY <1>1, UpToCounts DEF First

\* The first n members are n, where there are as many.
LEMMA FirstCounts ==
  ASSUME NEW s \in Seq(Nat), NEW group \in SUBSET DOMAIN s,
         NEW n \in 0 .. Cardinality(group)
  PROVE  /\ First(s, group, n) \in SUBSET group
         /\ Cardinality(First(s, group, n)) = n
<1>1. Cardinality(group) \in Nat /\ First(s, group, n) \in SUBSET group
  BY GroupFinite DEF First
<1>2. CASE n = 0
  <2>1. First(s, group, n) = {}
    <3>1. \A i \in group : Cardinality(UpTo(s, group, i)) >= 1
            /\ Cardinality(UpTo(s, group, i)) \in Nat
      BY UpToFinite
    <3> QED  BY <1>2, <3>1 DEF First
  <2> QED  BY <1>1, <1>2, <2>1, FS_EmptySet
<1>3. CASE n # 0
  <2>1. n \in 1 .. Cardinality(group)
    BY <1>1, <1>3
  <2>2. PICK i \in group : Cardinality(UpTo(s, group, i)) = n
    BY <2>1, RankExists
  <2> QED  BY <1>1, <2>2, FirstIsUpTo
<1> QED  BY <1>2, <1>3

\* A group has a smallest member.
LEMMA SmallestIs ==
  ASSUME NEW s \in Seq(Nat), NEW group \in SUBSET DOMAIN s, group # {}
  PROVE  /\ Smallest(s, group) \in group
         /\ UpTo(s, group, Smallest(s, group)) = {Smallest(s, group)}
<1>1. 1 \in 1 .. Cardinality(group)
  <2>1. IsFiniteSet(group) /\ Cardinality(group) \in Nat
    BY GroupFinite
  <2>2. Cardinality(group) # 0
    BY <2>1, FS_EmptySet
  <2> QED  BY <2>1, <2>2
<1>2. PICK i \in group : Cardinality(UpTo(s, group, i)) = 1
  BY <1>1, RankExists
<1>3. IsFiniteSet(UpTo(s, group, i)) /\ i \in UpTo(s, group, i)
  BY UpToFinite
<1>4. UpTo(s, group, i) = {i}
  <2>1. PICK x : UpTo(s, group, i) = {x}
    BY <1>2, <1>3, FS_Singleton
  <2> QED  BY <1>3, <2>1
<1> QED  BY <1>4 DEF Smallest

\* A group has a last member.
LEMMA LastExists ==
  ASSUME NEW s \in Seq(Nat), NEW group \in SUBSET DOMAIN s, group # {}
  PROVE  \E i \in group : UpTo(s, group, i) = group
<1>1. IsFiniteSet(group) /\ Cardinality(group) \in Nat
  BY GroupFinite
<1>2. Cardinality(group) # 0
  BY <1>1, FS_EmptySet
<1>3. Cardinality(group) \in 1 .. Cardinality(group)
  BY <1>1, <1>2
<1>4. PICK i \in group : Cardinality(UpTo(s, group, i)) = Cardinality(group)
  BY <1>3, RankExists
<1>5. UpTo(s, group, i) \in SUBSET group
  BY UpToFinite
<1>6. UpTo(s, group, i) = group
  BY <1>1, <1>4, <1>5, FS_Subset
<1> QED  BY <1>6

-----------------------------------------------------------------------------
(* Segments.                                                               *)

\* A segment's items, some of them live.
Counts == {s \in [len : Nat, live : Nat] : s.live <= s.len}

\* The sizes of a list of segments are lists of numbers.
LEMMA SizesOf ==
  ASSUME NEW segs \in Seq(Counts)
  PROVE  /\ Lens(segs) \in Seq(Nat) /\ Lives(segs) \in Seq(Nat)
         /\ Len(Lens(segs)) = Len(segs) /\ Len(Lives(segs)) = Len(segs)
         /\ DOMAIN Lens(segs) = DOMAIN segs /\ DOMAIN Lives(segs) = DOMAIN segs
         /\ \A k \in DOMAIN segs :
              /\ segs[k] \in Counts
              /\ Lens(segs)[k] = segs[k].len
              /\ Lives(segs)[k] = segs[k].live
              /\ segs[k].live \in Nat /\ segs[k].len \in Nat /\ segs[k].live <= segs[k].len
<1>1. Len(segs) \in Nat /\ DOMAIN segs = 1 .. Len(segs)
  OBVIOUS
<1>2. \A k \in DOMAIN segs :
        /\ segs[k] \in Counts
        /\ segs[k].live \in Nat /\ segs[k].len \in Nat /\ segs[k].live <= segs[k].len
  <2>1. \A k \in DOMAIN segs : segs[k] \in Counts
    OBVIOUS
  <2> QED  BY <2>1 DEF Counts
<1>3. Lens(segs) \in Seq(Nat) /\ Len(Lens(segs)) = Len(segs)
  <2>1. Lens(segs) \in [1 .. Len(segs) -> Nat]
    BY <1>1, <1>2 DEF Lens
  <2> QED  BY <1>1, <2>1
<1>4. Lives(segs) \in Seq(Nat) /\ Len(Lives(segs)) = Len(segs)
  <2>1. Lives(segs) \in [1 .. Len(segs) -> Nat]
    BY <1>1, <1>2 DEF Lives
  <2> QED  BY <1>1, <2>1
<1> QED  BY <1>2, <1>3, <1>4 DEF Lens, Lives

\* No group has more live items than items.
LEMMA LiveAtMostLen ==
  ASSUME NEW segs \in Seq(Counts), NEW group
  PROVE  /\ LiveOf(segs, group) \in Nat /\ LenOf(segs, group) \in Nat
         /\ LiveOf(segs, group) <= LenOf(segs, group)
<1>1. LiveOf(segs, group) <= LenOf(segs, group)
  BY SizesOf, TotalPointwise DEF LenOf, LiveOf
<1> QED  BY <1>1, SizesOf, TotalType DEF LenOf, LiveOf

\* One more segment.
LEMMA AppendCounts ==
  ASSUME NEW segs \in Seq(Counts), NEW c \in Counts
  PROVE  LET more == Append(segs, c)
         IN  /\ more \in Seq(Counts) /\ Len(more) = Len(segs) + 1
             /\ LenOf(more, DOMAIN more) = LenOf(segs, DOMAIN segs) + c.len
             /\ LiveOf(more, DOMAIN more) = LiveOf(segs, DOMAIN segs) + c.live
<1> DEFINE more == Append(segs, c)
<1>1. /\ more \in Seq(Counts) /\ Len(more) = Len(segs) + 1 /\ Len(segs) \in Nat
      /\ DOMAIN more = 1 .. Len(segs) + 1
      /\ \A k \in 1 .. Len(segs) : more[k] = segs[k]
      /\ more[Len(segs) + 1] = c
      /\ DOMAIN segs = 1 .. Len(segs)
  OBVIOUS
<1>2. c.len \in Nat /\ c.live \in Nat
  BY DEF Counts
<1> HIDE DEF more
<1>3. Lens(more) = Append(Lens(segs), c.len)
  <2> DEFINE s == Lens(segs)
  <2>1. /\ s \in Seq(Nat) /\ Len(s) = Len(segs)
        /\ \A k \in 1 .. Len(segs) : s[k] = segs[k].len
    BY <1>1, SizesOf
  <2>2. \A k \in 1 .. Len(segs) + 1 : more[k].len = IF k <= Len(segs) THEN s[k] ELSE c.len
    <3> SUFFICES ASSUME NEW k \in 1 .. Len(segs) + 1
                 PROVE  more[k].len = IF k <= Len(segs) THEN s[k] ELSE c.len
      OBVIOUS
    <3>1. k \in 1 .. Len(segs) \/ k = Len(segs) + 1
      BY <1>1
    <3> QED  BY <1>1, <2>1, <3>1
  <2>3. Lens(more) = [k \in 1 .. Len(segs) + 1 |-> more[k].len]
    BY <1>1 DEF Lens
  <2> HIDE DEF s
  <2>4. Append(s, c.len) = [k \in 1 .. Len(segs) + 1 |-> IF k <= Len(segs) THEN s[k] ELSE c.len]
    BY <1>1, <1>2, <2>1
  <2>5. Lens(more) = Append(s, c.len)
    BY <2>2, <2>3, <2>4
  <2> QED  BY <2>5 DEF s
<1>4. Lives(more) = Append(Lives(segs), c.live)
  <2> DEFINE s == Lives(segs)
  <2>1. /\ s \in Seq(Nat) /\ Len(s) = Len(segs)
        /\ \A k \in 1 .. Len(segs) : s[k] = segs[k].live
    BY <1>1, SizesOf
  <2>2. \A k \in 1 .. Len(segs) + 1 : more[k].live = IF k <= Len(segs) THEN s[k] ELSE c.live
    <3> SUFFICES ASSUME NEW k \in 1 .. Len(segs) + 1
                 PROVE  more[k].live = IF k <= Len(segs) THEN s[k] ELSE c.live
      OBVIOUS
    <3>1. k \in 1 .. Len(segs) \/ k = Len(segs) + 1
      BY <1>1
    <3> QED  BY <1>1, <2>1, <3>1
  <2>3. Lives(more) = [k \in 1 .. Len(segs) + 1 |-> more[k].live]
    BY <1>1 DEF Lives
  <2> HIDE DEF s
  <2>4. Append(s, c.live) = [k \in 1 .. Len(segs) + 1 |-> IF k <= Len(segs) THEN s[k] ELSE c.live]
    BY <1>1, <1>2, <2>1
  <2>5. Lives(more) = Append(s, c.live)
    BY <2>2, <2>3, <2>4
  <2> QED  BY <2>5 DEF s
<1>5. /\ Lens(segs) \in Seq(Nat) /\ Lives(segs) \in Seq(Nat)
      /\ DOMAIN Lens(segs) = DOMAIN segs /\ DOMAIN Lives(segs) = DOMAIN segs
  BY SizesOf
<1>6. DOMAIN Lens(more) = DOMAIN more /\ DOMAIN Lives(more) = DOMAIN more
  BY <1>1, SizesOf
<1>7. LenOf(more, DOMAIN more) = LenOf(segs, DOMAIN segs) + c.len
  BY <1>2, <1>3, <1>5, <1>6, TotalAppend DEF LenOf
<1>8. LiveOf(more, DOMAIN more) = LiveOf(segs, DOMAIN segs) + c.live
  BY <1>2, <1>4, <1>5, <1>6, TotalAppend DEF LiveOf
<1> QED  BY <1>1, <1>7, <1>8 DEF more

\* What the recursion of Unmerged makes of a function, up to position n.
Kept(segs, group, f, n) ==
  [k \in 0 .. n |-> CASE k = 0      -> <<>>
                      [] k \in group -> f[k - 1]
                      [] OTHER      -> Append(f[k - 1], segs[k])]

\* Step k of the recursion of Unmerged.
Keeps(segs, group, f, k) ==
  f[k] = IF k \in group THEN f[k - 1] ELSE Append(f[k - 1], segs[k])

\* The recursion of Unmerged has a solution.
LEMMA KeptExists ==
  ASSUME NEW segs, NEW group, 0 \notin group, NEW n \in Nat
  PROVE  \E f : f = Kept(segs, group, f, n)
<1> DEFINE F(f, m) == Kept(segs, group, f, m)
           S == {m \in Nat : \E f : f = F(f, m)}
<1> USE DEF Kept
<1>1. 0 \in S
  <2> DEFINE g == [k \in 0 .. 0 |-> <<>>]
  <2>1. g = F(g, 0)
    OBVIOUS
  <2> QED  BY <2>1
<1>2. ASSUME NEW m \in Nat, m \in S
      PROVE  m + 1 \in S
  <2>1. PICK f : f = F(f, m)
    BY <1>2
  <2> DEFINE g == Kept(segs, group, f, m + 1)
  <2>2. \A k \in 0 .. m : g[k] = f[k]
    <3> SUFFICES ASSUME NEW k \in 0 .. m PROVE g[k] = f[k]
      OBVIOUS
    <3>1. k \in 0 .. m + 1
      OBVIOUS
    <3>2. F(f, m)[k] = g[k]
      BY <3>1
    <3> QED  BY <2>1, <3>2
  <2>3. \A k \in 0 .. m + 1 :
          g[k] = CASE k = 0      -> <<>>
                   [] k \in group -> g[k - 1]
                   [] OTHER      -> Append(g[k - 1], segs[k])
    <3> SUFFICES ASSUME NEW k \in 0 .. m + 1, k # 0
                 PROVE  g[k] = CASE k \in group -> g[k - 1]
                                 [] OTHER      -> Append(g[k - 1], segs[k])
      OBVIOUS
    <3>1. k - 1 \in 0 .. m
      OBVIOUS
    <3> QED  BY <2>2, <3>1
  <2>4. g = F(g, m + 1)
    BY <2>3
  <2> HIDE DEF g, F
  <2>5. \E h : h = F(h, m + 1)
    BY <2>4
  <2> QED  BY <2>5
<1> HIDE DEF S, Kept
<1>3. n \in S
  BY <1>1, <1>2, NatsBySteps
<1> QED  BY <1>3 DEF S

\* Unmerged is the last of the lists its recursion goes through.
LEMMA UnmergedSteps ==
  ASSUME NEW segs \in Seq(Counts), NEW group \in SUBSET DOMAIN segs
  PROVE  \E f : /\ Unmerged(segs, group) = f[Len(segs)]
                /\ f[0] = <<>>
                /\ \A k \in 1 .. Len(segs) : Keeps(segs, group, f, k)
<1>0. Len(segs) \in Nat /\ 0 \notin group
  OBVIOUS
<1> DEFINE F(f) == Kept(segs, group, f, Len(segs))
           kept == CHOOSE f : f = F(f)
<1>1. kept = F(kept)
  <2>1. \E f : f = F(f)
    BY <1>0, KeptExists
  <2> HIDE DEF F
  <2> QED  BY <2>1
<1>2. Unmerged(segs, group) = kept[Len(segs)]
  BY DEF Unmerged, Kept
<1> HIDE DEF kept
<1>3. \A k \in 0 .. Len(segs) :
        kept[k] = CASE k = 0      -> <<>>
                    [] k \in group -> kept[k - 1]
                    [] OTHER      -> Append(kept[k - 1], segs[k])
  <2> HIDE DEF F
  <2>1. \A k \in 0 .. Len(segs) : kept[k] = F(kept)[k]
    BY <1>1
  <2> QED  BY <2>1 DEF F, Kept
<1>4. kept[0] = <<>>
  BY <1>0, <1>3
<1>5. \A k \in 1 .. Len(segs) : Keeps(segs, group, kept, k)
  BY <1>0, <1>3 DEF Keeps
<1> QED  BY <1>2, <1>4, <1>5

\* Nothing is stored in no segments.
LEMMA NoSegments ==
  /\ <<>> \in Seq(Counts) /\ Len(<<>>) = 0
  /\ LenOf(<<>>, DOMAIN <<>>) = 0 /\ LiveOf(<<>>, DOMAIN <<>>) = 0
<1> DEFINE none == <<>>
<1>1. none \in Seq(Counts) /\ Len(none) = 0 /\ DOMAIN none = {}
  OBVIOUS
<1> HIDE DEF none
<1>2. /\ Lens(none) \in Seq(Nat) /\ Lives(none) \in Seq(Nat)
      /\ DOMAIN Lens(none) = {} /\ DOMAIN Lives(none) = {}
  BY <1>1, SizesOf
<1>3. LenOf(none, DOMAIN none) = 0 /\ LiveOf(none, DOMAIN none) = 0
  BY <1>2, TotalZero DEF LenOf, LiveOf
<1> QED  BY <1>1, <1>3 DEF none

\* The segments outside a group.
Outside(segs, group) == {segs[k] : k \in DOMAIN segs \ group}

\* What a merge leaves alone: every segment outside the group, as it is.
LEMMA UnmergedIs ==
  ASSUME NEW segs \in Seq(Counts), NEW group \in SUBSET DOMAIN segs,
         NEW rest, rest = Unmerged(segs, group)
  PROVE  /\ rest \in Seq(Counts)
         /\ Len(rest) = Len(segs) - Cardinality(group)
         /\ LenOf(rest, DOMAIN rest) = LenOf(segs, DOMAIN segs \ group)
         /\ LiveOf(rest, DOMAIN rest) = LiveOf(segs, DOMAIN segs \ group)
         /\ \A j \in DOMAIN rest : rest[j] \in Outside(segs, group)
<1> DEFINE out == DOMAIN segs \ group
<1>0. Len(segs) \in Nat /\ DOMAIN segs = 1 .. Len(segs)
  OBVIOUS
<1>1. PICK f : /\ Unmerged(segs, group) = f[Len(segs)]
               /\ f[0] = <<>>
               /\ \A k \in 1 .. Len(segs) : Keeps(segs, group, f, k)
  BY UnmergedSteps
<1>13. /\ Lens(segs) \in Seq(Nat) /\ Len(Lens(segs)) = Len(segs)
       /\ Lives(segs) \in Seq(Nat) /\ Len(Lives(segs)) = Len(segs)
  BY SizesOf
<1>2. PICK g : Sums(Lens(segs), out, g) /\ Total(Lens(segs), out) = g[Len(segs)]
  <2>1. \E g : Sums(Lens(segs), out, g) /\ Total(Lens(segs), out) = g[Len(Lens(segs))]
    BY <1>13, TotalSums
  <2> QED  BY <1>13, <2>1
<1>3. PICK h : Sums(Lives(segs), out, h) /\ Total(Lives(segs), out) = h[Len(segs)]
  <2>1. \E h : Sums(Lives(segs), out, h) /\ Total(Lives(segs), out) = h[Len(Lives(segs))]
    BY <1>13, TotalSums
  <2> QED  BY <1>13, <2>1
<1> DEFINE Upto(k) == {j \in group : j <= k}
           Good(k) == /\ f[k] \in Seq(Counts)
                      /\ Len(f[k]) = k - Cardinality(Upto(k))
                      /\ LenOf(f[k], DOMAIN f[k]) = g[k]
                      /\ LiveOf(f[k], DOMAIN f[k]) = h[k]
                      /\ \A j \in DOMAIN f[k] : f[k][j] \in Outside(segs, group)
           S == {k \in Nat : k <= Len(segs) => Good(k)}
<1>4. \A k \in Nat : IsFiniteSet(Upto(k)) /\ Cardinality(Upto(k)) \in Nat
  <2> SUFFICES ASSUME NEW k \in Nat
               PROVE  IsFiniteSet(Upto(k)) /\ Cardinality(Upto(k)) \in Nat
    OBVIOUS
  <2>1. Upto(k) \in SUBSET DOMAIN segs
    OBVIOUS
  <2> HIDE DEF Upto
  <2> QED  BY <2>1, GroupFinite
<1>5. g[0] = 0 /\ h[0] = 0
  BY <1>2, <1>3 DEF Sums
<1>6. Good(0)
  <2>1. Upto(0) = {}
    BY <1>0
  <2>2. Cardinality(Upto(0)) = 0
    BY <2>1, FS_EmptySet
  <2>3. /\ f[0] \in Seq(Counts) /\ Len(f[0]) = 0
        /\ LenOf(f[0], DOMAIN f[0]) = 0 /\ LiveOf(f[0], DOMAIN f[0]) = 0
    BY <1>1, NoSegments
  <2>4. DOMAIN f[0] = {}
    BY <1>1
  <2> HIDE DEF Upto
  <2> QED  BY <1>5, <2>2, <2>3, <2>4
<1>7. ASSUME NEW k \in Nat, k + 1 <= Len(segs), Good(k)
      PROVE  Good(k + 1)
  <2>1. /\ k + 1 \in 1 .. Len(segs) /\ (k + 1) - 1 = k /\ k + 1 \in DOMAIN segs
        /\ k \in 0 .. Len(segs)
    BY <1>0, <1>7
  <2>2. /\ Len(Lens(segs)) = Len(segs) /\ Len(Lives(segs)) = Len(segs)
        /\ Lens(segs)[k + 1] = segs[k + 1].len /\ Lives(segs)[k + 1] = segs[k + 1].live
        /\ segs[k + 1] \in Counts /\ segs[k + 1].len \in Nat /\ segs[k + 1].live \in Nat
    BY <2>1, SizesOf
  <2>3. /\ g[k + 1] = g[k] + (IF k + 1 \in out THEN segs[k + 1].len ELSE 0)
        /\ h[k + 1] = h[k] + (IF k + 1 \in out THEN segs[k + 1].live ELSE 0)
    BY <1>2, <1>3, <2>1, <2>2 DEF Sums, Adds
  <2>4. f[k + 1] = IF k + 1 \in group THEN f[k] ELSE Append(f[k], segs[k + 1])
    BY <1>1, <2>1 DEF Keeps
  <2>5. g[k] \in Nat /\ h[k] \in Nat
    BY <1>2, <1>3, <2>1, <2>2 DEF Sums
  <2>6. CASE k + 1 \in group
    <3>1. Upto(k + 1) = Upto(k) \cup {k + 1} /\ k + 1 \notin Upto(k)
      BY <1>0, <2>6
    <3>2. Cardinality(Upto(k + 1)) = Cardinality(Upto(k)) + 1
      <4> HIDE DEF Upto
      <4> QED  BY <1>4, <3>1, FS_AddElement
    <3>3. g[k + 1] = g[k] /\ h[k + 1] = h[k] /\ f[k + 1] = f[k]
      BY <2>3, <2>4, <2>5, <2>6
    <3>4. Cardinality(Upto(k)) \in Nat
      BY <1>4
    <3> HIDE DEF Upto
    <3>5. Len(f[k + 1]) = (k + 1) - Cardinality(Upto(k + 1))
      BY <1>7, <3>2, <3>3, <3>4
    <3> QED  BY <1>7, <3>3, <3>5
  <2>7. CASE k + 1 \notin group
    <3>1. Upto(k + 1) = Upto(k)
      BY <1>0, <2>7
    <3>2. /\ g[k + 1] = g[k] + segs[k + 1].len /\ h[k + 1] = h[k] + segs[k + 1].live
          /\ f[k + 1] = Append(f[k], segs[k + 1])
      BY <2>1, <2>3, <2>4, <2>7
    <3>3. Cardinality(Upto(k)) \in Nat
      BY <1>4
    <3> HIDE DEF Upto
    <3> DEFINE old == f[k]
               new == f[k + 1]
    <3>4. old \in Seq(Counts) /\ new = Append(old, segs[k + 1])
      BY <1>7, <3>2
    <3>5. /\ LenOf(old, DOMAIN old) = g[k] /\ LiveOf(old, DOMAIN old) = h[k]
          /\ Len(old) = k - Cardinality(Upto(k))
          /\ \A j \in DOMAIN old : old[j] \in Outside(segs, group)
      BY <1>7
    <3> HIDE DEF old, new
    <3>6. /\ new \in Seq(Counts) /\ Len(new) = Len(old) + 1
          /\ LenOf(new, DOMAIN new) = g[k] + segs[k + 1].len
          /\ LiveOf(new, DOMAIN new) = h[k] + segs[k + 1].live
      BY <2>2, <3>4, <3>5, AppendCounts
    <3>7. Len(new) = (k + 1) - Cardinality(Upto(k + 1))
      BY <3>1, <3>3, <3>5, <3>6
    <3>8. \A j \in DOMAIN new : new[j] \in Outside(segs, group)
      <4> SUFFICES ASSUME NEW j \in DOMAIN new
                   PROVE  new[j] \in Outside(segs, group)
        OBVIOUS
      <4>1. (j \in DOMAIN old /\ new[j] = old[j]) \/ new[j] = segs[k + 1]
        BY <3>4
      <4>2. segs[k + 1] \in Outside(segs, group)
        BY <2>1, <2>7 DEF Outside
      <4> QED  BY <3>5, <4>1, <4>2
    <3> QED  BY <3>2, <3>6, <3>7, <3>8 DEF new
  <2> QED  BY <2>6, <2>7
<1>8. ASSUME NEW k \in Nat, k \in S
      PROVE  k + 1 \in S
  <2> HIDE DEF Good
  <2> QED  BY <1>0, <1>7, <1>8
<1>9. Len(segs) \in S
  <2>1. 0 \in S
    BY <1>6
  <2> HIDE DEF S
  <2> QED  BY <1>0, <1>8, <2>1, NatsBySteps
<1>10. Good(Len(segs))
  <2> HIDE DEF Good
  <2> QED  BY <1>0, <1>9
<1>11. Upto(Len(segs)) = group
  BY <1>0
<1> HIDE DEF Upto
<1> DEFINE last == f[Len(segs)]
<1>12. /\ last \in Seq(Counts)
       /\ Len(last) = Len(segs) - Cardinality(group)
       /\ LenOf(last, DOMAIN last) = LenOf(segs, out)
       /\ LiveOf(last, DOMAIN last) = LiveOf(segs, out)
       /\ \A j \in DOMAIN last : last[j] \in Outside(segs, group)
  BY <1>2, <1>3, <1>10, <1>11 DEF LenOf, LiveOf
<1> QED  BY <1>1, <1>12

\* A group and what is outside of it make up the segments.
LEMMA GroupAndRest ==
  ASSUME NEW segs \in Seq(Counts), NEW group \in SUBSET DOMAIN segs
  PROVE  /\ LenOf(segs, DOMAIN segs) =
              LenOf(segs, DOMAIN segs \ group) + LenOf(segs, group)
         /\ LiveOf(segs, DOMAIN segs) =
              LiveOf(segs, DOMAIN segs \ group) + LiveOf(segs, group)
<1> DEFINE out == DOMAIN segs \ group
<1>1. out \cap group = {} /\ out \cup group = DOMAIN segs
  OBVIOUS
<1>2. Lens(segs) \in Seq(Nat) /\ Lives(segs) \in Seq(Nat)
  BY SizesOf
<1> HIDE DEF out
<1>3. /\ Total(Lens(segs), out \cup group) = Total(Lens(segs), out) + Total(Lens(segs), group)
      /\ Total(Lives(segs), out \cup group) = Total(Lives(segs), out) + Total(Lives(segs), group)
  BY <1>1, <1>2, TotalUnion
<1>4. /\ LenOf(segs, DOMAIN segs) = LenOf(segs, out) + LenOf(segs, group)
      /\ LiveOf(segs, DOMAIN segs) = LiveOf(segs, out) + LiveOf(segs, group)
  BY <1>1, <1>3 DEF LenOf, LiveOf
<1> QED  BY <1>4 DEF out

\* What a merge makes of the segments.
LEMMA MergeGroupIs ==
  ASSUME NEW segs \in Seq(Counts), NEW group \in SUBSET DOMAIN segs
  PROVE  LET merged == MergeGroup(segs, group)
             live   == LiveOf(segs, group)
         IN  /\ merged \in Seq(Counts)
             /\ Len(merged) = Len(segs) - Cardinality(group) + (IF live = 0 THEN 0 ELSE 1)
             /\ LenOf(merged, DOMAIN merged) = LenOf(segs, DOMAIN segs \ group) + live
             /\ LiveOf(merged, DOMAIN merged) = LiveOf(segs, DOMAIN segs)
             /\ \A j \in DOMAIN merged :
                  merged[j] \in Outside(segs, group) \/ merged[j] = Segment(live, live)
<1> DEFINE live   == LiveOf(segs, group)
           merged == MergeGroup(segs, group)
<1>0. PICK rest : rest = Unmerged(segs, group)
  OBVIOUS
<1>1. /\ rest \in Seq(Counts)
      /\ Len(rest) = Len(segs) - Cardinality(group)
      /\ LenOf(rest, DOMAIN rest) = LenOf(segs, DOMAIN segs \ group)
      /\ LiveOf(rest, DOMAIN rest) = LiveOf(segs, DOMAIN segs \ group)
      /\ \A j \in DOMAIN rest : rest[j] \in Outside(segs, group)
  <2>1. rest \in Seq(Counts) /\ Len(rest) = Len(segs) - Cardinality(group)
    BY <1>0, UnmergedIs
  <2>2. /\ LenOf(rest, DOMAIN rest) = LenOf(segs, DOMAIN segs \ group)
        /\ LiveOf(rest, DOMAIN rest) = LiveOf(segs, DOMAIN segs \ group)
    BY <1>0, UnmergedIs
  <2>3. \A j \in DOMAIN rest : rest[j] \in Outside(segs, group)
    BY <1>0, UnmergedIs
  <2> QED  BY <2>1, <2>2, <2>3
<1>2. live \in Nat /\ LiveOf(segs, DOMAIN segs \ group) \in Nat
  BY LiveAtMostLen
<1>3. LiveOf(segs, DOMAIN segs) = LiveOf(segs, DOMAIN segs \ group) + live
  BY GroupAndRest
<1>4. merged = rest \o (IF live = 0 THEN <<>> ELSE <<Segment(live, live)>>)
  BY <1>0 DEF MergeGroup
<1> HIDE DEF live, merged
<1>5. CASE live = 0
  <2>1. merged = rest
    BY <1>1, <1>4, <1>5
  <2>2. LenOf(segs, DOMAIN segs \ group) \in Nat /\ Len(rest) \in Nat
    BY <1>1, LiveAtMostLen
  <2> QED  BY <1>1, <1>2, <1>3, <1>5, <2>1, <2>2 DEF live, merged
<1>6. CASE live # 0
  <2> DEFINE c == Segment(live, live)
  <2>1. c \in Counts /\ c.len = live /\ c.live = live
    BY <1>2 DEF Segment, Counts
  <2> HIDE DEF c
  <2>2. merged = rest \o <<c>>
    BY <1>4, <1>6 DEF c
  <2>3. merged = Append(rest, c)
    BY <1>1, <2>2
  <2>4. /\ merged \in Seq(Counts) /\ Len(merged) = Len(rest) + 1
        /\ LenOf(merged, DOMAIN merged) = LenOf(rest, DOMAIN rest) + live
        /\ LiveOf(merged, DOMAIN merged) = LiveOf(rest, DOMAIN rest) + live
    BY <1>1, <2>1, <2>3, AppendCounts
  <2>5. ASSUME NEW j \in DOMAIN merged
        PROVE  merged[j] \in Outside(segs, group) \/ merged[j] = c
    <3>1. (j \in DOMAIN rest /\ merged[j] = rest[j]) \/ merged[j] = c
      BY <1>1, <2>3
    <3> QED  BY <1>1, <3>1
  <2>6. /\ merged \in Seq(Counts)
        /\ Len(merged) = Len(segs) - Cardinality(group) + (IF live = 0 THEN 0 ELSE 1)
        /\ LenOf(merged, DOMAIN merged) = LenOf(segs, DOMAIN segs \ group) + live
        /\ LiveOf(merged, DOMAIN merged) = LiveOf(segs, DOMAIN segs)
    BY <1>1, <1>3, <1>6, <2>4
  <2> QED  BY <2>5, <2>6 DEF live, merged, c
<1> QED  BY <1>5, <1>6

\* What sealing the buffer makes of them.
LEMMA FlushBufferIs ==
  ASSUME NEW segs \in Seq(Counts), NEW n \in Nat
  PROVE  LET flushed == FlushBuffer(segs, n)
         IN  /\ flushed \in Seq(Counts)
             /\ LenOf(flushed, DOMAIN flushed) = LenOf(segs, DOMAIN segs) + n
             /\ LiveOf(flushed, DOMAIN flushed) = LiveOf(segs, DOMAIN segs) + n
<1>1. CASE n = 0
  <2>1. FlushBuffer(segs, n) = segs
    BY <1>1 DEF FlushBuffer
  <2>2. LenOf(segs, DOMAIN segs) \in Nat /\ LiveOf(segs, DOMAIN segs) \in Nat
    BY LiveAtMostLen
  <2> QED  BY <1>1, <2>1, <2>2
<1>2. CASE n # 0
  <2>1. Segment(n, n) \in Counts /\ Segment(n, n).len = n /\ Segment(n, n).live = n
    BY DEF Segment, Counts
  <2>2. FlushBuffer(segs, n) = Append(segs, Segment(n, n))
    BY <1>2 DEF FlushBuffer
  <2> QED  BY <2>1, <2>2, AppendCounts
<1> QED  BY <1>1, <1>2

-----------------------------------------------------------------------------
(* Buckets.                                                                *)

\* The floored sizes are a list of numbers, larger for larger segments.
LEMMA FlooredSizes ==
  ASSUME NEW segs \in Seq(Counts)
  PROVE  /\ FlooredLens(segs) \in Seq(Nat)
         /\ DOMAIN FlooredLens(segs) = DOMAIN segs
         /\ Len(FlooredLens(segs)) = Len(segs)
         /\ \A i \in DOMAIN segs :
              /\ FlooredLens(segs)[i] = Floored(segs[i])
              /\ Floored(segs[i]) \in Nat
              /\ Floored(segs[i]) >= 1
         /\ \A i, j \in DOMAIN segs :
              Lens(segs)[i] <= Lens(segs)[j] =>
                FlooredLens(segs)[i] <= FlooredLens(segs)[j]
<1>1. \A i \in DOMAIN segs : segs[i].len \in Nat /\ Lens(segs)[i] = segs[i].len
  BY SizesOf
<1>2. FlushThreshold \in Nat /\ FlushThreshold >= 1
  BY TieringAssumption
<1>3. \A i \in DOMAIN segs : Floored(segs[i]) \in Nat /\ Floored(segs[i]) >= 1
  BY <1>1, <1>2 DEF Floored
<1>4. Len(segs) \in Nat /\ DOMAIN segs = 1 .. Len(segs)
  OBVIOUS
<1>5. FlooredLens(segs) \in [1 .. Len(segs) -> Nat]
  BY <1>3, <1>4 DEF FlooredLens
<1>6. /\ FlooredLens(segs) \in Seq(Nat)
      /\ DOMAIN FlooredLens(segs) = DOMAIN segs
      /\ Len(FlooredLens(segs)) = Len(segs)
  BY <1>4, <1>5
<1>7. \A i \in DOMAIN segs : FlooredLens(segs)[i] = Floored(segs[i])
  BY DEF FlooredLens
<1>8. ASSUME NEW i \in DOMAIN segs, NEW j \in DOMAIN segs,
             Lens(segs)[i] <= Lens(segs)[j]
      PROVE  FlooredLens(segs)[i] <= FlooredLens(segs)[j]
  <2>1. Floored(segs[i]) <= Floored(segs[j])
    BY <1>1, <1>2, <1>8 DEF Floored
  <2> QED  BY <1>7, <2>1
<1> QED  BY <1>3, <1>6, <1>7, <1>8

\* Every member of a bucket but its first is less than bucket_high times the
\* average of the members before it.
Banded(segs, members) ==
  \A i \in members :
    LET before == UpTo(FlooredLens(segs), members, i) \ {i}
    IN  before # {} =>
          Floored(segs[i]) * Cardinality(before) * tiering.bucket_high[2]
            < FlooredOf(segs, before) * tiering.bucket_high[1]

\* A bucket of eligible segments, with their total.
Bucket(segs, b) ==
  /\ b.members \in SUBSET Eligible(segs)
  /\ b.members # {}
  /\ b.total = FlooredOf(segs, b.members)
  /\ Banded(segs, b.members)

\* A configuration's numbers.
LEMMA ConfigType ==
  ASSUME tiering \in Configs
  PROVE  /\ tiering.min_merge \in Nat /\ tiering.max_merge \in Nat
         /\ tiering.max_merged_len \in Nat
         /\ tiering.bucket_low[1] \in Nat /\ tiering.bucket_low[2] \in Nat
         /\ tiering.bucket_high[1] \in Nat /\ tiering.bucket_high[2] \in Nat
<1>1. \A c \in Configs :
        /\ {c.min_merge, c.max_merge, c.max_merged_len} \subseteq Nat
        /\ \A b \in {c.bucket_low, c.bucket_high} : b[1] \in Nat /\ b[2] \in Nat \ {0}
  BY TieringAssumption
<1>2. /\ {tiering.min_merge, tiering.max_merge, tiering.max_merged_len} \subseteq Nat
      /\ \A b \in {tiering.bucket_low, tiering.bucket_high} :
           b[1] \in Nat /\ b[2] \in Nat \ {0}
  BY <1>1
<1> QED  BY <1>2

\* Eligible segments are segments, finitely many.
LEMMA EligibleFinite ==
  ASSUME NEW segs \in Seq(Counts)
  PROVE  /\ Eligible(segs) \in SUBSET DOMAIN segs
         /\ IsFiniteSet(Eligible(segs)) /\ Cardinality(Eligible(segs)) \in Nat
<1>1. Eligible(segs) \in SUBSET DOMAIN segs
  BY DEF Eligible
<1> QED  BY <1>1, GroupFinite

\* The members up to one, in a part of a group.
LEMMA UpToIn ==
  ASSUME NEW s, NEW group, NEW part \in SUBSET group, NEW i
  PROVE  UpTo(s, part, i) = UpTo(s, group, i) \cap part
BY DEF UpTo

\* A later segment strictly inside the band keeps the bucket banded.
LEMMA BandedAdds ==
  ASSUME NEW segs \in Seq(Counts),
         NEW members \in SUBSET Eligible(segs), members # {}, Banded(segs, members),
         NEW i \in Eligible(segs), i \notin members,
         \A p \in members : p \in UpTo(FlooredLens(segs), Eligible(segs), i),
         Floored(segs[i]) * Cardinality(members) * tiering.bucket_high[2]
           < FlooredOf(segs, members) * tiering.bucket_high[1]
  PROVE  Banded(segs, members \cup {i})
<1> DEFINE F == FlooredLens(segs)
           E == Eligible(segs)
<1>1. /\ F \in Seq(Nat) /\ E \in SUBSET DOMAIN F
      /\ members \in SUBSET E /\ i \in E
  BY FlooredSizes, EligibleFinite
<1>2. \A p \in members : p \in UpTo(F, E, i)
  OBVIOUS
<1>3. UpTo(F, members \cup {i}, i) \ {i} = members
  <2>1. i \in UpTo(F, E, i)
    BY <1>1, UpToFinite
  <2>2. UpTo(F, members \cup {i}, i) = UpTo(F, E, i) \cap (members \cup {i})
    BY <1>1, UpToIn
  <2> QED  BY <1>2, <2>1, <2>2
<1>4. \A j \in members : UpTo(F, members \cup {i}, j) = UpTo(F, members, j)
  <2> SUFFICES ASSUME NEW j \in members
               PROVE  UpTo(F, members \cup {i}, j) = UpTo(F, members, j)
    OBVIOUS
  <2>1. j \in E /\ j # i
    OBVIOUS
  <2>2. i \notin UpTo(F, E, j)
    BY <1>1, <1>2, <2>1, UpToChain
  <2>3. /\ UpTo(F, members \cup {i}, j) = UpTo(F, E, j) \cap (members \cup {i})
        /\ UpTo(F, members, j) = UpTo(F, E, j) \cap members
    <3>1. members \cup {i} \in SUBSET E /\ members \in SUBSET E
      BY <1>1
    <3> HIDE DEF F, E
    <3> QED  BY <3>1, UpToIn
  <2> QED  BY <2>2, <2>3
<1> HIDE DEF E
<1> SUFFICES ASSUME NEW j \in members \cup {i},
                    UpTo(F, members \cup {i}, j) \ {j} # {}
             PROVE  Floored(segs[j]) * Cardinality(UpTo(F, members \cup {i}, j) \ {j})
                      * tiering.bucket_high[2]
                      < FlooredOf(segs, UpTo(F, members \cup {i}, j) \ {j})
                          * tiering.bucket_high[1]
  BY DEF Banded
<1> HIDE DEF F
<1>5. CASE j = i
  BY <1>3, <1>5
<1>6. CASE j \in members
  <2>1. UpTo(F, members, j) \ {j} # {}
    BY <1>4, <1>6
  <2>2. Floored(segs[j]) * Cardinality(UpTo(F, members, j) \ {j})
          * tiering.bucket_high[2]
          < FlooredOf(segs, UpTo(F, members, j) \ {j}) * tiering.bucket_high[1]
    BY <1>6, <2>1 DEF Banded, F
  <2> QED  BY <1>4, <1>6, <2>2
<1> QED  BY <1>5, <1>6

\* k segments have been placed, the smallest first.
PlacedSoFar(segs, buckets, k) ==
  /\ buckets \in Seq([total : Nat, members : SUBSET Eligible(segs)])
  /\ \A j \in DOMAIN buckets : Bucket(segs, buckets[j])
  /\ Cardinality(Placed(buckets)) = k
  /\ \A p \in Placed(buckets), i \in Eligible(segs) \ Placed(buckets) :
       p \in UpTo(FlooredLens(segs), Eligible(segs), i)

\* What has been placed is in some bucket.
LEMMA PlacedIn ==
  ASSUME NEW buckets
  PROVE  \A p : p \in Placed(buckets) <=> \E j \in DOMAIN buckets : p \in buckets[j].members
BY DEF Placed, Range

\* A set of naturals has a least element.
LEMMA MinIs ==
  ASSUME NEW T \in SUBSET Nat, T # {}
  PROVE  Min(T) \in T
<1> DEFINE less == {ss \in Nat \X Nat : ss[1] < ss[2]}
<1>1. \A x, y \in Nat : <<x, y>> \in less <=> x < y
  OBVIOUS
<1>2. IsWellFoundedOn(less, Nat)
  BY NatLessThanWellFounded, Zenon DEF OpToRel
<1> HIDE DEF less
<1>3. PICK x \in T : \A y \in T : ~(<<y, x>> \in less)
  BY <1>2, WFMin
<1>4. \A t \in T : t \in Nat
  OBVIOUS
<1>5. ASSUME NEW y \in T
      PROVE  x <= y
  <2>1. x \in Nat /\ y \in Nat /\ ~(y < x)
    BY <1>1, <1>3, <1>4
  <2> QED  BY <2>1
<1> QED  BY <1>5 DEF Min

\* Placing one more segment.
LEMMA PlaceNextIs ==
  ASSUME NEW segs \in Seq(Counts), NEW buckets, NEW k \in Nat,
         k < Cardinality(Eligible(segs)), PlacedSoFar(segs, buckets, k)
  PROVE  PlacedSoFar(segs, PlaceNext(segs, buckets), k + 1)
<1> DEFINE F    == FlooredLens(segs)
           E    == Eligible(segs)
           P    == Placed(buckets)
           left == E \ P
           i    == Smallest(F, left)
           size == Floored(segs[i])
           next == PlaceNext(segs, buckets)
           B    == [total : Nat, members : SUBSET E]
<1>1. /\ F \in Seq(Nat) /\ E \in SUBSET DOMAIN F
      /\ IsFiniteSet(E) /\ Cardinality(E) \in Nat
  BY FlooredSizes, EligibleFinite
<1>2. /\ buckets \in Seq(B)
      /\ \A j \in DOMAIN buckets : Bucket(segs, buckets[j])
      /\ Cardinality(P) = k
      /\ \A p \in P, q \in E \ P : p \in UpTo(F, E, q)
  BY DEF PlacedSoFar
<1>3. \A p : p \in P <=> \E j \in DOMAIN buckets : p \in buckets[j].members
  BY PlacedIn
<1>4. P \in SUBSET E /\ IsFiniteSet(P)
  <2>1. \A j \in DOMAIN buckets : buckets[j].members \in SUBSET E
    BY <1>2 DEF Bucket
  <2>2. P \in SUBSET E
    <3> HIDE DEF P, E
    <3> QED  BY <1>3, <2>1
  <2> QED  BY <1>1, <2>2, FS_Subset
<1>5. left # {} /\ left \in SUBSET E /\ left \in SUBSET DOMAIN F
  <2>1. P # E
    BY <1>1, <1>2
  <2> HIDE DEF P, E, F
  <2> QED  BY <1>1, <1>4, <2>1
<1>6. i \in left /\ UpTo(F, left, i) = {i}
  <2> HIDE DEF left, F
  <2> QED  BY <1>1, <1>5, SmallestIs
<1> HIDE DEF i
<1>7. i \in E /\ i \notin P /\ i \in DOMAIN segs /\ i \in DOMAIN F
  BY <1>6, EligibleFinite, FlooredSizes
<1>8. \A q \in left : q # i => i \in UpTo(F, E, q)
  <2> SUFFICES ASSUME NEW q \in left, q # i
               PROVE  i \in UpTo(F, E, q)
    OBVIOUS
  <2> HIDE DEF left, E, F
  <2>1. i \in UpTo(F, left, q) \/ q \in UpTo(F, left, i)
    BY <1>1, <1>5, <1>6, UpToChain
  <2>2. i \in UpTo(F, left, q)
    BY <1>6, <2>1
  <2>3. UpTo(F, left, q) = UpTo(F, E, q) \cap left
    BY <1>5, UpToIn
  <2> QED  BY <2>2, <2>3
<1>9. size \in Nat /\ F[i] = size /\ Total(F, {i}) = size
  <2>1. size \in Nat /\ F[i] = size
    BY <1>7, FlooredSizes
  <2> HIDE DEF F
  <2> QED  BY <1>1, <1>7, <2>1, TotalSingle
<1>10. next = Place(segs, buckets, i)
  BY DEF PlaceNext, i
<1> HIDE DEF size, next, P
<1> SUFFICES /\ next \in Seq(B)
             /\ \A j \in DOMAIN next : Bucket(segs, next[j])
             /\ \A p : p \in Placed(next) <=> p \in P \cup {i}
  <2>1. Placed(next) = P \cup {i}
    OBVIOUS
  <2>2. Cardinality(Placed(next)) = k + 1
    BY <1>2, <1>4, <1>7, <2>1, FS_AddElement
  <2>3. \A p \in Placed(next), q \in E \ Placed(next) : p \in UpTo(F, E, q)
    BY <1>2, <1>8, <2>1
  <2> QED  BY <2>2, <2>3 DEF PlacedSoFar, next
<1> DEFINE fitting == {j \in DOMAIN buckets : Fits(segs, i, buckets[j])}
<1>11. CASE fitting = {}
  <2> DEFINE b == [total |-> size, members |-> {i}]
  <2>1. next = Append(buckets, b)
    BY <1>10, <1>11 DEF Place, size
  <2>2. b \in B
    BY <1>7, <1>9
  <2>3. Bucket(segs, b)
    <3>1. UpTo(F, {i}, i) \ {i} = {}
      BY DEF UpTo
    <3>2. Banded(segs, b.members)
      BY <3>1 DEF Banded
    <3> QED  BY <1>7, <1>9, <3>2 DEF Bucket, FlooredOf
  <2> HIDE DEF b
  <2>4. next \in Seq(B)
    BY <1>2, <2>1, <2>2
  <2> HIDE DEF B
  <2>5. /\ DOMAIN next = DOMAIN buckets \cup {Len(buckets) + 1}
        /\ \A j \in DOMAIN buckets : next[j] = buckets[j]
        /\ next[Len(buckets) + 1] = b
    BY <1>2, <2>1
  <2>6. \A j \in DOMAIN next : Bucket(segs, next[j])
    BY <1>2, <2>3, <2>5
  <2>7. b.members = {i}
    BY DEF b
  <2>8. \A p : p \in Placed(next) <=> p \in P \cup {i}
    <3> SUFFICES ASSUME NEW p
                 PROVE  p \in Placed(next) <=> p \in P \cup {i}
      OBVIOUS
    <3>1. p \in Placed(next) <=> \E j \in DOMAIN next : p \in next[j].members
      BY PlacedIn
    <3>2. (\E j \in DOMAIN next : p \in next[j].members) <=>
            (\E j \in DOMAIN buckets : p \in buckets[j].members) \/ p \in b.members
      BY <2>5
    <3> QED  BY <1>3, <2>7, <3>1, <3>2
  <2> QED  BY <2>4, <2>6, <2>8
<1>12. CASE fitting # {}
  <2> DEFINE m == Min(fitting)
             b == buckets[m]
             c == [total |-> b.total + size, members |-> b.members \cup {i}]
  <2>1. m \in DOMAIN buckets /\ Fits(segs, i, b)
    <3>1. fitting \in SUBSET Nat
      BY <1>2
    <3>2. m \in fitting
      BY <1>12, <3>1, MinIs
    <3> QED  BY <3>2
  <2>2. next = [buckets EXCEPT ![m] =
                  [total |-> @.total + size, members |-> @.members \cup {i}]]
    BY <1>10, <1>12 DEF Place, size
  <2> HIDE DEF fitting, m
  <2>3. /\ DOMAIN next = DOMAIN buckets
        /\ \A j \in DOMAIN buckets : next[j] = IF j = m THEN c ELSE buckets[j]
    BY <2>1, <2>2
  <2>4. Bucket(segs, b)
    BY <1>2, <2>1
  <2>5. /\ b.members \in SUBSET E /\ b.members # {}
        /\ b.total = Total(F, b.members) /\ Banded(segs, b.members)
    BY <2>4 DEF Bucket, FlooredOf
  <2>6. \A p \in b.members : p \in P
    BY <1>3, <2>1
  <2>7. i \notin b.members
    BY <1>7, <2>6
  <2>8. b.total \in Nat
    BY <1>1, <2>5, TotalType
  <2>9. c \in B
    BY <1>7, <1>9, <2>5, <2>8
  <2>10. Bucket(segs, c)
    <3>1. c.members = b.members \cup {i} /\ c.total = b.total + size
      OBVIOUS
    <3>2. Total(F, b.members \cup {i}) = Total(F, b.members) + Total(F, {i})
      BY <1>1, <2>7, TotalUnion
    <3>3. Floored(segs[i]) * Cardinality(b.members) * tiering.bucket_high[2]
            < FlooredOf(segs, b.members) * tiering.bucket_high[1]
      BY <2>1, <2>5 DEF Fits, FlooredOf
    <3>4. \A p \in b.members : p \in UpTo(F, E, i)
      BY <1>2, <1>7, <2>6
    <3> HIDE DEF c
    <3>5. Banded(segs, b.members \cup {i})
      BY <1>7, <2>5, <2>7, <3>3, <3>4, BandedAdds
    <3>6. c.members \in SUBSET E /\ c.members # {}
      BY <1>7, <2>5, <3>1
    <3>7. c.total = FlooredOf(segs, c.members)
      BY <1>9, <2>5, <3>1, <3>2 DEF FlooredOf
    <3> QED  BY <3>1, <3>5, <3>6, <3>7 DEF Bucket
  <2>11. next \in Seq(B)
    <3> HIDE DEF B, b, c
    <3>1. Len(buckets) \in Nat /\ DOMAIN buckets = 1 .. Len(buckets)
          /\ \A j \in DOMAIN buckets : buckets[j] \in B
      BY <1>2
    <3>2. next = [j \in 1 .. Len(buckets) |-> IF j = m THEN c ELSE buckets[j]]
      <4>1. next = [j \in DOMAIN next |-> next[j]]
        BY <2>2
      <4> QED  BY <2>3, <3>1, <4>1
    <3>3. \A j \in 1 .. Len(buckets) : (IF j = m THEN c ELSE buckets[j]) \in B
      BY <2>9, <3>1
    <3>4. next \in [1 .. Len(buckets) -> B]
      BY <3>2, <3>3
    <3> QED  BY <3>1, <3>4
  <2>12. \A j \in DOMAIN next : Bucket(segs, next[j])
    <3> HIDE DEF b, c
    <3> QED  BY <1>2, <2>3, <2>10
  <2>13. c.members = b.members \cup {i}
    OBVIOUS
  <2>14. \A p : p \in Placed(next) <=> p \in P \cup {i}
    <3> SUFFICES ASSUME NEW p
                 PROVE  p \in Placed(next) <=> p \in P \cup {i}
      OBVIOUS
    <3>1. p \in Placed(next) <=> \E j \in DOMAIN next : p \in next[j].members
      BY PlacedIn
    <3> HIDE DEF c
    <3>2. (\E j \in DOMAIN next : p \in next[j].members) <=>
            (\E j \in DOMAIN buckets : p \in buckets[j].members) \/ p = i
      <4>1. ASSUME NEW j \in DOMAIN next, p \in next[j].members
            PROVE  (\E l \in DOMAIN buckets : p \in buckets[l].members) \/ p = i
        BY <2>1, <2>3, <2>13, <4>1
      <4>2. ASSUME NEW j \in DOMAIN buckets, p \in buckets[j].members
            PROVE  \E l \in DOMAIN next : p \in next[l].members
        <5>1. p \in next[j].members /\ j \in DOMAIN next
          BY <2>3, <2>13, <4>2
        <5> QED  BY <5>1
      <4>3. i \in next[m].members /\ m \in DOMAIN next
        BY <2>1, <2>3, <2>13
      <4> QED  BY <4>1, <4>2, <4>3
    <3> QED  BY <1>3, <3>1, <3>2
  <2> QED  BY <2>11, <2>12, <2>14
<1> QED  BY <1>11, <1>12

\* What the recursion of Buckets makes of a function, up to n segments.
PlacedUpTo(segs, f, n) ==
  [k \in 0 .. n |-> IF k = 0 THEN <<>> ELSE PlaceNext(segs, f[k - 1])]

\* The recursion of Buckets has a solution.
LEMMA PlacedExists ==
  ASSUME NEW segs, NEW n \in Nat
  PROVE  \E f : f = PlacedUpTo(segs, f, n)
<1> DEFINE F(f, m) == PlacedUpTo(segs, f, m)
           S == {m \in Nat : \E f : f = F(f, m)}
<1> USE DEF PlacedUpTo
<1>1. 0 \in S
  <2> DEFINE g == [k \in 0 .. 0 |-> <<>>]
  <2>1. g = F(g, 0)
    OBVIOUS
  <2> QED  BY <2>1
<1>2. ASSUME NEW m \in Nat, m \in S
      PROVE  m + 1 \in S
  <2>1. PICK f : f = F(f, m)
    BY <1>2
  <2> DEFINE g == PlacedUpTo(segs, f, m + 1)
  <2>2. \A k \in 0 .. m : g[k] = f[k]
    <3> SUFFICES ASSUME NEW k \in 0 .. m PROVE g[k] = f[k]
      OBVIOUS
    <3>1. k \in 0 .. m + 1
      OBVIOUS
    <3>2. F(f, m)[k] = g[k]
      BY <3>1
    <3> QED  BY <2>1, <3>2
  <2>3. \A k \in 0 .. m + 1 : g[k] = IF k = 0 THEN <<>> ELSE PlaceNext(segs, g[k - 1])
    <3> SUFFICES ASSUME NEW k \in 0 .. m + 1, k # 0
                 PROVE  g[k] = PlaceNext(segs, g[k - 1])
      OBVIOUS
    <3>1. k - 1 \in 0 .. m
      OBVIOUS
    <3> QED  BY <2>2, <3>1
  <2>4. g = F(g, m + 1)
    BY <2>3
  <2> HIDE DEF g, F
  <2>5. \E h : h = F(h, m + 1)
    BY <2>4
  <2> QED  BY <2>5
<1> HIDE DEF S, PlacedUpTo
<1>3. n \in S
  BY <1>1, <1>2, NatsBySteps
<1> QED  BY <1>3 DEF S

\* The buckets are buckets of eligible segments.
LEMMA BucketsAre ==
  ASSUME NEW segs \in Seq(Counts)
  PROVE  /\ Buckets(segs) \in Seq([total : Nat, members : SUBSET Eligible(segs)])
         /\ \A j \in DOMAIN Buckets(segs) : Bucket(segs, Buckets(segs)[j])
<1> DEFINE n == Cardinality(Eligible(segs))
           F(f) == PlacedUpTo(segs, f, n)
           placed == CHOOSE f : f = F(f)
           S == {k \in Nat : k <= n => PlacedSoFar(segs, placed[k], k)}
<1>0. n \in Nat
  BY EligibleFinite
<1>1. placed = F(placed)
  <2>1. \E f : f = F(f)
    BY <1>0, PlacedExists
  <2> HIDE DEF F
  <2> QED  BY <2>1
<1>2. Buckets(segs) = placed[n]
  BY DEF Buckets, PlacedUpTo
<1> HIDE DEF placed
<1>3. \A k \in 0 .. n : placed[k] = IF k = 0 THEN <<>> ELSE PlaceNext(segs, placed[k - 1])
  <2> HIDE DEF F, n
  <2>1. \A k \in 0 .. n : placed[k] = F(placed)[k]
    BY <1>1
  <2> QED  BY <2>1 DEF F, PlacedUpTo
<1> HIDE DEF n
<1>4. 0 \in S
  <2>1. placed[0] = <<>>
    BY <1>0, <1>3
  <2>2. Placed(<<>>) = {}
    BY DEF Placed, Range
  <2>3. Cardinality(Placed(<<>>)) = 0
    BY <2>2, FS_EmptySet
  <2>4. PlacedSoFar(segs, <<>>, 0)
    BY <2>2, <2>3 DEF PlacedSoFar
  <2> QED  BY <2>1, <2>4
<1>5. ASSUME NEW k \in Nat, k \in S
      PROVE  k + 1 \in S
  <2>1. CASE k + 1 <= n
    <3>1. k < n /\ PlacedSoFar(segs, placed[k], k) /\ k + 1 \in 0 .. n
      BY <1>0, <1>5, <2>1
    <3>2. placed[k + 1] = PlaceNext(segs, placed[k])
      BY <1>3, <3>1
    <3>3. PlacedSoFar(segs, placed[k + 1], k + 1)
      BY <3>1, <3>2, PlaceNextIs DEF n
    <3> QED  BY <3>3
  <2> QED  BY <2>1
<1> HIDE DEF S
<1>6. n \in S
  BY <1>0, <1>4, <1>5, NatsBySteps
<1>7. PlacedSoFar(segs, placed[n], n)
  BY <1>0, <1>6 DEF S
<1> QED  BY <1>2, <1>7 DEF PlacedSoFar

\* The order in which buckets are tried is transitive.
LEMMA TriedTransitive ==
  ASSUME NEW a \in Nat, NEW b \in Nat, NEW c \in Nat,
         NEW m \in Nat \ {0}, NEW n \in Nat \ {0}, NEW p \in Nat \ {0}
  PROVE  /\ a * n <= b * m /\ b * p <= c * n => a * p <= c * m
         /\ a * n < b * m /\ b * p <= c * n => a * p < c * m
         /\ a * n <= b * m /\ b * p < c * n => a * p < c * m
<1>1. (a * n) * p = (a * p) * n /\ (b * m) * p = (b * p) * m /\ (c * n) * m = (c * m) * n
  OBVIOUS
<1> DEFINE an == a * n
           bm == b * m
           bp == b * p
           cn == c * n
           ap == a * p
           cm == c * m
<1>2. an \in Nat /\ bm \in Nat /\ bp \in Nat /\ cn \in Nat /\ ap \in Nat /\ cm \in Nat
  OBVIOUS
<1>3. an * p = ap * n /\ bm * p = bp * m /\ cn * m = cm * n
  BY <1>1
<1>4. /\ \A x, y \in Nat, z \in Nat \ {0} : x <= y <=> x * z <= y * z
      /\ \A x, y \in Nat, z \in Nat \ {0} : x < y <=> x * z < y * z
  OBVIOUS
<1> HIDE DEF an, bm, bp, cn, ap, cm
<1>5. /\ an <= bm => an * p <= bm * p
      /\ an < bm => an * p < bm * p
      /\ bp <= cn => bp * m <= cn * m
      /\ bp < cn => bp * m < cn * m
      /\ ap * n <= cm * n => ap <= cm
      /\ ap * n < cm * n => ap < cm
  BY <1>2, <1>4
<1>6. /\ an * p \in Nat /\ bm * p \in Nat /\ bp * m \in Nat /\ cn * m \in Nat
      /\ ap * n \in Nat /\ cm * n \in Nat
  BY <1>2
<1> DEFINE anp == an * p
           bmp == bm * p
           bpm == bp * m
           cnm == cn * m
           apn == ap * n
           cmn == cm * n
<1>7. anp = apn /\ bmp = bpm /\ cnm = cmn
  BY <1>3
<1>8. /\ anp \in Nat /\ bmp \in Nat /\ bpm \in Nat /\ cnm \in Nat
      /\ apn \in Nat /\ cmn \in Nat
  BY <1>6
<1>9. /\ an <= bm => anp <= bmp
      /\ an < bm => anp < bmp
      /\ bp <= cn => bpm <= cnm
      /\ bp < cn => bpm < cnm
      /\ apn <= cmn => ap <= cm
      /\ apn < cmn => ap < cm
  BY <1>5
<1> HIDE DEF anp, bmp, bpm, cnm, apn, cmn
<1>10. /\ an <= bm /\ bp <= cn => ap <= cm
       /\ an < bm /\ bp <= cn => ap < cm
       /\ an <= bm /\ bp < cn => ap < cm
  BY <1>2, <1>7, <1>8, <1>9
<1> QED  BY <1>10 DEF an, bm, bp, cn, ap, cm

\* Buckets whose averages can be compared.
Averaged(buckets) ==
  \A j \in DOMAIN buckets :
    buckets[j].total \in Nat /\ Cardinality(buckets[j].members) \in Nat \ {0}

\* Of two buckets one is tried first, and the order is transitive.
LEMMA TriedOrder ==
  ASSUME NEW n \in Nat, NEW buckets, DOMAIN buckets = 1 .. n, Averaged(buckets),
         NEW i \in DOMAIN buckets, NEW j \in DOMAIN buckets, NEW k \in DOMAIN buckets
  PROVE  /\ TriedBefore(buckets, i, j) \/ TriedBefore(buckets, j, i)
         /\ TriedBefore(buckets, i, j) /\ TriedBefore(buckets, j, k) =>
              TriedBefore(buckets, i, k)
<1> DEFINE a == buckets[i].total
           b == buckets[j].total
           c == buckets[k].total
           m == Cardinality(buckets[i].members)
           p == Cardinality(buckets[j].members)
           q == Cardinality(buckets[k].members)
<1>1. /\ a \in Nat /\ b \in Nat /\ c \in Nat
      /\ m \in Nat \ {0} /\ p \in Nat \ {0} /\ q \in Nat \ {0}
  BY DEF Averaged
<1>2. i \in Nat /\ j \in Nat /\ k \in Nat
  OBVIOUS
<1>3. /\ TriedBefore(buckets, i, j) <=> a * p < b * m \/ (a * p = b * m /\ i <= j)
      /\ TriedBefore(buckets, j, i) <=> b * m < a * p \/ (b * m = a * p /\ j <= i)
      /\ TriedBefore(buckets, j, k) <=> b * q < c * p \/ (b * q = c * p /\ j <= k)
      /\ TriedBefore(buckets, i, k) <=> a * q < c * m \/ (a * q = c * m /\ i <= k)
  BY DEF TriedBefore
<1> HIDE DEF a, b, c, m, p, q
<1> DEFINE ap == a * p
           bm == b * m
           bq == b * q
           cp == c * p
           aq == a * q
           cm == c * m
<1>4. /\ ap <= bm /\ bq <= cp => aq <= cm
      /\ ap < bm /\ bq <= cp => aq < cm
      /\ ap <= bm /\ bq < cp => aq < cm
  BY <1>1, TriedTransitive
<1>5. ap \in Nat /\ bm \in Nat /\ bq \in Nat /\ cp \in Nat /\ aq \in Nat /\ cm \in Nat
  BY <1>1
<1>6. /\ TriedBefore(buckets, i, j) <=> ap < bm \/ (ap = bm /\ i <= j)
      /\ TriedBefore(buckets, j, i) <=> bm < ap \/ (bm = ap /\ j <= i)
      /\ TriedBefore(buckets, j, k) <=> bq < cp \/ (bq = cp /\ j <= k)
      /\ TriedBefore(buckets, i, k) <=> aq < cm \/ (aq = cm /\ i <= k)
  BY <1>3
<1> HIDE DEF ap, bm, bq, cp, aq, cm
<1> QED  BY <1>2, <1>4, <1>5, <1>6

\* Of some buckets one is tried before the others.
LEMMA FirstTried ==
  ASSUME NEW n \in Nat, NEW buckets, DOMAIN buckets = 1 .. n, Averaged(buckets),
         NEW T \in SUBSET DOMAIN buckets, T # {}
  PROVE  \E k \in T : \A l \in T : TriedBefore(buckets, k, l)
<1> DEFINE HasFirst(U) == \E k \in U : \A l \in U : TriedBefore(buckets, k, l)
           S == {m \in Nat : m <= n => \A U \in SUBSET (1 .. m) : U # {} => HasFirst(U)}
<1>1. 0 \in S
  <2>1. 1 .. 0 = {}
    OBVIOUS
  <2> QED  BY <2>1
<1>2. ASSUME NEW m \in Nat, m \in S
      PROVE  m + 1 \in S
  <2> SUFFICES ASSUME m + 1 <= n, NEW U \in SUBSET (1 .. m + 1), U # {}
               PROVE  HasFirst(U)
    OBVIOUS
  <2> DEFINE V == U \ {m + 1}
  <2>1. V \in SUBSET (1 .. m)
    OBVIOUS
  <2>2. \A u \in U : u \in DOMAIN buckets
    OBVIOUS
  <2>3. \A u \in U : TriedBefore(buckets, u, u)
    BY <2>2, TriedOrder
  <2>4. CASE V = {}
    <3>1. PICK u \in U : \A v \in U : v = u
      BY <2>4
    <3> QED  BY <2>3, <3>1
  <2>5. CASE V # {} /\ m + 1 \notin U
    <3>1. V = U
      BY <2>5
    <3> QED  BY <1>2, <2>1, <2>5, <3>1
  <2>6. CASE V # {} /\ m + 1 \in U
    <3>0. HasFirst(V)
      <4>1. \A W \in SUBSET (1 .. m) : W # {} => HasFirst(W)
        BY <1>2
      <4> HIDE DEF V, HasFirst
      <4> QED  BY <2>1, <2>6, <4>1
    <3>1. PICK k \in V : \A l \in V : TriedBefore(buckets, k, l)
      BY <3>0
    <3>2. k \in U /\ k \in DOMAIN buckets /\ m + 1 \in DOMAIN buckets
      BY <2>2, <2>6
    <3>3. \A l \in U : l \in V \/ l = m + 1
      OBVIOUS
    <3>4. CASE TriedBefore(buckets, k, m + 1)
      BY <3>1, <3>2, <3>3, <3>4
    <3>5. CASE ~TriedBefore(buckets, k, m + 1)
      <4>1. TriedBefore(buckets, m + 1, k)
        BY <3>2, <3>5, TriedOrder
      <4>2. ASSUME NEW l \in U
            PROVE  TriedBefore(buckets, m + 1, l)
        <5>1. CASE l = m + 1
          BY <2>3, <2>6, <5>1
        <5>2. CASE l \in V
          <6>1. TriedBefore(buckets, k, l) /\ l \in DOMAIN buckets
            BY <2>2, <3>1, <5>2
          <6> QED  BY <3>2, <4>1, <6>1, TriedOrder
        <5> QED  BY <3>3, <5>1, <5>2
      <4> QED  BY <2>6, <4>2
    <3> QED  BY <3>4, <3>5
  <2> QED  BY <2>4, <2>5, <2>6
<1> HIDE DEF S
<1>3. n \in S
  BY <1>1, <1>2, NatsBySteps
<1> QED  BY <1>3 DEF S

-----------------------------------------------------------------------------
(* Groups.                                                                 *)

\* The larger of two numbers.
LEMMA MaxPair ==
  ASSUME NEW a \in Nat, NEW b \in Nat
  PROVE  Max({a, b}) \in {a, b} /\ Max({a, b}) >= a /\ Max({a, b}) >= b
<1>1. \E x \in {a, b} : \A y \in {a, b} : x >= y
  <2>1. CASE a >= b
    BY <2>1
  <2>2. CASE ~(a >= b)
    BY <2>2
  <2> QED  BY <2>1, <2>2
<1>2. Max({a, b}) \in {a, b} /\ \A y \in {a, b} : Max({a, b}) >= y
  BY <1>1 DEF Max
<1> QED  BY <1>2

\* A tier is at least two segments.
LEMMA MinMergeIs ==
  ASSUME tiering \in Configs
  PROVE  MinMerge \in Nat /\ MinMerge >= 2
<1>1. tiering.min_merge \in Nat
  BY ConfigType
<1> QED  BY <1>1, MaxPair DEF MinMerge

\* A bucket's members are segments, and what is chosen of it are members.
LEMMA BucketMembers ==
  ASSUME NEW segs \in Seq(Counts), NEW b, Bucket(segs, b)
  PROVE  /\ b.total \in Nat /\ b.members \in SUBSET DOMAIN segs
         /\ IsFiniteSet(b.members) /\ Cardinality(b.members) \in Nat \ {0}
         /\ Chosen(segs, b) \in SUBSET b.members
         /\ IsFiniteSet(Chosen(segs, b)) /\ Cardinality(Chosen(segs, b)) \in Nat
<1>0. b.total \in Nat
  BY FlooredSizes, TotalType DEF Bucket, FlooredOf
<1>1. b.members \in SUBSET DOMAIN segs /\ b.members # {}
  BY DEF Bucket, Eligible
<1>2. IsFiniteSet(b.members) /\ Cardinality(b.members) \in Nat
  BY <1>1, GroupFinite
<1>3. Cardinality(b.members) # 0
  BY <1>1, <1>2, FS_EmptySet
<1>4. Chosen(segs, b) \in SUBSET b.members
  BY DEF Chosen
<1>5. IsFiniteSet(Chosen(segs, b)) /\ Cardinality(Chosen(segs, b)) \in Nat
  BY <1>2, <1>4, FS_Subset, FS_CardinalityType
<1> QED  BY <1>0, <1>1, <1>2, <1>3, <1>4, <1>5

\* A group of next_merge_group is chosen from a bucket.
LEMMA NextMergeGroupIs ==
  ASSUME tiering \in Configs, NEW segs \in Seq(Counts), NextMergeGroup(segs) # {}
  PROVE  \E b : /\ Bucket(segs, b)
                /\ NextMergeGroup(segs) = Chosen(segs, b)
                /\ Cardinality(Chosen(segs, b)) >= 2
<1> DEFINE buckets  == Buckets(segs)
           yielding == {k \in DOMAIN buckets :
                          /\ Cardinality(buckets[k].members) >= MinMerge
                          /\ Cardinality(Chosen(segs, buckets[k])) >= MinMerge}
           first == CHOOSE k \in yielding : \A l \in yielding : TriedBefore(buckets, k, l)
<1>1. yielding # {} /\ NextMergeGroup(segs) = Chosen(segs, buckets[first])
  BY DEF NextMergeGroup
<1>2. /\ \A j \in DOMAIN buckets : Bucket(segs, buckets[j])
      /\ buckets \in Seq([total : Nat, members : SUBSET Eligible(segs)])
  BY BucketsAre
<1> HIDE DEF buckets
<1>3. Averaged(buckets)
  <2> HIDE DEF yielding
  <2> QED  BY <1>2, BucketMembers DEF Averaged
<1>4. Len(buckets) \in Nat /\ DOMAIN buckets = 1 .. Len(buckets)
  BY <1>2
<1>5. yielding \in SUBSET DOMAIN buckets
  OBVIOUS
<1>6. first \in yielding
  <2> HIDE DEF yielding
  <2>1. \E k \in yielding : \A l \in yielding : TriedBefore(buckets, k, l)
    BY <1>1, <1>3, <1>4, <1>5, FirstTried
  <2> QED  BY <2>1
<1> HIDE DEF first
<1>7. /\ first \in DOMAIN buckets
      /\ Cardinality(Chosen(segs, buckets[first])) >= MinMerge
  BY <1>6
<1>8. Bucket(segs, buckets[first])
  BY <1>2, <1>7
<1>9. Cardinality(Chosen(segs, buckets[first])) \in Nat
  BY <1>8, BucketMembers
<1>10. Cardinality(Chosen(segs, buckets[first])) >= 2
  BY <1>7, <1>9, MinMergeIs
<1> QED  BY <1>1, <1>8, <1>10

\* The group of next_merge_group is a set of segments.
LEMMA NextMergeGroupType ==
  ASSUME tiering \in Configs, NEW segs \in Seq(Counts)
  PROVE  /\ NextMergeGroup(segs) \in SUBSET DOMAIN segs
         /\ NextMergeGroup(segs) # {} => Cardinality(NextMergeGroup(segs)) >= 2
<1>1. CASE NextMergeGroup(segs) = {}
  BY <1>1
<1>2. CASE NextMergeGroup(segs) # {}
  <2>1. PICK b : /\ Bucket(segs, b)
                 /\ NextMergeGroup(segs) = Chosen(segs, b)
                 /\ Cardinality(Chosen(segs, b)) >= 2
    BY <1>2, NextMergeGroupIs
  <2>2. Chosen(segs, b) \in SUBSET b.members /\ b.members \in SUBSET DOMAIN segs
    BY <2>1, BucketMembers
  <2> QED  BY <2>1, <2>2
<1> QED  BY <1>1, <1>2

\* What is chosen of a bucket are its smallest members up to one.
LEMMA ChosenIsUpTo ==
  ASSUME tiering \in Configs, NEW segs \in Seq(Counts),
         NEW b, Bucket(segs, b), Chosen(segs, b) # {}
  PROVE  \E i \in Chosen(segs, b) : Chosen(segs, b) = UpTo(Lens(segs), b.members, i)
<1> DEFINE L == Lens(segs)
           C == Chosen(segs, b)
           M == b.members
<1>1. L \in Seq(Nat) /\ M \in SUBSET DOMAIN L /\ C \in SUBSET M /\ C \in SUBSET DOMAIN L
  BY SizesOf, BucketMembers
<1>2. PICK i \in C : UpTo(L, C, i) = C
  <2> HIDE DEF L, C
  <2> QED  BY <1>1, LastExists DEF C
<1>3. UpTo(L, C, i) = UpTo(L, M, i) \cap C
  BY <1>1, UpToIn
<1>4. ASSUME NEW j \in UpTo(L, M, i)
      PROVE  j \in C
  <2>1. j \in M /\ i \in M
    BY <1>1 DEF UpTo
  <2> DEFINE U == UpTo(L, M, i)
             V == UpTo(L, M, j)
  <2>2. V \subseteq U /\ V \in SUBSET M /\ U \in SUBSET M
    <3> HIDE DEF L, M, C
    <3> QED  BY <1>1, <2>1, UpToTransitive, UpToFinite
  <2>3. /\ Cardinality(U) <= tiering.max_merge
        /\ U # {i} => LenOf(segs, U) <= tiering.max_merged_len
    BY DEF Chosen
  <2>4. IsFiniteSet(U) /\ Cardinality(V) \in Nat /\ Cardinality(U) \in Nat
        /\ i \in U /\ j \in V
    <3> HIDE DEF L, M, C
    <3> QED  BY <1>1, <2>1, UpToFinite
  <2>5. Cardinality(V) <= Cardinality(U)
    <3> HIDE DEF U, V
    <3> QED  BY <2>2, <2>4, FS_Subset
  <2>6. LenOf(segs, V) <= LenOf(segs, U) /\ LenOf(segs, V) \in Nat /\ LenOf(segs, U) \in Nat
    <3>1. Total(L, V) <= Total(L, U)
      <4> HIDE DEF L, U, V
      <4> QED  BY <1>1, <2>2, TotalMonotone
    <3> QED  BY <3>1, LiveAtMostLen DEF LenOf
  <2>7. V # {j} => U # {i}
    BY <2>2, <2>4
  <2> HIDE DEF U, V
  <2>8. Cardinality(V) <= tiering.max_merge
    BY <2>3, <2>4, <2>5, ConfigType
  <2>9. V # {j} => LenOf(segs, V) <= tiering.max_merged_len
    BY <2>3, <2>6, <2>7, ConfigType
  <2> QED  BY <2>1, <2>8, <2>9 DEF Chosen, V
<1>5. C = UpTo(L, M, i)
  BY <1>2, <1>3, <1>4
<1> QED  BY <1>5

\* The smallest of three numbers.
LEMMA MinOfThree ==
  ASSUME NEW a \in Nat, NEW b \in Nat, NEW c \in Nat
  PROVE  /\ Min({a, b, c}) \in {a, b, c}
         /\ Min({a, b, c}) <= a /\ Min({a, b, c}) <= b /\ Min({a, b, c}) <= c
<1>1. \E x \in {a, b, c} : \A y \in {a, b, c} : x <= y
  <2>1. CASE a <= b /\ a <= c
    BY <2>1
  <2>2. CASE b <= a /\ b <= c
    BY <2>2
  <2>3. CASE c <= a /\ c <= b
    BY <2>3
  <2> QED  BY <2>1, <2>2, <2>3
<1>2. Min({a, b, c}) \in {a, b, c} /\ \A y \in {a, b, c} : Min({a, b, c}) <= y
  BY <1>1 DEF Min
<1> QED  BY <1>2

\* A turn of force_merge_to takes at least two segments, and at most one more
\* than there are too many.
LEMMA ForceGroupIs ==
  ASSUME tiering \in Configs, NEW segs \in Seq(Counts), NEW n \in Nat,
         n > 1, Len(segs) > n
  PROVE  /\ ForceGroup(segs, n) \in SUBSET DOMAIN segs
         /\ Cardinality(ForceGroup(segs, n)) \in Nat
         /\ Cardinality(ForceGroup(segs, n)) >= 2
         /\ Cardinality(ForceGroup(segs, n)) <= Len(segs) - n + 1
<1> DEFINE over == Len(segs) - n
           k    == ForceGroupSize(segs, over)
<1>1. Len(segs) \in Nat /\ over \in Nat /\ over >= 1
  OBVIOUS
<1>2. Max({tiering.max_merge, 2}) \in Nat /\ Max({tiering.max_merge, 2}) >= 2
  BY ConfigType, MaxPair
<1>3. /\ k \in {over + 1, Max({tiering.max_merge, 2}), Len(segs)}
      /\ k <= over + 1 /\ k <= Len(segs)
  <2> DEFINE a == over + 1
             c == Max({tiering.max_merge, 2})
             d == Len(segs)
  <2>1. a \in Nat /\ c \in Nat /\ d \in Nat
    BY <1>1, <1>2
  <2>2. k = Min({a, c, d})
    BY DEF ForceGroupSize
  <2> HIDE DEF a, c, d, k
  <2>3. k \in {a, c, d} /\ k <= a /\ k <= d
    BY <2>1, <2>2, MinOfThree
  <2> QED  BY <2>3 DEF a, c, d
<1> HIDE DEF k
<1>4. k \in Nat /\ k >= 2
  BY <1>1, <1>2, <1>3
<1>5. Cardinality(DOMAIN segs) = Len(segs)
  BY <1>1, FirstPositions
<1>6. /\ Lens(segs) \in Seq(Nat) /\ DOMAIN segs \in SUBSET DOMAIN Lens(segs)
      /\ k \in 0 .. Cardinality(DOMAIN segs)
  BY <1>1, <1>3, <1>4, <1>5, SizesOf
<1>7. /\ First(Lens(segs), DOMAIN segs, k) \in SUBSET DOMAIN segs
      /\ Cardinality(First(Lens(segs), DOMAIN segs, k)) = k
  BY <1>6, FirstCounts
<1>8. ForceGroup(segs, n) = First(Lens(segs), DOMAIN segs, k)
  BY DEF ForceGroup, k
<1> QED  BY <1>3, <1>4, <1>7, <1>8

\* A merge of at least two segments leaves fewer.
LEMMA MergeShrinks ==
  ASSUME NEW segs \in Seq(Counts), NEW group \in SUBSET DOMAIN segs,
         Cardinality(group) >= 2
  PROVE  Len(MergeGroup(segs, group)) < Len(segs)
<1>1. Len(MergeGroup(segs, group)) =
        Len(segs) - Cardinality(group) + (IF LiveOf(segs, group) = 0 THEN 0 ELSE 1)
  BY MergeGroupIs
<1>2. Len(segs) \in Nat /\ Cardinality(group) \in Nat
  BY GroupFinite
<1> QED  BY <1>1, <1>2

\* What next_merge_group picks is below the caps.
LEMMA PickedBelowCaps ==
  ASSUME tiering \in Configs, NEW segs \in Seq(Counts),
         NEW group, group = NextMergeGroup(segs)
  PROVE  /\ Cardinality(group) <= tiering.max_merge
         /\ LenOf(segs, group) <= tiering.max_merged_len
         /\ \A i \in group : 2 * segs[i].len <= tiering.max_merged_len
<1>1. tiering.max_merge \in Nat /\ tiering.max_merged_len \in Nat
  BY ConfigType
<1>2. CASE group = {}
  <2>1. Cardinality(group) = 0
    BY <1>2, FS_EmptySet
  <2>2. LenOf(segs, group) = 0
    BY <1>2, SizesOf, TotalZero DEF LenOf
  <2> QED  BY <1>1, <1>2, <2>1, <2>2
<1>3. CASE group # {}
  <2>1. PICK b : /\ Bucket(segs, b)
                 /\ group = Chosen(segs, b)
                 /\ Cardinality(group) >= 2
    BY <1>3, NextMergeGroupIs
  <2>2. PICK i \in group : group = UpTo(Lens(segs), b.members, i)
    BY <1>3, <2>1, ChosenIsUpTo
  <2>3. group # {i}
    <3>1. Cardinality({i}) = 1
      BY FS_Singleton
    <3>2. ASSUME group = {i}
          PROVE  FALSE
      <4>1. Cardinality(group) = 1
        BY <3>1, <3>2, Zenon
      <4> QED  BY <2>1, <4>1
    <3> QED  BY <3>2
  <2>4. Cardinality(group) <= tiering.max_merge /\ LenOf(segs, group) <= tiering.max_merged_len
    BY <2>1, <2>2, <2>3 DEF Chosen
  <2>5. ASSUME NEW j \in group
        PROVE  2 * segs[j].len <= tiering.max_merged_len
    <3>1. j \in Eligible(segs)
      BY <2>1 DEF Bucket, Chosen
    <3>2. segs[j].len \in Nat /\ segs[j].len <= tiering.max_merged_len \div 2
      BY <3>1, SizesOf DEF Eligible
    <3> QED  BY <1>1, <3>2
  <2> QED  BY <2>4, <2>5
<1> QED  BY <1>2, <1>3

\* A group that outweighs its heaviest member by the share of the others.
LEMMA Outweighs ==
  ASSUME NEW total \in Nat, NEW before \in Nat, NEW v \in Nat, NEW f \in Nat,
         NEW n \in Nat, n >= 1, NEW h1 \in Nat, NEW h2 \in Nat,
         total >= before + v, f <= v, v * (n - 1) * h2 < before * h1
  PROVE  total * h1 > f * (h1 + (n - 1) * h2)
<1> DEFINE w == h1 + (n - 1) * h2
<1>1. (n - 1) * h2 \in Nat /\ w \in Nat
  OBVIOUS
<1>2. v * (n - 1) * h2 = v * ((n - 1) * h2)
  OBVIOUS
<1>3. v * w = v * h1 + v * ((n - 1) * h2)
  BY <1>1
<1>4. (before + v) * h1 = before * h1 + v * h1
  OBVIOUS
<1>5. total * h1 >= (before + v) * h1
  OBVIOUS
<1> HIDE DEF w
<1>6. f * w <= v * w
  BY <1>1
<1>7. /\ v * h1 \in Nat /\ before * h1 \in Nat /\ v * w \in Nat /\ f * w \in Nat
      /\ total * h1 \in Nat /\ v * ((n - 1) * h2) \in Nat /\ (before + v) * h1 \in Nat
  BY <1>1
<1> DEFINE a == v * h1
           b == before * h1
           c == v * w
           d == f * w
           e == total * h1
           g == v * ((n - 1) * h2)
           k == (before + v) * h1
<1>8. /\ g < b /\ c = a + g /\ k = b + a /\ e >= k /\ d <= c
  BY <1>2, <1>3, <1>4, <1>5, <1>6
<1>9. /\ a \in Nat /\ b \in Nat /\ c \in Nat /\ d \in Nat /\ e \in Nat /\ g \in Nat /\ k \in Nat
  BY <1>7
<1> HIDE DEF a, b, c, d, e, g, k
<1>10. e > d
  BY <1>8, <1>9
<1> QED  BY <1>10 DEF e, d, w

\* The smallest members of a bucket, at least two, outweigh their largest.
LEMMA BucketGrows ==
  ASSUME tiering \in Configs, NEW segs \in Seq(Counts), NEW b, Bucket(segs, b),
         NEW e \in b.members, NEW group, group = UpTo(Lens(segs), b.members, e),
         Cardinality(group) >= 2, NEW i \in group
  PROVE  FlooredOf(segs, group) * tiering.bucket_high[1]
           > Floored(segs[i]) * (tiering.bucket_high[1] +
               (Cardinality(group) - 1) * tiering.bucket_high[2])
<1> DEFINE L == Lens(segs)
           F == FlooredLens(segs)
           M == b.members
           n == Cardinality(group)
<1>1. /\ L \in Seq(Nat) /\ F \in Seq(Nat) /\ DOMAIN L = DOMAIN segs /\ DOMAIN F = DOMAIN segs
      /\ M \in SUBSET DOMAIN segs /\ IsFiniteSet(M) /\ Cardinality(M) \in Nat
  BY SizesOf, FlooredSizes, BucketMembers
<1>2. \A j, k \in DOMAIN segs : L[j] <= L[k] => F[j] <= F[k]
  BY FlooredSizes
<1>3. F[i] = Floored(segs[i]) /\ i \in DOMAIN segs
  <2>1. i \in DOMAIN segs
    BY <1>1 DEF UpTo
  <2> QED  BY <2>1, FlooredSizes
<1>4. \A j \in DOMAIN segs : L[j] \in Nat /\ F[j] \in Nat
  <2>1. \A j \in DOMAIN segs : L[j] \in Nat
    BY <1>1
  <2>2. \A j \in DOMAIN segs : F[j] \in Nat
    BY <1>1
  <2> QED  BY <2>1, <2>2
<1> HIDE DEF L, F
<1>5. /\ group \in SUBSET M /\ IsFiniteSet(group) /\ n \in Nat /\ n <= Cardinality(M)
  BY <1>1, UpToFinite DEF L
<1>6. PICK m \in M : Cardinality(UpTo(F, M, m)) = n
  <2>1. n \in 1 .. Cardinality(M)
    BY <1>1, <1>5
  <2> HIDE DEF n, M
  <2> QED  BY <1>1, <2>1, RankExists
<1> DEFINE H == UpTo(F, M, m)
           v == F[m]
<1>7. H \in SUBSET M /\ IsFiniteSet(H) /\ m \in H /\ Cardinality(H) = n
  BY <1>1, <1>6, UpToFinite
<1>8. v \in Nat /\ \A j \in H : F[j] <= v
  <2>1. \A j \in M : j \in DOMAIN segs
    BY <1>1
  <2> QED  BY <1>4, <1>6, <2>1 DEF UpTo
<1>9. \A j \in M : j \notin H => v <= F[j]
  <2> SUFFICES ASSUME NEW j \in M, j \notin H
               PROVE  v <= F[j]
    OBVIOUS
  <2>1. m \in UpTo(F, M, j)
    BY <1>1, <1>6, UpToChain
  <2>2. F[m] \in Nat /\ F[j] \in Nat
    BY <1>1, <1>4
  <2> QED  BY <2>1, <2>2 DEF UpTo
<1> HIDE DEF H
<1>10. \A j \in group : F[j] <= v
  <2> SUFFICES ASSUME NEW j \in group, ~(F[j] <= v)
               PROVE  FALSE
    OBVIOUS
  <2>1. j \in M /\ j \in DOMAIN segs
    BY <1>1, <1>5
  <2>2. ASSUME NEW h \in H
        PROVE  h \in group
    <3>1. h \in M /\ h \in DOMAIN segs /\ F[h] <= v
      BY <1>1, <1>7, <1>8
    <3>2. F[h] \in Nat /\ F[j] \in Nat /\ L[h] \in Nat /\ L[j] \in Nat
      BY <1>4, <2>1, <3>1
    <3>3. ~(F[j] <= F[h])
      BY <1>8, <3>1, <3>2
    <3>4. ~(L[j] <= L[h])
      BY <1>2, <2>1, <3>1, <3>3
    <3>5. h \in UpTo(L, M, j)
      BY <3>1, <3>2, <3>4 DEF UpTo
    <3>6. UpTo(L, M, j) \subseteq UpTo(L, M, e)
      BY <1>1, UpToTransitive DEF L
    <3> QED  BY <3>5, <3>6 DEF L
  <2>3. H \in SUBSET group
    BY <2>2
  <2>4. group = H
    BY <1>5, <1>7, <2>3, FS_Subset
  <2> QED  BY <1>8, <2>4
<1>11. Total(F, group) >= Total(F, H)
  <2> DEFINE more == group \ H
             less == H \ group
             both == group \cap H
  <2>1. Cardinality(more) = Cardinality(less) /\ Cardinality(more) \in Nat
    <3>1. /\ Cardinality(more) = n - Cardinality(group \cap H)
          /\ Cardinality(less) = n - Cardinality(H \cap group)
          /\ IsFiniteSet(more)
      BY <1>5, <1>7, FS_Difference
    <3>2. group \cap H = H \cap group
      OBVIOUS
    <3> QED  BY <3>1, <3>2, FS_CardinalityType
  <2>2. more \in SUBSET DOMAIN F /\ less \in SUBSET DOMAIN F
    BY <1>1, <1>5, <1>7
  <2>3. v * Cardinality(more) <= Total(F, more)
    <3>1. \A j \in more : v <= F[j]
      BY <1>5, <1>9
    <3> HIDE DEF more
    <3> QED  BY <1>1, <1>8, <2>2, <3>1, TotalAtLeast
  <2>4. Total(F, less) <= v * Cardinality(less)
    <3>1. \A j \in less : F[j] <= v
      BY <1>8
    <3> HIDE DEF less
    <3> QED  BY <1>1, <1>8, <2>2, <3>1, TotalAtMost
  <2>5. both \cap more = {} /\ both \cup more = group
        /\ both \cap less = {} /\ both \cup less = H
    OBVIOUS
  <2> HIDE DEF more, less, both
  <2>6. /\ Total(F, group) = Total(F, both) + Total(F, more)
        /\ Total(F, H) = Total(F, both) + Total(F, less)
    <3>1. Total(F, both \cup more) = Total(F, both) + Total(F, more)
      BY <1>1, <2>5, TotalUnion
    <3>2. Total(F, both \cup less) = Total(F, both) + Total(F, less)
      BY <1>1, <2>5, TotalUnion
    <3> QED  BY <2>5, <3>1, <3>2
  <2>7. /\ Total(F, both) \in Nat /\ Total(F, more) \in Nat /\ Total(F, less) \in Nat
        /\ v * Cardinality(more) \in Nat
    BY <1>1, <1>8, <2>1, TotalType
  <2> QED  BY <2>1, <2>3, <2>4, <2>6, <2>7
<1> DEFINE before == H \ {m}
<1>12. Total(F, H) = Total(F, before) + v /\ Total(F, before) \in Nat /\ Total(F, group) \in Nat
  <2>1. before \cap {m} = {} /\ before \cup {m} = H
    BY <1>7
  <2>2. m \in DOMAIN F
    BY <1>1
  <2>3. Total(F, {m}) = v
    BY <1>1, <2>2, TotalSingle
  <2> HIDE DEF before
  <2>4. Total(F, before \cup {m}) = Total(F, before) + Total(F, {m})
    BY <1>1, <2>1, TotalUnion
  <2>5. Total(F, before) \in Nat /\ Total(F, group) \in Nat
    BY <1>1, TotalType
  <2> QED  BY <2>1, <2>3, <2>4, <2>5
<1>13. Cardinality(before) = n - 1 /\ before # {}
  <2>1. Cardinality(before) = n - 1
    BY <1>7, FS_RemoveElement
  <2>2. Cardinality(before) # 0
    BY <1>5, <2>1
  <2> QED  BY <2>1, <2>2, FS_EmptySet
<1>14. v * (n - 1) * tiering.bucket_high[2] < Total(F, before) * tiering.bucket_high[1]
  <2>1. Banded(segs, M)
    BY DEF Bucket
  <2>2. Floored(segs[m]) * Cardinality(before) * tiering.bucket_high[2]
          < FlooredOf(segs, before) * tiering.bucket_high[1]
    BY <1>13, <2>1 DEF Banded, H, F
  <2>3. Floored(segs[m]) = v
    BY <1>1, FlooredSizes DEF F
  <2> QED  BY <1>13, <2>2, <2>3 DEF FlooredOf, F
<1>15. F[i] \in Nat /\ F[i] <= v
  BY <1>3, <1>4, <1>10
<1>16. Total(F, group) >= Total(F, before) + v
  BY <1>11, <1>12
<1>17. tiering.bucket_high[1] \in Nat /\ tiering.bucket_high[2] \in Nat
  BY ConfigType
<1>18. n >= 1
  BY <1>5
<1> HIDE DEF v, before, n
<1>19. Total(F, group) * tiering.bucket_high[1]
         > F[i] * (tiering.bucket_high[1] + (n - 1) * tiering.bucket_high[2])
  BY <1>5, <1>8, <1>12, <1>14, <1>15, <1>16, <1>17, <1>18, Outweighs
<1> QED  BY <1>3, <1>19 DEF FlooredOf, F, n

-----------------------------------------------------------------------------
(* The invariant.                                                          *)

\* What call may be.
Calls == {Idle, Failed, Tiers} \cup {Forcing(n) : n \in {m \in Targets : m > 1}}

\* The configuration stays one of those given; no segment has more live items
\* than items.
SizesCorrect ==
  /\ tiering \in Configs
  /\ buffered \in Nat
  /\ segments \in Seq(Counts)
  /\ call \in Calls

\* The calls under way are told apart by their names.
LEMMA CallNames ==
  ASSUME call \in Calls
  PROVE  /\ call.op = "force_merge_to" =>
              call.target \in Targets /\ call.target \in Nat /\ call.target > 1
         /\ call.op = "compact_tiers" => ~AtRest
         /\ call.op = "force_merge_to" => ~AtRest
         /\ ~(call.op = "compact_tiers" /\ call.op = "force_merge_to")
         /\ Idle # Failed
<1>1. Targets \subseteq Nat
  BY TieringAssumption
<1> QED  BY <1>1 DEF Calls, Idle, Failed, Tiers, Forcing, AtRest

\* What a write leaves of the copy it replaces.
LEMMA RestType ==
  ASSUME SizesCorrect, NEW rest \in WithoutOneCopy \cup {Contents}
  PROVE  rest.buffered \in Nat /\ rest.segments \in Seq(Counts)
<1>1. CASE rest = Contents
  BY <1>1 DEF Contents, SizesCorrect
<1>2. CASE buffered > 0 /\ rest = [Contents EXCEPT !.buffered = @ - 1]
  BY <1>2 DEF Contents, SizesCorrect
<1>3. ASSUME NEW i \in DOMAIN segments, segments[i].live > 0,
             rest = [Contents EXCEPT !.segments[i].live = @ - 1]
      PROVE  rest.buffered \in Nat /\ rest.segments \in Seq(Counts)
  <2> DEFINE less == [segments[i] EXCEPT !.live = @ - 1]
  <2>1. /\ segments \in Seq(Counts) /\ buffered \in Nat
        /\ Len(segments) \in Nat /\ DOMAIN segments = 1 .. Len(segments)
        /\ segments[i] \in Counts
    BY DEF SizesCorrect
  <2>2. less \in Counts
    BY <1>3, <2>1 DEF Counts
  <2>3. rest.segments = [segments EXCEPT ![i] = less] /\ rest.buffered = buffered
    BY <1>3 DEF Contents
  <2> HIDE DEF less
  <2>4. rest.segments \in Seq(Counts)
    BY <2>1, <2>2, <2>3
  <2> QED  BY <2>1, <2>3, <2>4
<1>4. \/ rest = Contents
      \/ buffered > 0 /\ rest = [Contents EXCEPT !.buffered = @ - 1]
      \/ \E i \in DOMAIN segments :
           segments[i].live > 0 /\ rest = [Contents EXCEPT !.segments[i].live = @ - 1]
  BY DEF WithoutOneCopy
<1> QED  BY <1>1, <1>2, <1>3, <1>4

\* The groups of the maintenance calls are segments.
LEMMA GroupTypes ==
  ASSUME SizesCorrect
  PROVE  /\ NextMergeGroup(segments) \in SUBSET DOMAIN segments
         /\ FlushBuffer(segments, buffered) \in Seq(Counts)
         /\ \A ratio : HeavyIn(FlushBuffer(segments, buffered), ratio)
                         \in SUBSET DOMAIN FlushBuffer(segments, buffered)
         /\ call.op = "force_merge_to" /\ Len(segments) > call.target =>
              ForceGroup(segments, call.target) \in SUBSET DOMAIN segments
<1>1. /\ tiering \in Configs /\ segments \in Seq(Counts) /\ buffered \in Nat
      /\ call \in Calls
  BY DEF SizesCorrect
<1>2. NextMergeGroup(segments) \in SUBSET DOMAIN segments
  BY <1>1, NextMergeGroupType
<1>3. FlushBuffer(segments, buffered) \in Seq(Counts)
  BY <1>1, FlushBufferIs
<1>4. \A ratio : HeavyIn(FlushBuffer(segments, buffered), ratio)
                   \in SUBSET DOMAIN FlushBuffer(segments, buffered)
  BY DEF HeavyIn
<1>5. ASSUME call.op = "force_merge_to", Len(segments) > call.target
      PROVE  ForceGroup(segments, call.target) \in SUBSET DOMAIN segments
  <2>1. call.target \in Nat /\ call.target > 1
    BY <1>1, <1>5, CallNames
  <2> QED  BY <1>1, <1>5, <2>1, ForceGroupIs
<1> QED  BY <1>2, <1>3, <1>4, <1>5

\* No step breaks the invariant.
LEMMA SizesKept ==
  ASSUME SizesCorrect, [Next]_vars
  PROVE  SizesCorrect'
<1>1. /\ tiering \in Configs /\ segments \in Seq(Counts) /\ buffered \in Nat
      /\ call \in Calls
  BY DEF SizesCorrect
<1>2. Idle \in Calls /\ Failed \in Calls /\ Tiers \in Calls
  BY DEF Calls
<1>3. CASE Add
  <2>1. PICK rest \in WithoutOneCopy \cup {Contents} :
          LET n == rest.buffered + 1
          IN  IF n < FlushThreshold
                THEN /\ buffered' = n
                     /\ segments' = rest.segments
                     /\ call' = Idle
                ELSE /\ buffered' = 0
                     /\ segments' = FlushBuffer(rest.segments, n)
                     /\ call' = IF tiering.auto_compact /\ HasEligibleTier(segments')
                                  THEN Tiers ELSE Idle
    BY <1>3 DEF Add
  <2>2. rest.buffered \in Nat /\ rest.segments \in Seq(Counts)
    BY RestType
  <2>3. rest.buffered + 1 \in Nat
    BY <2>2
  <2>4. FlushBuffer(rest.segments, rest.buffered + 1) \in Seq(Counts)
    BY <2>2, <2>3, FlushBufferIs
  <2>5. buffered' \in Nat
    BY <2>1, <2>3
  <2>6. segments' \in Seq(Counts)
    BY <2>1, <2>2, <2>4
  <2>7. call' \in Calls
    BY <1>2, <2>1
  <2> QED  BY <1>1, <1>3, <2>5, <2>6, <2>7 DEF Add, SizesCorrect
<1>4. CASE Delete
  <2>1. PICK rest \in WithoutOneCopy :
          buffered' = rest.buffered /\ segments' = rest.segments
    BY <1>4 DEF Delete
  <2>2. rest.buffered \in Nat /\ rest.segments \in Seq(Counts)
    BY RestType
  <2> QED  BY <1>1, <1>2, <1>4, <2>1, <2>2 DEF Delete, SizesCorrect
<1>5. CASE CompactTiers
  BY <1>1, <1>2, <1>5, GroupTypes DEF CompactTiers, Begin, SizesCorrect
<1>6. ASSUME NEW n \in Targets, ForceMergeTo(n)
      PROVE  SizesCorrect'
  <2>1. n > 1 /\ Forcing(n) \in Calls
    BY <1>6 DEF ForceMergeTo, Calls
  <2> QED  BY <1>1, <1>6, <2>1, GroupTypes DEF ForceMergeTo, Begin, SizesCorrect
<1>7. CASE TierTurn
  <2> DEFINE group == NextMergeGroup(segments)
  <2>1. MergeGroup(segments, group) \in Seq(Counts)
    BY <1>1, GroupTypes, MergeGroupIs
  <2> HIDE DEF group
  <2>2. Turn(group)
    BY <1>7 DEF TierTurn, group
  <2> QED  BY <1>1, <1>2, <2>1, <2>2 DEF Turn, SizesCorrect
<1>8. CASE ForceTurn
  <2> DEFINE group == ForceGroup(segments, call.target)
  <2>1. group \in SUBSET DOMAIN segments
    BY <1>8, GroupTypes DEF ForceTurn
  <2> HIDE DEF group
  <2>2. MergeGroup(segments, group) \in Seq(Counts)
    BY <1>1, <2>1, MergeGroupIs
  <2>3. Turn(group)
    BY <1>8 DEF ForceTurn, group
  <2> QED  BY <1>1, <1>2, <2>2, <2>3 DEF Turn, SizesCorrect
<1>9. CASE Return
  BY <1>1, <1>2, <1>9 DEF Return, SizesCorrect
<1>10. ASSUME NEW ratio \in Ratios, ReclaimTombstones(ratio)
       PROVE  SizesCorrect'
  <2> DEFINE flushed == FlushBuffer(segments, buffered)
             targets == HeavyIn(flushed, ratio)
  <2>1. flushed \in Seq(Counts) /\ targets \in SUBSET DOMAIN flushed
    BY GroupTypes
  <2>2. /\ buffered' = 0 /\ tiering' = tiering
        /\ \/ segments' = MergeGroup(flushed, targets) /\ call' = Idle
           \/ segments' = flushed /\ call' = Failed
    BY <1>10 DEF ReclaimTombstones
  <2> HIDE DEF flushed, targets
  <2>3. MergeGroup(flushed, targets) \in Seq(Counts)
    BY <2>1, MergeGroupIs
  <2> QED  BY <1>1, <1>2, <2>1, <2>2, <2>3 DEF SizesCorrect
<1>11. CASE Compact
  <2> DEFINE flushed == FlushBuffer(segments, buffered)
  <2>1. flushed \in Seq(Counts)
    BY GroupTypes
  <2>2. /\ buffered' = 0 /\ tiering' = tiering
        /\ \/ segments' = MergeGroup(flushed, DOMAIN flushed) /\ call' = Idle
           \/ segments' = flushed /\ call' = Failed
    BY <1>11 DEF Compact
  <2> HIDE DEF flushed
  <2>3. MergeGroup(flushed, DOMAIN flushed) \in Seq(Counts)
    BY <2>1, MergeGroupIs
  <2> QED  BY <1>1, <1>2, <2>1, <2>2, <2>3 DEF SizesCorrect
<1>12. CASE UNCHANGED vars
  BY <1>12 DEF vars, SizesCorrect
<1> QED  BY <1>3, <1>4, <1>5, <1>6, <1>7, <1>8, <1>9, <1>10, <1>11, <1>12 DEF Next

\* The sizes of the segments stay what counts are, whatever is written, merged,
\* or fails to be.
THEOREM SizesInvariant == Spec => []SizesCorrect
<1>1. Init => SizesCorrect
  BY DEF Init, SizesCorrect, Calls
<1>2. SizesCorrect /\ [Next]_vars => SizesCorrect'
  BY SizesKept
<1> QED  BY <1>1, <1>2, PTL DEF Spec

-----------------------------------------------------------------------------
(* The properties.                                                         *)

\* A tier merge takes no frozen segment, at most max_merge inputs, and makes no
\* output above max_merged_len.
THEOREM TierMergesKeepCaps == Spec => []TierMergeKeepsCaps
<1>1. SizesCorrect => TierMergeKeepsCaps
  BY PickedBelowCaps DEF SizesCorrect, TierMergeKeepsCaps
<1> QED  BY <1>1, SizesInvariant, PTL

\* The inputs of a tier merge are together larger than the largest of them by
\* the factor that bounds how often an item is rewritten.
THEOREM TierMergesGrow == Spec => []TierMergeGrows
<1>1. SizesCorrect => TierMergeGrows
  <2> SUFFICES ASSUME SizesCorrect
               PROVE  TierMergeGrows
    OBVIOUS
  <2> DEFINE group == NextMergeGroup(segments)
  <2>1. tiering \in Configs /\ segments \in Seq(Counts)
    BY DEF SizesCorrect
  <2>2. ASSUME NEW i \in group
        PROVE  FlooredOf(segments, group) * tiering.bucket_high[1]
                 > Floored(segments[i]) * (tiering.bucket_high[1] +
                     (Cardinality(group) - 1) * tiering.bucket_high[2])
    <3>1. PICK b : /\ Bucket(segments, b)
                   /\ group = Chosen(segments, b)
                   /\ Cardinality(group) >= 2
      BY <2>1, <2>2, NextMergeGroupIs
    <3>2. PICK e \in group : group = UpTo(Lens(segments), b.members, e)
      BY <2>1, <2>2, <3>1, ChosenIsUpTo
    <3>3. e \in b.members
      BY <3>1, <3>2 DEF Chosen
    <3> HIDE DEF group
    <3> QED  BY <2>1, <2>2, <3>1, <3>2, <3>3, BucketGrows
  <2> QED  BY <2>2 DEF TierMergeGrows
<1> QED  BY <1>1, SizesInvariant, PTL

\* Every turn of the merge loops leaves fewer segments.
THEOREM EveryTurnLeavesFewer == Spec => []EveryTurnShrinks
<1>1. SizesCorrect => EveryTurnShrinks
  <2> SUFFICES ASSUME SizesCorrect
               PROVE  EveryTurnShrinks
    OBVIOUS
  <2>1. tiering \in Configs /\ segments \in Seq(Counts) /\ Targets \subseteq Nat
    BY TieringAssumption DEF SizesCorrect
  <2>2. ASSUME NextMergeGroup(segments) # {}
        PROVE  Len(MergeGroup(segments, NextMergeGroup(segments))) < Len(segments)
    BY <2>1, <2>2, NextMergeGroupType, MergeShrinks
  <2>3. ASSUME NEW n \in Targets, Len(segments) > n, n > 1
        PROVE  Len(MergeGroup(segments, ForceGroup(segments, n))) < Len(segments)
    <3>1. n \in Nat
      BY <2>1
    <3>2. /\ ForceGroup(segments, n) \in SUBSET DOMAIN segments
          /\ Cardinality(ForceGroup(segments, n)) >= 2
      BY <2>1, <2>3, <3>1, ForceGroupIs
    <3> QED  BY <2>1, <3>2, MergeShrinks
  <2> QED  BY <2>2, <2>3 DEF EveryTurnShrinks
<1> QED  BY <1>1, SizesInvariant, PTL

\* A step while force_merge_to is under way that changes the segments is a turn
\* of its loop.
LEMMA ForceSteps ==
  ASSUME SizesCorrect, [Next]_vars, call.op = "force_merge_to", segments' # segments
  PROVE  /\ Len(segments) > call.target
         /\ segments' = MergeGroup(segments, ForceGroup(segments, call.target))
<1>1. call \in Calls /\ ~AtRest /\ call.op # "compact_tiers"
  BY CallNames DEF SizesCorrect
<1>2. ForceTurn
  BY <1>1 DEF Next, vars, Add, Delete, CompactTiers, ForceMergeTo, Begin, TierTurn, Return,
              ReclaimTombstones, Compact
<1> QED  BY <1>2 DEF ForceTurn, Turn

\* A turn of force_merge_to ends below its target only when it met a group with
\* nothing live in it, and then by one.
THEOREM ForceEndsAtTarget == Spec => ForceStopsAtTarget
<1>1. ASSUME SizesCorrect, [Next]_vars, call.op = "force_merge_to", segments' # segments
      PROVE  Len(segments') >= call.target -
               (IF \E i \in DOMAIN segments : segments[i].live = 0 THEN 1 ELSE 0)
  <2> DEFINE n     == call.target
             group == ForceGroup(segments, n)
  <2>1. tiering \in Configs /\ segments \in Seq(Counts) /\ Len(segments) \in Nat
    BY <1>1 DEF SizesCorrect
  <2>2. n \in Nat /\ n > 1
    BY <1>1, CallNames DEF SizesCorrect
  <2>3. Len(segments) > n /\ segments' = MergeGroup(segments, group)
    BY <1>1, ForceSteps
  <2>4. /\ group \in SUBSET DOMAIN segments
        /\ Cardinality(group) \in Nat
        /\ Cardinality(group) >= 2
        /\ Cardinality(group) <= Len(segments) - n + 1
    BY <2>1, <2>2, <2>3, ForceGroupIs
  <2> HIDE DEF n, group
  <2>5. Len(segments') = Len(segments) - Cardinality(group)
                           + (IF LiveOf(segments, group) = 0 THEN 0 ELSE 1)
    BY <2>1, <2>3, <2>4, MergeGroupIs
  <2>6. CASE LiveOf(segments, group) = 0
    <3>1. PICK i : i \in group
      <4>1. group # {}
        BY <2>4, FS_EmptySet
      <4> QED  BY <4>1
    <3>2. i \in DOMAIN segments
      BY <2>4, <3>1
    <3>3. /\ Lives(segments) \in Seq(Nat) /\ DOMAIN Lives(segments) = DOMAIN segments
          /\ Lives(segments)[i] = segments[i].live /\ segments[i].live \in Nat
      BY <2>1, <3>2, SizesOf
    <3>4. segments[i].live <= Total(Lives(segments), group)
      BY <3>1, <3>2, <3>3, TotalMember
    <3>5. segments[i].live = 0
      BY <2>6, <3>3, <3>4 DEF LiveOf
    <3>6. \E j \in DOMAIN segments : segments[j].live = 0
      BY <3>2, <3>5
    <3>7. Len(segments') >= n - 1
      BY <2>1, <2>2, <2>4, <2>5, <2>6
    <3> QED  BY <3>6, <3>7 DEF n
  <2>7. CASE LiveOf(segments, group) # 0
    <3>1. Len(segments') >= n
      BY <2>1, <2>2, <2>4, <2>5, <2>7
    <3> QED  BY <2>1, <2>2, <2>4, <2>5, <3>1 DEF n
  <2> QED  BY <2>6, <2>7
<1> DEFINE Ends == call.op = "force_merge_to" /\ segments' # segments =>
                     Len(segments') >= call.target -
                       (IF \E i \in DOMAIN segments : segments[i].live = 0 THEN 1 ELSE 0)
<1>2. SizesCorrect /\ [Next]_vars => [Ends]_vars
  <2>1. SizesCorrect /\ [Next]_vars => Ends
    BY <1>1
  <2> QED  BY <2>1
<1> QED  BY <1>2, SizesInvariant, PTL DEF Spec, ForceStopsAtTarget

\* What is stored and what of it is live.
LEMMA StoredIs ==
  ASSUME SizesCorrect
  PROVE  /\ SpaceAmplification[1] = LenOf(segments, DOMAIN segments) + buffered
         /\ SpaceAmplification[2] = LiveOf(segments, DOMAIN segments) + buffered
         /\ LenOf(segments, DOMAIN segments) \in Nat
         /\ LiveOf(segments, DOMAIN segments) \in Nat
         /\ buffered \in Nat
<1>1. segments \in Seq(Counts) /\ buffered \in Nat
  BY DEF SizesCorrect
<1> QED  BY <1>1, LiveAtMostLen DEF SpaceAmplification, Stored

\* The same after a step.
LEMMA StoredThen ==
  ASSUME SizesCorrect'
  PROVE  /\ SpaceAmplification'[1] = LenOf(segments', DOMAIN segments') + buffered'
         /\ SpaceAmplification'[2] = LiveOf(segments', DOMAIN segments') + buffered'
         /\ LenOf(segments', DOMAIN segments') \in Nat
         /\ LiveOf(segments', DOMAIN segments') \in Nat
         /\ buffered' \in Nat
<1>1. segments' \in Seq(Counts) /\ buffered' \in Nat
  BY DEF SizesCorrect
<1> QED  BY <1>1, LiveAtMostLen DEF SpaceAmplification, Stored

\* The space amplification has not grown, and nothing live is gone.
NothingLost ==
  /\ SpaceAmplification'[2] = SpaceAmplification[2]
  /\ SpaceAmplification'[1] <= SpaceAmplification[1]

\* A merge keeps what is live and stores no more.
LEMMA MergeKeeps ==
  ASSUME NEW segs \in Seq(Counts), NEW group \in SUBSET DOMAIN segs,
         NEW merged, merged = MergeGroup(segs, group)
  PROVE  /\ LiveOf(merged, DOMAIN merged) = LiveOf(segs, DOMAIN segs)
         /\ LenOf(merged, DOMAIN merged) <= LenOf(segs, DOMAIN segs)
         /\ group = DOMAIN segs =>
              LenOf(merged, DOMAIN merged) = LiveOf(segs, DOMAIN segs)
<1>1. /\ LenOf(merged, DOMAIN merged) =
           LenOf(segs, DOMAIN segs \ group) + LiveOf(segs, group)
      /\ LiveOf(merged, DOMAIN merged) = LiveOf(segs, DOMAIN segs)
  BY MergeGroupIs
<1>2. LenOf(segs, DOMAIN segs) = LenOf(segs, DOMAIN segs \ group) + LenOf(segs, group)
  BY GroupAndRest
<1>3. /\ LiveOf(segs, group) \in Nat /\ LenOf(segs, group) \in Nat
      /\ LiveOf(segs, group) <= LenOf(segs, group)
      /\ LenOf(segs, DOMAIN segs \ group) \in Nat
  BY LiveAtMostLen
<1>4. group = DOMAIN segs => LenOf(segs, DOMAIN segs \ group) = 0
  <2>1. Lens(segs) \in Seq(Nat) /\ DOMAIN Lens(segs) = DOMAIN segs
    BY SizesOf
  <2>2. group = DOMAIN segs => Total(Lens(segs), DOMAIN segs \ group) = 0
    BY <2>1, TotalZero
  <2> QED  BY <2>2 DEF LenOf
<1> QED  BY <1>1, <1>2, <1>3, <1>4

\* A step of a loop loses nothing, whether its output is written or not.
LEMMA TurnsKeep ==
  ASSUME SizesCorrect, [Next]_vars, SizesCorrect', ~AtRest
  PROVE  NothingLost
<1>0. segments \in Seq(Counts)
  BY DEF SizesCorrect
<1>1. TierTurn \/ ForceTurn \/ Return \/ UNCHANGED vars
  BY DEF Next, Add, Delete, CompactTiers, ForceMergeTo, Begin, ReclaimTombstones, Compact
<1>2. ASSUME NEW group \in SUBSET DOMAIN segments, segments' = MergeGroup(segments, group),
             buffered' = buffered
      PROVE  NothingLost
  <2>1. /\ LiveOf(segments', DOMAIN segments') = LiveOf(segments, DOMAIN segments)
        /\ LenOf(segments', DOMAIN segments') <= LenOf(segments, DOMAIN segments)
    BY <1>0, <1>2, MergeKeeps
  <2> QED  BY <1>2, <2>1, StoredIs, StoredThen DEF NothingLost
<1>3. ASSUME segments' = segments, buffered' = buffered
      PROVE  NothingLost
  BY <1>3, StoredIs, StoredThen DEF NothingLost
<1>4. CASE TierTurn
  <2>1. NextMergeGroup(segments) \in SUBSET DOMAIN segments
    BY GroupTypes
  <2>2. /\ segments' = MergeGroup(segments, NextMergeGroup(segments)) \/ segments' = segments
        /\ buffered' = buffered
    BY <1>4 DEF TierTurn, Turn
  <2> QED  BY <1>2, <1>3, <2>1, <2>2
<1>5. CASE ForceTurn
  <2>1. ForceGroup(segments, call.target) \in SUBSET DOMAIN segments
    BY <1>5, GroupTypes DEF ForceTurn
  <2>2. /\ segments' = MergeGroup(segments, ForceGroup(segments, call.target))
             \/ segments' = segments
        /\ buffered' = buffered
    BY <1>5 DEF ForceTurn, Turn
  <2> QED  BY <1>2, <1>3, <2>1, <2>2
<1>6. CASE Return \/ UNCHANGED vars
  BY <1>3, <1>6 DEF Return, vars
<1> QED  BY <1>1, <1>4, <1>5, <1>6

\* compact loses nothing; if it returns, everything stored is live.
LEMMA CompactKeeps ==
  ASSUME SizesCorrect, SizesCorrect', Compact
  PROVE  /\ NothingLost
         /\ call' = Idle => SpaceAmplification'[1] = SpaceAmplification'[2]
<1> DEFINE flushed == FlushBuffer(segments, buffered)
<1>1. segments \in Seq(Counts) /\ buffered \in Nat
  BY DEF SizesCorrect
<1>2. /\ flushed \in Seq(Counts)
      /\ LenOf(flushed, DOMAIN flushed) = LenOf(segments, DOMAIN segments) + buffered
      /\ LiveOf(flushed, DOMAIN flushed) = LiveOf(segments, DOMAIN segments) + buffered
  BY <1>1, FlushBufferIs
<1>3. /\ buffered' = 0
      /\ \/ segments' = MergeGroup(flushed, DOMAIN flushed) /\ call' = Idle
         \/ segments' = flushed /\ call' = Failed
  BY DEF Compact
<1> HIDE DEF flushed
<1>4. CASE segments' = MergeGroup(flushed, DOMAIN flushed)
  <2>1. /\ LiveOf(segments', DOMAIN segments') = LiveOf(flushed, DOMAIN flushed)
        /\ LenOf(segments', DOMAIN segments') <= LenOf(flushed, DOMAIN flushed)
        /\ LenOf(segments', DOMAIN segments') = LiveOf(flushed, DOMAIN flushed)
    BY <1>2, <1>4, MergeKeeps
  <2> QED  BY <1>2, <1>3, <2>1, StoredIs, StoredThen DEF NothingLost
<1>5. CASE segments' = flushed /\ call' = Failed
  <2>1. Failed # Idle
    BY DEF Failed, Idle
  <2> QED  BY <1>2, <1>3, <1>5, <2>1, StoredIs, StoredThen DEF NothingLost
<1> QED  BY <1>3, <1>4, <1>5

\* reclaim_tombstones loses nothing; if it returns, no segment is below the live
\* ratio it was asked for, where that is at most one.
LEMMA ReclaimKeeps ==
  ASSUME SizesCorrect, SizesCorrect', NEW ratio \in Ratios, ReclaimTombstones(ratio)
  PROVE  /\ NothingLost
         /\ call' = Idle /\ ratio[1] <= ratio[2] =>
              \A i \in DOMAIN segments' :
                segments'[i].live * ratio[2] >= ratio[1] * segments'[i].len
<1> DEFINE flushed == FlushBuffer(segments, buffered)
           targets == HeavyIn(flushed, ratio)
<1>1. segments \in Seq(Counts) /\ buffered \in Nat
  BY DEF SizesCorrect
<1>2. /\ flushed \in Seq(Counts)
      /\ LenOf(flushed, DOMAIN flushed) = LenOf(segments, DOMAIN segments) + buffered
      /\ LiveOf(flushed, DOMAIN flushed) = LiveOf(segments, DOMAIN segments) + buffered
  BY <1>1, FlushBufferIs
<1>3. /\ buffered' = 0
      /\ \/ segments' = MergeGroup(flushed, targets) /\ call' = Idle
         \/ segments' = flushed /\ call' = Failed
  BY DEF ReclaimTombstones
<1>4. ratio[1] \in Nat /\ ratio[2] \in Nat
  BY TieringAssumption
<1>5. targets \in SUBSET DOMAIN flushed
  BY DEF HeavyIn
<1>6. \A c \in Outside(flushed, targets) :
        c.live * ratio[2] >= ratio[1] * c.len
  <2> SUFFICES ASSUME NEW k \in DOMAIN flushed \ targets
               PROVE  flushed[k].live * ratio[2] >= ratio[1] * flushed[k].len
    BY DEF Outside
  <2>1. ~Heavy(flushed[k], ratio)
    BY DEF HeavyIn
  <2>2. flushed[k].live \in Nat /\ flushed[k].len \in Nat
    BY <1>2, SizesOf
  <2> DEFINE a == flushed[k].live * ratio[2]
             b == ratio[1] * flushed[k].len
  <2>3. a \in Nat /\ b \in Nat /\ ~(a < b)
    BY <1>4, <2>1, <2>2 DEF Heavy
  <2> HIDE DEF a, b
  <2>4. a >= b
    BY <2>3
  <2> QED  BY <2>4 DEF a, b
<1> HIDE DEF flushed, targets
<1>7. CASE segments' = MergeGroup(flushed, targets)
  <2>1. /\ LiveOf(segments', DOMAIN segments') = LiveOf(flushed, DOMAIN flushed)
        /\ LenOf(segments', DOMAIN segments') <= LenOf(flushed, DOMAIN flushed)
    BY <1>2, <1>5, <1>7, MergeKeeps
  <2>2. NothingLost
    BY <1>2, <1>3, <2>1, StoredIs, StoredThen DEF NothingLost
  <2>3. ASSUME ratio[1] <= ratio[2], NEW i \in DOMAIN segments'
        PROVE  segments'[i].live * ratio[2] >= ratio[1] * segments'[i].len
    <3> DEFINE live == LiveOf(flushed, targets)
    <3>1. segments'[i] \in Outside(flushed, targets) \/ segments'[i] = Segment(live, live)
      BY <1>2, <1>5, <1>7, MergeGroupIs
    <3>2. live \in Nat
      BY <1>2, LiveAtMostLen
    <3>3. Segment(live, live).live = live /\ Segment(live, live).len = live
      BY DEF Segment
    <3> HIDE DEF live
    <3>4. live * ratio[2] >= ratio[1] * live
      BY <1>4, <2>3, <3>2
    <3> QED  BY <1>6, <3>1, <3>3, <3>4
  <2> QED  BY <2>2, <2>3
<1>8. CASE segments' = flushed /\ call' = Failed
  <2>1. Failed # Idle
    BY DEF Failed, Idle
  <2> QED  BY <1>2, <1>3, <1>8, <2>1, StoredIs, StoredThen DEF NothingLost
<1> QED  BY <1>3, <1>7, <1>8

\* No step of a maintenance call loses a live item or adds to the space
\* amplification; a compact that returns leaves none, a reclaim_tombstones no
\* segment below the live ratio it was asked for.
THEOREM MaintenanceAlwaysReclaims == Spec => MaintenanceReclaims
<1> DEFINE reclaims == {ratio \in Ratios : ReclaimTombstones(ratio)}
           Reclaims ==
             ~AtRest \/ Compact \/ reclaims # {} =>
               /\ SpaceAmplification'[2] = SpaceAmplification[2]
               /\ SpaceAmplification'[1] <= SpaceAmplification[1]
               /\ Compact /\ call' = Idle =>
                    SpaceAmplification'[1] = SpaceAmplification'[2]
               /\ \A ratio \in reclaims : call' = Idle /\ ratio[1] <= ratio[2] =>
                    \A i \in DOMAIN segments' :
                      segments'[i].live * ratio[2] >= ratio[1] * segments'[i].len
<1>1. SizesCorrect /\ [Next]_vars => Reclaims
  <2> SUFFICES ASSUME SizesCorrect, [Next]_vars, ~AtRest \/ Compact \/ reclaims # {}
               PROVE  /\ NothingLost
                      /\ Compact /\ call' = Idle =>
                           SpaceAmplification'[1] = SpaceAmplification'[2]
                      /\ \A ratio \in reclaims : call' = Idle /\ ratio[1] <= ratio[2] =>
                           \A i \in DOMAIN segments' :
                             segments'[i].live * ratio[2] >= ratio[1] * segments'[i].len
    BY DEF NothingLost
  <2>1. SizesCorrect'
    BY SizesKept
  <2>2. \A ratio \in reclaims : ratio \in Ratios /\ ReclaimTombstones(ratio)
    OBVIOUS
  <2> HIDE DEF reclaims
  <2>3. NothingLost
    <3>1. CASE ~AtRest
      BY <2>1, <3>1, TurnsKeep
    <3>2. CASE Compact
      BY <2>1, <3>2, CompactKeeps
    <3>3. CASE reclaims # {}
      <4>1. PICK ratio \in reclaims : TRUE
        BY <3>3
      <4> QED  BY <2>1, <2>2, <4>1, ReclaimKeeps
    <3> QED  BY <3>1, <3>2, <3>3
  <2>4. Compact /\ call' = Idle => SpaceAmplification'[1] = SpaceAmplification'[2]
    BY <2>1, CompactKeeps
  <2>5. ASSUME NEW ratio \in reclaims, call' = Idle, ratio[1] <= ratio[2]
        PROVE  \A i \in DOMAIN segments' :
                 segments'[i].live * ratio[2] >= ratio[1] * segments'[i].len
    BY <2>1, <2>2, <2>5, ReclaimKeeps
  <2> QED  BY <2>3, <2>4, <2>5
<1>2. SizesCorrect /\ [Next]_vars => [Reclaims]_vars
  BY <1>1
<1>3. Spec => [][Reclaims]_vars
  <2> HIDE DEF Reclaims
  <2> QED  BY <1>2, SizesInvariant, PTL DEF Spec
<1> QED  BY <1>3, PTL DEF MaintenanceReclaims

=============================================================================
