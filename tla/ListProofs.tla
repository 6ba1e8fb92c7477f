----------------------------- MODULE ListProofs -----------------------------
(***************************************************************************)
(* Facts about lists that the proofs of several components need: the first *)
(* place of some kind, an entry put in or taken out, what is left of a     *)
(* list when entries are dropped, and a list of lists made one.            *)
(***************************************************************************)
EXTENDS Lists, SequencesExt, SequenceTheorems, FiniteSetTheorems, FunctionTheorems, WellFoundedInduction, TLAPS

-----------------------------------------------------------------------------
(* A nonempty set of positive naturals has a least element: the intervals  *)
(* from 1 to its elements are well-founded under inclusion.                *)
LEMMA LeastIndex ==
    ASSUME NEW T, T \subseteq Nat \ {0}, T # {}
    PROVE  \E m \in T : \A y \in T : m <= y
<1> DEFINE Up == {1..k : k \in T}
           R  == StrictSubsetOrdering(Nat)
<1>1. Up \subseteq FiniteSubsetsOf(Nat)
  <2>1. ASSUME NEW k \in T PROVE 1..k \in FiniteSubsetsOf(Nat)
    <3>1. k \in Int /\ 1 \in Int /\ 1..k \subseteq Nat
      OBVIOUS
    <3>2. IsFiniteSet(1..k)
      BY <3>1, FS_Interval
    <3> QED
      BY <3>1, <3>2 DEF FiniteSubsetsOf
  <2> QED
    BY <2>1
<1>2. Up # {}
  OBVIOUS
<1>3. \E U \in Up : \A V \in Up : ~(<<V, U>> \in R)
  <2>1. IsWellFoundedOn(R, FiniteSubsetsOf(Nat))
    BY FS_StrictSubsetOrderingWellFounded
  <2> HIDE DEF Up, R
  <2> QED
    BY <1>1, <1>2, <2>1, WFMin
<1>4. PICK x \in T : \A y \in T : ~(<<1..y, 1..x>> \in R)
  BY <1>3
<1>5. ASSUME NEW y \in T, y < x PROVE FALSE
  <2>1. x \in Nat /\ y \in Nat /\ y \in 1..y
    OBVIOUS
  <2>2. 1..y \subseteq 1..x /\ x \in 1..x /\ x \notin 1..y
    BY <1>5, <2>1
  <2>3. <<1..y, 1..x>> \in R
    BY <2>2 DEF StrictSubsetOrdering
  <2> QED
    BY <1>4, <2>3
<1> QED
  BY <1>5

LEMMA Least ==
    ASSUME NEW T, T \subseteq Nat \ {0}, T # {}
    PROVE  Min(T) \in T /\ \A y \in T : Min(T) <= y
<1>1. \E m \in T : \A y \in T : m <= y
  BY LeastIndex
<1> QED
  BY <1>1 DEF Min

-----------------------------------------------------------------------------
(* A sequence behind another.                                              *)
LEMMA Joining ==
    ASSUME NEW S, NEW s \in Seq(S), NEW t \in Seq(S)
    PROVE  /\ s \o t \in Seq(S) /\ Len(s \o t) = Len(s) + Len(t)
           /\ \A k \in 1..Len(s) : (s \o t)[k] = s[k]
           /\ \A k \in 1..Len(t) : (s \o t)[Len(s) + k] = t[k]
           /\ \A k \in 1..(Len(s) + Len(t)) : k \in 1..Len(s) \/ k - Len(s) \in 1..Len(t)
<1> DEFINE u == s \o t
<1>1. /\ u \in Seq(S) /\ Len(u) = Len(s) + Len(t)
      /\ \A k \in 1..(Len(s) + Len(t)) : u[k] = IF k <= Len(s) THEN s[k] ELSE t[k - Len(s)]
  BY ConcatProperties
<1>2. Len(s) \in Nat /\ Len(t) \in Nat
  OBVIOUS
<1> HIDE DEF u
<1>3. ASSUME NEW k \in 1..Len(t) PROVE u[Len(s) + k] = t[k]
  <2>1. Len(s) + k \in 1..(Len(s) + Len(t)) /\ ~(Len(s) + k <= Len(s)) /\ (Len(s) + k) - Len(s) = k
    BY <1>2
  <2> QED
    BY <1>1, <2>1
<1>4. \A k \in 1..Len(s) : u[k] = s[k]
  BY <1>1, <1>2
<1>5. \A k \in 1..(Len(s) + Len(t)) : k \in 1..Len(s) \/ k - Len(s) \in 1..Len(t)
  BY <1>2
<1> QED
  BY <1>1, <1>3, <1>4, <1>5 DEF u

(* An element put into a sequence moves those behind it up by one.         *)
LEMMA InsertAtProperties ==
    ASSUME NEW S, NEW s \in Seq(S), NEW i \in 1..(Len(s) + 1), NEW e \in S
    PROVE  /\ InsertAt(s, i, e) \in Seq(S)
           /\ Len(InsertAt(s, i, e)) = Len(s) + 1
           /\ \A k \in 1..(Len(s) + 1) :
                InsertAt(s, i, e)[k] = IF k < i THEN s[k] ELSE IF k = i THEN e ELSE s[k - 1]
<1> DEFINE front == SubSeq(s, 1, i - 1)
           back  == SubSeq(s, i, Len(s))
           mid   == <<e>>
<1>1. Len(s) \in Nat /\ i \in 1..(Len(s) + 1) /\ \A k \in 1..Len(s) : s[k] \in S
  OBVIOUS
<1>2. /\ front \in Seq(S) /\ Len(front) = i - 1
      /\ \A k \in 1..(i - 1) : front[k] = s[k]
  <2>1. \A k \in 1..(i - 1) : s[k] \in S
    BY <1>1
  <2> QED
    BY <1>1, <2>1, SubSeqProperties
<1>3. /\ back \in Seq(S) /\ Len(back) = Len(s) - i + 1
      /\ \A k \in 1..(Len(s) - i + 1) : back[k] = s[i + k - 1]
  <2>1. \A k \in i..Len(s) : s[k] \in S
    BY <1>1
  <2> QED
    BY <1>1, <2>1, SubSeqProperties
<1>4. mid \in Seq(S) /\ Len(mid) = 1 /\ mid[1] = e
  OBVIOUS
<1>5. InsertAt(s, i, e) = front \o mid \o back
  BY DEF InsertAt
<1> HIDE DEF front, mid, back
<1> DEFINE head == front \o mid
<1>6. /\ head \in Seq(S) /\ Len(head) = i
      /\ \A k \in 1..i : head[k] = IF k < i THEN s[k] ELSE e
  <2>1. /\ head \in Seq(S) /\ Len(head) = Len(front) + Len(mid)
        /\ \A k \in 1..(Len(front) + Len(mid)) :
             head[k] = IF k <= Len(front) THEN front[k] ELSE mid[k - Len(front)]
    BY <1>2, <1>4, ConcatProperties
  <2> HIDE DEF head
  <2> QED
    BY <1>1, <1>2, <1>4, <2>1
<1>7. InsertAt(s, i, e) = head \o back
  BY <1>5
<1> HIDE DEF head
<1>8. /\ head \o back \in Seq(S) /\ Len(head \o back) = Len(head) + Len(back)
      /\ \A k \in 1..(Len(head) + Len(back)) :
           (head \o back)[k] = IF k <= Len(head) THEN head[k] ELSE back[k - Len(head)]
  BY <1>3, <1>6, ConcatProperties
<1>9. Len(head) + Len(back) = Len(s) + 1
  BY <1>1, <1>3, <1>6
<1>10. \A k \in (i + 1)..(Len(s) + 1) : back[k - i] = s[k - 1]
  BY <1>1, <1>3
<1> QED
  BY <1>1, <1>6, <1>7, <1>8, <1>9, <1>10
(* An element taken out of a sequence moves those behind it down by one.   *)
LEMMA RemoveAtProperties ==
    ASSUME NEW S, NEW s \in Seq(S), NEW i \in 1..Len(s)
    PROVE  /\ RemoveAt(s, i) \in Seq(S)
           /\ Len(RemoveAt(s, i)) = Len(s) - 1
           /\ \A k \in 1..(Len(s) - 1) : RemoveAt(s, i)[k] = s[IF k < i THEN k ELSE k + 1]
<1> DEFINE front == SubSeq(s, 1, i - 1)
           back  == SubSeq(s, i + 1, Len(s))
<1>1. Len(s) \in Nat /\ i \in 1..Len(s) /\ \A k \in 1..Len(s) : s[k] \in S
  OBVIOUS
<1>2. /\ front \in Seq(S) /\ Len(front) = i - 1
      /\ \A k \in 1..(i - 1) : front[k] = s[k]
  <2>1. \A k \in 1..(i - 1) : s[k] \in S
    BY <1>1
  <2> QED
    BY <1>1, <2>1, SubSeqProperties
<1>3. /\ back \in Seq(S) /\ Len(back) = Len(s) - i
      /\ \A k \in 1..(Len(s) - i) : back[k] = s[i + k]
  <2>1. \A k \in (i + 1)..Len(s) : s[k] \in S
    BY <1>1
  <2> QED
    BY <1>1, <2>1, SubSeqProperties
<1>4. RemoveAt(s, i) = front \o back
  BY DEF RemoveAt
<1> HIDE DEF front, back
<1>5. /\ front \o back \in Seq(S) /\ Len(front \o back) = Len(front) + Len(back)
      /\ \A k \in 1..(Len(front) + Len(back)) :
           (front \o back)[k] = IF k <= Len(front) THEN front[k] ELSE back[k - Len(front)]
  BY <1>2, <1>3, ConcatProperties
<1>6. Len(front) + Len(back) = Len(s) - 1
  BY <1>1, <1>2, <1>3
<1>7. ASSUME NEW k \in 1..(Len(s) - 1)
      PROVE  RemoveAt(s, i)[k] = s[IF k < i THEN k ELSE k + 1]
  <2>1. CASE k < i
    BY <1>1, <1>2, <1>4, <1>5, <1>6, <2>1
  <2>2. CASE ~(k < i)
    <3>1. k - (i - 1) \in 1..(Len(s) - i) /\ i + (k - (i - 1)) = k + 1
      BY <1>1, <2>2
    <3>2. RemoveAt(s, i)[k] = back[k - (i - 1)]
      BY <1>1, <1>2, <1>4, <1>5, <1>6, <2>2
    <3> QED
      BY <1>3, <2>2, <3>1, <3>2
  <2> QED
    BY <2>1, <2>2
<1> QED
  BY <1>1, <1>4, <1>5, <1>6, <1>7

-----------------------------------------------------------------------------
(* What is left of a list.                                                 *)
LEMMA UpTo ==
    ASSUME NEW n \in Nat, NEW keep, keep \subseteq 1..n, NEW i \in Nat
    PROVE  /\ IsFiniteSet({j \in keep : j <= i}) /\ Cardinality({j \in keep : j <= i}) \in Nat
           /\ Cardinality({j \in keep : j <= i + 1}) =
                Cardinality({j \in keep : j <= i}) + (IF i + 1 \in keep THEN 1 ELSE 0)
<1> DEFINE low == {j \in keep : j <= i}
<1>1. IsFiniteSet(low)
  <2>1. IsFiniteSet(1..n)
    BY FS_Interval
  <2> QED
    BY <2>1, FS_Subset
<1>2. Cardinality(low) \in Nat
  BY <1>1, FS_CardinalityType
<1>3. \A j \in keep : j \in Nat
  OBVIOUS
<1>4. CASE i + 1 \in keep
  <2>1. {j \in keep : j <= i + 1} = low \cup {i + 1}
    <3>1. \A j \in keep : j <= i + 1 <=> j <= i \/ j = i + 1
      BY <1>3
    <3> QED
      BY <1>4, <3>1
  <2>2. i + 1 \notin low
    OBVIOUS
  <2> QED
    BY <1>1, <1>2, <1>4, <2>1, <2>2, FS_AddElement
<1>5. CASE i + 1 \notin keep
  <2>1. {j \in keep : j <= i + 1} = low
    <3>1. \A j \in keep : j <= i + 1 <=> j <= i
      BY <1>3, <1>5
    <3> QED
      BY <3>1
  <2> QED
    BY <1>1, <1>2, <1>5, <2>1
<1> QED
  BY <1>1, <1>2, <1>4, <1>5

(* There is a k-th smallest for each k up to the size of the set.          *)
LEMMA NthExists ==
    ASSUME NEW n \in Nat, NEW keep, keep \subseteq 1..n, NEW k \in 1..Cardinality(keep)
    PROVE  Nth(keep, k) \in keep /\ Cardinality({j \in keep : j <= Nth(keep, k)}) = k
<1> DEFINE count(i) == Cardinality({j \in keep : j <= i})
           T == {i \in 1..n : k <= count(i)}
<1>1. \A i \in Nat : count(i) \in Nat /\ count(i + 1) = count(i) + (IF i + 1 \in keep THEN 1 ELSE 0)
  BY UpTo
<1>2. count(n) = Cardinality(keep)
  <2>1. \A j \in keep : j <= n
    OBVIOUS
  <2>2. {j \in keep : j <= n} = keep
    BY <2>1
  <2> QED
    BY <2>2
<1>3. count(0) = 0
  <2>1. \A j \in keep : ~(j <= 0)
    OBVIOUS
  <2>2. {j \in keep : j <= 0} = {}
    BY <2>1
  <2> QED
    BY <2>2, FS_EmptySet
<1> HIDE DEF count
<1>4. n \in T
  <2>1. count(n) \in Nat
    BY <1>1
  <2>2. n # 0
    BY <1>2, <1>3
  <2> QED
    BY <1>2, <2>1, <2>2
<1>5. PICK m \in T : \A y \in T : m <= y
  <2>1. T \subseteq Nat \ {0} /\ T # {}
    BY <1>4
  <2> HIDE DEF T
  <2> QED
    BY <2>1, LeastIndex
<1>6. m \in 1..n /\ k <= count(m) /\ m - 1 \in Nat /\ (m - 1) + 1 = m
  OBVIOUS
<1>7. count(m - 1) < k
  <2>1. CASE m = 1
    BY <1>3, <2>1
  <2>2. CASE m # 1
    <3>1. m - 1 \in 1..n /\ m - 1 \notin T
      BY <1>5, <1>6, <2>2
    <3>2. count(m - 1) \in Nat
      BY <1>1, <1>6
    <3> QED
      BY <3>1, <3>2
  <2> QED
    BY <2>1, <2>2
<1>8. count(m) = count(m - 1) + (IF m \in keep THEN 1 ELSE 0) /\ count(m - 1) \in Nat
  BY <1>1, <1>6
<1>9. m \in keep /\ count(m) = k
  BY <1>6, <1>7, <1>8
<1>10. \E i \in keep : Cardinality({j \in keep : j <= i}) = k
  BY <1>9 DEF count
<1> QED
  BY <1>10 DEF Nth

(* The later of two places has more of them up to it.                      *)
LEMMA MoreUpTo ==
    ASSUME NEW n \in Nat, NEW keep, keep \subseteq 1..n, NEW a \in keep, NEW b \in keep, a < b
    PROVE  Cardinality({j \in keep : j <= a}) < Cardinality({j \in keep : j <= b})
<1> DEFINE lowa == {j \in keep : j <= a}
           lowb == {j \in keep : j <= b}
<1>1. a \in Nat /\ b \in Nat /\ \A j \in keep : j \in Nat
  OBVIOUS
<1>2. \A j \in keep : j <= a => j <= b
  BY <1>1
<1>3. lowa \subseteq lowb
  BY <1>2
<1>4. b \in lowb /\ b \notin lowa
  BY <1>1
<1>5. IsFiniteSet(lowa) /\ IsFiniteSet(lowb) /\ Cardinality(lowa) \in Nat /\ Cardinality(lowb) \in Nat
  BY <1>1, UpTo
<1> HIDE DEF lowa, lowb
<1>6. Cardinality(lowa) <= Cardinality(lowb) /\ Cardinality(lowa) # Cardinality(lowb)
  BY <1>3, <1>4, <1>5, FS_Subset
<1>7. Cardinality(lowa) < Cardinality(lowb)
  BY <1>5, <1>6
<1> QED
  BY <1>7 DEF lowa, lowb

(* Later entries come from later places.                                   *)
LEMMA NthGrows ==
    ASSUME NEW n \in Nat, NEW keep, keep \subseteq 1..n,
           NEW k \in 1..Cardinality(keep), NEW l \in 1..Cardinality(keep), k < l
    PROVE  Nth(keep, k) < Nth(keep, l)
<1> DEFINE a == Nth(keep, k)
           b == Nth(keep, l)
<1>1. a \in keep /\ Cardinality({j \in keep : j <= a}) = k
  BY NthExists
<1>2. b \in keep /\ Cardinality({j \in keep : j <= b}) = l
  BY NthExists
<1> HIDE DEF a, b
<1>3. k \in Int /\ l \in Int /\ a \in Int /\ b \in Int
  BY <1>1, <1>2
<1>4. b < a => l < k
  BY <1>1, <1>2, MoreUpTo
<1>5. a # b
  BY <1>1, <1>2, <1>3
<1>6. a < b
  BY <1>3, <1>4, <1>5
<1> QED
  BY <1>6 DEF a, b

(* Every place that is kept is the k-th for some k.                        *)
LEMMA NthReaches ==
    ASSUME NEW n \in Nat, NEW keep, keep \subseteq 1..n, NEW i \in keep
    PROVE  \E k \in 1..Cardinality(keep) : Nth(keep, k) = i
<1> DEFINE low == {j \in keep : j <= i}
           k   == Cardinality(low)
           a   == Nth(keep, k)
<1>1. IsFiniteSet(keep) /\ Cardinality(keep) \in Nat
  <2>1. IsFiniteSet(1..n)
    BY FS_Interval
  <2> QED
    BY <2>1, FS_Subset, FS_CardinalityType
<1>2. IsFiniteSet(low) /\ k \in Nat
  <2>1. i \in Nat
    OBVIOUS
  <2> QED
    BY <2>1, UpTo
<1>3. k <= Cardinality(keep)
  <2>1. low \in SUBSET keep
    OBVIOUS
  <2> HIDE DEF low
  <2> QED
    BY <1>1, <2>1, FS_Subset
<1>4. k # 0
  <2>1. i \in low
    OBVIOUS
  <2> HIDE DEF low
  <2> QED
    BY <1>2, <2>1, FS_EmptySet
<1>5. k \in 1..Cardinality(keep)
  <2> HIDE DEF k
  <2> QED
    BY <1>1, <1>2, <1>3, <1>4
<1>6. a \in keep /\ Cardinality({j \in keep : j <= a}) = k
  <2> HIDE DEF k
  <2> QED
    BY <1>5, NthExists
<1> HIDE DEF a
<1>7. ~(a < i) /\ ~(i < a)
  <2>1. a < i => k < k
    BY <1>6, MoreUpTo
  <2>2. i < a => k < k
    BY <1>6, MoreUpTo
  <2> HIDE DEF k
  <2> QED
    BY <1>2, <2>1, <2>2
<1>8. a = i
  BY <1>6, <1>7
<1> QED
  BY <1>5, <1>8 DEF a

(* A kept place is the n-th if n kept places are not above it.             *)
LEMMA NthIs ==
    ASSUME NEW n \in Nat, NEW keep, keep \subseteq 1..n, NEW a \in keep
    PROVE  Nth(keep, Cardinality({j \in keep : j <= a})) = a
<1>1. PICK k \in 1..Cardinality(keep) : Nth(keep, k) = a
  BY NthReaches
<1>2. Cardinality({j \in keep : j <= a}) = k
  BY <1>1, NthExists
<1> QED
  BY <1>1, <1>2

(* Numbers given to the kept places without gaps, and growing with them,   *)
(* are their ranks.                                                        *)
Ranks(g, keep, m) ==
    /\ Cardinality(keep) = m
    /\ \A j \in 1..m : Nth(keep, j) \in keep /\ g[Nth(keep, j)] = j

LEMMA Ranked ==
    ASSUME NEW n \in Nat, NEW keep, keep \subseteq 1..n, NEW m \in Nat, NEW g \in [keep -> 1..m],
           \A j \in 1..m : \E k \in keep : g[k] = j,
           \A k, l \in keep : k < l => g[k] < g[l]
    PROVE  Ranks(g, keep, m)
<1>0. \A k \in keep : k \in Nat /\ g[k] \in Nat /\ 1 <= g[k] /\ g[k] <= m
  OBVIOUS
<1>1. ASSUME NEW k \in keep, NEW l \in keep
      PROVE  (g[k] = g[l] => k = l) /\ (k <= l <=> g[k] <= g[l])
  <2>1. (k < l => g[k] < g[l]) /\ (l < k => g[l] < g[k])
    OBVIOUS
  <2> QED
    BY <1>0, <2>1
<1>2. ASSUME NEW a \in 0..m
      PROVE  Cardinality({k \in keep : g[k] <= a}) = a
  <2> DEFINE S == {k \in keep : g[k] <= a}
             f == [k \in S |-> g[k]]
  <2>1. ASSUME NEW k \in S PROVE k \in keep /\ f[k] = g[k] /\ f[k] \in 1..a
    BY <1>0
  <2>2. f \in [S -> 1..a] /\ \A k, l \in S : f[k] = f[l] => k = l
    BY <1>1, <2>1
  <2>3. \A j \in 1..a : \E k \in S : f[k] = j
    <3> SUFFICES ASSUME NEW j \in 1..a PROVE \E k \in S : f[k] = j
      OBVIOUS
    <3>1. PICK k \in keep : g[k] = j
      OBVIOUS
    <3> QED
      BY <3>1
  <2> HIDE DEF f, S
  <2>4. f \in Bijection(S, 1..a)
    BY <2>2, <2>3, Fun_IsBij
  <2>5. ExistsBijection(1..a, S)
    BY <2>4, Fun_ExistsBijSymmetric DEF ExistsBijection
  <2> QED
    BY <2>5, FS_CountingElements DEF S
<1>3. Cardinality(keep) = m
  <2>1. {k \in keep : g[k] <= m} = keep
    BY <1>0
  <2> QED
    BY <1>2, <2>1
<1>4. ASSUME NEW j \in 1..m PROVE Nth(keep, j) \in keep /\ g[Nth(keep, j)] = j
  <2>1. PICK k \in keep : g[k] = j
    OBVIOUS
  <2>2. \A l \in keep : l <= k <=> g[l] <= j
    BY <1>1, <2>1
  <2>3. {l \in keep : l <= k} = {l \in keep : g[l] <= j}
    BY <2>2
  <2>4. Cardinality({l \in keep : l <= k}) = j
    BY <1>2, <2>3
  <2>5. Nth(keep, j) = k
    BY <2>4, NthIs
  <2> QED
    BY <2>1, <2>5
<1> QED
  BY <1>3, <1>4 DEF Ranks

(* A place above all the others is the last of them.                       *)
Trails(i, S, T) ==
    /\ Cardinality(S) \in Nat /\ Cardinality(T) = Cardinality(S) + 1
    /\ Nth(T, Cardinality(S) + 1) = i
    /\ \A k \in 1..Cardinality(S) : Nth(T, k) = Nth(S, k)

LEMMA NthAbove ==
    ASSUME NEW n \in Nat, NEW S, S \subseteq 1..n, NEW i \in 1..n, \A j \in S : j < i
    PROVE  Trails(i, S, S \cup {i})
<1> DEFINE T == S \cup {i}
<1>0. \A j \in S : j \in 1..n /\ j < i
  OBVIOUS
<1>1. T \subseteq 1..n /\ i \notin S /\ IsFiniteSet(S)
  <2>1. IsFiniteSet(1..n)
    BY FS_Interval
  <2>2. IsFiniteSet(S)
    BY <2>1, FS_Subset
  <2>3. i \notin S
    BY <1>0
  <2> QED
    BY <2>2, <2>3
<1>2. Cardinality(S) \in Nat /\ Cardinality(T) = Cardinality(S) + 1
  BY <1>1, FS_AddElement, FS_CardinalityType
<1>3. Nth(T, Cardinality(S) + 1) = i
  <2>1. i <= i /\ \A j \in S : j <= i
    BY <1>0
  <2>2. {j \in T : j <= i} = T
    BY <2>1
  <2>3. i \in T
    OBVIOUS
  <2> HIDE DEF T
  <2>4. Nth(T, Cardinality({j \in T : j <= i})) = i
    BY <1>1, <2>3, NthIs
  <2>5. Nth(T, Cardinality(T)) = i
    BY <2>2, <2>4
  <2> QED
    BY <1>2, <2>5
<1>4. ASSUME NEW k \in 1..Cardinality(S) PROVE Nth(T, k) = Nth(S, k)
  <2> DEFINE a == Nth(S, k)
  <2>1. a \in S /\ Cardinality({j \in S : j <= a}) = k
    BY NthExists
  <2> HIDE DEF a
  <2>2. {j \in T : j <= a} = {j \in S : j <= a}
    BY <2>1
  <2>3. a \in T /\ Nth(T, Cardinality({j \in T : j <= a})) = a
    BY <1>1, <2>1, NthIs
  <2> QED
    BY <2>1, <2>2, <2>3 DEF a
<1> QED
  BY <1>2, <1>3, <1>4 DEF Trails

(* The entries that are kept, where they were, and in the order they had.  *)
LEMMA OnlyProperties ==
    ASSUME NEW S, NEW s \in Seq(S), NEW keep, keep \subseteq DOMAIN s
    PROVE  /\ Only(s, keep) \in Seq(S) /\ Len(Only(s, keep)) = Cardinality(keep)
           /\ Cardinality(keep) \in Nat
           /\ \A k \in 1..Cardinality(keep) :
                Nth(keep, k) \in keep /\ Only(s, keep)[k] = s[Nth(keep, k)]
           /\ \A k, l \in 1..Cardinality(keep) : k < l => Nth(keep, k) < Nth(keep, l)
           /\ \A i \in keep : \E k \in 1..Cardinality(keep) : Nth(keep, k) = i
<1>1. Len(s) \in Nat /\ keep \subseteq 1..Len(s) /\ \A i \in keep : s[i] \in S
  OBVIOUS
<1>2. IsFiniteSet(keep) /\ Cardinality(keep) \in Nat
  <2>1. IsFiniteSet(1..Len(s))
    BY <1>1, FS_Interval
  <2> QED
    BY <1>1, <2>1, FS_Subset, FS_CardinalityType
<1>3. \A k \in 1..Cardinality(keep) : Nth(keep, k) \in keep /\ s[Nth(keep, k)] \in S
  BY <1>1, NthExists
<1>4. Only(s, keep) \in [1..Cardinality(keep) -> S]
  BY <1>3 DEF Only
<1>5. \A k \in 1..Cardinality(keep) : Only(s, keep)[k] = s[Nth(keep, k)]
  BY DEF Only
<1>6. Only(s, keep) \in Seq(S) /\ Len(Only(s, keep)) = Cardinality(keep)
  BY <1>2, <1>4
<1>7. \A k, l \in 1..Cardinality(keep) : k < l => Nth(keep, k) < Nth(keep, l)
  BY <1>1, NthGrows
<1>8. \A i \in keep : \E k \in 1..Cardinality(keep) : Nth(keep, k) = i
  BY <1>1, NthReaches
<1> QED
  BY <1>2, <1>3, <1>5, <1>6, <1>7, <1>8

(* A place below all the others is the first of them.                      *)
Leads(i, S, T) ==
    /\ Cardinality(S) \in Nat /\ Cardinality(T) = Cardinality(S) + 1
    /\ Nth(T, 1) = i
    /\ \A k \in 1..Cardinality(S) : Nth(T, k + 1) = Nth(S, k)

LEMMA NthBelow ==
    ASSUME NEW n \in Nat, NEW S, S \subseteq 1..n, NEW i \in 1..n, \A j \in S : i < j
    PROVE  Leads(i, S, S \cup {i})
<1> DEFINE T == S \cup {i}
           c == Cardinality(S)
<1>1. T \subseteq 1..n /\ i \notin S /\ IsFiniteSet(S) /\ i \in T
  <2>1. IsFiniteSet(1..n)
    BY FS_Interval
  <2>2. IsFiniteSet(S)
    BY <2>1, FS_Subset
  <2>3. i \notin S
    OBVIOUS
  <2> QED
    BY <2>2, <2>3
<1>2. c \in Nat /\ Cardinality(T) = c + 1
  BY <1>1, FS_AddElement, FS_CardinalityType
<1>3. ASSUME NEW m \in S
      PROVE  /\ Cardinality({j \in T : j <= m}) = Cardinality({j \in S : j <= m}) + 1
             /\ Cardinality({j \in S : j <= m}) \in Nat
  <2> DEFINE low == {j \in S : j <= m}
  <2>1. {j \in T : j <= m} = low \cup {i}
    OBVIOUS
  <2>2. IsFiniteSet(low) /\ i \notin low
    BY <1>1, FS_Subset
  <2> HIDE DEF low
  <2>3. Cardinality(low \cup {i}) = Cardinality(low) + 1 /\ Cardinality(low) \in Nat
    BY <2>2, FS_AddElement, FS_CardinalityType
  <2> QED
    BY <2>1, <2>3 DEF low
<1>4. Cardinality({j \in T : j <= i}) = 1
  <2>1. {j \in T : j <= i} = {i}
    <3>1. \A j \in S : ~(j <= i)
      BY <1>1
    <3>2. \A j \in T : j <= i <=> j = i
      BY <1>1, <3>1
    <3> HIDE DEF T
    <3> QED
      BY <1>1, <3>2
  <2> QED
    BY <2>1, FS_Singleton
<1>5. ASSUME NEW a \in T, NEW b \in T,
             Cardinality({j \in T : j <= a}) = Cardinality({j \in T : j <= b})
      PROVE  a = b
  <2>1. a < b => Cardinality({j \in T : j <= a}) < Cardinality({j \in T : j <= b})
    BY <1>1, MoreUpTo
  <2>2. b < a => Cardinality({j \in T : j <= b}) < Cardinality({j \in T : j <= a})
    BY <1>1, MoreUpTo
  <2>3. a \in Nat /\ b \in Nat
    BY <1>1
  <2>4. \A x \in T : Cardinality({j \in T : j <= x}) \in Nat
    <3> SUFFICES ASSUME NEW x \in T PROVE Cardinality({j \in T : j <= x}) \in Nat
      OBVIOUS
    <3>1. x \in Nat
      BY <1>1
    <3> HIDE DEF T
    <3> QED
      BY <1>1, <3>1, UpTo
  <2> DEFINE ca == Cardinality({j \in T : j <= a})
             cb == Cardinality({j \in T : j <= b})
  <2>5. ca \in Nat /\ cb \in Nat /\ ca = cb /\ (a < b => ca < cb) /\ (b < a => cb < ca)
    BY <1>5, <2>1, <2>2, <2>4
  <2> HIDE DEF ca, cb, T
  <2> QED
    BY <2>3, <2>5
<1>6. ASSUME NEW k \in 1..Cardinality(T)
      PROVE  Nth(T, k) \in T /\ Cardinality({j \in T : j <= Nth(T, k)}) = k
  <2> HIDE DEF T
  <2> QED
    BY <1>1, NthExists
<1>7. Nth(T, 1) = i
  <2>1. 1 \in 1..Cardinality(T)
    BY <1>2
  <2>2. Nth(T, 1) \in T /\ Cardinality({j \in T : j <= Nth(T, 1)}) = 1
    BY <1>6, <2>1
  <2> HIDE DEF T
  <2> QED
    BY <1>1, <1>4, <1>5, <2>2
<1>8. ASSUME NEW k \in 1..c PROVE Nth(T, k + 1) = Nth(S, k)
  <2>1. k + 1 \in 1..Cardinality(T)
    BY <1>2
  <2>2. Nth(T, k + 1) \in T /\ Cardinality({j \in T : j <= Nth(T, k + 1)}) = k + 1
    BY <1>6, <2>1
  <2>3. Nth(S, k) \in S /\ Cardinality({j \in S : j <= Nth(S, k)}) = k
    BY NthExists
  <2>4. Cardinality({j \in T : j <= Nth(S, k)}) = k + 1
    BY <1>3, <2>3
  <2>5. Nth(S, k) \in T
    BY <2>3
  <2> HIDE DEF T
  <2> QED
    BY <1>5, <2>2, <2>4, <2>5
<1> QED
  BY <1>2, <1>7, <1>8 DEF Leads

-----------------------------------------------------------------------------
(* Concatenation of a list of lists: what the recursion of FlattenSeq      *)
(* computes, by the least place where it would not.                        *)
Flattens(f, s, m) ==
    /\ f[1] = s[1]
    /\ \A i \in 2..m : f[i] = f[i - 1] \o s[i]

LEMMA FlattenExists ==
    ASSUME NEW s, NEW n \in Nat \ {0}
    PROVE  \E f : f = [i \in 1..n |-> IF i = 1 THEN s[i] ELSE f[i - 1] \o s[i]]
<1> DEFINE Step(g, i) == IF i = 1 THEN s[i] ELSE g[i - 1] \o s[i]
           Has(m) == \E g : g = [i \in 1..m |-> Step(g, i)]
           T == {m \in 1..n : ~Has(m)}
<1>1. Has(1)
  <2> DEFINE g == [i \in 1..1 |-> s[1]]
  <2>1. g = [i \in 1..1 |-> Step(g, i)]
    OBVIOUS
  <2> HIDE DEF g
  <2> QED
    BY <2>1
<1>2. ASSUME NEW m \in Nat \ {0}, Has(m) PROVE Has(m + 1)
  <2>1. PICK g : g = [i \in 1..m |-> Step(g, i)]
    BY <1>2
  <2> DEFINE x == g[m] \o s[m + 1]
             h == [i \in 1..(m + 1) |-> IF i \in 1..m THEN g[i] ELSE x]
  <2>2. DOMAIN h = 1..(m + 1) /\ h = [i \in 1..(m + 1) |-> h[i]]
    OBVIOUS
  <2>3. (\A i \in 1..m : h[i] = g[i]) /\ h[m + 1] = x
    <3>1. m + 1 \notin 1..m /\ m + 1 \in 1..(m + 1) /\ \A i \in 1..m : i \in 1..(m + 1)
      OBVIOUS
    <3> HIDE DEF x
    <3> QED
      BY <3>1
  <2>4. ASSUME NEW i \in 1..m PROVE h[i] = Step(h, i)
    <3>1. g[i] = Step(g, i)
      BY <2>1
    <3>2. CASE i = 1
      BY <2>3, <3>1, <3>2
    <3>3. CASE i # 1
      <4>1. i - 1 \in 1..m
        BY <3>3
      <4>2. h[i - 1] = g[i - 1] /\ h[i] = g[i]
        BY <2>3, <4>1
      <4> QED
        BY <3>1, <3>3, <4>2
    <3> QED
      BY <3>2, <3>3
  <2>5. h[m + 1] = Step(h, m + 1)
    <3>1. m \in 1..m /\ m + 1 # 1 /\ (m + 1) - 1 = m
      OBVIOUS
    <3>2. h[m] = g[m]
      BY <2>3, <3>1
    <3> QED
      BY <2>3, <3>1, <3>2
  <2>6. \A i \in 1..(m + 1) : i \in 1..m \/ i = m + 1
    OBVIOUS
  <2> HIDE DEF h
  <2>7. \A i \in 1..(m + 1) : h[i] = Step(h, i)
    BY <2>4, <2>5, <2>6
  <2> HIDE DEF Step
  <2>8. h = [i \in 1..(m + 1) |-> Step(h, i)]
    BY <2>2, <2>7
  <2> QED
    BY <2>8
<1> HIDE DEF Has
<1>3. T = {}
  <2> SUFFICES ASSUME T # {} PROVE FALSE
    OBVIOUS
  <2>1. T \subseteq Nat \ {0}
    OBVIOUS
  <2> HIDE DEF T
  <2>2. PICK m \in T : \A y \in T : m <= y
    BY <2>1, LeastIndex
  <2>3. m \in 1..n /\ ~Has(m) /\ m # 1
    BY <1>1 DEF T
  <2>4. m - 1 \in 1..n /\ m - 1 \notin T
    BY <2>2, <2>3
  <2>5. Has(m - 1) /\ m - 1 \in Nat \ {0}
    BY <2>4 DEF T
  <2>6. Has((m - 1) + 1)
    BY <1>2, <2>5
  <2>7. (m - 1) + 1 = m
    BY <2>3
  <2> QED
    BY <2>3, <2>6, <2>7
<1>4. n \in 1..n
  OBVIOUS
<1>5. Has(n)
  BY <1>3, <1>4
<1> QED
  BY <1>5 DEF Has

LEMMA FlattenThere ==
    ASSUME NEW s, Len(s) \in Nat \ {0}
    PROVE  \E f : FlattenSeq(s) = f[Len(s)] /\ Flattens(f, s, Len(s))
<1> DEFINE n == Len(s)
           f == CHOOSE f : f = [i \in 1..n |-> IF i = 1 THEN s[i] ELSE f[i - 1] \o s[i]]
<1>1. FlattenSeq(s) = f[n]
  BY DEF FlattenSeq
<1>2. f = [i \in 1..n |-> IF i = 1 THEN s[i] ELSE f[i - 1] \o s[i]]
  BY FlattenExists
<1> HIDE DEF f
<1>3. f[1] = s[1]
  BY <1>2
<1>4. ASSUME NEW i \in 2..n PROVE f[i] = f[i - 1] \o s[i]
  <2>1. i \in 1..n /\ i # 1
    OBVIOUS
  <2> QED
    BY <1>2, <2>1
<1> QED
  BY <1>1, <1>3, <1>4 DEF Flattens

Associates(S) == \A a, b, c \in Seq(S) : (a \o b) \o c = a \o (b \o c)

LEMMA Associative == ASSUME NEW S PROVE Associates(S)
BY ConcatAssociative DEF Associates

(* From any place on by induction: what holds of the first, and passes to  *)
(* the next, holds of all, said of the set of places where it holds.       *)
Passes(H, n)  == 1 \in H /\ \A m \in 1..n : m \in H /\ m + 1 \in 1..n => m + 1 \in H
Along(H, n) == \A m \in 1..n : m \in H

LEMMA Throughout ==
    ASSUME NEW n \in Nat \ {0}, NEW H, Passes(H, n)
    PROVE  Along(H, n)
<1> DEFINE T == {m \in 1..n : m \notin H}
<1>1. T \subseteq Nat \ {0}
  OBVIOUS
<1>2. ASSUME NEW m \in T, \A y \in T : m <= y PROVE FALSE
  <2>1. m \in 1..n /\ m \notin H /\ m # 1
    BY DEF Passes
  <2>2. m - 1 \in 1..n /\ (m - 1) + 1 = m /\ ~(m <= m - 1)
    BY <2>1
  <2>3. m - 1 \in H
    BY <1>2, <2>2
  <2> QED
    BY <2>1, <2>2, <2>3 DEF Passes
<1>3. T = {}
  <2> HIDE DEF T
  <2> QED
    BY <1>1, <1>2, LeastIndex
<1>4. ASSUME NEW m \in 1..n PROVE m \in H
  BY <1>3
<1> QED
  BY <1>4 DEF Along

LEMMA FlattenType ==
    ASSUME NEW S, NEW s \in Seq(Seq(S)), Len(s) \in Nat \ {0}, NEW f, Flattens(f, s, Len(s))
    PROVE  \A i \in 1..Len(s) : f[i] \in Seq(S)
<1> DEFINE n == Len(s)
           H == {i \in 1..n : f[i] \in Seq(S)}
<1>0. \A i \in 1..n : s[i] \in Seq(S)
  <2>1. \A X : \A t \in Seq(X) : \A i \in 1..Len(t) : t[i] \in X
    OBVIOUS
  <2> QED
    BY <2>1
<1>1. 1 \in H
  <2>1. 1 \in 1..n /\ f[1] = s[1]
    BY DEF Flattens
  <2> QED
    BY <1>0, <2>1
<1>2. ASSUME NEW m \in 1..n, m \in H, m + 1 \in 1..n PROVE m + 1 \in H
  <2>1. m + 1 \in 2..n /\ (m + 1) - 1 = m
    BY <1>2
  <2>2. f[m + 1] = f[m] \o s[m + 1]
    BY <2>1 DEF Flattens
  <2>3. f[m] \in Seq(S) /\ s[m + 1] \in Seq(S)
    BY <1>0, <1>2
  <2>4. f[m] \o s[m + 1] \in Seq(S)
    BY <2>3, ConcatProperties
  <2> QED
    BY <1>2, <2>2, <2>4
<1> HIDE DEF H
<1>3. Along(H, n)
  <2>1. n \in Nat \ {0} /\ Passes(H, n)
    BY <1>1, <1>2 DEF Passes
  <2> HIDE DEF n
  <2> QED
    BY ONLY <2>1, Throughout
<1> QED
  BY <1>3 DEF H, Along

LEMMA FlattenOne ==
    ASSUME NEW s, Len(s) = 1
    PROVE  FlattenSeq(s) = s[1]
<1>1. Len(s) \in Nat \ {0}
  OBVIOUS
<1>2. PICK f : FlattenSeq(s) = f[Len(s)] /\ Flattens(f, s, Len(s))
  BY <1>1, FlattenThere
<1> QED
  BY <1>2 DEF Flattens

(* A list in front of the others.                                          *)
LEMMA FlattenCons ==
    ASSUME NEW S, NEW s \in Seq(Seq(S)), NEW t \in Seq(Seq(S)), Len(s) \in Nat \ {0},
           Len(t) = Len(s) + 1, \A i \in 1..Len(s) : t[i + 1] = s[i]
    PROVE  FlattenSeq(t) = t[1] \o FlattenSeq(s) /\ FlattenSeq(s) \in Seq(S)
<1> DEFINE n == Len(s)
<1>0. n \in Nat \ {0} /\ Len(t) = n + 1 /\ Len(t) \in Nat \ {0}
  OBVIOUS
<1>1. PICK g : FlattenSeq(s) = g[n] /\ Flattens(g, s, n)
  BY FlattenThere
<1>2. PICK f : FlattenSeq(t) = f[n + 1] /\ Flattens(f, t, n + 1)
  BY <1>0, FlattenThere
<1>3. \A i \in 1..n : g[i] \in Seq(S)
  BY <1>1, FlattenType
<1>4. \A i \in 1..(n + 1) : t[i] \in Seq(S)
  <2>1. \A X : \A u \in Seq(X) : \A i \in 1..Len(u) : u[i] \in X
    OBVIOUS
  <2> QED
    BY <1>0, <2>1
<1> DEFINE H == {i \in 1..n : f[i + 1] = t[1] \o g[i]}
<1>5. 1 \in H
  <2>1. f[2] = f[1] \o t[2] /\ f[1] = t[1]
    <3>1. 2 \in 2..(n + 1) /\ 2 - 1 = 1
      BY <1>0
    <3> QED
      BY <1>2, <3>1 DEF Flattens
  <2>2. g[1] = s[1] /\ t[2] = s[1]
    <3>1. 1 \in 1..n /\ 1 + 1 = 2
      BY <1>0
    <3>2. t[1 + 1] = s[1]
      BY <3>1
    <3> QED
      BY <1>1, <3>1, <3>2 DEF Flattens
  <2>3. 1 \in 1..n /\ 1 + 1 = 2
    BY <1>0
  <2> QED
    BY <2>1, <2>2, <2>3
<1>6. ASSUME NEW m \in 1..n, m \in H, m + 1 \in 1..n PROVE m + 1 \in H
  <2>1. f[m + 1] = t[1] \o g[m]
    BY <1>6
  <2>2. /\ (m + 1) + 1 \in 2..(n + 1) /\ ((m + 1) + 1) - 1 = m + 1
        /\ m + 1 \in 2..n /\ (m + 1) - 1 = m
    BY <1>6
  <2>3. f[(m + 1) + 1] = f[m + 1] \o t[(m + 1) + 1]
    BY <1>2, <2>2 DEF Flattens
  <2>4. g[m + 1] = g[m] \o s[m + 1] /\ t[(m + 1) + 1] = s[m + 1]
    BY <1>1, <1>6, <2>2 DEF Flattens
  <2>5. t[1] \in Seq(S) /\ g[m] \in Seq(S) /\ s[m + 1] \in Seq(S)
    <3>1. 1 \in 1..(n + 1) /\ m \in 1..n /\ (m + 1) + 1 \in 1..(n + 1)
      BY <1>0, <2>2
    <3>2. t[1] \in Seq(S) /\ g[m] \in Seq(S) /\ t[(m + 1) + 1] \in Seq(S)
      BY <1>3, <1>4, <3>1
    <3> QED
      BY <2>4, <3>2
  <2>6. (t[1] \o g[m]) \o s[m + 1] = t[1] \o (g[m] \o s[m + 1])
    <3> DEFINE a == t[1]
               b == g[m]
               c == s[m + 1]
    <3>1. a \in Seq(S) /\ b \in Seq(S) /\ c \in Seq(S)
      BY <2>5
    <3> HIDE DEF a, b, c
    <3>2. Associates(S)
      BY Associative
    <3>3. (a \o b) \o c = a \o (b \o c)
      BY ONLY <3>1, <3>2 DEF Associates
    <3> QED
      BY <3>3 DEF a, b, c
  <2>7. f[(m + 1) + 1] = t[1] \o g[m + 1]
    BY <2>1, <2>3, <2>4, <2>6
  <2> QED
    BY <1>6, <2>7
<1> HIDE DEF H
<1>7. Along(H, n)
  <2>1. n \in Nat \ {0} /\ Passes(H, n)
    BY <1>0, <1>5, <1>6 DEF Passes
  <2> HIDE DEF n
  <2> QED
    BY ONLY <2>1, Throughout
<1>8. n \in H /\ g[n] \in Seq(S)
  <2>1. n \in 1..n
    BY <1>0
  <2> QED
    BY <1>3, <1>7, <2>1 DEF Along
<1> QED
  BY <1>1, <1>2, <1>8 DEF H
=============================================================================
