-------------------------- MODULE TransientProofs --------------------------
(***************************************************************************)
(* Proofs about the transient analysis, for every final time, every set of *)
(* breakpoints and every length of the table: what is set and cleared in   *)
(* the table, the types, the order of the table, and that a step starts    *)
(* from the last accepted time.  Then about the steps and the breakpoints  *)
(* in front of them: that no step crosses one, that every step goes        *)
(* forward, that none is lost, and that DCtran implements the job its user *)
(* expects.                                                                *)
(***************************************************************************)
EXTENDS TransientAnalysis, ListProofs

-----------------------------------------------------------------------------
(* The table of breakpoints, of any length.                                *)

(* The search stops at the first later entry, if there is one.             *)
LEMMA FirstAfterProperties ==
    ASSUME NEW b \in Seq(Int), NEW t \in Int, \E i \in DOMAIN b : b[i] > t
    PROVE  /\ FirstAfter(b, t) \in 1..Len(b)
           /\ b[FirstAfter(b, t)] > t
           /\ \A j \in 1..(FirstAfter(b, t) - 1) : b[j] <= t
<1> DEFINE T == {i \in 1..Len(b) : b[i] > t}
<1>1. DOMAIN b = 1..Len(b) /\ Len(b) \in Nat /\ \A i \in 1..Len(b) : b[i] \in Int
  OBVIOUS
<1>2. T \subseteq Nat \ {0} /\ T # {}
  BY <1>1
<1>3. \E m \in T : \A y \in T : m <= y
  <2> HIDE DEF T
  <2> QED
    BY <1>2, LeastIndex
<1>4. PICK m \in 1..Len(b) : b[m] > t /\ \A y \in 1..Len(b) : b[y] > t => m <= y
  BY <1>3
<1>5. \A j \in 1..(m - 1) : b[j] <= t
  BY <1>1, <1>4
<1> QED
  BY <1>1, <1>4, <1>5 DEF FirstAfter

(* What an insertion may do to the table.                                  *)
Unchanged(b, r, t, m) ==
    r = b /\ \E i \in 1..Len(b) : b[i] <= t /\ t - b[i] <= m

Replaced(b, r, t, m) ==
    \E i \in 1..Len(b) :
        /\ b[i] > t /\ b[i] - t <= m /\ Len(r) = Len(b)
        /\ \A j \in 1..(i - 1) : b[j] <= t
        /\ \A k \in 1..Len(b) : r[k] = IF k = i THEN t ELSE b[k]

Inserted(b, r, t, m) ==
    \E i \in 1..Len(b) :
        /\ b[i] > t /\ Len(r) = Len(b) + 1
        /\ \A j \in 1..(i - 1) : b[j] <= t
        /\ i > 1 => t - b[i - 1] > m
        /\ \A k \in 1..(Len(b) + 1) :
             r[k] = IF k < i THEN b[k] ELSE IF k = i THEN t ELSE b[k - 1]

Appended(b, r, t, m) ==
    /\ Len(r) = Len(b) + 1 /\ r[Len(b) + 1] = t
    /\ b # <<>> => t - b[Len(b)] > m
    /\ \A k \in 1..Len(b) : b[k] <= t /\ r[k] = b[k]

LEMMA IntTable ==
    ASSUME NEW S, S \subseteq Int, NEW b \in Seq(S)
    PROVE  /\ DOMAIN b = 1..Len(b) /\ Len(b) \in Nat /\ b \in Seq(Int)
           /\ \A i \in 1..Len(b) : b[i] \in Int
<1>1. DOMAIN b = 1..Len(b) /\ Len(b) \in Nat /\ b \in [1..Len(b) -> S]
  BY LenProperties
<1>2. \A i \in 1..Len(b) : b[i] \in Int
  BY <1>1
<1>3. b \in [1..Len(b) -> Int]
  BY <1>1, <1>2
<1>4. b \in Seq(Int)
  BY <1>1, <1>3
<1> QED
  BY <1>1, <1>2, <1>4

LEMMA SetBreakCases ==
    ASSUME NEW S, S \subseteq Int, NEW b \in Seq(S), NEW t \in S, NEW m \in Int
    PROVE  LET r == SetBreak(b, t, m)
           IN  /\ r \in Seq(S)
               /\ \/ Unchanged(b, r, t, m) \/ Replaced(b, r, t, m)
                  \/ Inserted(b, r, t, m) \/ Appended(b, r, t, m)
<1>1. /\ DOMAIN b = 1..Len(b) /\ Len(b) \in Nat /\ t \in Int /\ b \in Seq(Int)
      /\ \A i \in 1..Len(b) : b[i] \in Int
  BY IntTable
<1>2. CASE \E i \in DOMAIN b : b[i] > t
  <2> DEFINE i == FirstAfter(b, t)
  <2>1. i \in 1..Len(b) /\ b[i] > t /\ \A j \in 1..(i - 1) : b[j] <= t
    BY <1>1, <1>2, FirstAfterProperties
  <2>2. SetBreak(b, t, m) = IF b[i] - t <= m THEN [b EXCEPT ![i] = t]
                            ELSE IF i > 1 /\ t - b[i - 1] <= m THEN b
                            ELSE InsertAt(b, i, t)
    BY <1>2 DEF SetBreak
  <2> HIDE DEF i
  <2>3. CASE b[i] - t <= m
    <3>1. SetBreak(b, t, m) = [b EXCEPT ![i] = t]
      BY <2>2, <2>3
    <3> DEFINE r == [b EXCEPT ![i] = t]
    <3>2. r \in Seq(S) /\ Len(r) = Len(b) /\ \A k \in 1..Len(b) : r[k] = IF k = i THEN t ELSE b[k]
      BY <2>1, ExceptSeq
    <3> HIDE DEF r
    <3>3. Replaced(b, r, t, m)
      BY <2>1, <2>3, <3>2 DEF Replaced
    <3> QED
      BY <3>1, <3>2, <3>3 DEF r
  <2>4. CASE ~(b[i] - t <= m) /\ i > 1 /\ t - b[i - 1] <= m
    <3>1. SetBreak(b, t, m) = b
      BY <2>2, <2>4
    <3>2. i - 1 \in 1..Len(b) /\ b[i - 1] <= t
      BY <1>1, <2>1, <2>4
    <3>3. Unchanged(b, b, t, m)
      BY <2>4, <3>2 DEF Unchanged
    <3> QED
      BY <3>1, <3>3
  <2>5. CASE ~(b[i] - t <= m) /\ ~(i > 1 /\ t - b[i - 1] <= m)
    <3>1. SetBreak(b, t, m) = InsertAt(b, i, t)
      BY <2>2, <2>5
    <3> DEFINE r == InsertAt(b, i, t)
    <3>2. /\ r \in Seq(S) /\ Len(r) = Len(b) + 1
          /\ \A k \in 1..(Len(b) + 1) :
               r[k] = IF k < i THEN b[k] ELSE IF k = i THEN t ELSE b[k - 1]
      BY <2>1, InsertAtProperties
    <3> HIDE DEF r
    <3>3. i > 1 => t - b[i - 1] > m
      <4>1. i > 1 => i - 1 \in 1..Len(b)
        BY <1>1, <2>1
      <4> QED
        BY <1>1, <2>5, <4>1
    <3>4. Inserted(b, r, t, m)
      BY <2>1, <3>2, <3>3 DEF Inserted
    <3> QED
      BY <3>1, <3>2, <3>4 DEF r
  <2> QED
    BY <2>3, <2>4, <2>5
<1>3. CASE ~\E i \in DOMAIN b : b[i] > t
  <2>1. SetBreak(b, t, m) = IF b # <<>> /\ t - Last(b) <= m THEN b ELSE Append(b, t)
    BY <1>3 DEF SetBreak
  <2>2. \A i \in 1..Len(b) : b[i] <= t
    BY <1>1, <1>3
  <2>3. CASE b # <<>> /\ t - Last(b) <= m
    <3>1. Len(b) \in 1..Len(b)
      BY <1>1, <2>3
    <3>2. Unchanged(b, b, t, m)
      BY <2>2, <2>3, <3>1 DEF Unchanged, Last
    <3> QED
      BY <2>1, <2>3, <3>2
  <2>4. CASE ~(b # <<>> /\ t - Last(b) <= m)
    <3>1. SetBreak(b, t, m) = Append(b, t)
      BY <2>1, <2>4
    <3> DEFINE r == Append(b, t)
    <3>2. /\ r \in Seq(S) /\ Len(r) = Len(b) + 1 /\ r[Len(b) + 1] = t
          /\ \A k \in 1..Len(b) : r[k] = b[k]
      BY AppendProperties
    <3> HIDE DEF r
    <3>3. b # <<>> => t - b[Len(b)] > m
      <4>1. b # <<>> => Len(b) \in 1..Len(b)
        BY <1>1
      <4> QED
        BY <1>1, <2>4, <4>1 DEF Last
    <3>4. Appended(b, r, t, m)
      BY <2>2, <3>2, <3>3 DEF Appended
    <3> QED
      BY <3>1, <3>2, <3>4 DEF r
  <2> QED
    BY <2>3, <2>4
<1> QED
  BY <1>2, <1>3

-----------------------------------------------------------------------------
(* CKTsetBreak keeps a table, at least as long, and in order if it was     *)
(* ("the times are in order": CKTclrBreak and DCtran read only its front). *)
THEOREM SetBreakSorted ==
    ASSUME NEW S, S \subseteq Int, NEW b \in Seq(S), NEW t \in S, NEW m \in Nat,
           NEW r, r = SetBreak(b, t, m)
    PROVE  /\ r \in Seq(S) /\ Len(r) >= Len(b) /\ r # <<>>
           /\ Ordered(b) => Ordered(r)
<1>1. /\ r \in Seq(S)
      /\ Unchanged(b, r, t, m) \/ Replaced(b, r, t, m) \/ Inserted(b, r, t, m) \/ Appended(b, r, t, m)
  BY m \in Int, SetBreakCases
<1>2. /\ DOMAIN b = 1..Len(b) /\ Len(b) \in Nat /\ t \in Int
      /\ \A i \in 1..Len(b) : b[i] \in Int
  BY IntTable
<1>3. DOMAIN r = 1..Len(r) /\ Len(r) \in Nat
  BY <1>1, LenProperties
<1>4. Len(r) >= Len(b) /\ Len(r) > 0
  BY <1>1, <1>2 DEF Unchanged, Replaced, Inserted, Appended
<1>5. r # <<>>
  BY <1>4
<1>6. ASSUME Ordered(b) PROVE Ordered(r)
  <2>1. \A i, j \in 1..Len(b) : i < j => b[i] <= b[j]
    BY <1>2, <1>6 DEF Ordered
  <2>2. CASE Unchanged(b, r, t, m)
    BY <1>6, <2>2 DEF Unchanged
  <2>3. CASE Replaced(b, r, t, m)
    <3>1. \A i, j \in 1..Len(r) : i < j => r[i] <= r[j]
      BY <1>2, <2>1, <2>3 DEF Replaced
    <3> QED
      BY <1>3, <3>1 DEF Ordered
  <2>4. CASE Inserted(b, r, t, m)
    <3>1. PICK i \in 1..Len(b) :
            /\ b[i] > t /\ Len(r) = Len(b) + 1
            /\ \A j \in 1..(i - 1) : b[j] <= t
            /\ \A k \in 1..(Len(b) + 1) :
                 r[k] = IF k < i THEN b[k] ELSE IF k = i THEN t ELSE b[k - 1]
      BY <2>4 DEF Inserted
    <3>2. \A k \in i..Len(b) : b[k] > t
      BY <1>2, <2>1, <3>1
    <3>3. ASSUME NEW k \in 1..Len(r), NEW l \in 1..Len(r), k < l
          PROVE  r[k] <= r[l]
      <4>1. CASE l < i
        BY <1>2, <2>1, <3>1, <3>3, <4>1
      <4>2. CASE l = i
        BY <1>2, <3>1, <3>3, <4>2
      <4>3. CASE l > i
        <5>1. l - 1 \in i..Len(b) /\ r[l] = b[l - 1] /\ b[l - 1] > t
          BY <1>2, <3>1, <3>2, <3>3, <4>3
        <5>2. CASE k < i
          BY <1>2, <2>1, <3>1, <3>3, <5>1, <5>2
        <5>3. CASE k = i
          BY <1>2, <3>1, <3>3, <5>1, <5>3
        <5>4. CASE k > i
          BY <1>2, <2>1, <3>1, <3>3, <5>1, <5>4
        <5> QED
          BY <1>3, <5>2, <5>3, <5>4
      <4> QED
        BY <1>3, <4>1, <4>2, <4>3
    <3> QED
      BY <1>3, <3>3 DEF Ordered
  <2>5. CASE Appended(b, r, t, m)
    <3>1. \A i, j \in 1..Len(r) : i < j => r[i] <= r[j]
      BY <1>2, <2>1, <2>5 DEF Appended
    <3> QED
      BY <1>3, <3>1 DEF Ordered
  <2> QED
    BY <1>1, <2>2, <2>3, <2>4, <2>5
<1> QED
  BY <1>1, <1>4, <1>5, <1>6

(* A time asked for is in the table, or an entry at most the minimal       *)
(* distance before it is.                                                  *)
THEOREM SetBreakCovers ==
    ASSUME NEW S, S \subseteq Int, NEW b \in Seq(S), NEW t \in S, NEW m \in Nat,
           NEW r, r = SetBreak(b, t, m)
    PROVE  \E k \in DOMAIN r : r[k] <= t /\ t - r[k] <= m
<1>1. /\ r \in Seq(S)
      /\ Unchanged(b, r, t, m) \/ Replaced(b, r, t, m) \/ Inserted(b, r, t, m) \/ Appended(b, r, t, m)
  BY m \in Int, SetBreakCases
<1>2. Len(b) \in Nat /\ t \in Int /\ \A i \in 1..Len(b) : b[i] \in Int
  BY IntTable
<1>3. DOMAIN r = 1..Len(r)
  BY <1>1, LenProperties
<1>4. CASE Unchanged(b, r, t, m)
  BY <1>3, <1>4 DEF Unchanged
<1>5. CASE Replaced(b, r, t, m)
  BY <1>2, <1>3, <1>5 DEF Replaced
<1>6. CASE Inserted(b, r, t, m)
  <2>1. PICK i \in 1..Len(b) :
          /\ Len(r) = Len(b) + 1
          /\ \A k \in 1..(Len(b) + 1) :
               r[k] = IF k < i THEN b[k] ELSE IF k = i THEN t ELSE b[k - 1]
    BY <1>6 DEF Inserted
  <2>2. i \in 1..Len(r) /\ r[i] = t
    BY <1>2, <2>1
  <2> QED
    BY <1>2, <1>3, <2>2
<1>7. CASE Appended(b, r, t, m)
  BY <1>2, <1>3, <1>7 DEF Appended
<1> QED
  BY <1>1, <1>4, <1>5, <1>6, <1>7

(* An insertion loses no breakpoint: where there was an entry there is     *)
(* one, at most the minimal distance before it.                            *)
THEOREM SetBreakKeeps ==
    ASSUME NEW S, S \subseteq Int, NEW b \in Seq(S), NEW t \in S, NEW m \in Nat,
           NEW r, r = SetBreak(b, t, m)
    PROVE  \A i \in DOMAIN b : \E k \in DOMAIN r : r[k] <= b[i] /\ b[i] - r[k] <= m
<1>1. /\ r \in Seq(S)
      /\ Unchanged(b, r, t, m) \/ Replaced(b, r, t, m) \/ Inserted(b, r, t, m) \/ Appended(b, r, t, m)
  BY m \in Int, SetBreakCases
<1>2. Len(b) \in Nat /\ t \in Int /\ DOMAIN b = 1..Len(b) /\ \A i \in 1..Len(b) : b[i] \in Int
  BY IntTable
<1>3. DOMAIN r = 1..Len(r)
  BY <1>1, LenProperties
<1>4. ASSUME NEW i \in 1..Len(b), NEW k \in 1..Len(r), r[k] = b[i]
      PROVE  \E l \in DOMAIN r : r[l] <= b[i] /\ b[i] - r[l] <= m
  BY <1>2, <1>3, <1>4
<1>5. ASSUME NEW i \in 1..Len(b)
      PROVE  \E k \in DOMAIN r : r[k] <= b[i] /\ b[i] - r[k] <= m
  <2>1. CASE Unchanged(b, r, t, m)
    BY <1>4, <2>1 DEF Unchanged
  <2>2. CASE Replaced(b, r, t, m)
    BY <1>2, <1>3, <2>2 DEF Replaced
  <2>3. CASE Inserted(b, r, t, m)
    <3>1. PICK n \in 1..Len(b) :
            /\ Len(r) = Len(b) + 1
            /\ \A k \in 1..(Len(b) + 1) :
                 r[k] = IF k < n THEN b[k] ELSE IF k = n THEN t ELSE b[k - 1]
      BY <2>3 DEF Inserted
    <3>2. CASE i < n
      <4>1. i \in 1..Len(r) /\ r[i] = b[i]
        BY <1>2, <3>1, <3>2
      <4> QED
        BY <1>4, <4>1
    <3>3. CASE i >= n
      <4>1. i + 1 \in 1..Len(r) /\ r[i + 1] = b[i]
        BY <1>2, <3>1, <3>3
      <4> QED
        BY <1>4, <4>1
    <3> QED
      BY <1>2, <3>2, <3>3
  <2>4. CASE Appended(b, r, t, m)
    <3>1. i \in 1..Len(r) /\ r[i] = b[i]
      BY <1>2, <2>4 DEF Appended
    <3> QED
      BY <1>4, <3>1
  <2> QED
    BY <1>1, <2>1, <2>2, <2>3, <2>4
<1> QED
  BY <1>2, <1>5

(* The entries after an insertion are those before it, and the new time.   *)
EntriesFrom(b, r, t) ==
    \A k \in DOMAIN r : r[k] = t \/ \E i \in DOMAIN b : r[k] = b[i]

LEMMA SetBreakEntries ==
    ASSUME NEW S, S \subseteq Int, NEW b \in Seq(S), NEW t \in S, NEW m \in Nat,
           NEW r, r = SetBreak(b, t, m)
    PROVE  EntriesFrom(b, r, t)
<1> SUFFICES \A k \in DOMAIN r : r[k] = t \/ \E i \in DOMAIN b : r[k] = b[i]
  BY DEF EntriesFrom
<1>1. /\ r \in Seq(S)
      /\ Unchanged(b, r, t, m) \/ Replaced(b, r, t, m) \/ Inserted(b, r, t, m) \/ Appended(b, r, t, m)
  BY m \in Int, SetBreakCases
<1>2. DOMAIN b = 1..Len(b) /\ Len(b) \in Nat
  BY IntTable
<1>3. DOMAIN r = 1..Len(r) /\ Len(r) \in Nat
  BY <1>1, LenProperties
<1>4. CASE Unchanged(b, r, t, m)
  BY <1>4 DEF Unchanged
<1>5. CASE Replaced(b, r, t, m)
  BY <1>2, <1>3, <1>5 DEF Replaced
<1>6. CASE Inserted(b, r, t, m)
  <2>1. PICK i \in 1..Len(b) :
          /\ Len(r) = Len(b) + 1
          /\ \A k \in 1..(Len(b) + 1) :
               r[k] = IF k < i THEN b[k] ELSE IF k = i THEN t ELSE b[k - 1]
    BY <1>6 DEF Inserted
  <2>2. ASSUME NEW k \in 1..Len(r)
        PROVE  r[k] = t \/ \E j \in 1..Len(b) : r[k] = b[j]
    <3>1. CASE k < i
      BY <1>2, <2>1, <2>2, <3>1
    <3>2. CASE k = i
      BY <1>2, <2>1, <2>2, <3>2
    <3>3. CASE k > i
      <4>1. k - 1 \in 1..Len(b) /\ r[k] = b[k - 1]
        BY <1>2, <2>1, <2>2, <3>3
      <4> QED
        BY <4>1
    <3> QED
      BY <1>2, <1>3, <2>2, <3>1, <3>2, <3>3
  <2> QED
    BY <1>2, <1>3, <2>2
<1>7. CASE Appended(b, r, t, m)
  <2>1. \A k \in 1..Len(r) : k \in 1..Len(b) \/ k = Len(b) + 1
    BY <1>2, <1>3, <1>7 DEF Appended
  <2> QED
    BY <1>2, <1>3, <1>7, <2>1 DEF Appended
<1> QED
  BY <1>1, <1>4, <1>5, <1>6, <1>7

(* Only the first entry may be before a time that the new one and all      *)
(* others but the first are not before.                                    *)
LEMMA SetBreakRest ==
    ASSUME NEW S, S \subseteq Int, NEW b \in Seq(S), NEW t \in S, NEW m \in Nat,
           Len(b) >= 2, NEW x \in Int, x <= t, \A i \in DOMAIN b : i >= 2 => x <= b[i],
           NEW r, r = SetBreak(b, t, m)
    PROVE  x <= r[1] \/ \A k \in DOMAIN r : k >= 2 => x <= r[k]
<1>1. /\ r \in Seq(S)
      /\ Unchanged(b, r, t, m) \/ Replaced(b, r, t, m) \/ Inserted(b, r, t, m) \/ Appended(b, r, t, m)
  BY m \in Int, SetBreakCases
<1>2. /\ DOMAIN b = 1..Len(b) /\ Len(b) \in Nat /\ t \in Int
      /\ \A i \in 1..Len(b) : b[i] \in Int
  BY IntTable
<1>3. DOMAIN r = 1..Len(r) /\ Len(r) \in Nat
  BY <1>1, LenProperties
<1>4. CASE Unchanged(b, r, t, m)
  BY <1>2, <1>3, <1>4 DEF Unchanged
<1>5. CASE Replaced(b, r, t, m)
  BY <1>2, <1>3, <1>5 DEF Replaced
<1>6. CASE Inserted(b, r, t, m)
  <2>1. PICK i \in 1..Len(b) :
          /\ b[i] > t /\ Len(r) = Len(b) + 1
          /\ \A k \in 1..(Len(b) + 1) :
               r[k] = IF k < i THEN b[k] ELSE IF k = i THEN t ELSE b[k - 1]
    BY <1>6 DEF Inserted
  <2>2. ASSUME NEW k \in 1..Len(r)
        PROVE  \/ k < i /\ k \in 1..Len(b) /\ r[k] = b[k]
               \/ k = i /\ r[k] = t
               \/ k > i /\ k - 1 \in 1..Len(b) /\ r[k] = b[k - 1]
    BY <1>2, <1>3, <2>1, <2>2
  <2>3. 1 \in 1..Len(r)
    BY <1>2, <2>1
  <2>4. ASSUME ~(x <= r[1]), NEW k \in 1..Len(r), k >= 2
        PROVE  x <= r[k]
    <3>1. i # 1
      BY <2>2, <2>3, <2>4
    <3>2. CASE k < i
      BY <1>2, <2>2, <2>4, <3>2
    <3>3. CASE k = i
      BY <2>2, <2>4, <3>3
    <3>4. CASE k > i
      <4>1. k - 1 \in 1..Len(b) /\ r[k] = b[k - 1]
        BY <2>2, <2>4, <3>4
      <4>2. k - 1 >= 2
        BY <1>2, <2>4, <3>1, <3>4
      <4> QED
        BY <1>2, <4>1, <4>2
    <3> QED
      BY <1>2, <1>3, <2>4, <3>2, <3>3, <3>4
  <2> QED
    BY <1>2, <1>3, <2>4
<1>7. CASE Appended(b, r, t, m)
  BY <1>2, <1>3, <1>7 DEF Appended
<1> QED
  BY <1>1, <1>4, <1>5, <1>6, <1>7

(* An entry stays, unless an earlier time close to it takes its place; the *)
(* new time is an entry, unless there is one close before it.              *)
Faithful(b, r, t, m) ==
    /\ \A i \in DOMAIN b : (\E k \in DOMAIN r : r[k] = b[i]) \/ (t < b[i] /\ b[i] - t <= m)
    /\ \E k \in DOMAIN r : r[k] = t \/ (r[k] < t /\ t - r[k] <= m)

LEMMA SetBreakFaithful ==
    ASSUME NEW S, S \subseteq Int, NEW b \in Seq(S), NEW t \in S, NEW m \in Nat,
           NEW r, r = SetBreak(b, t, m)
    PROVE  Faithful(b, r, t, m)
<1>1. /\ r \in Seq(S)
      /\ Unchanged(b, r, t, m) \/ Replaced(b, r, t, m) \/ Inserted(b, r, t, m) \/ Appended(b, r, t, m)
  BY m \in Int, SetBreakCases
<1>2. /\ DOMAIN b = 1..Len(b) /\ Len(b) \in Nat /\ t \in Int
      /\ \A i \in 1..Len(b) : b[i] \in Int
  BY IntTable
<1>3. DOMAIN r = 1..Len(r) /\ Len(r) \in Nat /\ \A k \in 1..Len(r) : r[k] \in Int
  BY <1>1, IntTable
<1>4. \E k \in DOMAIN r : r[k] = t \/ (r[k] < t /\ t - r[k] <= m)
  <2>1. PICK k \in DOMAIN r : r[k] <= t /\ t - r[k] <= m
    BY SetBreakCovers
  <2> QED
    BY <1>2, <1>3, <2>1
<1>5. ASSUME NEW i \in 1..Len(b)
      PROVE  (\E k \in 1..Len(r) : r[k] = b[i]) \/ (t < b[i] /\ b[i] - t <= m)
  <2>1. CASE Unchanged(b, r, t, m)
    BY <2>1 DEF Unchanged
  <2>2. CASE Replaced(b, r, t, m)
    BY <1>2, <2>2 DEF Replaced
  <2>3. CASE Inserted(b, r, t, m)
    <3>1. PICK n \in 1..Len(b) :
            /\ Len(r) = Len(b) + 1
            /\ \A k \in 1..(Len(b) + 1) :
                 r[k] = IF k < n THEN b[k] ELSE IF k = n THEN t ELSE b[k - 1]
      BY <2>3 DEF Inserted
    <3>2. CASE i < n
      <4>1. i \in 1..Len(r) /\ r[i] = b[i]
        BY <1>2, <3>1, <3>2
      <4> QED
        BY <4>1
    <3>3. CASE i >= n
      <4>1. i + 1 \in 1..Len(r) /\ r[i + 1] = b[i]
        BY <1>2, <3>1, <3>3
      <4> QED
        BY <4>1
    <3> QED
      BY <1>2, <3>2, <3>3
  <2>4. CASE Appended(b, r, t, m)
    <3>1. i \in 1..Len(r) /\ r[i] = b[i]
      BY <1>2, <2>4 DEF Appended
    <3> QED
      BY <3>1
  <2> QED
    BY <1>1, <2>1, <2>2, <2>3, <2>4
<1>6. \A i \in DOMAIN b : (\E k \in DOMAIN r : r[k] = b[i]) \/ (t < b[i] /\ b[i] - t <= m)
  BY <1>2, <1>3, <1>5
<1> QED
  BY <1>4, <1>6 DEF Faithful

(* No two entries are the same, but for those at the final time.           *)
NoPileIn(b, f) ==
    \A i, j \in DOMAIN b : i # j /\ b[i] = b[j] => b[i] = f

(* Times that are further apart than the minimal distance do not pile up.  *)
LEMMA SetBreakNoPile ==
    ASSUME NEW S, S \subseteq Int, NEW b \in Seq(S), NEW t \in S, NEW m \in Nat,
           \A p, q \in S : p # q => p - q > m \/ q - p > m,
           NEW f, Ordered(b), NoPileIn(b, f), NEW r, r = SetBreak(b, t, m)
    PROVE  NoPileIn(r, f)
<1>1. /\ r \in Seq(S)
      /\ Unchanged(b, r, t, m) \/ Replaced(b, r, t, m) \/ Inserted(b, r, t, m) \/ Appended(b, r, t, m)
  BY m \in Int, SetBreakCases
<1>2. /\ DOMAIN b = 1..Len(b) /\ Len(b) \in Nat /\ t \in Int
      /\ \A i \in 1..Len(b) : b[i] \in Int /\ b[i] \in S
  BY IntTable, LenProperties
<1>3. DOMAIN r = 1..Len(r) /\ Len(r) \in Nat
  BY <1>1, LenProperties
<1>4. \A i, j \in 1..Len(b) : i < j => b[i] <= b[j]
  BY <1>2 DEF Ordered
<1>5. \A i, j \in 1..Len(b) : i # j /\ b[i] = b[j] => b[i] = f
  BY <1>2 DEF NoPileIn
<1>6. CASE Unchanged(b, r, t, m)
  BY <1>6 DEF Unchanged
<1>7. CASE Replaced(b, r, t, m)
  <2>1. PICK i \in 1..Len(b) : b[i] > t /\ b[i] - t <= m
    BY <1>7 DEF Replaced
  <2>2. b[i] - t > m \/ t - b[i] > m
    BY <1>2, <2>1
  <2> QED
    BY <1>2, <2>1, <2>2
<1>8. CASE Inserted(b, r, t, m)
  <2>1. PICK i \in 1..Len(b) :
          /\ b[i] > t /\ Len(r) = Len(b) + 1
          /\ \A j \in 1..(i - 1) : b[j] <= t
          /\ i > 1 => t - b[i - 1] > m
          /\ \A k \in 1..(Len(b) + 1) :
               r[k] = IF k < i THEN b[k] ELSE IF k = i THEN t ELSE b[k - 1]
    BY <1>8 DEF Inserted
  <2>2. \A k \in i..Len(b) : b[k] > t
    BY <1>2, <1>4, <2>1
  <2>3. \A k \in 1..(i - 1) : b[k] < t
    <3>1. ASSUME NEW k \in 1..(i - 1) PROVE b[k] < t
      <4>1. i - 1 \in 1..Len(b) /\ k \in 1..Len(b) /\ i > 1 /\ k <= i - 1
        BY <1>2
      <4>2. b[k] <= b[i - 1]
        BY <1>2, <1>4, <4>1
      <4> QED
        BY <1>2, <2>1, <4>1, <4>2
    <3> QED
      BY <3>1
  <2>4. ASSUME NEW k \in 1..Len(r)
        PROVE  \/ k < i /\ k \in 1..Len(b) /\ r[k] = b[k] /\ r[k] < t
               \/ k = i /\ r[k] = t
               \/ k > i /\ k - 1 \in 1..Len(b) /\ r[k] = b[k - 1] /\ r[k] > t
    BY <1>2, <1>3, <2>1, <2>2, <2>3, <2>4
  <2>5. ASSUME NEW k \in 1..Len(r), NEW l \in 1..Len(r), k < l, r[k] = r[l]
        PROVE  r[k] = f
    <3>1. CASE l < i
      BY <1>5, <2>4, <2>5, <3>1
    <3>2. CASE k > i
      <4>1. k - 1 \in 1..Len(b) /\ r[k] = b[k - 1]
        BY <2>4, <3>2
      <4>2. l > i /\ l \in Nat /\ k \in Nat
        BY <1>3, <2>5, <3>2
      <4>3. l - 1 \in 1..Len(b) /\ r[l] = b[l - 1] /\ k - 1 # l - 1
        BY <2>4, <2>5, <4>2
      <4> QED
        BY <1>5, <2>5, <4>1, <4>3
    <3>3. CASE k <= i /\ l >= i
      BY <1>2, <2>4, <2>5, <3>3
    <3> QED
      BY <1>3, <3>1, <3>2, <3>3
  <2> QED
    BY <1>3, <2>5 DEF NoPileIn
<1>9. CASE Appended(b, r, t, m)
  <2>1. /\ Len(r) = Len(b) + 1 /\ r[Len(b) + 1] = t
        /\ \A k \in 1..Len(b) : b[k] < t /\ r[k] = b[k]
    <3>1. ASSUME NEW k \in 1..Len(b) PROVE b[k] < t
      <4>1. Len(b) \in 1..Len(b) /\ b # <<>>
        BY <1>2
      <4>2. b[k] <= b[Len(b)]
        BY <1>2, <1>4, <4>1
      <4> QED
        BY <1>2, <1>9, <4>1, <4>2 DEF Appended
    <3> QED
      BY <1>9, <3>1 DEF Appended
  <2> QED
    BY <1>2, <1>3, <1>5, <2>1 DEF NoPileIn
<1> QED
  BY <1>1, <1>6, <1>7, <1>8, <1>9

(* Clearing keeps a table of two entries or more, in order when the final  *)
(* time is not before any entry; it drops the first entry and no other.    *)
THEOREM ClrBreakSorted ==
    ASSUME NEW S, S \subseteq Int, NEW b \in Seq(S), NEW f \in S,
           Len(b) >= 2, Ordered(b), \A i \in DOMAIN b : b[i] <= f,
           NEW r, r = ClrBreak(b, f)
    PROVE  /\ r \in Seq(S) /\ Len(r) >= 2 /\ Ordered(r)
           /\ \A i \in 2..Len(b) : r[i - 1] = b[i]
<1>1. /\ DOMAIN b = 1..Len(b) /\ Len(b) \in Nat /\ f \in Int
      /\ \A i \in 1..Len(b) : b[i] \in Int /\ b[i] \in S
  <2>1. b \in [1..Len(b) -> S]
    BY LenProperties
  <2> QED
    BY <2>1, IntTable
<1>9. b # <<>>
  OBVIOUS
<1>2. \A i, j \in 1..Len(b) : i < j => b[i] <= b[j]
  BY <1>1 DEF Ordered
<1>3. CASE Len(b) > 2
  <2> DEFINE q == Tail(b)
  <2>1. r = q
    BY <1>3 DEF ClrBreak
  <2>2. q \in Seq(S) /\ Len(q) = Len(b) - 1 /\ \A i \in 1..Len(q) : q[i] = b[i + 1]
    BY <1>9, HeadTailProperties
  <2> HIDE DEF q
  <2>3. DOMAIN q = 1..Len(q)
    BY <2>2, LenProperties
  <2>4. \A i, j \in 1..Len(q) : i < j => q[i] <= q[j]
    BY <1>1, <1>2, <2>2
  <2>5. Ordered(q)
    BY <2>3, <2>4 DEF Ordered
  <2>6. Len(q) >= 2
    BY <1>1, <1>3, <2>2
  <2>7. \A i \in 2..Len(b) : q[i - 1] = b[i]
    <3>1. ASSUME NEW i \in 2..Len(b) PROVE i - 1 \in 1..Len(q) /\ (i - 1) + 1 = i
      BY <1>1, <2>2
    <3> QED
      BY <2>2, <3>1
  <2> QED
    BY <2>1, <2>2, <2>5, <2>6, <2>7
<1>4. CASE ~(Len(b) > 2)
  <2>1. r = <<b[2], f>> /\ Len(b) = 2
    BY <1>1, <1>4 DEF ClrBreak
  <2>2. b[2] \in S /\ b[2] <= f
    BY <1>1, <2>1
  <2>3. /\ <<b[2], f>> \in Seq(S) /\ Len(<<b[2], f>>) = 2
        /\ <<b[2], f>>[1] = b[2] /\ <<b[2], f>>[2] = f
    BY <2>2
  <2>4. Ordered(<<b[2], f>>)
    BY <1>1, <2>2, <2>3 DEF Ordered
  <2> QED
    BY <2>1, <2>3, <2>4
<1> QED
  BY <1>3, <1>4

(* Clearing takes no entry but the first, and adds none but the final time.*)
Shifted(b, r, f) ==
    /\ \A k \in DOMAIN r : r[k] = f \/ (k + 1 \in DOMAIN b /\ r[k] = b[k + 1])
    /\ \A i \in DOMAIN b : i >= 2 => \E k \in DOMAIN r : r[k] = b[i]

LEMMA ClrBreakEntries ==
    ASSUME NEW S, S \subseteq Int, NEW b \in Seq(S), NEW f \in S, Len(b) >= 2,
           NEW r, r = ClrBreak(b, f)
    PROVE  Shifted(b, r, f)
<1> SUFFICES /\ \A k \in DOMAIN r : r[k] = f \/ (k + 1 \in DOMAIN b /\ r[k] = b[k + 1])
             /\ \A i \in DOMAIN b : i >= 2 => \E k \in DOMAIN r : r[k] = b[i]
  BY DEF Shifted
<1>1. DOMAIN b = 1..Len(b) /\ Len(b) \in Nat /\ b # <<>> /\ \A i \in 1..Len(b) : b[i] \in S
  BY LenProperties
<1>2. CASE Len(b) > 2
  <2> DEFINE q == Tail(b)
  <2>1. r = q
    BY <1>2 DEF ClrBreak
  <2>2. q \in Seq(S) /\ Len(q) = Len(b) - 1 /\ \A i \in 1..Len(q) : q[i] = b[i + 1]
    BY <1>1, HeadTailProperties
  <2> HIDE DEF q
  <2>3. DOMAIN q = 1..Len(q)
    BY <2>2, LenProperties
  <2>4. \A i \in 2..Len(b) : i - 1 \in 1..Len(q) /\ (i - 1) + 1 = i
    BY <1>1, <2>2
  <2>5. \A k \in 1..Len(q) : k + 1 \in 1..Len(b)
    BY <1>1, <2>2
  <2>6. \A i \in 1..Len(b) : i >= 2 => i \in 2..Len(b)
    BY <1>1
  <2>7. \A i \in 2..Len(b) : q[i - 1] = b[i]
    BY <2>2, <2>4
  <2> QED
    BY <1>1, <2>1, <2>2, <2>3, <2>4, <2>5, <2>6, <2>7
<1>3. CASE ~(Len(b) > 2)
  <2>1. r = <<b[2], f>> /\ Len(b) = 2
    BY <1>1, <1>3 DEF ClrBreak
  <2>2. DOMAIN r = {1, 2} /\ r[1] = b[2] /\ r[2] = f
    BY <2>1
  <2>3. \A i \in 1..Len(b) : i >= 2 => i = 2
    BY <1>1, <2>1
  <2>4. 1 + 1 \in 1..Len(b)
    BY <2>1
  <2> QED
    BY <1>1, <2>2, <2>3, <2>4
<1> QED
  BY <1>2, <1>3

LEMMA ClrBreakNoPile ==
    ASSUME NEW b, NEW r, NEW f, Shifted(b, r, f), NoPileIn(b, f), DOMAIN r \subseteq Int
    PROVE  NoPileIn(r, f)
<1> SUFFICES ASSUME NEW i \in DOMAIN r, NEW j \in DOMAIN r, i # j, r[i] = r[j], r[i] # f
             PROVE  FALSE
  BY DEF NoPileIn
<1>1. /\ i + 1 \in DOMAIN b /\ r[i] = b[i + 1]
      /\ j + 1 \in DOMAIN b /\ r[j] = b[j + 1]
  BY DEF Shifted
<1>2. i + 1 # j + 1
  BY DOMAIN r \subseteq Int
<1> QED
  BY <1>1, <1>2 DEF NoPileIn

-----------------------------------------------------------------------------
(* The analysis.                                                           *)


(* There is a table while an analysis runs or can be resumed, and outside  *)
(* of a step CKTtime is the time that was accepted last.                   *)
Going ==
    /\ pc \in Running \/ inprogress => breaks # <<>>
    /\ pc \in {"dump", "limit", "solve"} => time = last
    /\ pc = "idle" /\ inprogress /\ time # 0 => time = last

IInv == TypeOK /\ TableInOrder /\ Going

LEMMA ConstantTypes ==
    /\ {Final, MaxStep, TStep, InitDelta, InitSave, DelMin, MinBreak, Margin, Cut, Shrink}
          \subseteq Nat \ {0}
    /\ {MaxPrelim, MaxSteps, MaxTable} \subseteq Nat
    /\ Points \subseteq Int /\ Points \subseteq 0..Final
    /\ 0 \in Points /\ Final \in Points /\ TStep \in Points
<1>1. Cut \in Nat \ {0} /\ Shrink \in Nat \ {0}
  BY StepAssumption
<1>2. 0..Final \subseteq Int
  BY StepAssumption
<1> QED
  BY <1>1, <1>2, StepAssumption, PointsAssumption

-----------------------------------------------------------------------------
(* The table.                                                              *)
Table(b) == b \in Seq(Points) /\ Len(b) >= 2 /\ Ordered(b)

LEMMA SetBreakTable ==
    ASSUME NEW b, Table(b), NEW t \in Points, NEW m \in Nat
    PROVE  Table(SetBreak(b, t, m))
<1> DEFINE r == SetBreak(b, t, m)
<1>1. r \in Seq(Points) /\ Len(r) >= Len(b) /\ (Ordered(b) => Ordered(r))
  BY ConstantTypes, SetBreakSorted DEF Table
<1> HIDE DEF r
<1>2. Len(r) \in Nat /\ Len(b) \in Nat
  BY <1>1, LenProperties DEF Table
<1>3. Table(r)
  BY <1>1, <1>2 DEF Table
<1> QED
  BY <1>3 DEF r

LEMMA ClrBreakTable ==
    ASSUME NEW b, Table(b)
    PROVE  Table(ClrBreak(b, Final))
<1>1. \A i \in DOMAIN b : b[i] <= Final
  <2>1. DOMAIN b = 1..Len(b) /\ b \in [1..Len(b) -> Points]
    BY LenProperties DEF Table
  <2>2. \A i \in DOMAIN b : b[i] \in 0..Final
    BY <2>1, ConstantTypes
  <2>3. Final \in Nat
    BY ConstantTypes
  <2> QED
    BY <2>2, <2>3
<1> DEFINE r == ClrBreak(b, Final)
<1>2. r \in Seq(Points) /\ Len(r) >= 2 /\ Ordered(r)
  BY <1>1, ConstantTypes, ClrBreakSorted DEF Table
<1> QED
  BY <1>2 DEF Table

LEMMA NewTableTable == Table(<<0, Final>>)
<1>1. 0 \in Points /\ Final \in Points /\ Final \in Nat
  BY ConstantTypes
<1>2. <<0, Final>> \in Seq(Points) /\ Len(<<0, Final>>) = 2
  BY <1>1
<1>3. Ordered(<<0, Final>>)
  BY <1>1 DEF Ordered
<1> QED
  BY <1>2, <1>3 DEF Table

(* The table of an analysis, from the invariant.                           *)
LEMMA HasTable == ASSUME IInv, breaks # <<>> PROVE Table(breaks)
  BY DEF IInv, TypeOK, TableInOrder, Table

LEMMA TableKept ==
    ASSUME TableInOrder, breaks' = breaks \/ breaks' = <<>> \/ Table(breaks')
    PROVE  TableInOrder'
  BY DEF TableInOrder, Table

LEMMA InsertTable ==
    ASSUME IInv, breaks # <<>>, NEW t \in Points, NEW m \in Nat, Insert(t, m)
    PROVE  /\ Table(breaks')
           /\ asked' \subseteq Points /\ unmet' \subseteq Points
<1>1. Table(breaks')
  BY HasTable, SetBreakTable DEF Insert
<1>2. asked \subseteq Points /\ unmet \subseteq Points
  BY DEF IInv, TypeOK
<1>3. asked' \subseteq Points /\ unmet' \subseteq Points
  BY <1>2 DEF Insert
<1> QED
  BY <1>1, <1>3

-----------------------------------------------------------------------------
(* Steps are integers.                                                     *)
LEMMA DivType == ASSUME NEW a \in Int, NEW c \in Nat \ {0} PROVE a \div c \in Int
  OBVIOUS

LEMMA SynchronisedType ==
    ASSUME NEW t \in Int, NEW d \in Int
    PROVE  Synchronised(t, d) \subseteq Int
<1>1. Final \in Int /\ Margin \in Int
  BY ConstantTypes
<1>2. \A e \in Int : Clamped(t, e) \in Int
  BY <1>1 DEF Clamped
<1>3. ASSUME NEW e \in IF wantsync /\ d > 0 THEN 1..d ELSE {d} PROVE e \in Int
  BY <1>3
<1> QED
  BY <1>2, <1>3 DEF Synchronised

LEMMA CutStepType ==
    ASSUME {delta, saveDelta} \subseteq Int, Table(breaks)
    PROVE  CutStep \in Int
<1>1. breaks[1] \in Int /\ breaks[2] \in Int
  <2>1. breaks \in [1..Len(breaks) -> Points] /\ Len(breaks) \in Nat
    BY LenProperties DEF Table
  <2>2. 1 \in 1..Len(breaks) /\ 2 \in 1..Len(breaks)
    BY <2>1 DEF Table
  <2> QED
    BY <2>1, <2>2, ConstantTypes
<1> DEFINE cut == Min2(saveDelta, breaks[2] - breaks[1]) \div Cut
           step == Min2(Min2(delta, MaxStep), cut)
<1>2. cut \in Int
  <2>1. Min2(saveDelta, breaks[2] - breaks[1]) \in Int
    BY <1>1 DEF Min2
  <2> QED
    BY <2>1, DivType, ConstantTypes
<1>3. MaxStep \in Int /\ DelMin \in Int
  BY ConstantTypes
<1> HIDE DEF cut
<1>4. step \in Int
  BY <1>2, <1>3 DEF Min2
<1> HIDE DEF step
<1>5. step \div Cut \in Int
  BY <1>4, DivType, ConstantTypes
<1>6. CutStep = Max2(IF firsttime THEN step \div Cut ELSE step, 2 * DelMin)
  BY DEF CutStep, step, cut
<1> QED
  BY <1>3, <1>4, <1>5, <1>6 DEF Max2

-----------------------------------------------------------------------------
(* The caller's steps keep the invariant.                                  *)
LEMMA InvInit == Init => IInv
<1> SUFFICES ASSUME Init PROVE IInv
  OBVIOUS
<1>1. TypeOK
  <2>1. breaks \in Seq(Points) /\ bkpttmp \in Seq(Points)
    BY DEF Init
  <2>2. howmanysteps \in Nat /\ pc \in Running \cup {"idle"} /\ outcome \in {"none", "done", "failed"}
    BY DEF Init
  <2>3. {time, delta, saveDelta, last} \subseteq Int
    BY DEF Init
  <2>4. {firsttime, atBreak, ft_intrpt, shouldstop, inprogress} \subseteq BOOLEAN
    BY DEF Init
  <2>5. {dbs, todo, asked, unmet, promised} \subseteq SUBSET Points
    BY DEF Init
  <2> QED
    BY <2>1, <2>2, <2>3, <2>4, <2>5 DEF TypeOK
<1>2. TableInOrder /\ Going
  BY DEF Init, TableInOrder, Going, Running
<1> QED
  BY <1>1, <1>2 DEF IInv

LEMMA SetBkptInv == ASSUME IInv, NEW t \in Points, SetBkpt(t) PROVE IInv'
<1>1. \/ Table(breaks') /\ asked' \subseteq Points /\ unmet' \subseteq Points /\ bkpttmp' = bkpttmp
      \/ UNCHANGED <<breaks, asked, unmet>> /\ bkpttmp' = Append(bkpttmp, t)
  <2>1. CASE breaks # <<>> /\ Insert(t, MinBreak) /\ UNCHANGED bkpttmp
    BY <2>1, InsertTable, ConstantTypes
  <2> QED
    BY <2>1 DEF SetBkpt
<1>2. breaks' \in Seq(Points) /\ bkpttmp' \in Seq(Points)
  <2>1. breaks \in Seq(Points) /\ bkpttmp \in Seq(Points)
    BY DEF IInv, TypeOK
  <2>2. Append(bkpttmp, t) \in Seq(Points)
    BY <2>1, AppendProperties
  <2> QED
    BY <1>1, <2>1, <2>2 DEF Table
<1>3. asked' \subseteq Points /\ unmet' \subseteq Points
  BY <1>1 DEF IInv, TypeOK
<1>4. promised' \subseteq Points
  BY DEF IInv, TypeOK, SetBkpt
<1>5. TypeOK'
  BY <1>2, <1>3, <1>4 DEF IInv, TypeOK, SetBkpt, control, flags, steps
<1>6. TableInOrder'
  BY <1>1, TableKept DEF IInv
<1>7. breaks # <<>> => breaks' # <<>>
  BY <1>1 DEF Table
<1>8. Going'
  BY <1>7 DEF IInv, Going, SetBkpt, control, flags, steps
<1> QED
  BY <1>5, <1>6, <1>8 DEF IInv

LEMMA NewTableInv ==
    ASSUME IInv, NewTable, UNCHANGED <<shouldstop>>, howmanysteps' \in Nat,
           ft_intrpt' \in BOOLEAN, inprogress' \in BOOLEAN, promised' \subseteq Points
    PROVE  IInv'
<1>1. breaks' \in Seq(Points) /\ Table(breaks') /\ breaks' # <<>>
  BY NewTableTable DEF NewTable, Table
<1>2. TypeOK'
  <2>1. {0, Final} \subseteq Points
    BY ConstantTypes
  <2> QED
    BY <1>1, <2>1 DEF IInv, TypeOK, NewTable, Running
<1>3. TableInOrder'
  BY <1>1, TableKept DEF IInv
<1>4. Going'
  BY <1>1 DEF Going, NewTable
<1> QED
  BY <1>2, <1>3, <1>4 DEF IInv

LEMMA RunInv == ASSUME IInv, Run, howmanysteps' \in Nat PROVE IInv'
<1>1. {t \in ToSet(bkpttmp) : t > DelMin} \subseteq Points
  <2>1. bkpttmp \in [1..Len(bkpttmp) -> Points] /\ DOMAIN bkpttmp = 1..Len(bkpttmp)
    BY LenProperties DEF IInv, TypeOK
  <2> QED
    BY <2>1 DEF ToSet
<1> QED
  BY <1>1, NewTableInv DEF Run

LEMMA ResumeOrRunInv ==
    ASSUME IInv, ResumeOrRun, howmanysteps' \in Nat
    PROVE  IInv'
<1>1. promised \subseteq Points /\ ft_intrpt \in BOOLEAN /\ inprogress \in BOOLEAN
  BY DEF IInv, TypeOK
<1>2. CASE Run
  BY <1>2, RunInv
<1>3. CASE inprogress /\ NewTable /\ UNCHANGED promised /\ UNCHANGED flags
  BY <1>1, <1>3, NewTableInv DEF flags
<1>4. CASE /\ pc = "idle" /\ inprogress /\ time # 0
           /\ pc' = "limit" /\ firsttime' = FALSE
           /\ UNCHANGED <<table, time, delta, saveDelta, atBreak, history>>
           /\ UNCHANGED flags
  <2>1. TypeOK'
    BY <1>4 DEF IInv, TypeOK, Running, table, history, flags
  <2>2. TableInOrder'
    BY <1>4, TableKept DEF IInv, table
  <2>3. Going'
    BY <1>4 DEF IInv, Going, table, history, flags
  <2> QED
    BY <2>1, <2>2, <2>3 DEF IInv
<1> QED
  BY <1>2, <1>3, <1>4 DEF ResumeOrRun, Resume

LEMMA CallerInv == ASSUME IInv, Caller PROVE IInv'
<1>1. CASE \E t \in Points : SetBkpt(t)
  BY <1>1, SetBkptInv
<1>2. CASE \E t \in Points : StopWhen(t)
  <2>1. TypeOK'
    BY <1>2 DEF IInv, TypeOK, StopWhen, control, flags, steps, history
  <2>2. TableInOrder'
    BY <1>2, TableKept DEF IInv, StopWhen
  <2>3. Going'
    BY <1>2 DEF IInv, Going, StopWhen, control, flags, steps, history
  <2> QED
    BY <2>1, <2>2, <2>3 DEF IInv
<1>3. CASE \E t \in Points : Delete(t)
  <2>1. TypeOK'
    BY <1>3 DEF IInv, TypeOK, Delete, control, flags, steps, history
  <2>2. TableInOrder'
    BY <1>3, TableKept DEF IInv, Delete
  <2>3. Going'
    BY <1>3 DEF IInv, Going, Delete, control, flags, steps, history
  <2> QED
    BY <2>1, <2>2, <2>3 DEF IInv
<1>4. CASE Begin \/ GoOn
  <2>1. ResumeOrRun \/ Run
    BY <1>4 DEF Begin, GoOn
  <2>2. howmanysteps' \in Nat
    BY <1>4 DEF IInv, TypeOK, Begin, GoOn
  <2>3. CASE Run
    BY <2>2, <2>3, RunInv
  <2> QED
    BY <2>1, <2>2, <2>3, ResumeOrRunInv
<1>5. CASE \E n \in 1..MaxSteps : Step(n)
  <2>1. 1..MaxSteps \subseteq Nat
    OBVIOUS
  <2> QED
    BY <1>5, <2>1, ResumeOrRunInv DEF Step
<1>6. CASE Halt
  <2>1. TypeOK'
    BY <1>6 DEF IInv, TypeOK, Halt, table, steps, history
  <2>2. TableInOrder'
    BY <1>6, TableKept DEF IInv, Halt, table
  <2>3. Going'
    BY <1>6 DEF IInv, Going, Halt, table, steps, history
  <2> QED
    BY <2>1, <2>2, <2>3 DEF IInv
<1>7. CASE Reset
  <2>1. TypeOK'
    <3>1. breaks' \in Seq(Points) /\ bkpttmp' \in Seq(Points)
      BY <1>7 DEF IInv, TypeOK, Reset
    <3>2. howmanysteps' \in Nat /\ pc' \in Running \cup {"idle"} /\ outcome' \in {"none", "done", "failed"}
      BY <1>7 DEF IInv, TypeOK, Reset
    <3>3. {time, delta, saveDelta, last}' \subseteq Int
      BY <1>7 DEF Reset
    <3>4. {firsttime, atBreak, ft_intrpt, shouldstop, inprogress}' \subseteq BOOLEAN
      BY <1>7 DEF IInv, TypeOK, Reset
    <3>5. {dbs, todo, asked, unmet, promised}' \subseteq SUBSET Points
      BY <1>7 DEF Reset
    <3> QED
      BY <3>1, <3>2, <3>3, <3>4, <3>5 DEF TypeOK
  <2>2. TableInOrder'
    BY <1>7, TableKept DEF IInv, Reset
  <2>3. Going'
    BY <1>7 DEF Going, Reset, Running
  <2> QED
    BY <2>1, <2>2, <2>3 DEF IInv
<1> QED
  BY <1>1, <1>2, <1>3, <1>4, <1>5, <1>6, <1>7 DEF Caller

-----------------------------------------------------------------------------
(* The steps of the analysis keep the invariant.                           *)
LEMMA FailInv ==
    ASSUME IInv, Fail, time' \in Int, delta' \in Int, firsttime' \in BOOLEAN
    PROVE  IInv'
<1>1. TypeOK'
  BY DEF IInv, TypeOK, Fail, table
<1>2. TableInOrder'
  BY TableKept DEF IInv, Fail, table
<1>3. Going'
  BY DEF Going, Fail, Running
<1> QED
  BY <1>1, <1>2, <1>3 DEF IInv

LEMMA TableInv == ASSUME IInv, AddBkpt \/ AddStops PROVE IInv'
<1>1. pc \in Running /\ breaks # <<>>
  BY DEF IInv, Going, AddBkpt, AddStops, Running
<1>2. /\ pc' \in Running \ {"dump", "limit", "solve"}
      /\ UNCHANGED <<dbs, control, steps, last, promised, outcome>>
  BY DEF AddBkpt, AddStops, Running
<1>3. /\ Table(breaks')
      /\ asked' \subseteq Points /\ unmet' \subseteq Points
      /\ bkpttmp' \in Seq(Points) /\ todo' \subseteq Points
  <2>1. Table(breaks) /\ asked \subseteq Points /\ unmet \subseteq Points
        /\ bkpttmp \in Seq(Points) /\ todo \subseteq Points
    BY <1>1, HasTable DEF IInv, TypeOK
  <2>2. CASE /\ bkpttmp # <<>> /\ Insert(Head(bkpttmp), 0)
             /\ bkpttmp' = Tail(bkpttmp) /\ UNCHANGED todo
    <3>1. Head(bkpttmp) \in Points /\ Tail(bkpttmp) \in Seq(Points)
      BY <2>1, <2>2, HeadTailProperties
    <3>2. 0 \in Nat
      OBVIOUS
    <3> QED
      BY <1>1, <2>1, <2>2, <3>1, <3>2, InsertTable
  <2>3. CASE (\E t \in todo : Insert(t, MinBreak) /\ todo' = todo \ {t}) /\ UNCHANGED bkpttmp
    <3>1. MinBreak \in Nat
      BY ConstantTypes
    <3> QED
      BY <1>1, <2>1, <2>3, <3>1, InsertTable
  <2>4. CASE UNCHANGED <<breaks, bkpttmp, todo, asked, unmet>>
    BY <2>1, <2>4
  <2> QED
    BY <2>2, <2>3, <2>4 DEF AddBkpt, AddStops
<1>4. TypeOK'
  BY <1>2, <1>3 DEF IInv, TypeOK, Table, control, flags, steps
<1>5. TableInOrder'
  BY <1>3, TableKept DEF IInv
<1>6. Going'
  BY <1>2, <1>3 DEF Going, Table, Running
<1> QED
  BY <1>4, <1>5, <1>6 DEF IInv

LEMMA OpInv == ASSUME IInv, Op PROVE IInv'
<1>1. CASE Fail /\ UNCHANGED <<time, delta, firsttime>>
  <2>1. time \in Int /\ delta \in Int /\ firsttime \in BOOLEAN
    BY DEF IInv, TypeOK
  <2> QED
    BY <1>1, <2>1, FailInv
<1>2. CASE /\ pc = "op" /\ pc' = "accept"
           /\ delta' = InitDelta /\ saveDelta' = InitSave
           /\ UNCHANGED <<table, control, time, firsttime, atBreak, history>>
  <2>1. InitDelta \in Int /\ InitSave \in Int
    BY ConstantTypes
  <2>2. TypeOK'
    BY <1>2, <2>1 DEF IInv, TypeOK, Running, table, control, flags, history
  <2>3. TableInOrder'
    BY <1>2, TableKept DEF IInv, table
  <2>4. Going'
    BY <1>2 DEF IInv, Going, Running, table, control, flags, history
  <2> QED
    BY <2>2, <2>3, <2>4 DEF IInv
<1> QED
  BY <1>1, <1>2 DEF Op

LEMMA AcceptInv == ASSUME IInv, Accept PROVE IInv'
<1>1. Table(breaks)
  BY HasTable DEF IInv, Going, Accept, Running
<1>2. PICK b : /\ Table(b) /\ Accepted(b)
               /\ asked' \subseteq Points /\ unmet' \subseteq Points
  <2>1. asked \subseteq Points /\ unmet \subseteq Points /\ MinBreak \in Nat
    BY ConstantTypes DEF IInv, TypeOK
  <2>2. CASE Accepted(breaks) /\ unmet' = {r \in unmet : ~Reached(r)} /\ UNCHANGED asked
    BY <1>1, <2>1, <2>2
  <2>3. CASE \E t \in Points :
                /\ Accepted(SetBreak(breaks, t, MinBreak))
                /\ asked' = asked \cup {t}
                /\ unmet' = {r \in unmet \cup {t} : ~Reached(r)}
    <3>1. PICK t \in Points :
                /\ Accepted(SetBreak(breaks, t, MinBreak))
                /\ asked' = asked \cup {t}
                /\ unmet' = {r \in unmet \cup {t} : ~Reached(r)}
      BY <2>3
    <3>2. Table(SetBreak(breaks, t, MinBreak))
      BY <1>1, <2>1, SetBreakTable
    <3>3. asked' \subseteq Points /\ unmet' \subseteq Points
      BY <2>1, <3>1
    <3> QED
      BY <3>1, <3>2, <3>3
  <2> QED
    BY <2>2, <2>3 DEF Accept
<1>3. Table(breaks')
  BY <1>2, ClrBreakTable DEF Accepted
<1>4. howmanysteps' \in Nat /\ shouldstop' \in BOOLEAN
  <2>1. howmanysteps \in Nat /\ shouldstop \in BOOLEAN
    BY DEF IInv, TypeOK
  <2>2. howmanysteps' \in Nat
    BY <1>2, <2>1 DEF Accepted
  <2>3. shouldstop' \in BOOLEAN
    BY <1>2, <2>1 DEF Accepted
  <2> QED
    BY <2>2, <2>3
<1>5. promised' \subseteq Points
  BY DEF IInv, TypeOK, Accept
<1>6. /\ pc' = "dump" /\ atBreak' = FALSE /\ last' = time
      /\ UNCHANGED <<bkpttmp, dbs, todo, ft_intrpt, inprogress, time, delta, saveDelta,
                     firsttime, outcome>>
  BY <1>2 DEF Accept, Accepted
<1>7. TypeOK'
  BY <1>2, <1>3, <1>4, <1>5, <1>6 DEF IInv, TypeOK, Table, Running
<1>8. TableInOrder'
  BY <1>3, TableKept DEF IInv
<1>9. Going'
  BY <1>3, <1>6 DEF Going, Table
<1> QED
  BY <1>7, <1>8, <1>9 DEF IInv

LEMMA DumpInv == ASSUME IInv, Finish \/ Pause \/ Continue PROVE IInv'
<1>1. TypeOK'
  BY DEF IInv, TypeOK, Finish, Pause, Continue, Running, table, control, flags, steps, history
<1>2. TableInOrder'
  BY TableKept DEF IInv, Finish, Pause, Continue, table
<1>3. Going'
  BY DEF IInv, Going, Finish, Pause, Continue, Running, table, control, flags, steps, history
<1> QED
  BY <1>1, <1>2, <1>3 DEF IInv

LEMMA LimitInv == ASSUME IInv, Limit PROVE IInv'
<1>1. Table(breaks) /\ breaks # <<>>
  BY HasTable DEF IInv, Going, Limit, Running
<1>2. /\ {time, delta, saveDelta} \subseteq Int /\ breaks[1] \in Int
      /\ MaxStep \in Int /\ MinBreak \in Nat /\ TStep \in Points
      /\ asked \subseteq Points /\ unmet \subseteq Points /\ atBreak \in BOOLEAN
  <2>1. breaks \in [1..Len(breaks) -> Points] /\ 1 \in 1..Len(breaks)
    BY <1>1, LenProperties DEF Table
  <2>2. breaks[1] \in Int
    BY <2>1, ConstantTypes
  <2>3. MaxStep \in Int /\ MinBreak \in Nat /\ TStep \in Points
    BY ConstantTypes
  <2> QED
    BY <2>2, <2>3 DEF IInv, TypeOK
<1>3. /\ delta' \in Int /\ saveDelta' \in Int /\ atBreak' \in BOOLEAN
      /\ Table(breaks') /\ asked' \subseteq Points /\ unmet' \subseteq Points
  <2>1. Min2(delta, MaxStep) \in Int /\ breaks[1] - time \in Int
    BY <1>2 DEF Min2
  <2>2. CASE LimitAtBreak
    <3>1. delta' \in Int
      BY <1>1, <1>2, <2>2, CutStepType, SynchronisedType DEF LimitAtBreak
    <3>2. Table(breaks') /\ asked' \subseteq Points /\ unmet' \subseteq Points
      BY <1>1, <1>2, <2>2, InsertTable DEF LimitAtBreak
    <3> QED
      BY <1>2, <2>2, <3>1, <3>2 DEF LimitAtBreak
  <2>3. CASE LimitToBreak
    <3>1. delta' \in Int
      BY <1>2, <2>1, <2>3, SynchronisedType DEF LimitToBreak
    <3> QED
      BY <1>1, <1>2, <2>1, <2>3, <3>1 DEF LimitToBreak
  <2>4. CASE LimitFree
    <3>1. delta' \in Int
      BY <1>2, <2>1, <2>4, SynchronisedType DEF LimitFree
    <3> QED
      BY <1>1, <1>2, <2>4, <3>1 DEF LimitFree
  <2> QED
    BY <2>2, <2>3, <2>4 DEF Limit
<1>4. TypeOK'
  BY <1>3 DEF IInv, TypeOK, Limit, Table, Running, control, flags
<1>5. TableInOrder'
  BY <1>3, TableKept DEF IInv
<1>6. Going'
  BY <1>3 DEF IInv, Going, Limit, Table, control, flags
<1> QED
  BY <1>4, <1>5, <1>6 DEF IInv

LEMMA RedoInv == ASSUME IInv, pc = "solve", NEW d \in Int, Redo(d) PROVE IInv'
<1>1. {time, delta} \subseteq Int /\ firsttime \in BOOLEAN /\ DelMin \in Int
  BY ConstantTypes DEF IInv, TypeOK
<1>2. CASE Fail /\ time' = time + delta /\ delta' = d /\ UNCHANGED firsttime
  BY <1>1, <1>2, FailInv
<1>3. CASE /\ delta' \in Synchronised(time, Max2(d, DelMin))
           /\ UNCHANGED <<pc, table, control, time, saveDelta, firsttime, atBreak, history>>
  <2>1. Max2(d, DelMin) \in Int
    BY <1>1 DEF Max2
  <2>2. delta' \in Int
    BY <1>1, <1>3, <2>1, SynchronisedType
  <2>3. TypeOK'
    BY <1>3, <2>2 DEF IInv, TypeOK, table, control, flags, history
  <2>4. TableInOrder'
    BY <1>3, TableKept DEF IInv, table
  <2>5. Going'
    BY <1>3 DEF IInv, Going, table, control, flags, history
  <2> QED
    BY <2>3, <2>4, <2>5 DEF IInv
<1> QED
  BY <1>2, <1>3 DEF Redo

LEMMA ConvergedInv == ASSUME IInv, pc = "solve", NEW d \in Int, Converged(d) PROVE IInv'
<1>1. {time, delta} \subseteq Int /\ Final \in Int /\ Margin \in Int
  BY ConstantTypes DEF IInv, TypeOK
<1>2. delta' \in Int /\ time' \in Int
  <2>1. CASE time' = time + delta /\ delta' \in Synchronised(time + delta, d)
    BY <1>1, <2>1, SynchronisedType
  <2>2. CASE \E e \in 1..(delta - 1) : delta' = Clamped(time + delta, e) /\ UNCHANGED time
    BY <1>1, <2>2 DEF Clamped
  <2> QED
    BY <2>1, <2>2 DEF Converged
<1>3. pc' = "accept" \/ (pc' = "solve" /\ time' = time)
  BY DEF Converged
<1>4. firsttime' = FALSE /\ UNCHANGED <<table, control, saveDelta, atBreak, history>>
  BY DEF Converged
<1>5. TypeOK'
  BY <1>2, <1>3, <1>4 DEF IInv, TypeOK, Running, table, control, flags, history
<1>6. TableInOrder'
  BY <1>4, TableKept DEF IInv, table
<1>7. Going'
  BY <1>3, <1>4 DEF IInv, Going, Running, table, control, flags, history
<1> QED
  BY <1>5, <1>6, <1>7 DEF IInv

LEMMA SolveInv ==
    ASSUME IInv, NotConverged \/ FirstConverged \/ Truncated \/ Abort
    PROVE  IInv'
<1>1. {time, delta} \subseteq Int /\ firsttime \in BOOLEAN /\ Shrink \in Nat \ {0}
  BY ConstantTypes DEF IInv, TypeOK
<1>2. CASE NotConverged
  BY <1>1, <1>2, DivType, RedoInv DEF NotConverged
<1>3. CASE FirstConverged
  BY <1>1, <1>3, ConvergedInv DEF FirstConverged
<1>4. CASE Truncated
  <2>1. 1..(2 * delta) \subseteq Int
    BY <1>1
  <2> QED
    BY <1>4, <2>1, RedoInv, ConvergedInv DEF Truncated
<1>5. CASE Abort
  <2>1. Fail /\ UNCHANGED firsttime /\ delta' \in Int /\ time' \in Int
    BY <1>1, <1>5 DEF Abort
  <2> QED
    BY <1>1, <2>1, FailInv
<1> QED
  BY <1>2, <1>3, <1>4, <1>5

LEMMA InvStep == IInv /\ [Next]_vars => IInv'
<1> SUFFICES ASSUME IInv, [Next]_vars PROVE IInv'
  OBVIOUS
<1>1. CASE Caller
  BY <1>1, CallerInv
<1>2. CASE DCtran
  BY <1>2, TableInv, OpInv, AcceptInv, DumpInv, LimitInv, SolveInv DEF DCtran
<1>3. CASE UNCHANGED vars
  <2>1. UNCHANGED <<pc, table, control, steps, history>>
    BY <1>3 DEF vars
  <2>2. TypeOK'
    BY <2>1 DEF IInv, TypeOK, table, control, flags, steps, history
  <2>3. TableInOrder'
    BY <2>1, TableKept DEF IInv, table
  <2>4. Going'
    BY <2>1 DEF IInv, Going, table, control, flags, steps, history
  <2> QED
    BY <2>2, <2>3, <2>4 DEF IInv
<1> QED
  BY <1>1, <1>2, <1>3 DEF Next

-----------------------------------------------------------------------------
(* The analysis keeps its invariant.                                       *)
THEOREM TransientInv == Spec => []IInv
<1>1. Init => IInv
  BY InvInit
<1>2. IInv /\ [Next]_vars => IInv'
  BY InvStep
<1> QED
  BY <1>1, <1>2, PTL DEF Spec

(* Every variable keeps its type; the table holds only times that were     *)
(* asked for (dctran.c, cktsetbk.c, cktclrbk.c).                           *)
THEOREM TransientTypes == Spec => []TypeOK
<1>1. IInv => TypeOK
  BY DEF IInv
<1> QED
  BY <1>1, TransientInv, PTL

(* The table of a circuit has at least two entries and is in order,        *)
(* whatever is inserted by the caller, the stop commands and the devices,  *)
(* and however often it is cleared (cktsetbk.c, cktclrbk.c).               *)
THEOREM TransientTable == Spec => []TableInOrder
<1>1. IInv => TableInOrder
  BY DEF IInv
<1> QED
  BY <1>1, TransientInv, PTL

(* A step starts from the last accepted time, after any number of rejected *)
(* steps, pauses and resumptions (dctran.c: the time is taken back).       *)
THEOREM TransientSteps == Spec => []StepsFromLast
<1>1. IInv => StepsFromLast
  BY DEF IInv, Going, StepsFromLast
<1> QED
  BY <1>1, TransientInv, PTL

-----------------------------------------------------------------------------
(* Where a step may lead.  The entries of the table are further apart than *)
(* the smallest step, unless equal ones pile up: a time close before an    *)
(* entry takes its place without a look at the entry before it.  The front *)
(* of a pile stays behind when its time has passed, and DCtran takes it    *)
(* for the next breakpoint.                                                *)
NoPile == NoPileIn(breaks, Final)

(* An analysis at an accepted time that is not the end.                    *)
Stands == pc \in {"limit", "solve"} \/ (pc = "idle" /\ inprogress /\ time # 0)

AtStart   == pc \in {"add_bkpt", "stops", "op"} => time = 0 /\ last = 0
FirstStep == pc \in {"accept", "dump", "limit"} /\ firsttime => time = 0 /\ delta = InitDelta

(* The time to be accepted passes no entry but the first, and that only    *)
(* when the step began within DelMin of it.                                *)
AtAccept ==
    pc = "accept" => \A i \in DOMAIN breaks :
        i >= 2 \/ breaks[i] > last + DelMin => time <= breaks[i]
InFront  == pc = "dump" \/ Stands => \A i \in DOMAIN breaks : time <= breaks[i]
NotAtEnd == Stands => Final - time >= MinBreak

Place == AtStart /\ FirstStep /\ AtAccept /\ InFront /\ NotAtEnd
LInv  == IInv /\ Place /\ NoCrossing

LEMMA Sizes ==
    /\ {Final, MaxStep, TStep, InitDelta, DelMin, MinBreak, Margin} \subseteq Nat \ {0}
    /\ {Cut, Shrink} \subseteq Nat \ {0}
    /\ 2 * DelMin < MinBreak /\ Margin < MinBreak /\ InitDelta <= TStep
    /\ TStep \in Points
  BY StepAssumption, PointsAssumption

LEMMA FarApart ==
    ASSUME NEW p \in Points, NEW q \in Points, p < q
    PROVE  p \in Int /\ q \in Int /\ 0 <= p /\ q <= Final /\ q - p > 2 * DelMin
<1>1. p \in 0..Final /\ q \in 0..Final /\ Final \in Nat /\ DelMin \in Nat
  BY ConstantTypes
<1>2. p - q > 2 * DelMin \/ q - p > 2 * DelMin
  BY <1>1, PointsAssumption
<1> QED
  BY <1>1, <1>2

LEMMA TableFacts ==
    ASSUME NEW b, Table(b)
    PROVE  /\ DOMAIN b = 1..Len(b) /\ Len(b) \in Nat /\ Len(b) >= 2
           /\ 1 \in DOMAIN b /\ 2 \in DOMAIN b
           /\ \A i \in DOMAIN b : b[i] \in Points /\ b[i] \in Int /\ 0 <= b[i] /\ b[i] <= Final
           /\ \A i \in DOMAIN b : b[1] <= b[i] /\ (i >= 2 => b[2] <= b[i])
<1>1. DOMAIN b = 1..Len(b) /\ Len(b) \in Nat /\ Len(b) >= 2 /\ b \in [1..Len(b) -> Points]
  BY LenProperties DEF Table
<1>2. ASSUME NEW i \in DOMAIN b
      PROVE  b[i] \in Points /\ b[i] \in Int /\ 0 <= b[i] /\ b[i] <= Final
  <2>1. b[i] \in Points
    BY <1>1, <1>2
  <2>2. b[i] \in 0..Final /\ Final \in Nat
    BY <2>1, ConstantTypes
  <2> QED
    BY <2>1, <2>2
<1>3. 1 \in DOMAIN b /\ 2 \in DOMAIN b
  BY <1>1
<1>4. \A i, j \in DOMAIN b : i < j => b[i] <= b[j]
  BY DEF Table, Ordered
<1>5. ASSUME NEW i \in DOMAIN b
      PROVE  b[1] <= b[i] /\ (i >= 2 => b[2] <= b[i])
  <2>1. i \in Nat /\ i >= 1
    BY <1>1, <1>5
  <2>2. i = 1 \/ 1 < i
    BY <2>1
  <2>3. i >= 2 => i = 2 \/ 2 < i
    BY <2>1
  <2> QED
    BY <1>2, <1>3, <1>4, <1>5, <2>2, <2>3
<1> QED
  BY <1>1, <1>2, <1>3, <1>5

LEMMA DivBound ==
    ASSUME NEW a \in Int, NEW c \in Nat \ {0}, NEW n \in Nat, a <= n
    PROVE  a \div c <= n
<1>1. CASE a < 0
  <2>1. a \div c <= 0
    BY <1>1
  <2> QED
    BY <2>1, DivType
<1>2. CASE a >= 0
  <2>1. a \div c <= a
    BY <1>2
  <2> QED
    BY <2>1, DivType
<1> QED
  BY <1>1, <1>2

(* A synchronising caller makes no step larger, and none that is not past  *)
(* the end negative.                                                       *)
LEMMA SynchronisedBounds ==
    ASSUME NEW t \in Int, NEW d \in Int, NEW x \in Synchronised(t, d)
    PROVE  /\ x \in Int /\ x <= d
           /\ d > 0 /\ Final - t > Margin => x > 0
<1>1. Final \in Nat /\ Margin \in Nat \ {0}
  BY Sizes
<1>2. PICK e \in IF wantsync /\ d > 0 THEN 1..d ELSE {d} : x = Clamped(t, e)
  BY DEF Synchronised
<1>3. e \in Int /\ e <= d /\ (d > 0 => e > 0)
  BY <1>2
<1> QED
  BY <1>1, <1>2, <1>3 DEF Clamped

LEMMA CutStepBounds ==
    ASSUME {delta, saveDelta} \subseteq Int, Table(breaks)
    PROVE  /\ CutStep \in Int /\ CutStep >= 2 * DelMin
           /\ CutStep = 2 * DelMin \/ CutStep <= breaks[2] - breaks[1]
           /\ firsttime /\ delta > 0 => CutStep = 2 * DelMin \/ CutStep <= delta
<1>1. breaks[1] \in Int /\ breaks[2] \in Int /\ breaks[2] - breaks[1] \in Nat
  BY TableFacts
<1> DEFINE dist == breaks[2] - breaks[1]
           cut  == Min2(saveDelta, dist) \div Cut
           step == Min2(Min2(delta, MaxStep), cut)
<1>2. cut \in Int /\ cut <= dist
  <2>1. Min2(saveDelta, dist) \in Int /\ Min2(saveDelta, dist) <= dist
    BY <1>1 DEF Min2
  <2> HIDE DEF dist
  <2>2. dist \in Nat /\ Cut \in Nat \ {0}
    BY <1>1, Sizes DEF dist
  <2> QED
    BY <2>1, <2>2, DivType, DivBound
<1> HIDE DEF cut, dist
<1>3. step \in Int /\ step <= dist /\ step <= delta
  <2>1. MaxStep \in Int /\ dist \in Nat /\ delta \in Int
    BY <1>1, Sizes DEF dist
  <2> QED
    BY <1>2, <2>1 DEF Min2
<1> HIDE DEF step
<1>4. step \div Cut \in Int /\ step \div Cut <= dist /\ (delta > 0 => step \div Cut <= delta)
  <2>1. dist \in Nat /\ Cut \in Nat \ {0} /\ delta \in Int
    BY <1>1, Sizes DEF dist
  <2> QED
    BY <1>3, <2>1, DivType, DivBound
<1>5. CutStep = Max2(IF firsttime THEN step \div Cut ELSE step, 2 * DelMin)
  BY DEF CutStep, step, cut, dist
<1>6. 2 * DelMin \in Int
  BY Sizes
<1> QED
  BY <1>3, <1>4, <1>5, <1>6 DEF Max2, dist

-----------------------------------------------------------------------------
(* The table moves only forward.                                           *)
LEMMA InsertLow ==
    ASSUME IInv, breaks # <<>>, NEW t \in Points, NEW m \in Nat, Insert(t, m), NEW x \in Int,
           x <= t, \A i \in DOMAIN breaks : x <= breaks[i]
    PROVE  \A i \in DOMAIN breaks' : x <= breaks'[i]
<1>1. breaks \in Seq(Points) /\ Points \subseteq Int
  BY HasTable, ConstantTypes DEF Table
<1>2. breaks' = SetBreak(breaks, t, m)
  BY DEF Insert
<1>3. EntriesFrom(breaks, breaks', t)
  BY <1>1, <1>2, SetBreakEntries
<1> QED
  BY <1>3 DEF EntriesFrom

(* An accepted time is in front of the table that it clears.               *)
LEMMA ClearedLow ==
    ASSUME NEW b, Table(b), NEW x \in Int, x <= Final,
           \A i \in DOMAIN b : i >= 2 => x <= b[i]
    PROVE  LET r == IF x > b[1] THEN ClrBreak(b, Final) ELSE b
           IN  \A i \in DOMAIN r : x <= r[i]
<1>1. DOMAIN b = 1..Len(b) /\ Len(b) \in Nat /\ 1 \in DOMAIN b /\ \A i \in DOMAIN b : b[i] \in Int
  BY TableFacts
<1>2. CASE x > b[1]
  <2> DEFINE r == ClrBreak(b, Final)
  <2>1. Shifted(b, r, Final)
    <3>1. b \in Seq(Points) /\ Len(b) >= 2 /\ Points \subseteq Int /\ Final \in Points
      BY ConstantTypes DEF Table
    <3> HIDE DEF r
    <3>2. r = ClrBreak(b, Final)
      BY DEF r
    <3> QED
      BY <3>1, <3>2, ClrBreakEntries
  <2>2. DOMAIN r = 1..Len(r)
    BY ClrBreakTable, TableFacts
  <2> HIDE DEF r
  <2>3. ASSUME NEW k \in DOMAIN r PROVE x <= r[k]
    <3>1. k + 1 >= 2
      BY <2>2, <2>3
    <3> QED
      BY <2>1, <2>3, <3>1 DEF Shifted
  <2> QED
    BY <1>2, <2>3 DEF r
<1>3. CASE ~(x > b[1])
  <2>1. ASSUME NEW i \in DOMAIN b PROVE x <= b[i]
    <3>1. i = 1 \/ i >= 2
      BY <1>1, <2>1
    <3> QED
      BY <1>1, <1>3, <3>1
  <2> QED
    BY <1>3, <2>1
<1> QED
  BY <1>2, <1>3

(* An entry at which the analysis stands is no other's equal, and the next *)
(* is further than the smallest step.                                      *)
LEMMA NextIsFar ==
    ASSUME LInv, NoPile, breaks # <<>>, Stands, breaks[1] <= time + DelMin
    PROVE  breaks[2] - breaks[1] > 2 * DelMin
<1>1. /\ 1 \in DOMAIN breaks /\ 2 \in DOMAIN breaks
      /\ breaks[1] \in Points /\ breaks[2] \in Points
      /\ breaks[1] \in Int /\ breaks[2] \in Int /\ breaks[1] <= breaks[2]
  BY HasTable, TableFacts DEF LInv
<1>2. breaks[1] # Final
  <2>1. Final - time >= MinBreak /\ time \in Int
    BY DEF LInv, Place, NotAtEnd, IInv, TypeOK
  <2> QED
    BY <1>1, <2>1, Sizes
<1>3. breaks[1] # breaks[2]
  BY <1>1, <1>2 DEF NoPile, NoPileIn
<1>4. breaks[1] < breaks[2]
  BY <1>1, <1>3
<1> QED
  BY <1>1, <1>4, FarApart

LEMMA PlaceInit == Init => LInv
<1> SUFFICES ASSUME Init PROVE LInv
  OBVIOUS
<1>1. IInv
  BY InvInit
<1>2. Place
  BY DEF Init, Place, AtStart, FirstStep, AtAccept, InFront, NotAtEnd, Stands
<1>3. NoCrossing
  BY DEF Init, NoCrossing
<1> QED
  BY <1>1, <1>2, <1>3 DEF LInv

(* A step outside of the analysis that does not leave it at a time point.  *)
LEMMA IdlePlace ==
    ASSUME IInv', pc' = "idle", ~inprogress'
    PROVE  LInv'
  BY DEF LInv, Place, AtStart, FirstStep, AtAccept, InFront, NotAtEnd, Stands, NoCrossing

LEMMA FreshPlace ==
    ASSUME IInv', pc' \in {"add_bkpt", "stops", "op"}, time' = 0, last' = 0
    PROVE  LInv'
  BY DEF LInv, Place, AtStart, FirstStep, AtAccept, InFront, NotAtEnd, Stands, NoCrossing

(* A step that leaves the analysis where it is.                            *)
LEMMA SamePlace ==
    ASSUME LInv, IInv', UNCHANGED <<pc, breaks, inprogress, time, delta, firsttime, last>>
    PROVE  LInv'
<1>1. Place'
  BY DEF LInv, Place, AtStart, FirstStep, AtAccept, InFront, NotAtEnd, Stands
<1>2. NoCrossing'
  BY DEF LInv, NoCrossing
<1> QED
  BY <1>1, <1>2 DEF LInv

LEMMA SetBkptPlace == ASSUME LInv, IInv', NEW t \in Points, SetBkpt(t) PROVE LInv'
<1>1. CASE UNCHANGED breaks
  BY <1>1, SamePlace DEF SetBkpt, control, flags, steps
<1>2. CASE breaks # <<>> /\ time <= t /\ Insert(t, MinBreak)
  <2>1. pc \in {"idle", "dump"} /\ pc' = pc
        /\ UNCHANGED <<inprogress, time, delta, firsttime, last>>
    BY DEF SetBkpt, control, flags, steps
  <2>2. time \in Int /\ MinBreak \in Nat
    BY Sizes DEF LInv, IInv, TypeOK
  <2>3. InFront'
    <3>1. SUFFICES ASSUME pc = "dump" \/ Stands
                   PROVE  \A i \in DOMAIN breaks' : time <= breaks'[i]
      BY <2>1 DEF InFront, Stands
    <3>2. \A i \in DOMAIN breaks : time <= breaks[i]
      BY <3>1 DEF LInv, Place, InFront
    <3> QED
      BY <1>2, <2>2, <3>2, InsertLow DEF LInv
  <2>4. AtStart' /\ FirstStep' /\ AtAccept' /\ NotAtEnd' /\ NoCrossing'
    BY <2>1 DEF LInv, Place, AtStart, FirstStep, AtAccept, NotAtEnd, Stands, NoCrossing
  <2> QED
    BY <2>3, <2>4 DEF LInv, Place
<1> QED
  BY <1>1, <1>2 DEF SetBkpt

LEMMA ResumePlace == ASSUME LInv, IInv', ResumeOrRun PROVE LInv'
<1>1. CASE NewTable
  BY <1>1, FreshPlace DEF NewTable
<1>2. CASE /\ pc = "idle" /\ inprogress /\ time # 0
           /\ pc' = "limit" /\ firsttime' = FALSE
           /\ UNCHANGED <<table, time, delta, saveDelta, atBreak, history>>
  <2>1. Stands /\ UNCHANGED <<time, breaks>>
    BY <1>2 DEF Stands, table
  <2>2. InFront' /\ NotAtEnd'
    BY <2>1 DEF LInv, Place, InFront, NotAtEnd
  <2>3. AtStart' /\ FirstStep' /\ AtAccept' /\ NoCrossing'
    BY <1>2 DEF AtStart, FirstStep, AtAccept, NoCrossing
  <2> QED
    BY <2>2, <2>3 DEF LInv, Place
<1> QED
  BY <1>1, <1>2 DEF ResumeOrRun, Resume, Run

LEMMA CallerPlace == ASSUME LInv, IInv', Caller PROVE LInv'
<1>1. CASE \E t \in Points : SetBkpt(t)
  BY <1>1, SetBkptPlace
<1>2. CASE \E t \in Points : StopWhen(t) \/ Delete(t)
  BY <1>2, SamePlace DEF StopWhen, Delete, control, flags, steps, history
<1>3. CASE Begin \/ GoOn \/ \E n \in 1..MaxSteps : Step(n)
  <2>1. ResumeOrRun \/ NewTable
    BY <1>3 DEF Begin, GoOn, Step, Run
  <2> QED
    BY <2>1, ResumePlace, FreshPlace DEF NewTable
<1>4. CASE Halt
  BY <1>4, SamePlace DEF Halt, table, steps, history
<1>5. CASE Reset
  BY <1>5, IdlePlace DEF Reset
<1> QED
  BY <1>1, <1>2, <1>3, <1>4, <1>5 DEF Caller

LEMMA BeginPlace == ASSUME LInv, IInv', AddBkpt \/ AddStops \/ Op PROVE LInv'
<1>1. time = 0 /\ last = 0
  BY DEF LInv, Place, AtStart, AddBkpt, AddStops, Op
<1>2. CASE AddBkpt \/ AddStops
  BY <1>1, <1>2, FreshPlace DEF AddBkpt, AddStops, control, flags, steps
<1>3. CASE Fail
  BY <1>3, IdlePlace DEF Fail
<1>4. CASE /\ pc = "op" /\ pc' = "accept" /\ delta' = InitDelta
           /\ UNCHANGED <<table, control, time, firsttime, atBreak, history>>
  <2>1. breaks # <<>> /\ UNCHANGED <<breaks, time, last>>
    BY <1>4 DEF LInv, IInv, Going, Running, table, history
  <2>2. \A i \in DOMAIN breaks : 0 <= breaks[i]
    BY <2>1, HasTable, TableFacts DEF LInv
  <2>3. AtAccept' /\ FirstStep'
    BY <1>1, <1>4, <2>1, <2>2 DEF AtAccept, FirstStep
  <2>4. AtStart' /\ InFront' /\ NotAtEnd' /\ NoCrossing'
    BY <1>4 DEF AtStart, InFront, NotAtEnd, Stands, NoCrossing
  <2> QED
    BY <2>3, <2>4 DEF LInv, Place
<1> QED
  BY <1>2, <1>3, <1>4 DEF Op

(* The time that is accepted is not past the end.                          *)
LEMMA AcceptBounds ==
    ASSUME LInv, pc = "accept"
    PROVE  /\ breaks # <<>> /\ Table(breaks) /\ time \in Int /\ time <= Final
           /\ \A i \in DOMAIN breaks : i >= 2 => time <= breaks[i]
<1>1. breaks # <<>> /\ Table(breaks) /\ time \in Int
  BY HasTable DEF LInv, IInv, Going, Running, TypeOK
<1>2. \A i \in DOMAIN breaks : i >= 2 => time <= breaks[i]
  BY DEF LInv, Place, AtAccept
<1>3. 2 \in DOMAIN breaks /\ breaks[2] \in Int /\ breaks[2] <= Final /\ Final \in Int
  BY <1>1, TableFacts, Sizes
<1>4. time <= breaks[2]
  BY <1>2, <1>3
<1> QED
  BY <1>1, <1>2, <1>3, <1>4

LEMMA AcceptPlace == ASSUME LInv, IInv', Accept PROVE LInv'
<1>1. /\ pc = "accept" /\ pc' = "dump" /\ last' = time
      /\ UNCHANGED <<time, delta, firsttime>>
  BY DEF Accept, Accepted
<1>2. /\ Table(breaks) /\ time \in Int /\ time <= Final
      /\ \A i \in DOMAIN breaks : i >= 2 => time <= breaks[i]
  BY <1>1, AcceptBounds
<1>3. InFront'
  <2>1. CASE Accepted(breaks)
    BY <1>1, <1>2, <2>1, ClearedLow DEF Accepted, InFront
  <2>2. CASE \E t \in Points : t > time /\ Accepted(SetBreak(breaks, t, MinBreak))
    <3>1. PICK t \in Points : t > time /\ Accepted(SetBreak(breaks, t, MinBreak))
      BY <2>2
    <3> DEFINE s == SetBreak(breaks, t, MinBreak)
    <3>2. MinBreak \in Nat /\ Points \subseteq Int /\ Len(breaks) >= 2
      BY <1>2, Sizes, ConstantTypes, TableFacts
    <3>3. Table(s)
      BY <1>2, <3>1, <3>2, SetBreakTable
    <3>4. time <= s[1] \/ \A k \in DOMAIN s : k >= 2 => time <= s[k]
      <4>1. breaks \in Seq(Points) /\ t \in Int /\ time <= t
        BY <1>2, <3>1, <3>2 DEF Table
      <4> HIDE DEF s
      <4>2. s = SetBreak(breaks, t, MinBreak)
        BY DEF s
      <4> QED
        BY <1>2, <3>2, <4>1, <4>2, SetBreakRest
    <3>5. breaks' = IF time > s[1] THEN ClrBreak(s, Final) ELSE s
      BY <3>1 DEF Accepted
    <3> HIDE DEF s
    <3>6. 1 \in DOMAIN s /\ s[1] \in Int /\ \A k \in DOMAIN s : s[k] \in Int /\ s[1] <= s[k]
      BY <3>3, TableFacts
    <3>7. \A k \in DOMAIN s : k >= 2 => time <= s[k]
      BY <1>2, <3>4, <3>6
    <3>8. \A i \in DOMAIN breaks' : time <= breaks'[i]
      BY <1>2, <3>3, <3>5, <3>7, ClearedLow
    <3> QED
      BY <1>1, <3>8 DEF InFront
  <2> QED
    BY <2>1, <2>2 DEF Accept
<1>4. FirstStep'
  BY <1>1 DEF LInv, Place, FirstStep
<1>5. AtStart' /\ AtAccept' /\ NotAtEnd' /\ NoCrossing'
  BY <1>1 DEF AtStart, AtAccept, NotAtEnd, Stands, NoCrossing
<1> QED
  BY <1>3, <1>4, <1>5 DEF LInv, Place

LEMMA DumpPlace == ASSUME LInv, IInv', Finish \/ Pause \/ Continue PROVE LInv'
<1>1. CASE Finish
  BY <1>1, IdlePlace DEF Finish
<1>2. CASE Pause \/ Continue
  <2>1. /\ pc = "dump" /\ pc' \in {"idle", "limit"} /\ ~AtEnd
        /\ UNCHANGED <<breaks, time, delta, firsttime, last>>
    BY <1>2 DEF Pause, Continue, table, steps, history
  <2>2. \A i \in DOMAIN breaks : time <= breaks[i]
    BY <2>1 DEF LInv, Place, InFront
  <2>3. Final - time >= MinBreak
    <3>1. Table(breaks) /\ time \in Int
      BY <2>1, HasTable DEF LInv, IInv, Going, Running, TypeOK
    <3>2. 1 \in DOMAIN breaks /\ breaks[1] \in Int /\ breaks[1] <= Final
      BY <3>1, TableFacts
    <3>3. time <= breaks[1]
      BY <2>2, <3>2
    <3> QED
      BY <2>1, <3>1, <3>2, <3>3, Sizes DEF AtEnd
  <2>4. InFront' /\ NotAtEnd'
    BY <2>1, <2>2, <2>3 DEF InFront, NotAtEnd
  <2>5. FirstStep'
    BY <2>1 DEF LInv, Place, FirstStep
  <2>6. AtStart' /\ AtAccept' /\ NoCrossing'
    BY <2>1 DEF AtStart, AtAccept, NoCrossing
  <2> QED
    BY <2>4, <2>5, <2>6 DEF LInv, Place
<1> QED
  BY <1>1, <1>2

LEMMA LimitPlace == ASSUME LInv, NoPile, IInv', Limit PROVE LInv'
<1>1. /\ pc = "limit" /\ pc' = "solve" /\ Stands /\ Stands'
      /\ UNCHANGED <<time, firsttime, last>>
  BY DEF Limit, Stands
<1>2. breaks # <<>> /\ Table(breaks) /\ {time, delta, saveDelta} \subseteq Int
  BY <1>1, HasTable DEF LInv, IInv, Going, Running, TypeOK
<1>3. /\ 1 \in DOMAIN breaks /\ DOMAIN breaks = 1..Len(breaks)
      /\ \A i \in DOMAIN breaks :
            /\ breaks[i] \in Int /\ 0 <= breaks[i] /\ breaks[1] <= breaks[i]
            /\ i >= 2 => breaks[2] <= breaks[i]
      /\ breaks[2] \in Int
  BY <1>2, TableFacts
<1>4. Final - time >= MinBreak /\ \A i \in DOMAIN breaks : time <= breaks[i]
  BY <1>1 DEF LInv, Place, NotAtEnd, InFront
<1>5. firsttime => time = 0 /\ delta = InitDelta
  BY <1>1 DEF LInv, Place, FirstStep
<1>6. NotAtEnd'
  BY <1>1, <1>4 DEF NotAtEnd
<1>7. AtStart' /\ FirstStep' /\ AtAccept'
  BY <1>1 DEF AtStart, FirstStep, AtAccept
<1>8. CASE LimitAtBreak
  <2>1. breaks[1] <= time + DelMin /\ delta' \in Int /\ delta' <= CutStep
    <3>1. CutStep \in Int
      BY <1>2, CutStepBounds
    <3>2. delta' \in Synchronised(time, CutStep) /\ breaks[1] - time <= DelMin
      BY <1>8 DEF LimitAtBreak, NearBreak
    <3>3. delta' \in Int /\ delta' <= CutStep
      BY <1>2, <3>1, <3>2, SynchronisedBounds
    <3>4. breaks[1] <= time + DelMin
      <4>1. breaks[1] \in Int /\ time \in Int /\ DelMin \in Int
        BY <1>2, <1>3, Sizes
      <4> QED
        BY <3>2, <4>1
    <3> QED
      BY <3>3, <3>4
  <2>2. time + delta' <= breaks[2]
    <3>1. breaks[2] - breaks[1] > 2 * DelMin
      BY <1>1, <1>2, <2>1, NextIsFar
    <3>2. CutStep \in Int /\ (CutStep = 2 * DelMin \/ CutStep <= breaks[2] - breaks[1])
      BY <1>2, CutStepBounds
    <3>3. time <= breaks[1] /\ 2 * DelMin \in Int
      BY <1>3, <1>4, Sizes
    <3> QED
      BY <1>2, <1>3, <2>1, <3>1, <3>2, <3>3
  <2>3. ASSUME NEW i \in DOMAIN breaks, breaks[i] > time + DelMin
        PROVE  time + delta' <= breaks[i]
    <3>1. i >= 2
      <4>1. i # 1
        BY <1>2, <1>3, <2>1, <2>3, Sizes
      <4> QED
        BY <1>3, <2>3, <4>1
    <3> QED
      BY <1>2, <1>3, <2>1, <2>2, <3>1
  <2>4. CASE firsttime /\ UIC /\ Insert(TStep, MinBreak)
    <3>1. time = 0 /\ delta = InitDelta /\ delta > 0 /\ TStep \in Points /\ MinBreak \in Nat
          /\ TStep > 0 /\ TStep \in Int
      BY <1>5, <2>4, Sizes
    <3>2. time + delta' <= TStep
      <4>1. 2 * DelMin < TStep
        BY <3>1, FarApart, ConstantTypes
      <4>2. CutStep \in Int /\ (CutStep = 2 * DelMin \/ CutStep <= InitDelta)
        BY <1>2, <2>4, <3>1, CutStepBounds
      <4>3. TStep \in Int /\ InitDelta \in Int /\ DelMin \in Int /\ InitDelta <= TStep
        BY Sizes
      <4>4. CutStep <= TStep
        BY <4>1, <4>2, <4>3
      <4>5. delta' \in Int /\ delta' <= TStep
        BY <2>1, <4>2, <4>3, <4>4
      <4>6. \A d \in Int : 0 + d = d
        OBVIOUS
      <4>7. time + delta' = delta'
        BY <3>1, <4>5, <4>6
      <4> QED
        BY <4>5, <4>7
    <3>3. EntriesFrom(breaks, breaks', TStep)
      <4>1. breaks \in Seq(Points) /\ Points \subseteq Int
        BY <1>2, ConstantTypes DEF Table
      <4>2. breaks' = SetBreak(breaks, TStep, MinBreak)
        BY <2>4 DEF Insert
      <4> QED
        BY <3>1, <4>1, <4>2, SetBreakEntries
    <3>4. NoCrossing'
      BY <1>1, <2>3, <3>2, <3>3 DEF NoCrossing, EntriesFrom
    <3>5. InFront'
      BY <1>1, <1>4, <3>1, <3>3 DEF InFront, EntriesFrom
    <3> QED
      BY <1>6, <1>7, <3>4, <3>5 DEF LInv, Place
  <2>5. CASE UNCHANGED breaks
    <3>1. NoCrossing'
      BY <1>1, <2>3, <2>5 DEF NoCrossing
    <3>2. InFront'
      BY <1>1, <1>4, <2>5 DEF InFront
    <3> QED
      BY <1>6, <1>7, <3>1, <3>2 DEF LInv, Place
  <2> QED
    BY <1>8, <2>4, <2>5 DEF LimitAtBreak
<1>9. CASE LimitToBreak \/ LimitFree
  <2>1. UNCHANGED breaks /\ delta' \in Int /\ time + delta' <= breaks[1]
    <3>1. Min2(delta, MaxStep) \in Int
      BY <1>2, Sizes DEF Min2
    <3>2. CASE LimitToBreak
      <4>1. delta' \in Synchronised(time, breaks[1] - time) /\ breaks[1] - time \in Int
        BY <1>2, <1>3, <3>2 DEF LimitToBreak
      <4> QED
        BY <1>2, <1>3, <3>2, <4>1, SynchronisedBounds DEF LimitToBreak
    <3>3. CASE LimitFree
      <4>1. delta' \in Synchronised(time, Min2(delta, MaxStep))
        BY <3>3 DEF LimitFree
      <4>2. delta' \in Int /\ delta' <= Min2(delta, MaxStep)
        BY <1>2, <3>1, <4>1, SynchronisedBounds
      <4> QED
        BY <1>2, <1>3, <3>1, <3>3, <4>2 DEF LimitFree
    <3> QED
      BY <1>9, <3>2, <3>3
  <2>2. NoCrossing'
    BY <1>1, <1>2, <1>3, <2>1 DEF NoCrossing
  <2>3. InFront'
    BY <1>1, <1>4, <2>1 DEF InFront
  <2> QED
    BY <1>6, <1>7, <2>2, <2>3 DEF LInv, Place
<1> QED
  BY <1>8, <1>9 DEF Limit

(* A step that is tried again is not larger.                               *)
LEMMA SmallerPlace ==
    ASSUME LInv, IInv', pc = "solve", UNCHANGED <<pc, breaks, inprogress, time, last>>,
           delta' <= delta
    PROVE  LInv'
<1>1. AtStart' /\ FirstStep' /\ AtAccept'
  BY DEF AtStart, FirstStep, AtAccept
<1>2. InFront' /\ NotAtEnd'
  BY DEF LInv, Place, InFront, NotAtEnd, Stands
<1>3. NoCrossing'
  <2>1. /\ {time, delta} \subseteq Int /\ delta' \in Int
        /\ \A i \in DOMAIN breaks : breaks[i] \in Int
    BY HasTable, TableFacts DEF LInv, IInv, Going, Running, TypeOK
  <2> QED
    BY <2>1 DEF LInv, NoCrossing
<1> QED
  BY <1>1, <1>2, <1>3 DEF LInv, Place

LEMMA RedoPlace ==
    ASSUME LInv, IInv', pc = "solve", NEW d \in Int, d <= delta \/ d <= DelMin, Redo(d)
    PROVE  LInv'
<1>1. CASE Fail
  BY <1>1, IdlePlace DEF Fail
<1>2. CASE /\ d > DelMin \/ delta > DelMin
           /\ delta' \in Synchronised(time, Max2(d, DelMin))
           /\ UNCHANGED <<pc, table, control, time, saveDelta, firsttime, atBreak, history>>
  <2>1. {time, delta} \subseteq Int /\ DelMin \in Int
    BY Sizes DEF LInv, IInv, TypeOK
  <2>2. Max2(d, DelMin) \in Int /\ Max2(d, DelMin) <= delta
    BY <1>2, <2>1 DEF Max2
  <2>3. delta' <= delta
    BY <1>2, <2>1, <2>2, SynchronisedBounds
  <2> QED
    BY <1>2, <2>3, SmallerPlace DEF table, control, flags, history
<1> QED
  BY <1>1, <1>2 DEF Redo

LEMMA ConvergedPlace ==
    ASSUME LInv, NoPile, IInv', pc = "solve", NEW d \in Int, Converged(d)
    PROVE  LInv'
<1>1. /\ {time, delta} \subseteq Int /\ Final \in Int /\ Margin \in Nat
      /\ breaks # <<>> /\ Table(breaks) /\ last = time
  <2>1. {time, delta} \subseteq Int /\ breaks # <<>> /\ last = time
    BY DEF LInv, IInv, Going, Running, TypeOK
  <2>2. Table(breaks)
    BY <2>1, HasTable DEF LInv
  <2> QED
    BY <2>1, <2>2, Sizes
<1>2. UNCHANGED <<breaks, inprogress, last>> /\ firsttime' = FALSE
  BY DEF Converged, table, control, flags, history
<1>3. CASE \E e \in 1..(delta - 1) : delta' = Clamped(time + delta, e) /\ UNCHANGED <<pc, time>>
  <2>1. delta' <= delta
    BY <1>1, <1>3 DEF Clamped
  <2> QED
    BY <1>2, <1>3, <2>1, SmallerPlace
<1>4. CASE pc' = "accept" /\ time' = time + delta
  <2>1. \A i \in DOMAIN breaks : breaks[i] > time + DelMin => time + delta <= breaks[i]
    BY DEF LInv, NoCrossing
  <2>2. /\ 1 \in DOMAIN breaks /\ 2 \in DOMAIN breaks
        /\ \A i \in DOMAIN breaks :
              breaks[i] \in Int /\ breaks[1] <= breaks[i] /\ (i >= 2 => breaks[2] <= breaks[i])
    BY <1>1, TableFacts
  <2>3. breaks[2] > time + DelMin
    <3>1. CASE breaks[1] <= time + DelMin
      <4>1. Stands /\ time <= breaks[1]
        BY <2>2 DEF LInv, Place, InFront, Stands
      <4>2. breaks[2] - breaks[1] > 2 * DelMin
        BY <1>1, <3>1, <4>1, NextIsFar
      <4> QED
        BY <1>1, <2>2, <4>1, <4>2, Sizes
    <3>2. CASE breaks[1] > time + DelMin
      BY <1>1, <2>2, <3>2, Sizes
    <3> QED
      BY <1>1, <2>2, <3>1, <3>2, Sizes
  <2>4. ASSUME NEW i \in DOMAIN breaks, i >= 2 PROVE breaks[i] > time + DelMin
    BY <1>1, <2>2, <2>3, <2>4, Sizes
  <2>5. AtAccept'
    BY <1>1, <1>2, <1>4, <2>1, <2>4 DEF AtAccept
  <2>6. AtStart' /\ FirstStep' /\ InFront' /\ NotAtEnd' /\ NoCrossing'
    BY <1>2, <1>4 DEF AtStart, FirstStep, InFront, NotAtEnd, Stands, NoCrossing
  <2> QED
    BY <2>5, <2>6 DEF LInv, Place
<1> QED
  BY <1>3, <1>4 DEF Converged

LEMMA SolvePlace ==
    ASSUME LInv, NoPile, IInv', NotConverged \/ FirstConverged \/ Truncated \/ Abort
    PROVE  LInv'
<1>1. delta \in Int /\ DelMin \in Nat
  BY Sizes DEF LInv, IInv, TypeOK
<1>2. CASE NotConverged
  <2> DEFINE d == delta \div Shrink
  <2>1. d \in Int
    BY <1>1, DivType, Sizes
  <2>2. d <= delta \/ d <= DelMin
    <3>1. delta >= 0 => d <= delta
      BY <1>1, DivBound, Sizes
    <3>2. delta < 0 => d <= 0
      BY <1>1, DivBound, Sizes
    <3> HIDE DEF d
    <3> QED
      BY <1>1, <2>1, <3>1, <3>2
  <2>3. pc = "solve" /\ Redo(d)
    BY <1>2 DEF NotConverged
  <2> HIDE DEF d
  <2> QED
    BY <2>1, <2>2, <2>3, RedoPlace
<1>3. CASE FirstConverged
  BY <1>1, <1>3, ConvergedPlace DEF FirstConverged
<1>4. CASE Truncated
  <2>1. PICK d \in 1..(2 * delta) :
          Converged(d) \/ (10 * d <= 9 * delta /\ Redo(d))
    BY <1>4 DEF Truncated
  <2>2. d \in Int /\ pc = "solve" /\ (10 * d <= 9 * delta => d <= delta)
    BY <1>1, <1>4, <2>1 DEF Truncated
  <2> QED
    BY <2>1, <2>2, RedoPlace, ConvergedPlace
<1>5. CASE Abort
  BY <1>5, IdlePlace DEF Abort, Fail
<1> QED
  BY <1>2, <1>3, <1>4, <1>5

LEMMA PlaceStep == LInv /\ NoPile /\ [Next]_vars => LInv'
<1> SUFFICES ASSUME LInv, NoPile, [Next]_vars PROVE LInv'
  OBVIOUS
<1>1. IInv'
  BY InvStep DEF LInv
<1>2. CASE Caller
  BY <1>1, <1>2, CallerPlace
<1>3. CASE DCtran
  BY <1>1, <1>3, BeginPlace, AcceptPlace, DumpPlace, LimitPlace, SolvePlace DEF DCtran
<1>4. CASE UNCHANGED vars
  BY <1>1, <1>4, SamePlace DEF vars, table, control, flags, steps, history
<1> QED
  BY <1>2, <1>3, <1>4 DEF Next

(* No step crosses a breakpoint as long as equal ones do not pile up,      *)
(* whatever is inserted and cleared, and however often a step is rejected  *)
(* (dctran.c: "limit the timestep so that the next breakpoint is not       *)
(* crossed").                                                              *)
THEOREM TransientNoCrossing == Spec /\ []NoPile => []NoCrossing
<1>1. LInv => NoCrossing
  BY DEF LInv
<1> QED
  BY PlaceInit, PlaceStep, <1>1, PTL DEF Spec

-----------------------------------------------------------------------------
(* Breakpoints that are further apart than CKTminBreak never pile up.      *)
Spread == \A p, q \in Points : p # q => p - q > MinBreak \/ q - p > MinBreak

LEMMA InsertNoPile ==
    ASSUME Spread, IInv, NoPile, breaks # <<>>,
           NEW t \in Points, NEW m \in {0, MinBreak}, breaks' = SetBreak(breaks, t, m)
    PROVE  NoPile'
<1>1. /\ breaks \in Seq(Points) /\ Ordered(breaks) /\ NoPileIn(breaks, Final)
      /\ Points \subseteq Int
  BY HasTable, ConstantTypes DEF Table, NoPile
<1>2. MinBreak \in Nat /\ m \in Nat /\ m <= MinBreak
  BY ConstantTypes
<1>3. \A p, q \in Points : p # q => p - q > m \/ q - p > m
  <2>1. ASSUME NEW p \in Points, NEW q \in Points, p # q PROVE p - q > m \/ q - p > m
    <3>1. p \in Int /\ q \in Int
      BY <1>1
    <3>2. p - q > MinBreak \/ q - p > MinBreak
      BY <2>1 DEF Spread
    <3> QED
      BY <1>2, <3>1, <3>2
  <2> QED
    BY <2>1
<1>4. NoPileIn(breaks', Final)
  BY <1>1, <1>2, <1>3, SetBreakNoPile
<1> QED
  BY <1>4 DEF NoPile

LEMMA ClearedNoPile ==
    ASSUME NEW b, Table(b), NoPileIn(b, Final), NEW r, r = ClrBreak(b, Final)
    PROVE  NoPileIn(r, Final)
<1>1. b \in Seq(Points) /\ Len(b) >= 2 /\ Points \subseteq Int /\ Final \in Points
  BY ConstantTypes DEF Table
<1>2. Shifted(b, r, Final)
  BY <1>1, ClrBreakEntries
<1>3. DOMAIN r \subseteq Int
  <2>1. Table(r)
    BY ClrBreakTable
  <2> QED
    BY <2>1, TableFacts
<1> QED
  BY <1>2, <1>3, ClrBreakNoPile

LEMMA AcceptNoPile ==
    ASSUME Spread, IInv, NoPile, Accept PROVE NoPile'
<1>1. breaks # <<>> /\ Table(breaks) /\ NoPileIn(breaks, Final)
  BY HasTable DEF IInv, Going, Running, Accept, NoPile
<1>2. PICK b : Table(b) /\ NoPileIn(b, Final) /\ Accepted(b)
  <2>1. CASE Accepted(breaks)
    BY <1>1, <2>1
  <2>2. CASE \E t \in Points : Accepted(SetBreak(breaks, t, MinBreak))
    <3>1. PICK t \in Points : Accepted(SetBreak(breaks, t, MinBreak))
      BY <2>2
    <3> DEFINE s == SetBreak(breaks, t, MinBreak)
    <3>2. MinBreak \in Nat /\ Points \subseteq Int
      BY ConstantTypes
    <3>3. Table(s)
      BY <1>1, <3>2, SetBreakTable
    <3>4. NoPileIn(s, Final)
      <4>1. breaks \in Seq(Points) /\ Ordered(breaks)
        BY <1>1 DEF Table
      <4>2. \A p, q \in Points : p # q => p - q > MinBreak \/ q - p > MinBreak
        BY DEF Spread
      <4> HIDE DEF s
      <4>3. s = SetBreak(breaks, t, MinBreak)
        BY DEF s
      <4> QED
        BY <1>1, <3>2, <4>1, <4>2, <4>3, SetBreakNoPile
    <3> QED
      BY <3>1, <3>3, <3>4
  <2> QED
    BY <2>1, <2>2 DEF Accept
<1>3. breaks' = ClrBreak(b, Final) \/ breaks' = b
  BY <1>2 DEF Accepted
<1> QED
  BY <1>2, <1>3, ClearedNoPile DEF NoPile

LEMMA NewTableNoPile == ASSUME NewTable PROVE NoPile'
<1>1. breaks' = <<0, Final>> /\ Final # 0
  BY Sizes DEF NewTable
<1>2. DOMAIN breaks' = {1, 2} /\ breaks'[1] = 0 /\ breaks'[2] = Final
  BY <1>1
<1> QED
  BY <1>1, <1>2 DEF NoPile, NoPileIn

LEMMA NoPileStep == ASSUME Spread PROVE IInv /\ NoPile /\ [Next]_vars => NoPile'
<1> SUFFICES ASSUME IInv, NoPile, [Next]_vars PROVE NoPile'
  OBVIOUS
<1>1. CASE UNCHANGED breaks
  BY <1>1 DEF NoPile
<1>2. CASE breaks # <<>> /\ \E t \in Points, m \in {0, MinBreak} : Insert(t, m)
  BY <1>2, InsertNoPile DEF Insert
<1>3. CASE Caller
  <2>1. CASE \E t \in Points : SetBkpt(t)
    BY <1>1, <1>2, <2>1 DEF SetBkpt
  <2>2. CASE \E t \in Points : StopWhen(t) \/ Delete(t)
    BY <1>1, <2>2 DEF StopWhen, Delete
  <2>3. CASE Begin \/ GoOn \/ (\E n \in 1..MaxSteps : Step(n))
    <3>1. NewTable \/ UNCHANGED breaks
      BY <2>3 DEF Begin, GoOn, Step, ResumeOrRun, Resume, Run, table
    <3> QED
      BY <1>1, <3>1, NewTableNoPile
  <2>4. CASE Halt
    BY <1>1, <2>4 DEF Halt, table
  <2>5. CASE Reset
    <3>1. breaks' = <<>>
      BY <2>5 DEF Reset
    <3>2. DOMAIN breaks' = {}
      BY <3>1
    <3> QED
      BY <3>2 DEF NoPile, NoPileIn
  <2> QED
    BY <1>3, <2>1, <2>2, <2>3, <2>4, <2>5 DEF Caller
<1>4. CASE DCtran
  <2>1. CASE AddBkpt \/ AddStops
    <3>1. breaks # <<>>
      BY <2>1 DEF IInv, Going, Running, AddBkpt, AddStops
    <3>2. ASSUME AddBkpt, bkpttmp # <<>> PROVE Head(bkpttmp) \in Points
      <4>1. bkpttmp \in Seq(Points)
        BY DEF IInv, TypeOK
      <4> QED
        BY <3>2, <4>1
    <3>3. IInv => todo \subseteq Points
      BY DEF IInv, TypeOK
    <3> QED
      BY <1>1, <1>2, <2>1, <3>1, <3>2, <3>3 DEF AddBkpt, AddStops
  <2>2. CASE Accept
    BY <2>2, AcceptNoPile
  <2>3. CASE Limit
    <3>1. breaks # <<>> /\ TStep \in Points
      BY <2>3, Sizes DEF IInv, Going, Running, Limit
    <3> QED
      BY <1>1, <1>2, <2>3, <3>1 DEF Limit, LimitAtBreak, LimitToBreak, LimitFree
  <2>4. CASE Op \/ Finish \/ Pause \/ Continue \/ NotConverged \/ FirstConverged \/ Truncated \/ Abort
    <3>1. UNCHANGED table
      BY <2>4 DEF Op, Finish, Pause, Continue, NotConverged, FirstConverged, Truncated, Abort,
                  Fail, Redo, Converged
    <3> QED
      BY <1>1, <3>1 DEF table
  <2> QED
    BY <1>4, <2>1, <2>2, <2>3, <2>4 DEF DCtran
<1>5. CASE UNCHANGED vars
  BY <1>1, <1>5 DEF vars, table
<1> QED
  BY <1>3, <1>4, <1>5 DEF Next

(* No two entries of the table are the same, but for the final time, when  *)
(* the breakpoints are further apart than CKTminBreak (cktsetbk.c).        *)
THEOREM TransientNoPile == ASSUME Spread PROVE Spec => []NoPile
<1>1. Init => NoPile
  <2>1. Init => DOMAIN breaks = {}
    BY DEF Init
  <2> QED
    BY <2>1 DEF NoPile, NoPileIn
<1>2. IInv /\ NoPile /\ [Next]_vars => NoPile'
  BY NoPileStep
<1> QED
  BY <1>1, <1>2, TransientInv, PTL DEF Spec

(* Hence no step crosses such a breakpoint.                                *)
COROLLARY SpreadNoCrossing == ASSUME Spread PROVE Spec => []NoCrossing
  BY TransientNoPile, TransientNoCrossing, PTL

-----------------------------------------------------------------------------
(* Forward.  A synchronising caller that asks for a step again although it *)
(* would end past the final time gets one that goes back.                  *)
Polite == ~wantsync \/ ~RedoPastEnd

Ahead ==
    /\ Stands => delta > 0
    /\ pc \in {"accept", "dump"} => delta > 0 \/ AtEnd
    /\ time >= last
    /\ pc = "accept" => time > last \/ (time = 0 /\ last = 0)
    /\ pc \in Running => inprogress

FInv == LInv /\ Ahead

LEMMA SameAhead ==
    ASSUME Ahead, UNCHANGED <<pc, inprogress, time, delta, last>>
    PROVE  Ahead'
  BY DEF Ahead, Stands, AtEnd

LEMMA RestAhead ==
    ASSUME pc' = "idle", ~inprogress', time' >= last'
    PROVE  Ahead'
  BY DEF Ahead, Stands, Running

LEMMA FreshAhead ==
    ASSUME pc' \in {"add_bkpt", "stops", "op"}, inprogress', time' = 0, last' = 0
    PROVE  Ahead'
  BY DEF Ahead, Stands, Running

LEMMA CallerAhead == ASSUME FInv, Caller PROVE Ahead'
<1>1. CASE \E t \in Points : SetBkpt(t) \/ StopWhen(t) \/ Delete(t)
  BY <1>1, SameAhead DEF FInv, SetBkpt, StopWhen, Delete, control, flags, steps, history
<1>2. CASE Begin \/ GoOn \/ \E n \in 1..MaxSteps : Step(n)
  <2>1. \/ NewTable /\ inprogress'
        \/ /\ pc = "idle" /\ inprogress /\ time # 0 /\ pc' = "limit"
           /\ UNCHANGED <<time, delta, last, inprogress>>
    BY <1>2 DEF Begin, GoOn, Step, ResumeOrRun, Resume, Run, flags, history
  <2>2. CASE NewTable /\ inprogress'
    BY <2>2, FreshAhead DEF NewTable
  <2>3. CASE /\ pc = "idle" /\ inprogress /\ time # 0 /\ pc' = "limit"
             /\ UNCHANGED <<time, delta, last, inprogress>>
    BY <2>3 DEF FInv, Ahead, Stands, Running
  <2> QED
    BY <2>1, <2>2, <2>3
<1>3. CASE Halt
  BY <1>3, SameAhead DEF FInv, Halt, steps, history
<1>4. CASE Reset
  BY <1>4, RestAhead DEF Reset
<1> QED
  BY <1>1, <1>2, <1>3, <1>4 DEF Caller

LEMMA BeginAhead == ASSUME FInv, AddBkpt \/ AddStops \/ Op PROVE Ahead'
<1>1. time = 0 /\ last = 0 /\ inprogress
  BY DEF FInv, LInv, Place, AtStart, Ahead, Running, AddBkpt, AddStops, Op
<1>2. CASE AddBkpt \/ AddStops
  BY <1>1, <1>2, FreshAhead DEF AddBkpt, AddStops, control, flags, steps
<1>3. CASE Fail /\ UNCHANGED time
  BY <1>1, <1>3, RestAhead DEF Fail
<1>4. CASE /\ pc = "op" /\ pc' = "accept" /\ delta' = InitDelta
           /\ UNCHANGED <<table, control, time, firsttime, atBreak, history>>
  BY <1>1, <1>4, Sizes DEF Ahead, Stands, control, flags, history
<1> QED
  BY <1>2, <1>3, <1>4 DEF Op

LEMMA AcceptAhead == ASSUME FInv, Accept PROVE Ahead'
<1>1. /\ pc = "accept" /\ pc' = "dump" /\ last' = time
      /\ UNCHANGED <<time, delta, inprogress>>
  BY DEF Accept, Accepted
<1>2. time \in Int
  BY DEF FInv, LInv, IInv, TypeOK
<1> QED
  BY <1>1, <1>2 DEF FInv, Ahead, AtEnd, Stands, Running

LEMMA DumpAhead == ASSUME FInv, Finish \/ Pause \/ Continue PROVE Ahead'
<1>1. CASE Finish
  BY <1>1, RestAhead DEF Finish, FInv, Ahead, steps
<1>2. CASE Pause \/ Continue
  <2>1. /\ pc = "dump" /\ pc' \in {"idle", "limit"} /\ ~AtEnd
        /\ UNCHANGED <<time, delta, last, inprogress>>
    BY <1>2 DEF Pause, Continue, control, flags, steps, history
  <2> QED
    BY <2>1 DEF FInv, Ahead, Stands, Running
<1> QED
  BY <1>1, <1>2

(* In front of a step there is room for one.                               *)
LEMMA Room ==
    ASSUME LInv, Stands
    PROVE  /\ {time, delta, saveDelta} \subseteq Int /\ Final - time > Margin
           /\ DelMin \in Nat \ {0} /\ MaxStep \in Nat \ {0}
<1>1. Final - time >= MinBreak
  BY DEF LInv, Place, NotAtEnd
<1>2. {time, delta, saveDelta} \subseteq Int
  BY DEF LInv, IInv, TypeOK
<1> QED
  BY <1>1, <1>2, Sizes

LEMMA LimitAhead == ASSUME FInv, Limit PROVE Ahead'
<1>1. /\ pc = "limit" /\ pc' = "solve" /\ Stands
      /\ UNCHANGED <<time, last, inprogress>>
  BY DEF Limit, Stands, control, flags
<1>2. /\ {time, delta, saveDelta} \subseteq Int /\ Final - time > Margin
      /\ DelMin \in Nat \ {0} /\ MaxStep \in Nat \ {0}
  BY <1>1, Room DEF FInv
<1>3. Table(breaks)
  BY <1>1, HasTable DEF FInv, LInv, IInv, Going, Running
<1>4. \E d \in Int : d > 0 /\ delta' \in Synchronised(time, d)
  <2>1. CASE LimitAtBreak
    <3>1. CutStep \in Int /\ CutStep >= 2 * DelMin
      BY <1>2, <1>3, CutStepBounds
    <3>2. CutStep > 0
      BY <1>2, <3>1
    <3> QED
      BY <2>1, <3>1, <3>2 DEF LimitAtBreak
  <2>2. CASE LimitToBreak
    <3>1. breaks[1] - time \in Int /\ ~(breaks[1] - time <= DelMin)
      BY <1>2, <1>3, <2>2, TableFacts DEF LimitToBreak, NearBreak
    <3>2. breaks[1] - time > 0
      BY <1>2, <3>1
    <3> QED
      BY <2>2, <3>1, <3>2 DEF LimitToBreak
  <2>3. CASE LimitFree
    <3>1. delta > 0
      BY <1>1 DEF FInv, Ahead
    <3>2. Min2(delta, MaxStep) \in Int /\ Min2(delta, MaxStep) > 0
      BY <1>2, <3>1 DEF Min2
    <3> QED
      BY <2>3, <3>2 DEF LimitFree
  <2> QED
    BY <2>1, <2>2, <2>3 DEF Limit
<1>5. delta' > 0
  BY <1>2, <1>4, SynchronisedBounds
<1> QED
  BY <1>1, <1>5 DEF FInv, Ahead, Running

LEMMA RedoAhead ==
    ASSUME FInv, pc = "solve", NEW d \in Int, Redo(d) PROVE Ahead'
<1>1. Stands /\ delta > 0 /\ time >= last /\ last \in Int
  BY DEF FInv, Ahead, Stands, LInv, IInv, TypeOK
<1>2. /\ {time, delta, saveDelta} \subseteq Int /\ Final - time > Margin
      /\ DelMin \in Nat \ {0}
  BY <1>1, Room DEF FInv
<1>3. CASE Fail /\ time' = time + delta
  <2>1. time' >= last'
    BY <1>1, <1>2, <1>3 DEF Fail
  <2> QED
    BY <1>3, <2>1, RestAhead DEF Fail
<1>4. CASE /\ delta' \in Synchronised(time, Max2(d, DelMin))
           /\ UNCHANGED <<pc, table, control, time, saveDelta, firsttime, atBreak, history>>
  <2>1. Max2(d, DelMin) \in Int /\ Max2(d, DelMin) > 0
    BY <1>2 DEF Max2
  <2>2. delta' > 0
    BY <1>2, <1>4, <2>1, SynchronisedBounds
  <2> QED
    BY <1>4, <2>2 DEF FInv, Ahead, Stands, control, flags, history
<1> QED
  BY <1>3, <1>4 DEF Redo

LEMMA NotPastEnd == LInv /\ pc = "accept" => time <= Final
  BY AcceptBounds

LEMMA ConvergedAhead ==
    ASSUME Polite, FInv, LInv', pc = "solve", NEW d \in Int, d > 0, Converged(d)
    PROVE  Ahead'
<1>1. Stands /\ delta > 0 /\ time = last /\ inprogress
  BY DEF FInv, Ahead, Stands, LInv, IInv, Going, Running
<1>2. /\ {time, delta} \subseteq Int /\ Final \in Int /\ Margin \in Nat /\ Margin < MinBreak
      /\ MinBreak \in Nat
  BY Sizes DEF FInv, LInv, IInv, TypeOK
<1>3. UNCHANGED <<inprogress, last>>
  BY DEF Converged, control, flags, history
<1>4. CASE pc' = "accept" /\ time' = time + delta /\ delta' \in Synchronised(time + delta, d)
  <2>1. time' > last' /\ time' \in Int
    BY <1>1, <1>2, <1>3, <1>4
  <2>2. CASE Final - time' > Margin
    <3>1. delta' > 0
      BY <1>2, <1>4, <2>1, <2>2, SynchronisedBounds
    <3> QED
      BY <1>1, <1>2, <1>3, <1>4, <2>1, <3>1 DEF Ahead, Stands
  <2>3. CASE ~(Final - time' > Margin)
    <3>1. time' <= Final
      <4>1. (LInv /\ pc = "accept" => time <= Final)'
        BY NotPastEnd, PTL
      <4> QED
        BY <1>4, <4>1
    <3>2. AtEnd'
      <4> DEFINE t == time'
      <4>1. t \in Int /\ t <= Final /\ ~(Final - t > Margin)
        BY <2>1, <2>3, <3>1
      <4> HIDE DEF t
      <4>2. Final - t < MinBreak /\ t - Final < MinBreak
        BY <1>2, <4>1
      <4> QED
        BY <4>2 DEF AtEnd, t
    <3>3. last' \in Int
      BY <1>1, <1>2, <1>3
    <3> QED
      BY <1>1, <1>3, <1>4, <2>1, <3>2, <3>3 DEF Ahead, Stands
  <2> QED
    BY <2>2, <2>3
<1>5. CASE /\ \E e \in 1..(delta - 1) :
                wantsync /\ (RedoPastEnd \/ time + delta + e <= Final) /\ delta' = Clamped(time + delta, e)
           /\ UNCHANGED <<pc, time>>
  <2>1. PICK e \in 1..(delta - 1) : time + delta + e <= Final /\ delta' = Clamped(time + delta, e)
    BY <1>5 DEF Polite
  <2>2. delta' > 0
    BY <1>2, <2>1 DEF Clamped
  <2> QED
    BY <1>1, <1>3, <1>5, <2>2 DEF FInv, Ahead, Stands
<1> QED
  BY <1>4, <1>5 DEF Converged

LEMMA SolveAhead ==
    ASSUME Polite, FInv, LInv', NotConverged \/ FirstConverged \/ Truncated \/ Abort
    PROVE  Ahead'
<1>1. {time, delta, last} \subseteq Int /\ (pc = "solve" => delta > 0) /\ time >= last
  BY DEF FInv, Ahead, Stands, LInv, IInv, TypeOK
<1>2. CASE NotConverged
  <2>1. delta \div Shrink \in Int
    BY <1>1, DivType, Sizes
  <2> QED
    BY <1>2, <2>1, RedoAhead DEF NotConverged
<1>3. CASE FirstConverged
  BY <1>1, <1>3, ConvergedAhead DEF FirstConverged
<1>4. CASE Truncated
  <2>1. PICK d \in 1..(2 * delta) : Converged(d) \/ Redo(d)
    BY <1>4 DEF Truncated
  <2>2. d \in Int /\ d > 0 /\ pc = "solve"
    BY <1>1, <1>4, <2>1 DEF Truncated
  <2> QED
    BY <2>1, <2>2, RedoAhead, ConvergedAhead
<1>5. CASE Abort
  <2>1. time' >= last'
    BY <1>1, <1>5 DEF Abort, Fail
  <2> QED
    BY <1>5, <2>1, RestAhead DEF Abort, Fail
<1> QED
  BY <1>2, <1>3, <1>4, <1>5

LEMMA ForwardInit == Init => FInv
<1>1. Init => Ahead
  BY DEF Init, Ahead, Stands, Running
<1> QED
  BY <1>1, PlaceInit DEF FInv

LEMMA ForwardStep == ASSUME Polite PROVE FInv /\ NoPile /\ [Next]_vars => FInv'
<1> SUFFICES ASSUME FInv, NoPile, [Next]_vars PROVE FInv'
  OBVIOUS
<1>1. LInv'
  BY PlaceStep DEF FInv
<1>2. CASE Caller
  BY <1>1, <1>2, CallerAhead DEF FInv
<1>3. CASE DCtran
  BY <1>1, <1>3, BeginAhead, AcceptAhead, DumpAhead, LimitAhead, SolveAhead DEF DCtran, FInv
<1>4. CASE UNCHANGED vars
  BY <1>1, <1>4, SameAhead DEF FInv, vars, control, flags, steps, history
<1> QED
  BY <1>2, <1>3, <1>4 DEF Next

(* Every step goes forward, for a caller that does not ask for a step      *)
(* again past the final time (sharedsync: "being smaller than olddelta",   *)
(* "never move beyond final time").                                        *)
THEOREM TransientForward == ASSUME Polite PROVE Spec /\ []NoPile => []StepsForward
<1>1. FInv => StepsForward
  BY DEF FInv, Ahead, Stands, StepsForward
<1>2. FInv /\ NoPile /\ [Next]_vars => FInv'
  BY ForwardStep
<1> QED
  BY ForwardInit, <1>1, <1>2, PTL DEF Spec

-----------------------------------------------------------------------------
(* No breakpoint is lost.  One that was asked for, none close before it,   *)
(* is in the table and in front of the accepted time until it is reached.  *)
Among(x, b) == \E i \in DOMAIN b : b[i] = x

Hits ==
    /\ breaks # <<>> => Final \in asked
    /\ \A i \in DOMAIN breaks : breaks[i] \in asked
    /\ \A r \in unmet : First(r) => last + DelMin < r /\ Among(r, breaks)

HInv == FInv /\ Hits

LEMMA EntryStands ==
    ASSUME NEW b, Table(b), NEW t \in Points, NEW m \in Nat, m <= MinBreak,
           NEW r, r = SetBreak(b, t, m),
           NEW A, A \subseteq Points, \A i \in DOMAIN b : b[i] \in A
    PROVE  /\ \A k \in DOMAIN r : r[k] \in A \cup {t}
           /\ \A x \in A \cup {t} :
                 /\ x = t \/ Among(x, b)
                 /\ \A s \in A \cup {t} : s < x => x - s > MinBreak
                 => Among(x, r)
<1>1. /\ b \in Seq(Points) /\ Points \subseteq Int /\ MinBreak \in Nat
      /\ \A p \in A \cup {t} : p \in Int
  BY ConstantTypes DEF Table
<1>2. EntriesFrom(b, r, t) /\ Faithful(b, r, t, m)
  BY <1>1, SetBreakEntries, SetBreakFaithful
<1>3. \A k \in DOMAIN r : r[k] \in A \cup {t}
  BY <1>2 DEF EntriesFrom
<1>4. ASSUME NEW x \in A \cup {t}, x = t \/ Among(x, b),
             \A s \in A \cup {t} : s < x => x - s > MinBreak
      PROVE  Among(x, r)
  <2>1. CASE x = t
    <3>1. PICK k \in DOMAIN r : r[k] = t \/ (r[k] < t /\ t - r[k] <= m)
      BY <1>2 DEF Faithful
    <3>2. ~(r[k] < t /\ t - r[k] <= m)
      <4>1. r[k] \in A \cup {t} /\ r[k] \in Int /\ t \in Int
        BY <1>1, <1>3, <3>1
      <4>2. r[k] < t => t - r[k] > MinBreak
        BY <1>4, <2>1, <4>1
      <4> QED
        BY <1>1, <4>1, <4>2
    <3> QED
      BY <2>1, <3>1, <3>2 DEF Among
  <2>2. CASE Among(x, b)
    <3>1. PICK i \in DOMAIN b : b[i] = x
      BY <2>2 DEF Among
    <3>2. (\E k \in DOMAIN r : r[k] = x) \/ (t < x /\ x - t <= m)
      BY <1>2, <3>1 DEF Faithful
    <3>3. ~(t < x /\ x - t <= m)
      <4>1. t < x => x - t > MinBreak
        BY <1>4
      <4>2. x \in Int /\ t \in Int
        BY <1>1, <1>4
      <4> QED
        BY <1>1, <4>1, <4>2
    <3> QED
      BY <3>2, <3>3 DEF Among
  <2> QED
    BY <1>4, <2>1, <2>2
<1> QED
  BY <1>3, <1>4

LEMMA SameHits ==
    ASSUME Hits, UNCHANGED <<breaks, asked, unmet, last>>
    PROVE  Hits'
  BY DEF Hits, First

LEMMA InsertHits ==
    ASSUME FInv, Hits, breaks # <<>>, NEW t \in Points, NEW m \in {0, MinBreak},
           Insert(t, m), UNCHANGED last
    PROVE  Hits'
<1>1. /\ Table(breaks) /\ asked \subseteq Points /\ unmet \subseteq Points
      /\ time \in Int /\ last \in Int /\ time >= last
      /\ \A p \in Points : p \in Int
  BY HasTable, ConstantTypes DEF FInv, LInv, IInv, TypeOK, Ahead
<1>2. m \in Nat /\ m <= MinBreak /\ DelMin \in Nat
  BY ConstantTypes
<1>3. /\ breaks' = SetBreak(breaks, t, m) /\ asked' = asked \cup {t}
      /\ \A r \in unmet' : r \in unmet \/ (r = t /\ t - DelMin > time)
  BY DEF Insert
<1>4. \A i \in DOMAIN breaks : breaks[i] \in asked
  BY DEF Hits
<1>5. /\ \A k \in DOMAIN breaks' : breaks'[k] \in asked'
      /\ \A x \in asked' :
            /\ x = t \/ Among(x, breaks)
            /\ \A s \in asked' : s < x => x - s > MinBreak
            => Among(x, breaks')
  BY <1>1, <1>2, <1>3, <1>4, EntryStands
<1>6. ASSUME NEW r \in unmet', First(r)' PROVE last' + DelMin < r /\ Among(r, breaks')
  <2>1. \A s \in asked' : s < r => r - s > MinBreak
    BY <1>6 DEF First
  <2>2. CASE r \in unmet
    <3>1. First(r)
      BY <1>3, <2>1 DEF First
    <3>2. last + DelMin < r /\ Among(r, breaks)
      BY <2>2, <3>1 DEF Hits
    <3>3. r \in asked'
      BY <1>3, <1>4, <3>2 DEF Among
    <3> QED
      BY <1>5, <2>1, <3>2, <3>3
  <2>3. CASE r = t /\ t - DelMin > time
    <3>1. Among(r, breaks')
      BY <1>3, <1>5, <2>1, <2>3
    <3>2. last + DelMin < r
      BY <1>1, <1>2, <2>3
    <3> QED
      BY <3>1, <3>2
  <2> QED
    BY <1>3, <2>2, <2>3
<1>7. breaks # <<>> => Final \in asked
  BY DEF Hits
<1> QED
  BY <1>3, <1>5, <1>6, <1>7 DEF Hits

LEMMA NewTableHits == ASSUME NewTable PROVE Hits'
<1>1. /\ breaks' = <<0, Final>> /\ asked' = {0, Final} /\ unmet' = {Final} /\ last' = 0
  BY DEF NewTable
<1>2. 0 + DelMin < Final
  <2>1. /\ DelMin \in Nat /\ MinBreak \in Nat /\ Final \in Nat
        /\ 2 * DelMin < MinBreak /\ MinBreak < Final
    BY StepAssumption
  <2> QED
    BY <2>1
<1>3. DOMAIN breaks' = {1, 2} /\ breaks'[1] = 0 /\ breaks'[2] = Final
  BY <1>1
<1> QED
  BY <1>1, <1>2, <1>3 DEF Hits, Among

LEMMA CallerHits == ASSUME HInv, Caller PROVE Hits'
<1>1. CASE \E t \in Points : SetBkpt(t)
  <2>1. PICK t \in Points : SetBkpt(t)
    BY <1>1
  <2>2. CASE breaks # <<>> /\ Insert(t, MinBreak)
    BY <2>1, <2>2, InsertHits DEF SetBkpt, HInv
  <2>3. CASE UNCHANGED <<breaks, asked, unmet>>
    BY <2>1, <2>3, SameHits DEF SetBkpt, HInv
  <2> QED
    BY <2>1, <2>2, <2>3 DEF SetBkpt
<1>2. CASE \E t \in Points : StopWhen(t) \/ Delete(t)
  BY <1>2, SameHits DEF StopWhen, Delete, history, HInv
<1>3. CASE Begin \/ GoOn \/ \E n \in 1..MaxSteps : Step(n)
  <2>1. NewTable \/ UNCHANGED <<breaks, asked, unmet, last>>
    BY <1>3 DEF Begin, GoOn, Step, ResumeOrRun, Resume, Run, table, history
  <2> QED
    BY <2>1, NewTableHits, SameHits DEF HInv
<1>4. CASE Halt
  BY <1>4, SameHits DEF Halt, table, history, HInv
<1>5. CASE Reset
  <2>1. breaks' = <<>> /\ unmet' = {}
    BY <1>5 DEF Reset
  <2>2. DOMAIN breaks' = {}
    BY <2>1
  <2> QED
    BY <2>1, <2>2 DEF Hits
<1> QED
  BY <1>1, <1>2, <1>3, <1>4, <1>5 DEF Caller

LEMMA TableHits == ASSUME HInv, AddBkpt \/ AddStops PROVE Hits'
<1>1. breaks # <<>> /\ bkpttmp \in Seq(Points) /\ todo \subseteq Points /\ UNCHANGED last
  BY DEF HInv, FInv, LInv, IInv, TypeOK, Going, Running, AddBkpt, AddStops
<1>2. CASE UNCHANGED <<breaks, asked, unmet>>
  BY <1>1, <1>2, SameHits DEF HInv
<1>3. CASE AddBkpt /\ bkpttmp # <<>> /\ Insert(Head(bkpttmp), 0)
  <2>1. Head(bkpttmp) \in Points
    BY <1>1, <1>3
  <2> QED
    BY <1>1, <1>3, <2>1, InsertHits DEF HInv
<1>4. CASE \E t \in todo : Insert(t, MinBreak)
  BY <1>1, <1>4, InsertHits DEF HInv
<1> QED
  BY <1>2, <1>3, <1>4 DEF AddBkpt, AddStops

LEMMA LimitHits == ASSUME HInv, Limit PROVE Hits'
<1>1. breaks # <<>> /\ UNCHANGED last /\ TStep \in Points
  BY Sizes DEF HInv, FInv, LInv, IInv, Going, Running, Limit
<1>2. CASE Insert(TStep, MinBreak)
  BY <1>1, <1>2, InsertHits DEF HInv
<1>3. CASE UNCHANGED <<breaks, asked, unmet>>
  BY <1>1, <1>3, SameHits DEF HInv
<1> QED
  BY <1>2, <1>3 DEF Limit, LimitAtBreak, LimitToBreak, LimitFree

(* What an accepted time does to a table that has them all.                *)
LEMMA AcceptedHits ==
    ASSUME HInv, pc = "accept", NEW b, Table(b), Accepted(b),
           \A k \in DOMAIN b : b[k] \in asked', Final \in asked',
           \A r \in unmet' : First(r)' => time + DelMin < r /\ Among(r, b)
    PROVE  Hits'
<1>1. time \in Int /\ DelMin \in Nat /\ \A p \in Points : p \in Int
  BY ConstantTypes DEF HInv, FInv, LInv, IInv, TypeOK
<1>2. last' = time /\ breaks' = IF time > b[1] THEN ClrBreak(b, Final) ELSE b
  BY DEF Accepted
<1>3. CASE time > b[1]
  <2>1. b \in Seq(Points) /\ Len(b) >= 2 /\ Points \subseteq Int /\ Final \in Points
    BY ConstantTypes DEF Table
  <2>2. Shifted(b, breaks', Final)
    BY <1>2, <1>3, <2>1, ClrBreakEntries
  <2>3. \A k \in DOMAIN breaks' : breaks'[k] \in asked'
    BY <2>2 DEF Shifted
  <2>4. ASSUME NEW r \in unmet', First(r)' PROVE last' + DelMin < r /\ Among(r, breaks')
    <3>1. time + DelMin < r /\ Among(r, b)
      BY <2>4
    <3>2. PICK i \in DOMAIN b : b[i] = r
      BY <3>1 DEF Among
    <3>3. b[i] \in Int /\ b[1] \in Int /\ i \in Nat /\ i >= 1
      BY TableFacts
    <3>4. i # 1
      BY <1>1, <1>3, <3>1, <3>2, <3>3
    <3>5. i >= 2
      BY <3>3, <3>4
    <3> QED
      BY <1>2, <2>2, <3>1, <3>2, <3>5 DEF Shifted, Among
  <2> QED
    BY <2>3, <2>4 DEF Hits
<1>4. CASE ~(time > b[1])
  BY <1>2, <1>4 DEF Hits
<1> QED
  BY <1>3, <1>4

LEMMA AcceptHits == ASSUME HInv, Accept PROVE Hits'
<1>1. /\ pc = "accept" /\ breaks # <<>> /\ Table(breaks)
      /\ {time, last} \subseteq Int /\ DelMin \in Nat /\ MinBreak \in Nat
      /\ asked \subseteq Points /\ unmet \subseteq Points
      /\ \A p \in Points : p \in Int
  BY HasTable, ConstantTypes DEF HInv, FInv, LInv, IInv, Going, Running, TypeOK, Accept
<1>2. Final \in asked /\ \A i \in DOMAIN breaks : breaks[i] \in asked
  BY <1>1 DEF HInv, Hits
<1>3. ASSUME NEW r \in unmet, First(r), ~Reached(r)
      PROVE  time + DelMin < r /\ Among(r, breaks)
  <2>1. last + DelMin < r /\ Among(r, breaks)
    BY <1>3 DEF HInv, Hits
  <2>2. PICK i \in DOMAIN breaks : breaks[i] = r
    BY <2>1 DEF Among
  <2>3. r \in Int
    BY <1>1, <1>3
  <2>4. time <= r
    BY <1>1, <2>1, <2>2, <2>3 DEF HInv, FInv, LInv, Place, AtAccept
  <2> QED
    BY <1>1, <1>3, <2>1, <2>3, <2>4 DEF Reached
<1>4. CASE Accepted(breaks) /\ unmet' = {r \in unmet : ~Reached(r)} /\ UNCHANGED asked
  <2>1. ASSUME NEW r \in unmet', First(r)' PROVE time + DelMin < r /\ Among(r, breaks)
    <3>1. r \in unmet /\ ~Reached(r) /\ First(r)
      BY <1>4, <2>1 DEF First
    <3> QED
      BY <1>3, <3>1
  <2> QED
    BY <1>1, <1>2, <1>4, <2>1, AcceptedHits
<1>5. CASE \E t \in Points :
             /\ t > time /\ Accepted(SetBreak(breaks, t, MinBreak))
             /\ asked' = asked \cup {t}
             /\ unmet' = {r \in unmet \cup {t} : ~Reached(r)}
  <2>1. PICK t \in Points :
             /\ t > time /\ Accepted(SetBreak(breaks, t, MinBreak))
             /\ asked' = asked \cup {t}
             /\ unmet' = {r \in unmet \cup {t} : ~Reached(r)}
    BY <1>5
  <2> DEFINE b == SetBreak(breaks, t, MinBreak)
  <2>2. Table(b)
    BY <1>1, SetBreakTable
  <2>3. Accepted(b)
    BY <2>1
  <2>4. b = SetBreak(breaks, t, MinBreak) /\ MinBreak <= MinBreak
    BY <1>1
  <2> HIDE DEF b
  <2>5. /\ \A k \in DOMAIN b : b[k] \in asked'
        /\ \A x \in asked' :
              /\ x = t \/ Among(x, breaks)
              /\ \A s \in asked' : s < x => x - s > MinBreak
              => Among(x, b)
    BY <1>1, <1>2, <2>1, <2>4, EntryStands
  <2>6. ASSUME NEW r \in unmet', First(r)' PROVE time + DelMin < r /\ Among(r, b)
    <3>1. /\ r \in unmet \/ r = t
          /\ ~Reached(r)
          /\ \A s \in asked' : s < r => r - s > MinBreak
      BY <2>1, <2>6 DEF First
    <3>2. CASE r \in unmet
      <4>1. First(r)
        BY <2>1, <3>1 DEF First
      <4>2. time + DelMin < r /\ Among(r, breaks)
        BY <1>3, <3>1, <3>2, <4>1
      <4>3. r \in asked'
        BY <1>2, <2>1, <4>2 DEF Among
      <4> QED
        BY <2>5, <3>1, <4>2, <4>3
    <3>3. CASE r = t
      <4>1. Among(r, b)
        BY <2>1, <2>5, <3>1, <3>3
      <4>2. time + DelMin < r
        BY <1>1, <2>1, <3>1, <3>3 DEF Reached
      <4> QED
        BY <4>1, <4>2
    <3> QED
      BY <3>1, <3>2, <3>3
  <2> QED
    BY <1>1, <1>2, <2>1, <2>2, <2>3, <2>5, <2>6, AcceptedHits
<1> QED
  BY <1>4, <1>5 DEF Accept

LEMMA HitsStep == ASSUME Polite PROVE HInv /\ NoPile /\ [Next]_vars => HInv'
<1> SUFFICES ASSUME HInv, NoPile, [Next]_vars PROVE HInv'
  OBVIOUS
<1>1. FInv'
  BY ForwardStep DEF HInv
<1>2. CASE Caller
  BY <1>1, <1>2, CallerHits DEF HInv
<1>3. CASE DCtran
  <2>1. CASE Op \/ Finish \/ Pause \/ Continue \/ NotConverged \/ FirstConverged \/ Truncated \/ Abort
    <3>1. UNCHANGED <<breaks, asked, unmet, last>>
      BY <2>1 DEF Op, Finish, Pause, Continue, NotConverged, FirstConverged, Truncated, Abort,
                  Fail, Redo, Converged, table, history
    <3> QED
      BY <1>1, <3>1, SameHits DEF HInv
  <2> QED
    BY <1>1, <1>3, <2>1, TableHits, AcceptHits, LimitHits DEF DCtran, HInv
<1>4. CASE UNCHANGED vars
  BY <1>1, <1>4, SameHits DEF HInv, vars, table, history
<1> QED
  BY <1>2, <1>3, <1>4 DEF Next

LEMMA HitsInit == Init => HInv
<1>1. Init => Hits
  <2>1. Init => DOMAIN breaks = {} /\ breaks = <<>> /\ unmet = {}
    BY DEF Init
  <2> QED
    BY <2>1 DEF Hits
<1> QED
  BY <1>1, ForwardInit DEF HInv

(* A breakpoint with none close before it is reached before any later time *)
(* is accepted, however the table was changed, a step rejected or the      *)
(* analysis paused since it was set (cktsetbk.c, cktclrbk.c, dctran.c).    *)
THEOREM TransientHits == ASSUME Polite PROVE Spec /\ []NoPile => []BreakpointsAreHit
<1>1. HInv => BreakpointsAreHit
  <2> SUFFICES ASSUME HInv, NEW r \in unmet, First(r) PROVE last <= r
    BY DEF BreakpointsAreHit
  <2>1. last + DelMin < r
    BY DEF HInv, Hits
  <2>2. last \in Int /\ r \in Int /\ DelMin \in Nat
    BY ConstantTypes DEF HInv, FInv, LInv, IInv, TypeOK
  <2> QED
    BY <2>1, <2>2
<1>2. HInv /\ NoPile /\ [Next]_vars => HInv'
  BY HitsStep
<1> QED
  BY HitsInit, <1>1, <1>2, PTL DEF Spec

-----------------------------------------------------------------------------
(* The job that a user sees.                                               *)
job ==
    CASE pc \in Running -> "running"
      [] pc = "idle" /\ inprogress -> "stopped"
      [] pc = "idle" /\ ~inprogress /\ outcome = "failed" -> "failed"
      [] OTHER -> "none"

LEMMA JobOf ==
    /\ pc \in Running => job = "running"
    /\ pc = "idle" /\ inprogress => job = "stopped"
    /\ pc = "idle" /\ ~inprogress => job = IF outcome = "failed" THEN "failed" ELSE "none"
<1>1. "idle" \notin Running
  BY DEF Running
<1>2. ASSUME pc \in Running, pc # "idle" PROVE job = "running"
  BY <1>2, Zenon DEF job
<1>3. ASSUME pc \notin Running, pc = "idle", inprogress PROVE job = "stopped"
  BY <1>3, Zenon DEF job
<1>4. ASSUME pc \notin Running, pc = "idle", ~inprogress, outcome = "failed" PROVE job = "failed"
  BY <1>4, Zenon DEF job
<1>5. ASSUME pc \notin Running, pc = "idle", ~inprogress, outcome # "failed" PROVE job = "none"
  BY <1>5, Zenon DEF job
<1> QED
  BY <1>1, <1>2, <1>3, <1>4, <1>5

LEMMA JobInit == Init => Job!Init
<1>1. Init => job = "none" /\ last = 0
  BY JobOf DEF Init
<1> QED
  BY <1>1 DEF Job!Init, job

(* The steps of the caller begin, go on with or forget a job.              *)
LEMMA CallerJob ==
    ASSUME Caller PROVE Job!Begin \/ Job!Goon \/ Job!Forget \/ UNCHANGED <<job, last>>
<1>1. ~(pc = "idle" /\ pc \in Running) /\ "limit" \in Running /\ "add_bkpt" \in Running
  BY DEF Running
<1>2. pc = "idle" => job # "running"
  BY JobOf
<1>3. CASE UNCHANGED <<pc, inprogress, outcome, last>>
  BY <1>3 DEF job
<1>4. CASE \E t \in Points : SetBkpt(t) \/ StopWhen(t) \/ Delete(t)
  BY <1>3, <1>4 DEF SetBkpt, StopWhen, Delete, control, flags, history
<1>5. CASE Begin \/ GoOn \/ \E n \in 1..MaxSteps : Step(n)
  <2>1. \/ pc = "idle" /\ NewTable
        \/ pc = "idle" /\ inprogress /\ pc' = "limit" /\ UNCHANGED last
    BY <1>5 DEF Begin, GoOn, Step, ResumeOrRun, Resume, Run, history
  <2>2. (pc \in Running => job = "running")'
    BY JobOf, PTL
  <2>3. CASE pc = "idle" /\ NewTable
    <3>1. job # "running" /\ job' = "running" /\ last' = 0
      BY <1>1, <1>2, <2>2, <2>3 DEF NewTable
    <3> QED
      BY <3>1 DEF Job!Begin, job
  <2>4. CASE pc = "idle" /\ inprogress /\ pc' = "limit" /\ UNCHANGED last
    <3>1. job = "stopped" /\ job' = "running" /\ UNCHANGED last
      BY <1>1, <2>2, <2>4, JobOf
    <3> QED
      BY <3>1 DEF Job!Goon, job
  <2> QED
    BY <2>1, <2>3, <2>4
<1>6. CASE Halt
  <2>1. pc \in Running /\ UNCHANGED <<pc, inprogress, last>>
    BY <1>6 DEF Halt, history
  <2> QED
    BY <1>3, <1>6 DEF Halt, history
<1>7. CASE Reset
  <2>1. pc = "idle" /\ pc' = "idle" /\ ~inprogress' /\ outcome' = "none" /\ last' = 0
    BY <1>7 DEF Reset
  <2>2. (pc = "idle" /\ ~inprogress => job = IF outcome = "failed" THEN "failed" ELSE "none")'
    BY JobOf, PTL
  <2>3. job # "running" /\ job' = "none" /\ last' = 0
    BY <1>2, <2>1, <2>2
  <2> QED
    BY <2>3 DEF Job!Forget, job
<1> QED
  BY <1>4, <1>5, <1>6, <1>7 DEF Caller

LEMMA FailJob == ASSUME pc \in Running, Fail PROVE Job!Fail
<1>1. pc' = "idle" /\ ~inprogress' /\ outcome' = "failed" /\ UNCHANGED last
  BY DEF Fail
<1>2. (pc = "idle" /\ ~inprogress => job = IF outcome = "failed" THEN "failed" ELSE "none")'
  BY JobOf, PTL
<1>3. job = "running" /\ job' = "failed"
  BY <1>1, <1>2, JobOf
<1> QED
  BY <1>1, <1>3 DEF Job!Fail, job

(* A step inside of an analysis that accepts no time.                      *)
LEMMA InsideJob ==
    ASSUME pc \in Running, pc' \in Running, UNCHANGED last PROVE UNCHANGED <<job, last>>
<1>1. (pc \in Running => job = "running")'
  BY JobOf, PTL
<1> QED
  BY <1>1, JobOf

LEMMA AcceptJob == ASSUME FInv, Accept PROVE Job!Advance \/ UNCHANGED <<job, last>>
<1>1. pc \in Running /\ pc' \in Running /\ pc = "accept" /\ last' = time
  BY DEF Accept, Accepted, Running
<1>2. time \in Int /\ last \in Int /\ time <= Final /\ (time > last \/ (time = 0 /\ last = 0))
  BY <1>1, AcceptBounds DEF FInv, LInv, IInv, TypeOK, Ahead
<1>3. (pc \in Running => job = "running")'
  BY JobOf, PTL
<1>4. job = "running" /\ job' = "running"
  BY <1>1, <1>3, JobOf
<1>5. CASE time > last
  BY <1>1, <1>2, <1>4, <1>5 DEF Job!Advance, job
<1>6. CASE time = 0 /\ last = 0
  BY <1>1, <1>4, <1>6
<1> QED
  BY <1>2, <1>5, <1>6

LEMMA FinishJob == ASSUME FInv, Finish PROVE Job!Finish
<1>1. /\ pc = "dump" /\ AtEnd /\ time = last
      /\ pc' = "idle" /\ ~inprogress' /\ outcome' = "done" /\ UNCHANGED last
  BY DEF Finish, FInv, LInv, IInv, Going
<1>2. (pc = "idle" /\ ~inprogress => job = IF outcome = "failed" THEN "failed" ELSE "none")'
  BY JobOf, PTL
<1>3. job = "running" /\ job' = "none"
  BY <1>1, <1>2, JobOf DEF Running
<1> QED
  BY <1>1, <1>3 DEF Job!Finish, job, AtEnd

LEMMA PauseJob == ASSUME FInv, Pause PROVE Job!Pause
<1>1. pc = "dump" /\ pc' = "idle" /\ UNCHANGED last /\ inprogress'
  BY DEF Pause, FInv, Ahead, Running, history
<1>2. (pc = "idle" /\ inprogress => job = "stopped")'
  BY JobOf, PTL
<1>3. job = "running" /\ job' = "stopped"
  BY <1>1, <1>2, JobOf DEF Running
<1> QED
  BY <1>1, <1>3 DEF Job!Pause, job

LEMMA JobStep == FInv /\ [Next]_vars => [Job!Next]_(Job!vars)
<1> SUFFICES ASSUME FInv, [Next]_vars PROVE Job!Next \/ UNCHANGED <<job, last>>
  BY DEF Job!vars, job
<1>1. CASE Caller
  BY <1>1, CallerJob DEF Job!Next
<1>2. CASE DCtran
  <2>1. CASE AddBkpt \/ AddStops \/ Continue \/ Limit
    BY <2>1, InsideJob DEF AddBkpt, AddStops, Continue, Limit, Running, history
  <2>2. CASE Op
    <3>1. pc \in Running /\ (Fail \/ (pc' \in Running /\ UNCHANGED last))
      BY <2>2 DEF Op, Running, history
    <3> QED
      BY <3>1, FailJob, InsideJob DEF Job!Next
  <2>3. CASE NotConverged \/ FirstConverged \/ Truncated
    <3>1. pc \in Running /\ (Fail \/ (pc' \in Running /\ UNCHANGED last))
      BY <2>3 DEF NotConverged, FirstConverged, Truncated, Redo, Converged, Running, history
    <3> QED
      BY <3>1, FailJob, InsideJob DEF Job!Next
  <2>4. CASE Abort
    BY <2>4, FailJob DEF Abort, Running, Job!Next
  <2>5. CASE Accept
    BY <2>5, AcceptJob DEF Job!Next
  <2>6. CASE Finish
    BY <2>6, FinishJob DEF Job!Next
  <2>7. CASE Pause
    BY <2>7, PauseJob DEF Job!Next
  <2> QED
    BY <1>2, <2>1, <2>2, <2>3, <2>4, <2>5, <2>6, <2>7 DEF DCtran
<1>3. CASE UNCHANGED vars
  BY <1>3 DEF vars, job, control, flags, history
<1> QED
  BY <1>1, <1>2, <1>3 DEF Next

(* DCtran with its commands implements the job that a user expects: time   *)
(* moves forward to the end and no further, a paused analysis goes on      *)
(* where it paused, and one that is done has come to its end.              *)
THEOREM TransientRefines == ASSUME Polite PROVE Spec /\ []NoPile => RefinesJob
<1>1. FInv /\ NoPile /\ [Next]_vars => FInv'
  BY ForwardStep
<1> QED
  BY ForwardInit, JobInit, JobStep, <1>1, PTL DEF Spec, RefinesJob, Job!Spec

(* With breakpoints further apart than CKTminBreak, which cannot pile up,  *)
(* nothing else has to be assumed of the table.                            *)
COROLLARY SpreadCorrect ==
    ASSUME Spread, Polite
    PROVE  Spec => [](NoCrossing /\ StepsForward /\ BreakpointsAreHit) /\ RefinesJob
  BY TransientNoPile, TransientNoCrossing, TransientForward, TransientHits, TransientRefines, PTL
=============================================================================
