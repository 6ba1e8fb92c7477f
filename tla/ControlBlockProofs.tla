-------------------------- MODULE ControlBlockProofs -------------------------
(***************************************************************************)
(* A proof about the reading of control structures, for any scripts: the   *)
(* blocks that cp_evloop links hold the sets of statements that the lines  *)
(* form.  The lines are told in terms that go on from a line to the next   *)
(* (what is open behind it, the set the next one belongs to), each link of *)
(* the blocks in these terms; reading a line is then a case of one link.   *)
(***************************************************************************)
EXTENDS ControlProofs, ListProofs

-----------------------------------------------------------------------------
(* Induction from any place on, said of the set where a thing holds.       *)
Climbs(H, b)   == b \in H /\ \A m \in Nat : b <= m /\ m \in H => m + 1 \in H
Above(H, b)    == \A m \in Nat : b <= m => m \in H

LEMMA Climbing ==
    ASSUME NEW b \in Nat, NEW H, Climbs(H, b)
    PROVE  Above(H, b)
<1> SUFFICES ASSUME NEW m \in Nat, b <= m, m \notin H PROVE FALSE
  BY DEF Above
<1> DEFINE T == {k + 1 : k \in {i \in Nat : b <= i /\ i \notin H}}
<1>1. T \subseteq Nat \ {0} /\ T # {}
  OBVIOUS
<1>2. PICK x \in T : \A y \in T : x <= y
  <2> HIDE DEF T
  <2> QED
    BY <1>1, LeastIndex
<1>3. PICK k \in Nat : x = k + 1 /\ b <= k /\ k \notin H
  OBVIOUS
<1>4. k # b
  BY <1>3 DEF Climbs
<1>5. k - 1 \in Nat /\ b <= k - 1 /\ (k - 1) + 1 = k
  BY <1>3, <1>4
<1>6. k - 1 \notin H
  BY <1>3, <1>5 DEF Climbs
<1>7. (k - 1) + 1 \in T
  BY <1>5, <1>6
<1>8. x <= k
  <2> HIDE DEF T
  <2> QED
    BY <1>2, <1>5, <1>7
<1> QED
  BY <1>3, <1>8

(* The greatest of a bounded set of numbers.                               *)
Greatest(S, x) == x \in S /\ \A y \in S : y <= x
Smallest(S, x) == x \in S /\ \A y \in S : x <= y

LEMMA GreatestIs ==
    ASSUME NEW n \in Nat, NEW S, S \subseteq 0..n
    PROVE  /\ S # {} => Greatest(S, MaxOf(S))
           /\ \A x : Greatest(S, x) => MaxOf(S) = x
<1>1. ASSUME S # {} PROVE \E x \in S : \A y \in S : y <= x
  <2> DEFINE T == {n + 1 - y : y \in S}
  <2>1. T \subseteq Nat \ {0} /\ T # {}
    <3>1. PICK z \in S : TRUE
      BY <1>1
    <3>2. n + 1 - z \in T
      OBVIOUS
    <3>3. ASSUME NEW y \in S PROVE n + 1 - y \in Nat \ {0}
      <4>1. y \in 0..n
        OBVIOUS
      <4> QED
        BY <4>1
    <3> QED
      BY <3>2, <3>3
  <2>2. PICK t \in T : \A u \in T : t <= u
    <3> HIDE DEF T
    <3> QED
      BY <2>1, LeastIndex
  <2>3. PICK x \in S : t = n + 1 - x
    BY <2>1
  <2>4. ASSUME NEW y \in S PROVE y <= x
    <3>1. n + 1 - x <= n + 1 - y
      BY <2>2, <2>3
    <3>2. x \in 0..n /\ y \in 0..n
      OBVIOUS
    <3> QED
      BY <3>1, <3>2
  <2> QED
    BY <2>4
<1>2. S # {} => Greatest(S, MaxOf(S))
  BY <1>1 DEF Greatest, MaxOf
<1>3. ASSUME NEW x, Greatest(S, x) PROVE MaxOf(S) = x
  <2>1. Greatest(S, MaxOf(S))
    BY <1>2, <1>3 DEF Greatest
  <2>2. x \in S /\ MaxOf(S) \in S /\ x <= MaxOf(S) /\ MaxOf(S) <= x
    BY <1>3, <2>1 DEF Greatest
  <2>3. x \in 0..n /\ MaxOf(S) \in 0..n
    BY <2>2
  <2> QED
    BY <2>2, <2>3
<1> QED
  BY <1>2, <1>3

LEMMA SmallestIs ==
    ASSUME NEW S, S \subseteq Nat, S # {}
    PROVE  \E x : Smallest(S, x)
<1> DEFINE T == {y + 1 : y \in S}
<1>1. T \subseteq Nat \ {0} /\ T # {}
  <2>1. PICK z \in S : TRUE
    OBVIOUS
  <2>2. z + 1 \in T /\ \A y \in S : y + 1 \in Nat \ {0}
    OBVIOUS
  <2> QED
    BY <2>2
<1>2. PICK t \in T : \A u \in T : t <= u
  <2> HIDE DEF T
  <2> QED
    BY <1>1, LeastIndex
<1>3. PICK x \in S : t = x + 1
  BY <1>1
<1>4. ASSUME NEW y \in S PROVE x <= y
  <2>1. x + 1 <= y + 1 /\ x \in Nat /\ y \in Nat
    BY <1>2, <1>3
  <2> QED
    BY <2>1
<1> QED
  BY <1>4 DEF Smallest

-----------------------------------------------------------------------------
(* The lines.  The blocks open behind a line, of a script s read from line *)
(* b on.                                                                   *)
DepthStep(k, before) ==
    CASE k \in Openers -> before + 1
      [] k = "end" /\ before > 0 -> before - 1
      [] OTHER -> before

DepthTo(s, b, r) ==
    LET d[i \in b..r] ==
            IF i = b THEN 0
            ELSE CASE s[i].kind \in Openers -> d[i - 1] + 1
                   [] s[i].kind = "end" /\ d[i - 1] > 0 -> d[i - 1] - 1
                   [] OTHER -> d[i - 1]
    IN  d

DepthOf(s, b, i) == DepthTo(s, b, i)[i]

IsDepth(d, s, b, r) ==
    d = [i \in b..r |-> IF i = b THEN 0 ELSE DepthStep(s[i].kind, d[i - 1])]

(* The depths are those that the recursion says, as there are some.        *)
LEMMA DepthExists ==
    ASSUME NEW s, NEW b \in Nat, NEW r \in Nat, b <= r
    PROVE  \E d : IsDepth(d, s, b, r)
<1> DEFINE H == {m \in Nat : \E d : IsDepth(d, s, b, m)}
<1>1. b \in H
  <2> DEFINE d == [i \in b..b |-> 0]
  <2>1. IsDepth(d, s, b, b)
    BY DEF IsDepth
  <2> HIDE DEF d
  <2> QED
    BY <2>1
<1>2. ASSUME NEW m \in Nat, b <= m, m \in H PROVE m + 1 \in H
  <2>1. PICK d : IsDepth(d, s, b, m)
    BY <1>2
  <2> DEFINE x == DepthStep(s[m + 1].kind, d[m])
             e == [i \in b..(m + 1) |-> IF i \in b..m THEN d[i] ELSE x]
  <2>2. DOMAIN e = b..(m + 1) /\ e = [i \in b..(m + 1) |-> e[i]]
    OBVIOUS
  <2>3. (\A i \in b..m : e[i] = d[i]) /\ e[m + 1] = x
    <3>1. m + 1 \notin b..m /\ m + 1 \in b..(m + 1) /\ \A i \in b..m : i \in b..(m + 1)
      BY <1>2
    <3> HIDE DEF x
    <3> QED
      BY <3>1
  <2>4. ASSUME NEW i \in b..(m + 1)
        PROVE  e[i] = IF i = b THEN 0 ELSE DepthStep(s[i].kind, e[i - 1])
    <3>1. CASE i = m + 1
      <4>1. i # b /\ i - 1 = m /\ m \in b..m
        BY <1>2, <3>1
      <4> QED
        BY <2>3, <3>1, <4>1
    <3>2. CASE i # m + 1
      <4>1. i \in b..m
        BY <1>2, <3>2
      <4>2. d[i] = IF i = b THEN 0 ELSE DepthStep(s[i].kind, d[i - 1])
        BY <2>1, <4>1 DEF IsDepth
      <4>3. i # b => i - 1 \in b..m
        BY <1>2, <4>1
      <4> QED
        BY <2>3, <4>1, <4>2, <4>3
    <3> QED
      BY <3>1, <3>2
  <2> HIDE DEF e
  <2>5. IsDepth(e, s, b, m + 1)
    BY <2>2, <2>4 DEF IsDepth
  <2> QED
    BY <2>5
<1>3. Above(H, b)
  <2>1. Climbs(H, b)
    BY <1>1, <1>2 DEF Climbs
  <2> HIDE DEF H
  <2> QED
    BY <2>1, Climbing
<1> QED
  BY <1>3 DEF Above

LEMMA DepthIs ==
    ASSUME NEW s, NEW b \in Nat, NEW r \in Nat, b <= r
    PROVE  IsDepth(DepthTo(s, b, r), s, b, r)
<1> DEFINE P(d) == d = [i \in b..r |->
              IF i = b THEN 0
              ELSE CASE s[i].kind \in Openers -> d[i - 1] + 1
                     [] s[i].kind = "end" /\ d[i - 1] > 0 -> d[i - 1] - 1
                     [] OTHER -> d[i - 1]]
<1>1. DepthTo(s, b, r) = CHOOSE d : P(d)
  BY DEF DepthTo
<1>2. \A d : IsDepth(d, s, b, r) <=> P(d)
  BY DEF IsDepth, DepthStep
<1> HIDE DEF P
<1>3. \E d : P(d)
  BY <1>2, DepthExists
<1>4. P(CHOOSE d : P(d))
  BY <1>3
<1> QED
  BY <1>1, <1>2, <1>4

(* It depends on the lines before only.                                    *)
LEMMA DepthAgree ==
    ASSUME NEW s, NEW b \in Nat, NEW r \in Nat, b <= r
    PROVE  \A i \in b..r : DepthTo(s, b, r)[i] = DepthOf(s, b, i)
<1> DEFINE d(m) == DepthTo(s, b, m)
           H == {m \in Nat : \A q \in Nat : m <= q => d(q)[m] = d(m)[m]}
<1>1. ASSUME NEW q \in Nat, NEW i \in b..q
      PROVE  d(q)[i] = IF i = b THEN 0 ELSE DepthStep(s[i].kind, d(q)[i - 1])
  <2>1. IsDepth(d(q), s, b, q)
    BY DepthIs
  <2> QED
    BY <2>1 DEF IsDepth
<1>2. b \in H
  <2>1. ASSUME NEW q \in Nat, b <= q PROVE d(q)[b] = d(b)[b]
    <3>1. b \in b..q /\ b \in b..b
      BY <2>1
    <3> HIDE DEF d
    <3> QED
      BY <1>1, <3>1
  <2> QED
    BY <2>1
<1>3. ASSUME NEW m \in Nat, b <= m, m \in H PROVE m + 1 \in H
  <2>1. ASSUME NEW q \in Nat, m + 1 <= q PROVE d(q)[m + 1] = d(m + 1)[m + 1]
    <3>1. m + 1 \in b..q /\ m + 1 \in b..(m + 1) /\ m + 1 # b /\ (m + 1) - 1 = m /\ m <= q /\ m <= m + 1
          /\ m + 1 \in Nat
      BY <1>3, <2>1
    <3>2. d(q)[m] = d(m)[m] /\ d(m + 1)[m] = d(m)[m]
      BY <1>3, <3>1
    <3> HIDE DEF d
    <3>3. d(q)[m + 1] = DepthStep(s[m + 1].kind, d(q)[m])
      BY <1>1, <3>1
    <3>4. d(m + 1)[m + 1] = DepthStep(s[m + 1].kind, d(m + 1)[m])
      BY <1>1, <3>1
    <3> QED
      BY <3>2, <3>3, <3>4
  <2> QED
    BY <2>1
<1>4. Above(H, b)
  <2>1. Climbs(H, b)
    BY <1>2, <1>3 DEF Climbs
  <2> HIDE DEF H
  <2> QED
    BY <2>1, Climbing
<1> QED
  BY <1>4 DEF Above, DepthOf

(* It goes on from line to line.                                           *)
LEMMA DepthRuns ==
    ASSUME NEW s, NEW b \in Nat
    PROVE  /\ DepthOf(s, b, b) = 0
           /\ \A i \in Nat : b <= i =>
                /\ DepthOf(s, b, i) \in Nat
                /\ DepthOf(s, b, i + 1) = DepthStep(s[i + 1].kind, DepthOf(s, b, i))
<1>1. ASSUME NEW q \in Nat, NEW i \in b..q
      PROVE  DepthTo(s, b, q)[i] = IF i = b THEN 0 ELSE DepthStep(s[i].kind, DepthTo(s, b, q)[i - 1])
  <2>1. IsDepth(DepthTo(s, b, q), s, b, q)
    BY DepthIs
  <2> QED
    BY <2>1 DEF IsDepth
<1>2. DepthOf(s, b, b) = 0
  BY <1>1 DEF DepthOf
<1>3. ASSUME NEW i \in Nat, b <= i
      PROVE  DepthOf(s, b, i + 1) = DepthStep(s[i + 1].kind, DepthOf(s, b, i))
  <2>1. i + 1 \in Nat /\ i + 1 \in b..(i + 1) /\ i \in b..(i + 1) /\ i + 1 # b /\ (i + 1) - 1 = i
    BY <1>3
  <2>2. DepthTo(s, b, i + 1)[i] = DepthOf(s, b, i)
    BY <1>3, <2>1, DepthAgree
  <2> QED
    BY <1>1, <2>1, <2>2 DEF DepthOf
<1> DEFINE H == {m \in Nat : DepthOf(s, b, m) \in Nat}
<1>4. Climbs(H, b)
  <2>1. ASSUME NEW m \in Nat, b <= m, m \in H PROVE m + 1 \in H
    <3>1. \A k : \A x \in Nat : DepthStep(k, x) \in Nat
      BY DEF DepthStep
    <3> QED
      BY <1>3, <2>1, <3>1
  <2> QED
    BY <1>2, <2>1 DEF Climbs
<1>5. Above(H, b)
  <2> HIDE DEF H
  <2> QED
    BY <1>4, Climbing
<1> QED
  BY <1>2, <1>3, <1>5 DEF Above

-----------------------------------------------------------------------------
(* The openers of the blocks that are open behind line j.                  *)
OpenAt(s, b, j) ==
    {o \in (b + 1)..j : /\ s[o].kind \in Openers
                        /\ \A k \in (o + 1)..j : DepthOf(s, b, k) >= DepthOf(s, b, o)}

(* Open blocks are openers among the lines read.                           *)
LEMMA OpenType ==
    ASSUME NEW s, NEW b \in Nat, NEW j \in Nat
    PROVE  /\ OpenAt(s, b, j) \subseteq (b + 1)..j /\ OpenAt(s, b, j) \subseteq 0..j
           /\ \A o \in OpenAt(s, b, j) : s[o].kind \in Openers
           /\ OpenAt(s, b, b) = {}
<1>1. (b + 1)..b = {} /\ (b + 1)..j \subseteq 0..j
  OBVIOUS
<1> QED
  BY <1>1 DEF OpenAt

LEMMA OpenStep ==
    ASSUME NEW s, NEW b \in Nat, NEW j \in Nat, b <= j
    PROVE  OpenAt(s, b, j + 1) =
             {o \in OpenAt(s, b, j) : DepthOf(s, b, j + 1) >= DepthOf(s, b, o)}
             \cup (IF s[j + 1].kind \in Openers THEN {j + 1} ELSE {})
<1>1. \A o : o \in (b + 1)..(j + 1) <=> o \in (b + 1)..j \/ o = j + 1
  OBVIOUS
<1>2. ASSUME NEW o \in (b + 1)..j
      PROVE  \A k : k \in (o + 1)..(j + 1) <=> k \in (o + 1)..j \/ k = j + 1
  OBVIOUS
<1>3. (j + 1 + 1)..(j + 1) = {}
  OBVIOUS
<1>4. j + 1 \notin (b + 1)..j
  OBVIOUS
<1>5. ASSUME NEW o \in (b + 1)..j
      PROVE  o \in OpenAt(s, b, j + 1) <=> o \in OpenAt(s, b, j) /\ DepthOf(s, b, j + 1) >= DepthOf(s, b, o)
  BY <1>1, <1>2 DEF OpenAt
<1>6. j + 1 \in OpenAt(s, b, j + 1) <=> s[j + 1].kind \in Openers
  BY <1>1, <1>3 DEF OpenAt
<1>7. (\A o \in OpenAt(s, b, j) : o \in (b + 1)..j) /\ \A o \in OpenAt(s, b, j + 1) : o \in (b + 1)..(j + 1)
  BY DEF OpenAt
<1> QED
  BY <1>1, <1>4, <1>5, <1>6, <1>7

(* The depth of an open block is one more than that of the one around it,  *)
(* and no depth is left out.                                               *)
Nested(s, b, j) ==
    \A n \in 1..DepthOf(s, b, j) : \E o \in OpenAt(s, b, j) : DepthOf(s, b, o) = n

LEMMA OpenDepths ==
    ASSUME NEW s, NEW b \in Nat, NEW j \in Nat, b <= j
    PROVE  /\ \A o \in OpenAt(s, b, j) :
                /\ DepthOf(s, b, o) \in 1..DepthOf(s, b, j)
                /\ o - 1 \in Nat /\ b <= o - 1
                /\ DepthOf(s, b, o) = DepthOf(s, b, o - 1) + 1
           /\ \A o, p \in OpenAt(s, b, j) : o < p => DepthOf(s, b, o) < DepthOf(s, b, p)
<1> DEFINE d(i) == DepthOf(s, b, i)
           O == OpenAt(s, b, j)
<1>1. /\ \A i \in Nat : b <= i => d(i) \in Nat
      /\ \A i \in Nat : b <= i => d(i + 1) = DepthStep(s[i + 1].kind, d(i))
  BY DepthRuns
<1>2. \A o \in O : /\ o \in (b + 1)..j /\ s[o].kind \in Openers
                   /\ \A k \in (o + 1)..j : d(k) >= d(o)
  BY DEF OpenAt
<1> HIDE DEF d, O
<1>3. ASSUME NEW o \in O
      PROVE  o - 1 \in Nat /\ b <= o - 1 /\ d(o) = d(o - 1) + 1 /\ d(o) \in 1..d(j) /\ d(o - 1) \in Nat
  <2>1. o - 1 \in Nat /\ b <= o - 1 /\ (o - 1) + 1 = o /\ o \in Nat /\ b <= o /\ o \in (b + 1)..j
    BY <1>2
  <2>2. d(o) = DepthStep(s[o].kind, d(o - 1)) /\ d(o - 1) \in Nat /\ d(o) \in Nat /\ d(j) \in Nat
    BY <1>1, <2>1
  <2>3. d(o) = d(o - 1) + 1
    <3>1. s[o].kind \in Openers
      BY <1>2
    <3>2. \A x : DepthStep(s[o].kind, x) = x + 1
      BY <3>1 DEF DepthStep, Openers, Loops
    <3> QED
      BY <2>2, <3>2
  <2>4. o = j \/ j \in (o + 1)..j
    BY <2>1
  <2>5. d(o) <= d(j)
    BY <1>2, <2>2, <2>4
  <2> QED
    BY <2>1, <2>2, <2>3, <2>5
<1>4. ASSUME NEW o \in O, NEW p \in O, o < p PROVE d(o) < d(p)
  <2>1. o \in (b + 1)..j /\ p \in (b + 1)..j
    BY <1>2
  <2>2. o = p - 1 \/ p - 1 \in (o + 1)..j
    BY <1>4, <2>1
  <2>3. d(p - 1) >= d(o) /\ d(o) \in Nat /\ d(p - 1) \in Nat
    BY <1>2, <1>3, <2>2
  <2> QED
    BY <1>3, <2>3
<1> QED
  BY <1>3, <1>4 DEF d, O

LEMMA OpenNested ==
    ASSUME NEW s, NEW b \in Nat, NEW j \in Nat, b <= j
    PROVE  Nested(s, b, j)
<1> DEFINE H == {m \in Nat : Nested(s, b, m)}
           d(i) == DepthOf(s, b, i)
<1>1. b \in H
  <2>1. 1..DepthOf(s, b, b) = {}
    BY DepthRuns
  <2> QED
    BY <2>1 DEF Nested
<1>2. ASSUME NEW m \in Nat, b <= m, m \in H PROVE m + 1 \in H
  <2> DEFINE O == OpenAt(s, b, m)
             k == s[m + 1].kind
  <2>1. d(m) \in Nat /\ d(m + 1) = DepthStep(k, d(m)) /\ d(m + 1) \in Nat
    <3>1. m + 1 \in Nat /\ b <= m + 1
      BY <1>2
    <3> QED
      BY <1>2, <3>1, DepthRuns
  <2>2. OpenAt(s, b, m + 1) = {o \in O : d(m + 1) >= d(o)} \cup (IF k \in Openers THEN {m + 1} ELSE {})
    BY <1>2, OpenStep
  <2>3. \A n \in 1..d(m) : \E o \in O : d(o) = n
    BY <1>2 DEF Nested
  <2> HIDE DEF O, d, k
  <2>4. ASSUME NEW n \in 1..d(m + 1) PROVE \E o \in OpenAt(s, b, m + 1) : d(o) = n
    <3>1. CASE n \in 1..d(m)
      <4>1. PICK o \in O : d(o) = n
        BY <2>3, <3>1
      <4>2. d(m + 1) >= d(o)
        BY <2>1, <4>1
      <4> QED
        BY <2>2, <4>1, <4>2
    <3>2. CASE n \notin 1..d(m)
      <4>1. k \in Openers /\ n = d(m + 1)
        BY <2>1, <3>2 DEF DepthStep
      <4> QED
        BY <2>2, <4>1
    <3> QED
      BY <3>1, <3>2
  <2>5. Nested(s, b, m + 1)
    BY <2>4 DEF Nested, d
  <2> QED
    BY <2>5
<1>3. Above(H, b)
  <2>1. Climbs(H, b)
    BY <1>1, <1>2 DEF Climbs
  <2> HIDE DEF H
  <2> QED
    BY <2>1, Climbing
<1> QED
  BY <1>3 DEF Above

(* What one more line does: it opens a block, or closes the innermost.     *)
LEMMA OpenNext ==
    ASSUME NEW s, NEW b \in Nat, NEW j \in Nat, b <= j
    PROVE  /\ s[j + 1].kind \in Openers => OpenAt(s, b, j + 1) = OpenAt(s, b, j) \cup {j + 1}
           /\ s[j + 1].kind = "end" =>
                /\ OpenAt(s, b, j) = {} => OpenAt(s, b, j + 1) = {}
                /\ \A o : Greatest(OpenAt(s, b, j), o) => OpenAt(s, b, j + 1) = OpenAt(s, b, j) \ {o}
           /\ s[j + 1].kind \notin Openers \cup {"end"} => OpenAt(s, b, j + 1) = OpenAt(s, b, j)
<1> DEFINE d(i) == DepthOf(s, b, i)
           O == OpenAt(s, b, j)
           k == s[j + 1].kind
<1>1. d(j) \in Nat /\ d(j + 1) = DepthStep(k, d(j))
  BY DepthRuns
<1>2. /\ \A o \in O : d(o) \in 1..d(j) /\ o \in Nat
      /\ \A o, p \in O : o < p => d(o) < d(p)
  <2>1. O \subseteq 0..j
    BY OpenType
  <2> QED
    BY <2>1, OpenDepths
<1>3. \A n \in 1..d(j) : \E o \in O : d(o) = n
  BY OpenNested DEF Nested
<1>4. OpenAt(s, b, j + 1) = {o \in O : d(j + 1) >= d(o)} \cup (IF k \in Openers THEN {j + 1} ELSE {})
  BY OpenStep
<1> HIDE DEF d, O, k
<1>5. CASE k \in Openers
  <2>1. d(j + 1) = d(j) + 1 /\ k # "end"
    BY <1>1, <1>5 DEF DepthStep, Openers, Loops
  <2>2. \A o \in O : d(j + 1) >= d(o)
    BY <1>1, <1>2, <2>1
  <2> QED
    BY <1>4, <1>5, <2>1, <2>2 DEF O, k
<1>6. CASE k \notin Openers /\ k # "end"
  <2>1. d(j + 1) = d(j)
    BY <1>1, <1>6 DEF DepthStep
  <2>2. \A o \in O : d(j + 1) >= d(o)
    BY <1>1, <1>2, <2>1
  <2> QED
    BY <1>4, <1>6, <2>2 DEF O, k
<1>7. CASE k = "end"
  <2>0. k \notin Openers
    BY <1>7 DEF Openers, Loops
  <2>1. OpenAt(s, b, j + 1) = {o \in O : d(j + 1) >= d(o)}
    BY <1>4, <2>0
  <2>2. ASSUME NEW o, Greatest(O, o)
        PROVE  OpenAt(s, b, j + 1) = O \ {o}
    <3>1. o \in O /\ (\A p \in O : p <= o) /\ d(o) \in 1..d(j)
      BY <1>2, <2>2 DEF Greatest
    <3>2. d(j + 1) = d(j) - 1
      BY <1>1, <1>7, <2>0, <3>1 DEF DepthStep
    <3>3. PICK p \in O : d(p) = d(j)
      BY <1>1, <1>3, <3>1
    <3>4. ~(p < o)
      <4>1. p < o => d(p) < d(o)
        BY <1>2, <3>1
      <4> QED
        BY <1>1, <3>1, <3>3, <4>1
    <3>5. p = o
      BY <1>2, <3>1, <3>4
    <3>6. ASSUME NEW q \in O PROVE d(j + 1) >= d(q) <=> q # o
      <4>1. q < o => d(q) < d(o)
        BY <1>2, <3>1
      <4>2. q \in Nat /\ o \in Nat /\ q <= o /\ d(q) \in 1..d(j)
        BY <1>2, <3>1
      <4> QED
        BY <1>1, <3>2, <3>3, <3>5, <4>1, <4>2
    <3> QED
      BY <2>1, <3>6
  <2> QED
    BY <1>7, <2>0, <2>1, <2>2 DEF O, k
<1> QED
  BY <1>5, <1>6, <1>7

(* What is open inside an open block, and what was open before it.         *)
LEMMA OpenWithin ==
    ASSUME NEW s, NEW b \in Nat, NEW j \in Nat, b <= j, NEW o \in OpenAt(s, b, j)
    PROVE  /\ \A k \in o..j : o \in OpenAt(s, b, k)
           /\ {p \in OpenAt(s, b, j) : p < o} = OpenAt(s, b, o - 1)
<1> DEFINE d(i) == DepthOf(s, b, i)
<1>1. /\ o \in (b + 1)..j /\ s[o].kind \in Openers /\ o - 1 \in Nat /\ b <= o - 1
      /\ \A k \in (o + 1)..j : d(k) >= d(o)
      /\ d(o) = d(o - 1) + 1
  BY OpenDepths DEF OpenAt
<1>2. \A i \in Nat : b <= i => d(i) \in Nat
  BY DepthRuns
<1>3. \A p, i : p \in OpenAt(s, b, i) <=> /\ p \in (b + 1)..i /\ s[p].kind \in Openers
                                          /\ \A k \in (p + 1)..i : d(k) >= d(p)
  BY DEF OpenAt
<1> HIDE DEF d
<1>4. ASSUME NEW k \in o..j PROVE o \in OpenAt(s, b, k)
  <2>1. o \in (b + 1)..k /\ \A i \in (o + 1)..k : i \in (o + 1)..j
    BY <1>1
  <2> QED
    BY <1>1, <1>3, <2>1
<1>5. ASSUME NEW p \in OpenAt(s, b, j), p < o PROVE p \in OpenAt(s, b, o - 1)
  <2>1. p \in (b + 1)..j /\ s[p].kind \in Openers /\ \A k \in (p + 1)..j : d(k) >= d(p)
    BY <1>3
  <2>2. p \in (b + 1)..(o - 1) /\ \A i \in (p + 1)..(o - 1) : i \in (p + 1)..j
    BY <1>1, <1>5, <2>1
  <2> QED
    BY <1>3, <2>1, <2>2
<1>6. ASSUME NEW p \in OpenAt(s, b, o - 1) PROVE p \in OpenAt(s, b, j) /\ p < o
  <2>1. p \in (b + 1)..(o - 1) /\ s[p].kind \in Openers /\ \A k \in (p + 1)..(o - 1) : d(k) >= d(p)
    BY <1>3
  <2>2. d(o - 1) >= d(p) /\ d(p) \in Nat /\ d(o - 1) \in Nat
    <3>1. p = o - 1 \/ o - 1 \in (p + 1)..(o - 1)
      BY <1>1, <2>1
    <3>2. p \in Nat /\ b <= p
      BY <2>1
    <3> QED
      BY <1>1, <1>2, <2>1, <3>1, <3>2
  <2>3. ASSUME NEW k \in (p + 1)..j PROVE d(k) >= d(p)
    <3>1. k \in (p + 1)..(o - 1) \/ k = o \/ k \in (o + 1)..j
      BY <1>1, <2>1
    <3>2. CASE k = o \/ k \in (o + 1)..j
      <4>1. k \in Nat /\ b <= k
        BY <1>1, <3>2
      <4>2. d(k) >= d(o) /\ d(k) \in Nat
        <5>1. d(k) \in Nat
          BY <1>2, <4>1
        <5> QED
          BY <1>1, <3>2, <5>1
      <4> QED
        BY <1>1, <2>2, <4>2
    <3> QED
      BY <2>1, <3>1, <3>2
  <2>4. p \in (b + 1)..j /\ p < o
    BY <1>1, <2>1
  <2> QED
    BY <1>3, <2>1, <2>3, <2>4
<1> QED
  BY <1>4, <1>5, <1>6

-----------------------------------------------------------------------------
(* The elses of a block among the lines up to j, the set that the line     *)
(* behind j would belong to, and the statements of a set.                  *)
Elses(s, b, j, o) ==
    {e \in (b + 1)..j : /\ s[e].kind = "else" /\ s[o].kind = "if"
                        /\ Greatest(OpenAt(s, b, e - 1), o)}

Cur(s, b, j) ==
    IF OpenAt(s, b, j) = {} THEN b
    ELSE MaxOf({MaxOf(OpenAt(s, b, j))} \cup Elses(s, b, j, MaxOf(OpenAt(s, b, j))))

PlainLines(s, b, j)  == {i \in (b + 1)..j : s[i].kind \notin {"end", "else"}}
Mem(s, b, j, t) == {i \in PlainLines(s, b, j) : Cur(s, b, i - 1) = t}

(* They come after their if, and none is lost by reading on.               *)
LEMMA ElsesType ==
    ASSUME NEW s, NEW b \in Nat, NEW j \in Nat, b <= j, NEW o
    PROVE  /\ \A e \in Elses(s, b, j, o) :
                /\ e \in (b + 1)..j /\ s[e].kind = "else" /\ s[o].kind = "if"
                /\ Greatest(OpenAt(s, b, e - 1), o) /\ o \in Nat /\ o < e
           /\ \A q \in Nat : q <= j => Elses(s, b, q, o) = {e \in Elses(s, b, j, o) : e <= q}
<1>1. ASSUME NEW e \in Elses(s, b, j, o)
      PROVE  /\ e \in (b + 1)..j /\ s[e].kind = "else" /\ s[o].kind = "if"
             /\ Greatest(OpenAt(s, b, e - 1), o) /\ o \in Nat /\ o < e
  <2>1. /\ e \in (b + 1)..j /\ s[e].kind = "else" /\ s[o].kind = "if"
        /\ Greatest(OpenAt(s, b, e - 1), o)
    BY DEF Elses
  <2>2. e - 1 \in Nat /\ e \in Nat
    BY <2>1
  <2>3. o \in (b + 1)..(e - 1)
    BY <2>1, <2>2, OpenType DEF Greatest
  <2> QED
    BY <2>1, <2>2, <2>3
<1>2. ASSUME NEW q \in Nat, q <= j
      PROVE  Elses(s, b, q, o) = {e \in Elses(s, b, j, o) : e <= q}
  <2>1. \A e : e \in (b + 1)..q <=> e \in (b + 1)..j /\ e <= q
    BY <1>2
  <2> QED
    BY <2>1 DEF Elses
<1> QED
  BY <1>1, <1>2

(* An else line of an if is one more.                                      *)
LEMMA ElsesNext ==
    ASSUME NEW s, NEW b \in Nat, NEW j \in Nat, b <= j, NEW o
    PROVE  Elses(s, b, j + 1, o) =
             Elses(s, b, j, o)
             \cup (IF s[j + 1].kind = "else" /\ s[o].kind = "if" /\ Greatest(OpenAt(s, b, j), o)
                   THEN {j + 1} ELSE {})
<1>1. \A e : e \in (b + 1)..(j + 1) <=> e \in (b + 1)..j \/ e = j + 1
  OBVIOUS
<1>2. j + 1 - 1 = j
  OBVIOUS
<1>3. ASSUME NEW e
      PROVE  e \in Elses(s, b, j + 1, o) <=>
               \/ e \in Elses(s, b, j, o)
               \/ e = j + 1 /\ s[j + 1].kind = "else" /\ s[o].kind = "if" /\ Greatest(OpenAt(s, b, j), o)
  BY <1>1, <1>2 DEF Elses
<1> QED
  BY <1>3

(* The innermost open block and the set it is at.                          *)
LEMMA CurIs ==
    ASSUME NEW s, NEW b \in Nat, NEW j \in Nat, b <= j
    PROVE  /\ OpenAt(s, b, j) = {} => Cur(s, b, j) = b
           /\ OpenAt(s, b, j) # {} =>
                \E o : /\ Greatest(OpenAt(s, b, j), o) /\ s[o].kind \in Openers
                       /\ Greatest({o} \cup Elses(s, b, j, o), Cur(s, b, j))
           /\ \A o, x : Greatest(OpenAt(s, b, j), o) /\ Greatest({o} \cup Elses(s, b, j, o), x)
                          => Cur(s, b, j) = x
<1>1. OpenAt(s, b, j) \subseteq 0..j /\ \A o \in OpenAt(s, b, j) : s[o].kind \in Openers
  BY OpenType
<1>2. \A o \in OpenAt(s, b, j) : {o} \cup Elses(s, b, j, o) \subseteq 0..j
  <2>1. ASSUME NEW o \in OpenAt(s, b, j) PROVE {o} \cup Elses(s, b, j, o) \subseteq 0..j
    <3>1. Elses(s, b, j, o) \subseteq 0..j
      <4>1. \A e \in Elses(s, b, j, o) : e \in (b + 1)..j
        BY ElsesType
      <4> QED
        BY <4>1
    <3> QED
      BY <1>1, <3>1
  <2> QED
    BY <2>1
<1>3. ASSUME OpenAt(s, b, j) # {}
      PROVE  LET o == MaxOf(OpenAt(s, b, j)) IN
               /\ Greatest(OpenAt(s, b, j), o) /\ s[o].kind \in Openers
               /\ Greatest({o} \cup Elses(s, b, j, o), Cur(s, b, j))
               /\ Cur(s, b, j) = MaxOf({o} \cup Elses(s, b, j, o))
  <2>1. PICK o : o = MaxOf(OpenAt(s, b, j))
    OBVIOUS
  <2>2. Greatest(OpenAt(s, b, j), o)
    BY <1>1, <1>3, <2>1, GreatestIs
  <2>3. o \in OpenAt(s, b, j)
    BY <2>2 DEF Greatest
  <2>4. Greatest({o} \cup Elses(s, b, j, o), MaxOf({o} \cup Elses(s, b, j, o)))
    <3>1. {o} \cup Elses(s, b, j, o) # {}
      OBVIOUS
    <3>2. {o} \cup Elses(s, b, j, o) \subseteq 0..j
      BY <1>2, <2>3
    <3> QED
      BY <3>1, <3>2, GreatestIs
  <2>5. Cur(s, b, j) = MaxOf({o} \cup Elses(s, b, j, o))
    BY <1>3, <2>1 DEF Cur
  <2> QED
    BY <1>1, <2>1, <2>2, <2>3, <2>4, <2>5
<1>4. ASSUME NEW o, NEW x, Greatest(OpenAt(s, b, j), o), Greatest({o} \cup Elses(s, b, j, o), x)
      PROVE  Cur(s, b, j) = x
  <2>1. o \in OpenAt(s, b, j)
    BY <1>4 DEF Greatest
  <2>2. MaxOf(OpenAt(s, b, j)) = o
    BY <1>1, <1>4, GreatestIs
  <2>3. MaxOf({o} \cup Elses(s, b, j, o)) = x
    <3>1. {o} \cup Elses(s, b, j, o) \subseteq 0..j
      BY <1>2, <2>1
    <3> QED
      BY <1>4, <3>1, GreatestIs
  <2> QED
    BY <1>3, <2>1, <2>2, <2>3
<1>5. OpenAt(s, b, j) = {} => Cur(s, b, j) = b
  BY DEF Cur
<1> QED
  BY <1>3, <1>4, <1>5

LEMMA CurBounds ==
    ASSUME NEW s, NEW b \in Nat, NEW j \in Nat, b <= j
    PROVE  /\ Cur(s, b, j) \in b..j
           /\ \A o \in OpenAt(s, b, j) : o <= Cur(s, b, j)
           /\ \A o : Greatest(OpenAt(s, b, j), o) =>
                Cur(s, b, j) = o \/ Cur(s, b, j) \in Elses(s, b, j, o)
<1>0. \A o : Elses(s, b, j, o) \subseteq (b + 1)..j
  BY ElsesType
<1>1. OpenAt(s, b, j) \subseteq (b + 1)..j
  BY OpenType
<1>2. ASSUME NEW o, NEW x, Greatest(OpenAt(s, b, j), o), Greatest({o} \cup Elses(s, b, j, o), x)
      PROVE  x \in b..j /\ (\A p \in OpenAt(s, b, j) : p <= x) /\ (x = o \/ x \in Elses(s, b, j, o))
  <2>1. o \in (b + 1)..j /\ x \in (b + 1)..j /\ o <= x
    BY <1>0, <1>1, <1>2 DEF Greatest
  <2>2. \A p \in OpenAt(s, b, j) : p \in (b + 1)..j /\ p <= o
    BY <1>1, <1>2 DEF Greatest
  <2>3. x = o \/ x \in Elses(s, b, j, o)
    BY <1>2 DEF Greatest
  <2>4. \A p \in OpenAt(s, b, j) : p <= x
    BY <2>1, <2>2
  <2> QED
    BY <2>1, <2>3, <2>4
<1>3. CASE OpenAt(s, b, j) = {}
  <2>1. Cur(s, b, j) = b
    BY <1>3, CurIs
  <2> QED
    BY <1>3, <2>1 DEF Greatest
<1>4. CASE OpenAt(s, b, j) # {}
  <2>1. PICK o : Greatest(OpenAt(s, b, j), o) /\ Greatest({o} \cup Elses(s, b, j, o), Cur(s, b, j))
    BY <1>4, CurIs
  <2>2. ASSUME NEW p, Greatest(OpenAt(s, b, j), p) PROVE p = o
    BY <1>1, <2>1, <2>2 DEF Greatest
  <2>3. PICK x : x = Cur(s, b, j)
    OBVIOUS
  <2> QED
    BY <1>2, <2>1, <2>2, <2>3
<1> QED
  BY <1>3, <1>4

(* Whether a line begins the second set of an if.                          *)
ElseOf(s, b, j, o) ==
    s[j + 1].kind = "else" /\ Greatest(OpenAt(s, b, j), o) /\ s[o].kind = "if"

(* Once an inner block is closed its parent has the elses it had before.   *)
LEMMA ElsesKept ==
    ASSUME NEW s, NEW b \in Nat, NEW j \in Nat, b <= j, NEW o \in OpenAt(s, b, j),
           NEW p \in OpenAt(s, b, o - 1), s[j + 1].kind # "else"
    PROVE  Elses(s, b, j + 1, p) = Elses(s, b, o - 1, p)
<1>1. o \in (b + 1)..j /\ s[o].kind \in Openers /\ o - 1 \in Nat /\ b <= o - 1 /\ o - 1 <= j
  <2>1. o \in (b + 1)..j /\ s[o].kind \in Openers
    BY OpenType
  <2> QED
    BY <2>1
<1>2. p < o
  <2>1. p \in (b + 1)..(o - 1)
    BY <1>1, OpenType
  <2> QED
    BY <1>1, <2>1
<1>3. \A k \in o..j : o \in OpenAt(s, b, k)
  BY OpenWithin
<1>4. Elses(s, b, j + 1, p) = Elses(s, b, j, p)
  <2>1. Elses(s, b, j + 1, p) = Elses(s, b, j, p) \cup {}
    <3>1. PICK q : q = p
      OBVIOUS
    <3>2. Elses(s, b, j + 1, q) = Elses(s, b, j, q) \cup {}
      BY ElsesNext
    <3> QED
      BY <3>1, <3>2
  <2> QED
    BY <2>1
<1>5. Elses(s, b, o - 1, p) = {e \in Elses(s, b, j, p) : e <= o - 1}
  BY <1>1, ElsesType
<1>6. ASSUME NEW e \in Elses(s, b, j, p) PROVE e <= o - 1
  <2>1. e \in (b + 1)..j /\ s[e].kind = "else" /\ Greatest(OpenAt(s, b, e - 1), p)
    BY ElsesType
  <2>2. e # o
    BY <1>1, <2>1 DEF Openers, Loops
  <2>3. ASSUME e > o PROVE FALSE
    <3>1. e - 1 \in o..j
      BY <1>1, <2>1, <2>3
    <3>2. o <= p
      BY <1>3, <2>1, <3>1 DEF Greatest
    <3>3. p \in Nat /\ o \in Nat
      BY <1>1, <3>2, ElsesType
    <3> QED
      BY <1>2, <3>2, <3>3
  <2> QED
    BY <1>1, <2>1, <2>2, <2>3
<1> QED
  BY <1>4, <1>5, <1>6

(* The set after one more line: a new one behind an opener or else, the    *)
(* one around behind an end.                                               *)
LEMMA CurNext ==
    ASSUME NEW s, NEW b \in Nat, NEW j \in Nat, b <= j
    PROVE  /\ s[j + 1].kind \in Openers => Cur(s, b, j + 1) = j + 1
           /\ \A o : ElseOf(s, b, j, o) => Cur(s, b, j + 1) = j + 1
           /\ s[j + 1].kind \notin Openers \cup {"end"} /\ ~(\E o : ElseOf(s, b, j, o))
                => Cur(s, b, j + 1) = Cur(s, b, j)
           /\ s[j + 1].kind = "end" /\ OpenAt(s, b, j) = {} => Cur(s, b, j + 1) = Cur(s, b, j)
           /\ s[j + 1].kind = "end" =>
                \A o : Greatest(OpenAt(s, b, j), o) => Cur(s, b, j + 1) = Cur(s, b, o - 1)
<1>0. j + 1 \in Nat /\ b <= j + 1
  OBVIOUS
<1>1. OpenAt(s, b, j) \subseteq (b + 1)..j /\ \A o : Elses(s, b, j, o) \subseteq (b + 1)..j
  BY OpenType, ElsesType
<1>2. ASSUME s[j + 1].kind \in Openers PROVE Cur(s, b, j + 1) = j + 1
  <2>1. OpenAt(s, b, j + 1) = OpenAt(s, b, j) \cup {j + 1}
    BY <1>2, OpenNext
  <2>2. Greatest(OpenAt(s, b, j + 1), j + 1)
    BY <1>1, <2>1 DEF Greatest
  <2>3. Elses(s, b, j + 1, j + 1) = {}
    <3>1. \A e \in Elses(s, b, j + 1, j + 1) : e \in (b + 1)..(j + 1) /\ j + 1 < e
      BY <1>0, ElsesType
    <3> QED
      BY <3>1
  <2>4. Greatest({j + 1} \cup Elses(s, b, j + 1, j + 1), j + 1)
    BY <2>3 DEF Greatest
  <2> QED
    BY <1>0, <2>2, <2>4, CurIs
<1>3. ASSUME NEW o, ElseOf(s, b, j, o) PROVE Cur(s, b, j + 1) = j + 1
  <2>1. s[j + 1].kind = "else" /\ Greatest(OpenAt(s, b, j), o) /\ s[o].kind = "if"
    BY <1>3 DEF ElseOf
  <2>2. OpenAt(s, b, j + 1) = OpenAt(s, b, j)
    <3>1. s[j + 1].kind \notin Openers \cup {"end"}
      BY <2>1 DEF Openers, Loops
    <3> QED
      BY <3>1, OpenNext
  <2>3. Elses(s, b, j + 1, o) = Elses(s, b, j, o) \cup {j + 1}
    BY <2>1, ElsesNext
  <2>4. o \in (b + 1)..j
    BY <1>1, <2>1 DEF Greatest
  <2>5. Greatest({o} \cup Elses(s, b, j + 1, o), j + 1)
    BY <1>1, <2>3, <2>4 DEF Greatest
  <2> QED
    BY <1>0, <2>1, <2>2, <2>5, CurIs
<1>4. ASSUME OpenAt(s, b, j + 1) = OpenAt(s, b, j),
             \A o : Greatest(OpenAt(s, b, j), o) => Elses(s, b, j + 1, o) = Elses(s, b, j, o)
      PROVE  Cur(s, b, j + 1) = Cur(s, b, j)
  <2>1. CASE OpenAt(s, b, j) = {}
    BY <1>0, <1>4, <2>1, CurIs
  <2>2. CASE OpenAt(s, b, j) # {}
    <3>1. PICK o : Greatest(OpenAt(s, b, j), o) /\ Greatest({o} \cup Elses(s, b, j, o), Cur(s, b, j))
      BY <2>2, CurIs
    <3>2. PICK x : x = Cur(s, b, j)
      OBVIOUS
    <3>3. Greatest(OpenAt(s, b, j + 1), o) /\ Greatest({o} \cup Elses(s, b, j + 1, o), x)
      BY <1>4, <3>1, <3>2
    <3> QED
      BY <1>0, <3>2, <3>3, CurIs
  <2> QED
    BY <2>1, <2>2
<1>5. ASSUME s[j + 1].kind \notin Openers \cup {"end"}, ~(\E o : ElseOf(s, b, j, o))
      PROVE  Cur(s, b, j + 1) = Cur(s, b, j)
  <2>1. OpenAt(s, b, j + 1) = OpenAt(s, b, j)
    BY <1>5, OpenNext
  <2>2. \A o : Greatest(OpenAt(s, b, j), o) => Elses(s, b, j + 1, o) = Elses(s, b, j, o)
    BY <1>5, ElsesNext DEF ElseOf
  <2> QED
    BY <1>4, <2>1, <2>2
<1>6. ASSUME s[j + 1].kind = "end", OpenAt(s, b, j) = {} PROVE Cur(s, b, j + 1) = Cur(s, b, j)
  <2>1. OpenAt(s, b, j + 1) = OpenAt(s, b, j)
    BY <1>6, OpenNext
  <2> QED
    BY <1>0, <1>6, <2>1, CurIs
<1>7. ASSUME s[j + 1].kind = "end", NEW o, Greatest(OpenAt(s, b, j), o)
      PROVE  Cur(s, b, j + 1) = Cur(s, b, o - 1)
  <2>1. o \in OpenAt(s, b, j) /\ (\A p \in OpenAt(s, b, j) : p <= o)
    BY <1>7 DEF Greatest
  <2>2. o \in (b + 1)..j /\ o - 1 \in Nat /\ b <= o - 1
    <3>1. o \in (b + 1)..j
      BY <1>1, <2>1
    <3> QED
      BY <3>1
  <2>3. OpenAt(s, b, j + 1) = OpenAt(s, b, o - 1)
    <3>1. OpenAt(s, b, j + 1) = OpenAt(s, b, j) \ {o}
      BY <1>7, OpenNext
    <3>2. {p \in OpenAt(s, b, j) : p < o} = OpenAt(s, b, o - 1)
      BY <2>1, OpenWithin
    <3>3. \A p \in OpenAt(s, b, j) : p # o <=> p < o
      BY <1>1, <2>1, <2>2
    <3> QED
      BY <3>1, <3>2, <3>3
  <2>4. CASE OpenAt(s, b, o - 1) = {}
    BY <1>0, <2>2, <2>3, <2>4, CurIs
  <2>5. CASE OpenAt(s, b, o - 1) # {}
    <3>0. PICK m \in Nat : m = o - 1 /\ b <= m
      BY <2>2
    <3>1. PICK p : Greatest(OpenAt(s, b, m), p) /\ Greatest({p} \cup Elses(s, b, m, p), Cur(s, b, m))
      BY <2>5, <3>0, CurIs
    <3>2. PICK x : x = Cur(s, b, m)
      OBVIOUS
    <3>3. Elses(s, b, j + 1, p) = Elses(s, b, m, p)
      <4>1. p \in OpenAt(s, b, o - 1)
        BY <3>0, <3>1 DEF Greatest
      <4> QED
        BY <1>7, <2>1, <3>0, <4>1, ElsesKept
    <3>4. Greatest(OpenAt(s, b, j + 1), p) /\ Greatest({p} \cup Elses(s, b, j + 1, p), x)
      BY <2>3, <3>0, <3>1, <3>2, <3>3
    <3> QED
      BY <1>0, <3>0, <3>2, <3>4, CurIs
  <2> QED
    BY <2>4, <2>5
<1> QED
  BY <1>2, <1>3, <1>5, <1>6, <1>7

(* A statement more.                                                       *)
LEMMA MemNext ==
    ASSUME NEW s, NEW b \in Nat, NEW j \in Nat, b <= j, NEW t
    PROVE  /\ Mem(s, b, j + 1, t) =
                Mem(s, b, j, t)
                \cup (IF s[j + 1].kind \notin {"end", "else"} /\ Cur(s, b, j) = t THEN {j + 1} ELSE {})
           /\ \A i \in Mem(s, b, j, t) : i \in (b + 1)..j /\ t \in b..(i - 1) /\ i \in PlainLines(s, b, j)
           /\ \A o \in OpenAt(s, b, j), i \in Mem(s, b, j, t) : i > o => o <= t
<1>1. \A i : i \in (b + 1)..(j + 1) <=> i \in (b + 1)..j \/ i = j + 1
  OBVIOUS
<1>2. j + 1 - 1 = j
  OBVIOUS
<1>3. ASSUME NEW i
      PROVE  i \in Mem(s, b, j + 1, t) <=>
               \/ i \in Mem(s, b, j, t)
               \/ i = j + 1 /\ s[j + 1].kind \notin {"end", "else"} /\ Cur(s, b, j) = t
  BY <1>1, <1>2 DEF Mem, PlainLines
<1>4. ASSUME NEW i \in Mem(s, b, j, t)
      PROVE  i \in (b + 1)..j /\ t \in b..(i - 1) /\ i \in PlainLines(s, b, j) /\ i - 1 \in Nat /\ b <= i - 1
             /\ Cur(s, b, i - 1) = t
  <2>1. i \in (b + 1)..j /\ Cur(s, b, i - 1) = t /\ i \in PlainLines(s, b, j)
    BY DEF Mem, PlainLines
  <2>2. i - 1 \in Nat /\ b <= i - 1
    BY <2>1
  <2>3. Cur(s, b, i - 1) \in b..(i - 1)
    BY <2>2, CurBounds
  <2> QED
    BY <2>1, <2>2, <2>3
<1>5. ASSUME NEW o \in OpenAt(s, b, j), NEW i \in Mem(s, b, j, t), i > o PROVE o <= t
  <2>1. o \in (b + 1)..j
    BY OpenType
  <2>2. i - 1 \in o..j
    BY <1>4, <1>5, <2>1
  <2>3. o \in OpenAt(s, b, i - 1)
    BY <2>2, OpenWithin
  <2>4. o <= Cur(s, b, i - 1)
    BY <1>4, <2>3, CurBounds
  <2> QED
    BY <1>4, <2>4
<1> QED
  BY <1>3, <1>4, <1>5

-----------------------------------------------------------------------------
(* The blocks bs, the last of them c, are those of the lines of s behind b *)
(* and up to j.                                                            *)
Links == {"kind", "arg", "line", "parent", "prev", "next", "children", "elseblock"}

IsFilled(bs, x) == x \in 1..Len(bs) /\ bs[x].kind \notin {"unfilled", "freed"}
Fresh(bs, c)  == c # 0 /\ bs[c].kind = "unfilled"

(* A list is told by its first block: it has the lines in T, and after     *)
(* them, if any, the block tail, not filled yet.                           *)
Points(bs, p, T, tail) ==
    IF T = {} THEN p = tail ELSE IsFilled(bs, p) /\ Smallest(T, bs[p].line)
After(S, i) == {k \in S : i < k}
Tip(bs, c, here) == IF Fresh(bs, c) /\ here THEN c ELSE 0

(* The block of the greatest line in S, 0 if there is none.                *)
LastOf(bs, p, S) == IF S = {} THEN p = 0 ELSE IsFilled(bs, p) /\ Greatest(S, bs[p].line)

(* An if with no second else, and no empty second set when it is closed.   *)
Whole(s, b, j, o) ==
    \A e \in Elses(s, b, j, o) :
       Elses(s, b, j, o) = {e} /\ (o \notin OpenAt(s, b, j) => Mem(s, b, j, e) # {})

Shape(bs, c, b, j) ==
    /\ Records(bs, Links) /\ c \in 0..Len(bs)
    /\ c = 0 => bs = <<>> /\ j = b
    /\ c # 0 => bs[c].kind # "freed"
    /\ \A x \in 1..Len(bs) :
         /\ bs[x].kind = "freed" => bs[x].next = 0
         /\ bs[x].kind = "unfilled" =>
              x = c /\ c = Len(bs) /\ bs[x].next = 0 /\ bs[x].children = 0 /\ bs[x].elseblock = 0

HasLines(bs, s, b, j) ==
    /\ \A x \in 1..Len(bs) : IsFilled(bs, x) =>
         bs[x].line \in PlainLines(s, b, j) /\ bs[x].kind = s[bs[x].line].kind
    /\ \A x, y \in 1..Len(bs) : x < y /\ IsFilled(bs, x) /\ IsFilled(bs, y) => bs[x].line < bs[y].line
    /\ \A i \in PlainLines(s, b, j) : \E x \in 1..Len(bs) : IsFilled(bs, x) /\ bs[x].line = i

Parents(bs, c, s, b, j) ==
    /\ c # 0 => LastOf(bs, bs[c].parent, OpenAt(s, b, j))
    /\ \A x \in 1..Len(bs) : IsFilled(bs, x) /\ bs[x].kind \in Openers =>
         LastOf(bs, bs[x].parent, OpenAt(s, b, bs[x].line - 1))

NextOk(bs, c, s, b, j, x) ==
    LET i == bs[x].line
        t == Cur(s, b, i - 1)
    IN  Points(bs, bs[x].next, After(Mem(s, b, j, t), i), Tip(bs, c, t = Cur(s, b, j)))

SetsOk(bs, c, s, b, j, x) ==
    LET o == bs[x].line IN
    /\ Points(bs, bs[x].children, Mem(s, b, j, o), Tip(bs, c, o = Cur(s, b, j)))
    /\ \A e \in Elses(s, b, j, o) :
         Points(bs, bs[x].elseblock, Mem(s, b, j, e), Tip(bs, c, e = Cur(s, b, j)))

LastSet(bs, c, s, b, j) ==
    c # 0 => LastOf(bs, IF Fresh(bs, c) THEN bs[c].prev ELSE c, Mem(s, b, j, Cur(s, b, j)))

BInv(bs, c, s, b, j) ==
    /\ Shape(bs, c, b, j)
    /\ HasLines(bs, s, b, j)
    /\ Parents(bs, c, s, b, j)
    /\ \A x \in 1..Len(bs) : IsFilled(bs, x) => NextOk(bs, c, s, b, j, x)
    /\ \A x \in 1..Len(bs) :
         IsFilled(bs, x) /\ bs[x].kind \in Openers /\ Whole(s, b, j, bs[x].line) => SetsOk(bs, c, s, b, j, x)
    /\ LastSet(bs, c, s, b, j)

BlocksInv == BInv(blocks, cend, script, base, read)

-----------------------------------------------------------------------------
(* What writing a field and adding a block change.                         *)
SameBut(r, bs, S, F) ==
    \A x \in 1..Len(bs), g \in Links : x \notin S \/ g \notin F => r[x][g] = bs[x][g]

Set(r, bs, c, f, v) ==
    /\ Records(r, Links) /\ Len(r) = Len(bs) /\ Len(bs) \in Nat
    /\ r[c][f] = v
    /\ SameBut(r, bs, {c}, {f})

Added(r, bs, parent, prev) ==
    LET n == Len(bs) + 1 IN
    /\ Records(r, Links) /\ Len(r) = n /\ Len(bs) \in Nat
    /\ r[n].kind = "unfilled" /\ r[n].line = 0 /\ r[n].parent = parent /\ r[n].prev = prev
    /\ r[n].next = 0 /\ r[n].children = 0 /\ r[n].elseblock = 0
    /\ SameBut(r, bs, {}, {})

(* An assignment to one field, and a block that TMALLOC has given.         *)
LEMMA SetField ==
    ASSUME NEW bs, Records(bs, Links), NEW c \in 1..Len(bs), NEW f \in Links, NEW v
    PROVE  Set([bs EXCEPT ![c] = [@ EXCEPT ![f] = v]], bs, c, f, v)
<1>0. PICK r : r = [bs EXCEPT ![c] = [@ EXCEPT ![f] = v]]
  OBVIOUS
<1> DEFINE e == [bs[c] EXCEPT ![f] = v]
<1>1. bs \in Seq(Elements(bs)) /\ Len(bs) \in Nat /\ DOMAIN bs = 1..Len(bs)
  BY Enlarge DEF Records
<1>2. Links \subseteq DOMAIN bs[c]
  BY DEF Records
<1>3. Links \subseteq DOMAIN e /\ e[f] = v /\ \A g \in Links : g # f => e[g] = bs[c][g]
  <2>1. DOMAIN e = DOMAIN bs[c] /\ f \in DOMAIN bs[c]
    BY <1>2
  <2>2. e[f] = v
    BY <2>1
  <2>3. ASSUME NEW g \in Links, g # f PROVE e[g] = bs[c][g]
    <3>1. g \in DOMAIN bs[c]
      BY <1>2
    <3> QED
      BY <2>3, <3>1
  <2> HIDE DEF e
  <2> QED
    BY <1>2, <2>1, <2>2, <2>3
<1>4. r = [bs EXCEPT ![c] = e]
  BY <1>0
<1> HIDE DEF e
<1>5. /\ Records(r, Links) /\ Len(r) = Len(bs)
      /\ \A i \in 1..Len(bs) : r[i] = IF i = c THEN e ELSE bs[i]
  <2>1. /\ Records([bs EXCEPT ![c] = e], Links)
        /\ Len([bs EXCEPT ![c] = e]) = Len(bs)
        /\ \A i \in 1..Len(bs) : [bs EXCEPT ![c] = e][i] = IF i = c THEN e ELSE bs[i]
    BY ONLY Records(bs, Links), c \in 1..Len(bs), <1>3, RecordsExcept
  <2> QED
    BY ONLY <1>4, <2>1
<1> QED
  BY <1>0, <1>1, <1>3, <1>5 DEF SameBut, Set

LEMMA AddBlock ==
    ASSUME NEW bs, Records(bs, Links), NEW parent, NEW prev
    PROVE  Added(Append(bs, Unfilled(parent, prev)), bs, parent, prev)
<1>0. PICK r : r = Append(bs, Unfilled(parent, prev))
  OBVIOUS
<1> DEFINE e == Unfilled(parent, prev)
<1>1. Links \subseteq DOMAIN e
  BY DEF Unfilled, Links
<1>2. /\ e.kind = "unfilled" /\ e.line = 0 /\ e.parent = parent /\ e.prev = prev
      /\ e.next = 0 /\ e.children = 0 /\ e.elseblock = 0
  BY DEF Unfilled
<1> HIDE DEF e
<1>3. r = Append(bs, e)
  BY <1>0 DEF e
<1>4. /\ Records(r, Links) /\ Len(r) = Len(bs) + 1 /\ r[Len(bs) + 1] = e
      /\ \A i \in 1..Len(bs) : r[i] = bs[i]
  BY <1>1, <1>3, RecordsAppend
<1>5. Len(bs) \in Nat
  BY Enlarge DEF Records
<1>6. Added(r, bs, parent, prev)
  BY <1>2, <1>4, <1>5 DEF SameBut, Added
<1> QED
  BY <1>0, <1>6

LEMMA Field ==
    ASSUME NEW r, NEW bs, NEW S, NEW F, SameBut(r, bs, S, F), NEW x \in 1..Len(bs)
    PROVE  /\ x \notin S \/ "kind" \notin F => r[x].kind = bs[x].kind
           /\ x \notin S \/ "line" \notin F => r[x].line = bs[x].line
           /\ x \notin S \/ "parent" \notin F => r[x].parent = bs[x].parent
           /\ x \notin S \/ "prev" \notin F => r[x].prev = bs[x].prev
           /\ x \notin S \/ "next" \notin F => r[x].next = bs[x].next
           /\ x \notin S \/ "children" \notin F => r[x].children = bs[x].children
           /\ x \notin S \/ "elseblock" \notin F => r[x].elseblock = bs[x].elseblock
<1>1. \A g \in Links : x \notin S \/ g \notin F => r[x][g] = bs[x][g]
  BY DEF SameBut
<1>2. /\ "kind" \in Links /\ "line" \in Links /\ "parent" \in Links /\ "prev" \in Links
      /\ "next" \in Links /\ "children" \in Links /\ "elseblock" \in Links
  BY DEF Links
<1> QED
  BY <1>1, <1>2

(* Every block of a line stays one.                                        *)
Keeps(r, bs) == \A x : IsFilled(bs, x) => IsFilled(r, x) /\ r[x].line = bs[x].line

(* Lists that are not touched stay what they are.                          *)
LEMMA PointsKept ==
    ASSUME NEW r, NEW bs, Keeps(r, bs)
    PROVE  /\ \A p, S : LastOf(bs, p, S) => LastOf(r, p, S)
           /\ \A p, T, u, v : Points(bs, p, T, u) /\ (T # {} \/ u = v) => Points(r, p, T, v)
BY DEF Keeps, LastOf, Points

(* Blocks in the order of their lines, one for each.                       *)
Placed(bs, s, b, j, x) ==
    LET i == bs[x].line IN
    /\ i \in (b + 1)..j /\ i - 1 \in Nat /\ b <= i - 1
    /\ i \in Mem(s, b, j, Cur(s, b, i - 1))
    /\ bs[x].kind = s[i].kind
    /\ \A y : IsFilled(bs, y) /\ bs[y].line = i => y = x
    /\ \A y : IsFilled(bs, y) /\ i < bs[y].line => x < y

LEMMA LineFacts ==
    ASSUME NEW bs, NEW s, NEW b \in Nat, NEW j \in Nat, b <= j, HasLines(bs, s, b, j),
           NEW x, IsFilled(bs, x)
    PROVE  Placed(bs, s, b, j, x)
<1>1. x \in 1..Len(bs) /\ bs[x].line \in PlainLines(s, b, j) /\ bs[x].kind = s[bs[x].line].kind
  BY DEF HasLines, IsFilled
<1>2. bs[x].line \in (b + 1)..j
  BY <1>1 DEF PlainLines
<1>3. ASSUME NEW y, IsFilled(bs, y)
      PROVE  /\ x < y \/ x = y \/ y < x
             /\ x < y => bs[x].line < bs[y].line
             /\ y < x => bs[y].line < bs[x].line
             /\ bs[y].line \in (b + 1)..j
  <2>1. y \in 1..Len(bs) /\ bs[y].line \in PlainLines(s, b, j)
    BY <1>3 DEF HasLines, IsFilled
  <2>2. bs[y].line \in (b + 1)..j
    BY <2>1 DEF PlainLines
  <2>3. x < y \/ x = y \/ y < x
    BY <1>1, <2>1
  <2>4. (x < y => bs[x].line < bs[y].line) /\ (y < x => bs[y].line < bs[x].line)
    BY <1>1, <1>3, <2>1 DEF HasLines
  <2> QED
    BY <2>2, <2>3, <2>4
<1>4. bs[x].line - 1 \in Nat /\ b <= bs[x].line - 1
  BY <1>2
<1>5. bs[x].line \in Mem(s, b, j, Cur(s, b, bs[x].line - 1))
  BY <1>1 DEF Mem
<1>6. ASSUME NEW y, IsFilled(bs, y), bs[y].line = bs[x].line PROVE y = x
  <2>1. bs[x].line \in Nat /\ ~(bs[x].line < bs[x].line)
    BY <1>2
  <2> QED
    BY <1>3, <1>6, <2>1
<1>7. ASSUME NEW y, IsFilled(bs, y), bs[x].line < bs[y].line PROVE x < y
  <2>1. bs[y].line \in (b + 1)..j
    BY <1>3, <1>7
  <2>2. ~(bs[y].line < bs[x].line) /\ bs[y].line # bs[x].line
    BY <1>2, <1>7, <2>1
  <2> QED
    BY <1>3, <1>7, <2>2
<1> QED
  BY <1>1, <1>2, <1>4, <1>5, <1>6, <1>7 DEF Placed

(* A new block behind the last one, for the line to come.                  *)
LEMMA Attach ==
    ASSUME NEW s, NEW b \in Nat, NEW j \in Nat, b <= j, NEW bs, NEW c, BInv(bs, c, s, b, j),
           c # 0, bs[c].kind # "unfilled",
           NEW r, NEW n, n = Len(bs) + 1, Records(r, Links), Len(r) = n, Len(bs) \in Nat,
           SameBut(r, bs, {c}, {"next"}), r[c].next = n,
           r[n].kind = "unfilled", r[n].parent = bs[c].parent, r[n].prev = c,
           r[n].next = 0, r[n].children = 0, r[n].elseblock = 0
    PROVE  BInv(r, n, s, b, j)
<1> DEFINE here == Cur(s, b, j)
<1>1. /\ Shape(bs, c, b, j) /\ HasLines(bs, s, b, j) /\ Parents(bs, c, s, b, j) /\ LastSet(bs, c, s, b, j)
      /\ \A x \in 1..Len(bs) : IsFilled(bs, x) => NextOk(bs, c, s, b, j, x)
      /\ \A x \in 1..Len(bs) :
           IsFilled(bs, x) /\ bs[x].kind \in Openers /\ Whole(s, b, j, bs[x].line) => SetsOk(bs, c, s, b, j, x)
  BY DEF BInv
<1>2. c \in 1..Len(bs) /\ n \notin 1..Len(bs) /\ n # 0 /\ n \in 1..n
  BY <1>1 DEF Shape
<1>3. /\ \A x \in 1..Len(bs) : /\ r[x].kind = bs[x].kind /\ r[x].line = bs[x].line
                               /\ r[x].parent = bs[x].parent /\ r[x].children = bs[x].children
                               /\ r[x].elseblock = bs[x].elseblock
                               /\ x # c => r[x].next = bs[x].next
  BY Field
<1>4. ~Fresh(bs, c) /\ Fresh(r, n) /\ IsFilled(bs, c) /\ \A x \in 1..Len(bs) : bs[x].kind # "unfilled"
  BY <1>1, <1>2 DEF Fresh, IsFilled, Shape
<1>5. \A x : x \in 1..n <=> x \in 1..Len(bs) \/ x = n
  OBVIOUS
<1>6. \A x : IsFilled(r, x) <=> IsFilled(bs, x)
  BY <1>2, <1>3, <1>5 DEF IsFilled
<1>7. Keeps(r, bs)
  BY <1>3, <1>6 DEF Keeps, IsFilled
<1>8. Greatest(Mem(s, b, j, here), bs[c].line) /\ Mem(s, b, j, here) # {}
  BY <1>1, <1>2, <1>4 DEF LastSet, LastOf, Greatest
<1>9. \A y \in Mem(s, b, j, here) : y \in (b + 1)..j
  BY MemNext
<1> HIDE DEF here
<1>10. Shape(r, n, b, j)
  BY <1>1, <1>2, <1>3, <1>4, <1>5 DEF Shape, IsFilled
<1>11. HasLines(r, s, b, j)
  <2>1. \A x : IsFilled(bs, x) => x \in 1..Len(bs)
    BY DEF IsFilled
  <2> QED
    BY <1>1, <1>3, <1>5, <1>6, <2>1 DEF HasLines
<1>12. Parents(r, n, s, b, j)
  <2>1. LastOf(r, r[n].parent, OpenAt(s, b, j))
    BY <1>1, <1>7, PointsKept DEF Parents
  <2>2. ASSUME NEW x \in 1..Len(r), IsFilled(r, x), r[x].kind \in Openers
        PROVE  LastOf(r, r[x].parent, OpenAt(s, b, r[x].line - 1))
    <3>1. x \in 1..Len(bs) /\ IsFilled(bs, x)
      BY <1>6, <2>2 DEF IsFilled
    <3>2. LastOf(bs, bs[x].parent, OpenAt(s, b, bs[x].line - 1))
      BY <1>1, <1>3, <2>2, <3>1 DEF Parents
    <3> QED
      BY <1>3, <1>7, <3>1, <3>2, PointsKept
  <2> QED
    BY <2>1, <2>2 DEF Parents
<1>13. ASSUME NEW x \in 1..Len(r), IsFilled(r, x) PROVE NextOk(r, n, s, b, j, x)
  <2>1. x \in 1..Len(bs) /\ IsFilled(bs, x)
    BY <1>6, <1>13 DEF IsFilled
  <2> DEFINE i == bs[x].line
             t == Cur(s, b, i - 1)
             T == After(Mem(s, b, j, t), i)
  <2>2. Points(bs, bs[x].next, T, Tip(bs, c, t = here))
    BY <1>1, <2>1 DEF NextOk, here
  <2>3. i \in Mem(s, b, j, t) /\ i \in Nat /\ \A y : IsFilled(bs, y) /\ bs[y].line = i => y = x
    <3>1. /\ bs[x].line \in (b + 1)..j
          /\ bs[x].line \in Mem(s, b, j, Cur(s, b, bs[x].line - 1))
          /\ \A y : IsFilled(bs, y) /\ bs[y].line = bs[x].line => y = x
      <4>1. Placed(bs, s, b, j, x)
        BY ONLY b \in Nat, j \in Nat, b <= j, <1>1, <2>1, LineFacts
      <4> QED
        BY <4>1, <2>1 DEF Placed
    <3> QED
      BY <3>1
  <2>4. Tip(bs, c, t = here) = 0 /\ Tip(r, n, t = here) = IF t = here THEN n ELSE 0
    BY <1>4 DEF Tip
  <2>5. t = here /\ T = {} => x = c
    <3>1. ASSUME t = here, T = {} PROVE x = c
      <4>1. i <= bs[c].line /\ bs[c].line \in Mem(s, b, j, t) /\ bs[c].line \in Nat
        BY <1>8, <1>9, <2>3, <3>1 DEF Greatest
      <4>2. ~(i < bs[c].line)
        BY <3>1, <4>1 DEF After
      <4>3. i = bs[c].line
        BY <2>3, <4>1, <4>2
      <4> QED
        BY <1>4, <2>3, <4>3
    <3> QED
      BY <3>1
  <2>6. x = c => t = here /\ T = {}
    <3>1. ASSUME x = c PROVE t = here /\ T = {}
      <4>1. bs[c].line \in Mem(s, b, j, here)
        BY <1>8 DEF Greatest
      <4>2. t = here
        BY <3>1, <4>1 DEF Mem
      <4>3. \A y \in Mem(s, b, j, here) : y <= i /\ y \in Nat
        BY <1>8, <1>9, <3>1 DEF Greatest
      <4>4. \A y \in Mem(s, b, j, here) : ~(i < y)
        BY <2>3, <4>3
      <4> QED
        BY <4>2, <4>4 DEF After
    <3> QED
      BY <3>1
  <2>7. r[x].line = i /\ r[x].next = IF x = c THEN n ELSE bs[x].next
    BY <1>3, <2>1
  <2> HIDE DEF i, t, T
  <2>8. Points(r, r[x].next, T, Tip(r, n, t = here))
    <3>1. CASE x = c
      BY <2>4, <2>6, <2>7, <3>1 DEF Points
    <3>2. CASE x # c
      <4>1. T # {} \/ Tip(bs, c, t = here) = Tip(r, n, t = here)
        BY <2>4, <2>5, <3>2
      <4> QED
        BY <1>7, <2>2, <2>7, <3>2, <4>1, PointsKept
    <3> QED
      BY <3>1, <3>2
  <2> QED
    BY <2>7, <2>8 DEF NextOk, i, t, T, here
<1>14. ASSUME NEW x \in 1..Len(r), IsFilled(r, x), r[x].kind \in Openers, Whole(s, b, j, r[x].line)
       PROVE  SetsOk(r, n, s, b, j, x)
  <2>1. x \in 1..Len(bs) /\ IsFilled(bs, x)
    BY <1>6, <1>14 DEF IsFilled
  <2>2. SetsOk(bs, c, s, b, j, x)
    BY <1>1, <1>3, <1>14, <2>1
  <2>3. ASSUME NEW t, NEW p, Points(bs, p, Mem(s, b, j, t), Tip(bs, c, t = here))
        PROVE  Points(r, p, Mem(s, b, j, t), Tip(r, n, t = here))
    <3>1. Mem(s, b, j, t) # {} \/ Tip(bs, c, t = here) = Tip(r, n, t = here)
      BY <1>4, <1>8 DEF Tip
    <3> QED
      BY <1>7, <2>3, <3>1, PointsKept
  <2>4. r[x].line = bs[x].line /\ r[x].children = bs[x].children /\ r[x].elseblock = bs[x].elseblock
    BY <1>3, <2>1
  <2> QED
    BY <2>2, <2>3, <2>4 DEF SetsOk, here
<1>15. LastSet(r, n, s, b, j)
  <2>1. LastOf(bs, c, Mem(s, b, j, here))
    BY <1>1, <1>2, <1>4 DEF LastSet, here
  <2>2. LastOf(r, r[n].prev, Mem(s, b, j, here))
    BY <1>7, <2>1, PointsKept
  <2> QED
    BY <1>4, <2>2 DEF LastSet, here
<1> QED
  BY <1>10, <1>11, <1>12, <1>13, <1>14, <1>15 DEF BInv

(* What a set that the next line belongs to is the set of.                 *)
LEMMA HereIs ==
    ASSUME NEW s, NEW b \in Nat, NEW j \in Nat, b <= j
    PROVE  /\ \A q : Cur(s, b, j) \in Elses(s, b, j, q) => Greatest(OpenAt(s, b, j), q)
           /\ Cur(s, b, j) # b /\ s[Cur(s, b, j)].kind \in Openers =>
                Greatest(OpenAt(s, b, j), Cur(s, b, j))
<1> DEFINE h == Cur(s, b, j)
<1>1. \A q : \A e \in Elses(s, b, j, q) : e \in (b + 1)..j /\ s[e].kind = "else"
                                          /\ Greatest(OpenAt(s, b, e - 1), q)
  BY ElsesType
<1>2. OpenAt(s, b, j) = {} => h = b
  BY CurIs
<1>3. OpenAt(s, b, j) # {} =>
        \E o : /\ Greatest(OpenAt(s, b, j), o) /\ s[o].kind \in Openers
               /\ h \in {o} \cup Elses(s, b, j, o)
  BY CurIs DEF Greatest
<1>4. "else" \notin Openers
  BY DEF Openers, Loops
<1> HIDE DEF h
<1>5. ASSUME NEW q, h \in Elses(s, b, j, q) PROVE Greatest(OpenAt(s, b, j), q)
  <2>1. h \in (b + 1)..j /\ s[h].kind = "else" /\ Greatest(OpenAt(s, b, h - 1), q)
    BY <1>1, <1>5
  <2>2. OpenAt(s, b, j) # {}
    BY <1>2, <2>1
  <2>3. PICK o : /\ Greatest(OpenAt(s, b, j), o) /\ s[o].kind \in Openers
                 /\ h \in {o} \cup Elses(s, b, j, o)
    BY <1>3, <2>2
  <2>4. h \in Elses(s, b, j, o)
    BY <1>4, <2>1, <2>3
  <2>5. Greatest(OpenAt(s, b, h - 1), o)
    BY <1>1, <2>4
  <2>6. o = q
    <3>1. h - 1 \in Nat
      BY <2>1
    <3>2. OpenAt(s, b, h - 1) \subseteq 0..(h - 1)
      BY <3>1, OpenType
    <3>3. o \in 0..(h - 1) /\ q \in 0..(h - 1) /\ o <= q /\ q <= o
      BY <2>1, <2>5, <3>2 DEF Greatest
    <3> QED
      BY <3>1, <3>3
  <2> QED
    BY <2>3, <2>6
<1>6. ASSUME h # b, s[h].kind \in Openers PROVE Greatest(OpenAt(s, b, j), h)
  <2>1. PICK o : /\ Greatest(OpenAt(s, b, j), o) /\ s[o].kind \in Openers
                 /\ h \in {o} \cup Elses(s, b, j, o)
    BY <1>2, <1>3, <1>6
  <2>2. h \notin Elses(s, b, j, o)
    BY <1>1, <1>4, <1>6
  <2> QED
    BY <2>1, <2>2
<1> QED
  BY <1>5, <1>6 DEF h

(* The last block gets a line; an opener's gets a first child.             *)
LEMMA Fill ==
    ASSUME NEW s, NEW b \in Nat, NEW j \in Nat, b <= j, NEW bs, NEW c, BInv(bs, c, s, b, j),
           Fresh(bs, c), NEW k, k = j + 1, NEW kind, kind = s[k].kind,
           kind \notin {"end", "else", "unfilled", "freed"}, Len(bs) \in Nat,
           NEW r, NEW d, NEW n, n = Len(bs) + 1, Records(r, Links),
           SameBut(r, bs, {c}, {"kind", "arg", "line", "children"}), r[c].kind = kind, r[c].line = k,
           \/ /\ kind \in Openers /\ d = n /\ Len(r) = n /\ r[c].children = n
              /\ r[n].kind = "unfilled" /\ r[n].parent = c /\ r[n].prev = 0
              /\ r[n].next = 0 /\ r[n].children = 0 /\ r[n].elseblock = 0
           \/ kind \notin Openers /\ d = c /\ Len(r) = Len(bs)
    PROVE  BInv(r, d, s, b, k)
<1> DEFINE here == Cur(s, b, j)
           op == kind \in Openers
<1>1. /\ Shape(bs, c, b, j) /\ HasLines(bs, s, b, j) /\ Parents(bs, c, s, b, j) /\ LastSet(bs, c, s, b, j)
      /\ \A x \in 1..Len(bs) : IsFilled(bs, x) => NextOk(bs, c, s, b, j, x)
      /\ \A x \in 1..Len(bs) :
           IsFilled(bs, x) /\ bs[x].kind \in Openers /\ Whole(s, b, j, bs[x].line) => SetsOk(bs, c, s, b, j, x)
  BY DEF BInv
<1>2. c \in 1..Len(bs) /\ c = Len(bs) /\ bs[c].next = 0 /\ bs[c].elseblock = 0 /\ bs[c].kind = "unfilled"
      /\ c # 0 /\ n \notin 1..Len(bs) /\ n # 0 /\ c # n
  BY <1>1 DEF Shape, Fresh
<1>3. /\ \A x \in 1..Len(bs) : /\ r[x].parent = bs[x].parent /\ r[x].next = bs[x].next
                               /\ r[x].elseblock = bs[x].elseblock
                               /\ x # c => /\ r[x].kind = bs[x].kind /\ r[x].line = bs[x].line
                                           /\ r[x].children = bs[x].children
  BY Field
<1>4. /\ (op /\ d = n /\ Len(r) = n /\ r[n].kind = "unfilled" /\ Fresh(r, d))
         \/ (~op /\ d = c /\ Len(r) = Len(bs) /\ ~Fresh(r, d))
      /\ \A x : x \in 1..Len(r) <=> x \in 1..Len(bs) \/ (op /\ x = n)
  BY <1>2 DEF Fresh
<1>5. /\ \A x : IsFilled(r, x) <=> IsFilled(bs, x) \/ x = c
      /\ ~IsFilled(bs, c) /\ ~IsFilled(r, n)
      /\ \A x : IsFilled(bs, x) => x \in 1..Len(bs) /\ x # c
  BY <1>2, <1>3, <1>4 DEF IsFilled
<1>6. Keeps(r, bs)
  BY <1>3, <1>5 DEF Keeps
<1>7. k \in Nat /\ b <= k /\ k - 1 = j /\ here \in b..j /\ k # here
  <2>1. here \in b..j
    BY CurBounds
  <2> HIDE DEF here
  <2> QED
    BY <2>1
<1>8. /\ \A t : Mem(s, b, k, t) = Mem(s, b, j, t) \cup (IF t = here THEN {k} ELSE {})
      /\ \A t : \A i \in Mem(s, b, j, t) : i \in (b + 1)..j /\ i < k /\ t # k
      /\ PlainLines(s, b, k) = PlainLines(s, b, j) \cup {k}
  <2>1. \A t : Mem(s, b, k, t) = Mem(s, b, j, t) \cup (IF t = here THEN {k} ELSE {})
    BY MemNext
  <2>2. ASSUME NEW t, NEW i \in Mem(s, b, j, t) PROVE i \in (b + 1)..j /\ i < k /\ t # k
    <3>1. i \in (b + 1)..j /\ t \in b..(i - 1)
      BY MemNext
    <3> QED
      BY <3>1
  <2>3. \A i : i \in (b + 1)..k <=> i \in (b + 1)..j \/ i = k
    OBVIOUS
  <2>4. PlainLines(s, b, k) = PlainLines(s, b, j) \cup {k}
    BY <2>3 DEF PlainLines
  <2> QED
    BY <2>1, <2>2, <2>4
<1>9. /\ op => OpenAt(s, b, k) = OpenAt(s, b, j) \cup {k} /\ Cur(s, b, k) = k
      /\ ~op => OpenAt(s, b, k) = OpenAt(s, b, j) /\ Cur(s, b, k) = here
      /\ OpenAt(s, b, j) \subseteq (b + 1)..j
  <2>1. OpenAt(s, b, j) \subseteq (b + 1)..j
    BY OpenType
  <2>2. op => OpenAt(s, b, k) = OpenAt(s, b, j) \cup {k} /\ Cur(s, b, k) = k
    <3>1. s[j + 1].kind \in Openers =>
             OpenAt(s, b, j + 1) = OpenAt(s, b, j) \cup {j + 1} /\ Cur(s, b, j + 1) = j + 1
      <4>1. s[j + 1].kind \in Openers => OpenAt(s, b, j + 1) = OpenAt(s, b, j) \cup {j + 1}
        BY OpenNext
      <4>2. s[j + 1].kind \in Openers => Cur(s, b, j + 1) = j + 1
        BY CurNext
      <4> QED
        BY <4>1, <4>2
    <3> QED
      BY <3>1
  <2>3. ~op => OpenAt(s, b, k) = OpenAt(s, b, j)
    <3>1. s[j + 1].kind \notin Openers \cup {"end"} => OpenAt(s, b, j + 1) = OpenAt(s, b, j)
      BY OpenNext
    <3> QED
      BY <3>1
  <2>4. ~op => Cur(s, b, k) = here
    <3>1. s[j + 1].kind \notin Openers \cup {"end"} /\ ~(\E o : ElseOf(s, b, j, o))
            => Cur(s, b, j + 1) = Cur(s, b, j)
      BY CurNext
    <3>2. ~(\E o : ElseOf(s, b, j, o))
      BY DEF ElseOf
    <3> QED
      BY <3>1, <3>2
  <2> QED
    BY <2>1, <2>2, <2>3, <2>4
<1>10. \A o : Elses(s, b, k, o) = Elses(s, b, j, o)
  <2>1. ASSUME NEW o PROVE Elses(s, b, j + 1, o) = Elses(s, b, j, o) \cup {}
    <3>1. s[j + 1].kind # "else"
      OBVIOUS
    <3> QED
      BY ONLY b \in Nat, j \in Nat, b <= j, <3>1, ElsesNext
  <2> QED
    BY <2>1
<1>11. \A t : Tip(r, d, t = Cur(s, b, k)) = (IF op /\ t = k THEN n ELSE 0)
              /\ Tip(bs, c, t = here) = (IF t = here THEN c ELSE 0)
  BY <1>4, <1>9 DEF Tip
<1> HIDE DEF here, op
<1>12. Shape(r, d, b, k)
  <2>1. d # 0 /\ d \in 0..Len(r) /\ r[d].kind # "freed"
    BY <1>2, <1>4
  <2>2. ASSUME NEW x \in 1..Len(r)
        PROVE  /\ r[x].kind = "freed" => r[x].next = 0
               /\ r[x].kind = "unfilled" =>
                    x = d /\ d = Len(r) /\ r[x].next = 0 /\ r[x].children = 0 /\ r[x].elseblock = 0
    <3>1. CASE x \in 1..Len(bs) /\ x # c
      BY <1>1, <1>3, <3>1 DEF Shape
    <3>2. CASE x = c
      BY <3>2
    <3>3. CASE x = n /\ op
      BY <1>4, <3>3 DEF op
    <3> QED
      BY <1>4, <3>1, <3>2, <3>3
  <2> QED
    BY <2>1, <2>2 DEF Shape
<1>13. HasLines(r, s, b, k)
  <2>1. \A x : IsFilled(bs, x) => bs[x].line \in PlainLines(s, b, j) /\ bs[x].line < k /\ x < c
    <3>1. \A i \in PlainLines(s, b, j) : i < k
      BY DEF PlainLines
    <3> QED
      BY <1>1, <1>2, <1>5, <3>1 DEF HasLines
  <2>2. ASSUME NEW x \in 1..Len(r), IsFilled(r, x)
        PROVE  r[x].line \in PlainLines(s, b, k) /\ r[x].kind = s[r[x].line].kind
    BY <1>1, <1>3, <1>5, <1>8, <2>2 DEF HasLines
  <2>3. ASSUME NEW x \in 1..Len(r), NEW y \in 1..Len(r), x < y, IsFilled(r, x), IsFilled(r, y)
        PROVE  r[x].line < r[y].line
    <3>1. x # c
      BY <1>2, <1>5, <2>1, <2>3
    <3>2. CASE y = c
      BY <1>3, <1>5, <2>1, <2>3, <3>1, <3>2
    <3>3. CASE y # c
      BY <1>1, <1>3, <1>5, <2>3, <3>1, <3>3 DEF HasLines
    <3> QED
      BY <3>2, <3>3
  <2>4. ASSUME NEW i \in PlainLines(s, b, k)
        PROVE  \E x \in 1..Len(r) : IsFilled(r, x) /\ r[x].line = i
    <3>1. CASE i = k
      BY <1>2, <1>4, <1>5, <3>1
    <3>2. CASE i \in PlainLines(s, b, j)
      <4>1. PICK x \in 1..Len(bs) : IsFilled(bs, x) /\ bs[x].line = i
        BY <1>1, <3>2 DEF HasLines
      <4> QED
        BY <1>3, <1>4, <1>5, <4>1
    <3> QED
      BY <1>8, <3>1, <3>2
  <2> QED
    BY <2>2, <2>3, <2>4 DEF HasLines
<1>14. Parents(r, d, s, b, k)
  <2>0. LastOf(bs, bs[c].parent, OpenAt(s, b, j))
    BY <1>1, <1>2 DEF Parents
  <2>1. LastOf(r, r[d].parent, OpenAt(s, b, k))
    <3>1. CASE op
      <4>1. r[d].parent = c /\ IsFilled(r, c) /\ r[c].line = k
        BY <1>2, <1>5, <3>1 DEF op
      <4>2. Greatest(OpenAt(s, b, k), k)
        BY <1>7, <1>9, <3>1 DEF Greatest
      <4> QED
        BY <4>1, <4>2 DEF LastOf, Greatest
    <3>2. CASE ~op
      BY <1>2, <1>3, <1>4, <1>6, <1>9, <2>0, <3>2, PointsKept
    <3> QED
      BY <3>1, <3>2
  <2>2. ASSUME NEW x \in 1..Len(r), IsFilled(r, x), r[x].kind \in Openers
        PROVE  LastOf(r, r[x].parent, OpenAt(s, b, r[x].line - 1))
    <3>1. CASE x = c
      <4>1. r[x].parent = bs[c].parent /\ r[x].line - 1 = j
        BY <1>2, <1>3, <1>7, <3>1
      <4> QED
        BY <1>6, <2>0, <4>1, PointsKept
    <3>2. CASE x # c
      <4>1. IsFilled(bs, x) /\ x \in 1..Len(bs) /\ bs[x].kind \in Openers
        BY <1>3, <1>5, <2>2, <3>2
      <4>2. LastOf(bs, bs[x].parent, OpenAt(s, b, bs[x].line - 1))
        BY <1>1, <4>1 DEF Parents
      <4> QED
        BY <1>3, <1>6, <3>2, <4>1, <4>2, PointsKept
    <3> QED
      BY <3>1, <3>2
  <2> QED
    BY <2>1, <2>2 DEF Parents
<1>15. ASSUME NEW p, NEW t, NEW i, t # k, i \in Nat, i < k,
              Points(bs, p, After(Mem(s, b, j, t), i), Tip(bs, c, t = here))
       PROVE  Points(r, p, After(Mem(s, b, k, t), i), 0)
  <2> DEFINE T == After(Mem(s, b, j, t), i)
  <2>1. After(Mem(s, b, k, t), i) = T \cup (IF t = here THEN {k} ELSE {})
    BY <1>8, <1>15 DEF After
  <2>2. T \subseteq (b + 1)..j
    BY <1>8 DEF After
  <2>3. CASE t # here
    <3>1. After(Mem(s, b, k, t), i) = After(Mem(s, b, j, t), i)
      BY <2>1, <2>3
    <3>2. Tip(bs, c, t = here) = 0
      BY <1>11, <2>3
    <3> QED
      BY ONLY <1>6, <1>15, <3>1, <3>2, PointsKept
  <2>4. CASE t = here /\ T = {}
    <3>1. p = c
      BY <1>11, <1>15, <2>4 DEF Points
    <3>2. Smallest({k}, k)
      BY <1>7 DEF Smallest
    <3> QED
      BY <1>5, <2>1, <2>4, <3>1, <3>2 DEF Points
  <2>5. CASE t = here /\ T # {}
    <3>1. IsFilled(bs, p) /\ Smallest(T, bs[p].line)
      BY <1>15, <2>5 DEF Points
    <3>2. IsFilled(r, p) /\ r[p].line = bs[p].line
      BY <1>6, <3>1 DEF Keeps
    <3>3. Smallest(T \cup {k}, bs[p].line)
      BY <1>7, <2>2, <3>1 DEF Smallest
    <3> QED
      BY <2>1, <2>5, <3>2, <3>3 DEF Points
  <2> QED
    BY <2>3, <2>4, <2>5
<1>16. \A t : After(Mem(s, b, j, t), 0) = Mem(s, b, j, t) /\ After(Mem(s, b, k, t), 0) = Mem(s, b, k, t)
  BY <1>7, <1>8 DEF After
<1>17. ASSUME NEW x \in 1..Len(r), IsFilled(r, x) PROVE NextOk(r, d, s, b, k, x)
  <2>1. CASE x = c
    <3>1. r[x].line = k /\ r[x].next = 0 /\ Cur(s, b, k - 1) = here
      BY <1>2, <1>3, <1>7, <2>1 DEF here
    <3>2. After(Mem(s, b, k, here), k) = {}
      <4>1. \A i \in Mem(s, b, k, here) : i \in Nat /\ i <= k
        BY <1>7, <1>8
      <4> QED
        BY <1>7, <4>1 DEF After
    <3>3. Tip(r, d, here = Cur(s, b, k)) = 0
      BY <1>7, <1>11
    <3> QED
      BY <3>1, <3>2, <3>3 DEF NextOk, Points
  <2>2. CASE x # c
    <3>1. IsFilled(bs, x) /\ x \in 1..Len(bs) /\ r[x].line = bs[x].line /\ r[x].next = bs[x].next
      BY <1>3, <1>5, <1>17, <2>2
    <3>2. PICK i : i = bs[x].line
      OBVIOUS
    <3>3. i \in (b + 1)..j /\ i - 1 \in Nat /\ b <= i - 1
      <4>1. Placed(bs, s, b, j, x)
        BY ONLY b \in Nat, j \in Nat, b <= j, <1>1, <3>1, <3>2, LineFacts
      <4> QED
        BY <4>1, <3>1, <3>2 DEF Placed
    <3>4. PICK t : t = Cur(s, b, i - 1)
      OBVIOUS
    <3>5. t # k /\ i \in Nat /\ i < k
      <4>1. Cur(s, b, i - 1) \in b..(i - 1)
        BY <3>3, CurBounds
      <4> QED
        BY <1>7, <3>3, <3>4, <4>1
    <3>6. Points(bs, bs[x].next, After(Mem(s, b, j, t), i), Tip(bs, c, t = here))
      BY <1>1, <3>1, <3>2, <3>4 DEF NextOk, here
    <3>7. Points(r, r[x].next, After(Mem(s, b, k, t), i), 0)
      BY <1>15, <3>1, <3>5, <3>6
    <3>8. Tip(r, d, t = Cur(s, b, k)) = 0
      BY <1>11, <3>5
    <3> QED
      BY <3>1, <3>2, <3>4, <3>7, <3>8 DEF NextOk
  <2> QED
    BY <2>1, <2>2
<1>18. ASSUME NEW x \in 1..Len(r), IsFilled(r, x), r[x].kind \in Openers, Whole(s, b, k, r[x].line)
       PROVE  SetsOk(r, d, s, b, k, x)
  <2>1. CASE x = c
    <3>1. r[x].line = k /\ op /\ r[x].children = n
      BY <1>2, <1>18, <2>1 DEF op
    <3>2. Mem(s, b, k, k) = {}
      BY <1>7, <1>8
    <3>3. Elses(s, b, k, k) = {}
      <4>1. \A e \in Elses(s, b, k, k) : e \in (b + 1)..k /\ k < e
        BY <1>7, ElsesType
      <4> QED
        BY <4>1
    <3>4. Tip(r, d, k = Cur(s, b, k)) = n
      BY <1>11, <3>1
    <3> QED
      BY <3>1, <3>2, <3>3, <3>4 DEF SetsOk, Points
  <2>2. CASE x # c
    <3>1. /\ IsFilled(bs, x) /\ x \in 1..Len(bs) /\ r[x].line = bs[x].line /\ r[x].children = bs[x].children
          /\ r[x].elseblock = bs[x].elseblock /\ bs[x].kind \in Openers
      BY <1>3, <1>5, <1>18, <2>2
    <3>2. PICK o : o = bs[x].line
      OBVIOUS
    <3>3. o \in (b + 1)..j /\ o # k
      <4>1. o \in (b + 1)..j
        <5>1. Placed(bs, s, b, j, x)
          BY ONLY b \in Nat, j \in Nat, b <= j, <1>1, <3>1, <3>2, LineFacts
        <5> QED
          BY <5>1, <3>1, <3>2 DEF Placed
      <4> QED
        BY <1>7, <4>1
    <3>4. Whole(s, b, j, o)
      <4>1. ASSUME NEW e \in Elses(s, b, j, o)
            PROVE  Elses(s, b, j, o) = {e} /\ (o \notin OpenAt(s, b, j) => Mem(s, b, j, e) # {})
        <5>1. Elses(s, b, j, o) = {e} /\ (o \notin OpenAt(s, b, k) => Mem(s, b, k, e) # {})
          BY <1>10, <1>18, <3>1, <3>2, <4>1 DEF Whole
        <5>2. ASSUME o \notin OpenAt(s, b, j) PROVE Mem(s, b, j, e) # {}
          <6>1. o \notin OpenAt(s, b, k)
            BY <1>9, <3>3, <5>2
          <6>2. e # here
            BY <4>1, <5>2, HereIs DEF here, Greatest
          <6> QED
            BY <1>8, <5>1, <6>1, <6>2
        <5> QED
          BY <5>1, <5>2
      <4> QED
        BY <4>1 DEF Whole
    <3>5. SetsOk(bs, c, s, b, j, x)
      BY <1>1, <3>1, <3>2, <3>4
    <3>6. ASSUME NEW p, NEW t, t # k, Points(bs, p, Mem(s, b, j, t), Tip(bs, c, t = here))
          PROVE  Points(r, p, Mem(s, b, k, t), Tip(r, d, t = Cur(s, b, k)))
      <4>1. Points(r, p, After(Mem(s, b, k, t), 0), 0)
        <5>1. 0 \in Nat /\ 0 < k
          BY <1>7
        <5> QED
          BY <1>15, <1>16, <3>6, <5>1
      <4> QED
        BY <1>11, <1>16, <3>6, <4>1
    <3>7. \A e \in Elses(s, b, j, o) : e # k
      <4>1. \A e \in Elses(s, b, j, o) : e \in (b + 1)..j
        BY ElsesType
      <4> QED
        BY <1>7, <4>1
    <3>8. Points(bs, bs[x].children, Mem(s, b, j, o), Tip(bs, c, o = here))
          /\ \A e \in Elses(s, b, j, o) : Points(bs, bs[x].elseblock, Mem(s, b, j, e), Tip(bs, c, e = here))
      BY <3>2, <3>5 DEF SetsOk, here
    <3>9. Points(r, r[x].children, Mem(s, b, k, o), Tip(r, d, o = Cur(s, b, k)))
      BY <3>1, <3>3, <3>6, <3>8
    <3>10. \A e \in Elses(s, b, k, o) : Points(r, r[x].elseblock, Mem(s, b, k, e), Tip(r, d, e = Cur(s, b, k)))
      BY <1>10, <3>1, <3>6, <3>7, <3>8
    <3> QED
      BY <3>1, <3>2, <3>9, <3>10 DEF SetsOk
  <2> QED
    BY <2>1, <2>2
<1>19. LastSet(r, d, s, b, k)
  <2>1. CASE op
    <3>1. Mem(s, b, k, k) = {} /\ Cur(s, b, k) = k /\ Fresh(r, d) /\ r[d].prev = 0
      BY <1>4, <1>7, <1>8, <1>9, <2>1 DEF op
    <3> QED
      BY <3>1 DEF LastSet, LastOf
  <2>2. CASE ~op
    <3>1. Cur(s, b, k) = here /\ ~Fresh(r, d) /\ d = c
      BY <1>4, <1>9, <2>2
    <3>2. Greatest(Mem(s, b, k, here), k)
      BY <1>7, <1>8 DEF Greatest
    <3> QED
      BY <1>5, <3>1, <3>2 DEF LastSet, LastOf, Greatest
  <2> QED
    BY <2>1, <2>2
<1> QED
  BY <1>12, <1>13, <1>14, <1>17, <1>18, <1>19 DEF BInv

(* An end or else that belongs to nothing.                                 *)
LEMMA Skip ==
    ASSUME NEW s, NEW b, NEW j, NEW bs, NEW c, BInv(bs, c, s, b, j), c # 0,
           NEW k, OpenAt(s, b, k) = OpenAt(s, b, j), Cur(s, b, k) = Cur(s, b, j),
           PlainLines(s, b, k) = PlainLines(s, b, j),
           \A t : Mem(s, b, k, t) = Mem(s, b, j, t),
           \A o : Elses(s, b, k, o) = Elses(s, b, j, o)
    PROVE  BInv(bs, c, s, b, k)
<1>1. /\ Shape(bs, c, b, j) /\ HasLines(bs, s, b, j) /\ Parents(bs, c, s, b, j) /\ LastSet(bs, c, s, b, j)
      /\ \A x \in 1..Len(bs) : IsFilled(bs, x) => NextOk(bs, c, s, b, j, x)
      /\ \A x \in 1..Len(bs) :
           IsFilled(bs, x) /\ bs[x].kind \in Openers /\ Whole(s, b, j, bs[x].line) => SetsOk(bs, c, s, b, j, x)
  BY DEF BInv
<1>2. Shape(bs, c, b, k)
  BY <1>1 DEF Shape
<1>3. HasLines(bs, s, b, k)
  BY <1>1 DEF HasLines
<1>4. Parents(bs, c, s, b, k) /\ LastSet(bs, c, s, b, k)
  BY <1>1 DEF Parents, LastSet
<1>5. \A x : NextOk(bs, c, s, b, j, x) => NextOk(bs, c, s, b, k, x)
  BY DEF NextOk
<1>6. \A o : Whole(s, b, k, o) => Whole(s, b, j, o)
  BY DEF Whole
<1>7. \A x : SetsOk(bs, c, s, b, j, x) => SetsOk(bs, c, s, b, k, x)
  BY DEF SetsOk
<1> QED
  BY <1>1, <1>2, <1>3, <1>4, <1>5, <1>6, <1>7 DEF BInv

(* The last block c is taken from its set, where it comes after block w or *)
(* is the first of block p.                                                *)
Unlinks(r, bs, w, p) ==
    \A x \in 1..Len(bs) : /\ r[x].next = IF x = w THEN 0 ELSE bs[x].next
                          /\ r[x].children = IF w = 0 /\ x = p THEN 0 ELSE bs[x].children

Unlinked(r, bs, c, s, b, j, w, p) ==
    LET here == Cur(s, b, j)
        o    == bs[p].line
    IN  /\ IsFilled(bs, p) /\ Greatest(OpenAt(s, b, j), o) /\ p # c /\ w # c
        /\ w = 0 <=> Mem(s, b, j, here) = {}
        /\ \A x : IsFilled(bs, x) =>
             LET i == bs[x].line IN
             Points(r, r[x].next, After(Mem(s, b, j, Cur(s, b, i - 1)), i), 0)
        /\ \A x : /\ IsFilled(bs, x) /\ bs[x].kind \in Openers /\ SetsOk(bs, c, s, b, j, x)
                  /\ bs[x].line = o /\ here # o => Mem(s, b, j, here) # {}
                  => Points(r, r[x].children, Mem(s, b, j, bs[x].line), 0)

LEMMA Cut ==
    ASSUME NEW s, NEW b \in Nat, NEW j \in Nat, b <= j, NEW bs, NEW c, BInv(bs, c, s, b, j),
           Fresh(bs, c), NEW p, p = bs[c].parent, p # 0, NEW w, w = bs[c].prev,
           NEW r, Keeps(r, bs), Unlinks(r, bs, w, p)
    PROVE  Unlinked(r, bs, c, s, b, j, w, p)
<1>0. PICK here, o : here = Cur(s, b, j) /\ o = bs[p].line
  OBVIOUS
<1>1. /\ Shape(bs, c, b, j) /\ HasLines(bs, s, b, j) /\ Parents(bs, c, s, b, j) /\ LastSet(bs, c, s, b, j)
      /\ \A x \in 1..Len(bs) : IsFilled(bs, x) => NextOk(bs, c, s, b, j, x)
  BY DEF BInv
<1>2. c # 0 /\ c \in 1..Len(bs) /\ ~IsFilled(bs, c) /\ 0 \notin 1..Len(bs)
  BY <1>1 DEF Shape, Fresh, IsFilled
<1>3. IsFilled(bs, p) /\ Greatest(OpenAt(s, b, j), o)
  BY <1>0, <1>1, <1>2 DEF Parents, LastOf
<1>4. LastOf(bs, w, Mem(s, b, j, here))
  BY <1>0, <1>1, <1>2 DEF LastSet
<1>5. w = 0 <=> Mem(s, b, j, here) = {}
  BY <1>2, <1>4 DEF LastOf, IsFilled
<1>6. p # c /\ w # c
  BY <1>2, <1>3, <1>4, <1>5 DEF LastOf
<1>7. \A t : Tip(bs, c, t = here) = IF t = here THEN c ELSE 0
  BY DEF Tip
<1>8. \A x : IsFilled(bs, x) => x \in 1..Len(bs)
  BY DEF IsFilled
<1>9. ASSUME NEW x, IsFilled(bs, x)
      PROVE  Points(r, r[x].next, After(Mem(s, b, j, Cur(s, b, bs[x].line - 1)), bs[x].line), 0)
  <2>1. PICK i : i = bs[x].line
    OBVIOUS
  <2>2. PICK t : t = Cur(s, b, i - 1)
    OBVIOUS
  <2>3. PICK T : T = After(Mem(s, b, j, t), i)
    OBVIOUS
  <2>4. Points(bs, bs[x].next, T, Tip(bs, c, t = here))
    BY <1>0, <1>1, <1>8, <1>9, <2>1, <2>2, <2>3 DEF NextOk
  <2>5. i \in (b + 1)..j /\ i \in Mem(s, b, j, t) /\ \A y : IsFilled(bs, y) /\ bs[y].line = i => y = x
    <3>1. Placed(bs, s, b, j, x)
      BY ONLY b \in Nat, j \in Nat, b <= j, <1>1, <1>9, <2>1, <2>2, LineFacts
    <3> QED
      BY <3>1, <1>9, <2>1, <2>2 DEF Placed
  <2>6. \A y \in Mem(s, b, j, t) : y \in Nat
    <3>1. \A y \in Mem(s, b, j, t) : y \in (b + 1)..j
      BY MemNext
    <3> QED
      BY <3>1
  <2>7. x = w => T = {}
    <3>1. ASSUME x = w PROVE T = {}
      <4>1. w # 0 /\ Greatest(Mem(s, b, j, here), i)
        BY <1>2, <1>4, <1>5, <1>8, <1>9, <2>1, <3>1 DEF LastOf
      <4>2. t = here
        BY <2>2, <4>1 DEF Greatest, Mem
      <4>3. \A y \in Mem(s, b, j, t) : ~(i < y)
        BY <2>5, <2>6, <4>1, <4>2 DEF Greatest
      <4> QED
        BY <2>3, <4>3 DEF After
    <3> QED
      BY <3>1
  <2>8. T = {} /\ t = here => x = w
    <3>1. ASSUME T = {}, t = here PROVE x = w
      <4>1. IsFilled(bs, w) /\ Greatest(Mem(s, b, j, t), bs[w].line)
        BY <1>4, <2>5, <3>1 DEF LastOf
      <4>2. ~(i < bs[w].line) /\ i <= bs[w].line /\ bs[w].line \in Nat /\ i \in Nat
        BY <2>3, <2>5, <2>6, <3>1, <4>1 DEF After, Greatest
      <4> QED
        BY <2>5, <4>1, <4>2
    <3> QED
      BY <3>1
  <2>9. r[x].next = IF x = w THEN 0 ELSE bs[x].next
    BY <1>8, <1>9 DEF Unlinks
  <2>10. Points(r, r[x].next, T, 0)
    <3>1. CASE T # {}
      <4>1. r[x].next = bs[x].next
        BY <2>7, <2>9, <3>1
      <4> QED
        BY ONLY Keeps(r, bs), <2>4, <3>1, <4>1, PointsKept
    <3>2. CASE T = {}
      <4>1. t # here => bs[x].next = 0
        BY <1>7, <2>4, <3>2 DEF Points
      <4>2. r[x].next = 0
        BY <2>8, <2>9, <3>2, <4>1
      <4> QED
        BY <3>2, <4>2 DEF Points
    <3> QED
      BY <3>1, <3>2
  <2> QED
    BY <2>1, <2>2, <2>3, <2>10
<1>10. ASSUME NEW x, IsFilled(bs, x), bs[x].kind \in Openers, SetsOk(bs, c, s, b, j, x),
              bs[x].line = o /\ here # o => Mem(s, b, j, here) # {}
       PROVE  Points(r, r[x].children, Mem(s, b, j, bs[x].line), 0)
  <2>1. PICK q : q = bs[x].line
    OBVIOUS
  <2>2. Points(bs, bs[x].children, Mem(s, b, j, q), Tip(bs, c, q = here))
    BY <1>0, <1>10, <2>1 DEF SetsOk
  <2>3. q \in (b + 1)..j /\ s[q].kind \in Openers /\ \A y : IsFilled(bs, y) /\ bs[y].line = q => y = x
    <3>1. /\ bs[x].line \in (b + 1)..j /\ bs[x].kind = s[bs[x].line].kind
          /\ \A y : IsFilled(bs, y) /\ bs[y].line = bs[x].line => y = x
      <4>1. Placed(bs, s, b, j, x)
        BY ONLY b \in Nat, j \in Nat, b <= j, <1>1, <1>10, LineFacts
      <4> QED
        BY <4>1, <1>10 DEF Placed
    <3> QED
      BY <1>10, <2>1, <3>1
  <2>4. q = here => q = o
    <3>1. ASSUME q = here PROVE q = o
      <4>1. Cur(s, b, j) # b /\ s[Cur(s, b, j)].kind \in Openers
        BY <1>0, <2>3, <3>1
      <4>2. Greatest(OpenAt(s, b, j), q)
        BY <1>0, <3>1, <4>1, HereIs
      <4>3. OpenAt(s, b, j) \subseteq 0..j
        BY OpenType
      <4>4. q \in 0..j /\ o \in 0..j /\ q <= o /\ o <= q
        BY <1>3, <4>2, <4>3 DEF Greatest
      <4> QED
        BY <4>4
    <3> QED
      BY <3>1
  <2>5. q = o <=> x = p
    BY <1>0, <1>3, <2>1, <2>3
  <2>6. r[x].children = IF w = 0 /\ x = p THEN 0 ELSE bs[x].children
    BY <1>8, <1>10 DEF Unlinks
  <2>7. CASE q # here
    <3>1. Tip(bs, c, q = here) = 0
      BY <1>7, <2>7
    <3>2. r[x].children = bs[x].children
      BY <1>5, <1>10, <2>1, <2>5, <2>6, <2>7
    <3> QED
      BY ONLY Keeps(r, bs), <2>1, <2>2, <3>1, <3>2, PointsKept
  <2>8. CASE q = here
    <3>1. CASE Mem(s, b, j, q) = {}
      BY <1>5, <2>1, <2>4, <2>5, <2>6, <2>8, <3>1 DEF Points
    <3>2. CASE Mem(s, b, j, q) # {}
      <4>1. r[x].children = bs[x].children
        BY <1>5, <2>6, <2>8, <3>2
      <4> QED
        BY ONLY Keeps(r, bs), <2>1, <2>2, <3>2, <4>1, PointsKept
    <3> QED
      BY <3>1, <3>2
  <2> QED
    BY <2>7, <2>8
<1> QED
  BY <1>0, <1>3, <1>5, <1>6, <1>9, <1>10 DEF Unlinked

(* What stays as a line without a statement is read.                       *)
LEMMA NoStatement ==
    ASSUME NEW s, NEW b \in Nat, NEW j \in Nat, b <= j, s[j + 1].kind \in {"end", "else"}
    PROVE  /\ \A t : Mem(s, b, j + 1, t) = Mem(s, b, j, t)
           /\ PlainLines(s, b, j + 1) = PlainLines(s, b, j)
           /\ s[j + 1].kind = "end" => \A o : Elses(s, b, j + 1, o) = Elses(s, b, j, o)
<1>1. ASSUME NEW t PROVE Mem(s, b, j + 1, t) = Mem(s, b, j, t)
  <2>1. Mem(s, b, j + 1, t) = Mem(s, b, j, t) \cup {}
    BY MemNext
  <2> QED
    BY <2>1
<1>2. \A i : i \in (b + 1)..(j + 1) <=> i \in (b + 1)..j \/ i = j + 1
  OBVIOUS
<1>3. PlainLines(s, b, j + 1) = PlainLines(s, b, j)
  BY <1>2 DEF PlainLines
<1>4. ASSUME s[j + 1].kind = "end", NEW o PROVE Elses(s, b, j + 1, o) = Elses(s, b, j, o)
  <2>1. Elses(s, b, j + 1, o) = Elses(s, b, j, o) \cup {}
    <3>1. s[j + 1].kind # "else"
      BY <1>4
    <3> QED
      BY ONLY b \in Nat, j \in Nat, b <= j, <3>1, ElsesNext
  <2> QED
    BY <2>1
<1> QED
  BY <1>1, <1>3, <1>4

(* end: the last block is thrown away, and its parent the last.            *)
LEMMA EndSet ==
    ASSUME NEW s, NEW b \in Nat, NEW j \in Nat, b <= j, NEW bs, NEW c, BInv(bs, c, s, b, j),
           Fresh(bs, c), NEW p, p = bs[c].parent, p # 0, NEW w, w = bs[c].prev,
           NEW k, k = j + 1, s[k].kind = "end",
           NEW r, Records(r, Links), Len(r) = Len(bs),
           SameBut(r, bs, 1..Len(bs), {"kind", "next", "children"}),
           r[c].kind = "freed", \A x \in 1..Len(bs) : x # c => r[x].kind = bs[x].kind,
           Unlinks(r, bs, w, p)
    PROVE  BInv(r, p, s, b, k)
<1>1. /\ Shape(bs, c, b, j) /\ HasLines(bs, s, b, j) /\ Parents(bs, c, s, b, j) /\ LastSet(bs, c, s, b, j)
      /\ \A x \in 1..Len(bs) : IsFilled(bs, x) => NextOk(bs, c, s, b, j, x)
      /\ \A x \in 1..Len(bs) :
           IsFilled(bs, x) /\ bs[x].kind \in Openers /\ Whole(s, b, j, bs[x].line) => SetsOk(bs, c, s, b, j, x)
  BY DEF BInv
<1>2. c # 0 /\ c \in 1..Len(bs) /\ bs[c].kind = "unfilled" /\ bs[c].next = 0
      /\ \A x \in 1..Len(bs) : bs[x].kind = "unfilled" => x = c
  BY <1>1 DEF Shape, Fresh
<1>3. \A x \in 1..Len(bs) : /\ r[x].line = bs[x].line /\ r[x].parent = bs[x].parent
                            /\ r[x].elseblock = bs[x].elseblock
  <2>1. ASSUME NEW x \in 1..Len(bs)
        PROVE  /\ r[x].line = bs[x].line /\ r[x].parent = bs[x].parent
               /\ r[x].elseblock = bs[x].elseblock
    <3>1. PICK F : F = {"kind", "next", "children"}
      OBVIOUS
    <3>2. "line" \notin F /\ "parent" \notin F /\ "elseblock" \notin F
      BY <3>1
    <3>3. SameBut(r, bs, 1..Len(bs), F)
      BY <3>1
    <3> QED
      BY ONLY <2>1, <3>2, <3>3, Field
  <2> QED
    BY <2>1
<1>4. \A x : IsFilled(r, x) <=> IsFilled(bs, x)
  BY <1>2 DEF IsFilled
<1>5. Keeps(r, bs) /\ \A x : IsFilled(bs, x) => x \in 1..Len(bs) /\ x # c
  BY <1>2, <1>3, <1>4 DEF Keeps, IsFilled
<1>6. PICK here : here = Cur(s, b, j)
  OBVIOUS
<1>7. PICK o : o = bs[p].line
  OBVIOUS
<1>8. /\ IsFilled(bs, p) /\ Greatest(OpenAt(s, b, j), o) /\ p # c /\ w # c
      /\ w = 0 <=> Mem(s, b, j, here) = {}
      /\ \A x : IsFilled(bs, x) =>
           LET i == bs[x].line IN
           Points(r, r[x].next, After(Mem(s, b, j, Cur(s, b, i - 1)), i), 0)
      /\ \A x : /\ IsFilled(bs, x) /\ bs[x].kind \in Openers /\ SetsOk(bs, c, s, b, j, x)
                /\ bs[x].line = o /\ here # o => Mem(s, b, j, here) # {}
                => Points(r, r[x].children, Mem(s, b, j, bs[x].line), 0)
  <2>1. Unlinked(r, bs, c, s, b, j, w, p)
    BY ONLY b \in Nat, j \in Nat, b <= j, BInv(bs, c, s, b, j), Fresh(bs, c), p = bs[c].parent, p # 0,
            w = bs[c].prev, Unlinks(r, bs, w, p), <1>5, Cut
  <2> QED
    BY <1>6, <1>7, <2>1 DEF Unlinked
<1>9. /\ \A t : Mem(s, b, k, t) = Mem(s, b, j, t)
      /\ PlainLines(s, b, k) = PlainLines(s, b, j)
      /\ \A q : Elses(s, b, k, q) = Elses(s, b, j, q)
  <2>1. s[j + 1].kind = "end" /\ s[j + 1].kind \in {"end", "else"}
    OBVIOUS
  <2>2. /\ \A t : Mem(s, b, j + 1, t) = Mem(s, b, j, t)
        /\ PlainLines(s, b, j + 1) = PlainLines(s, b, j)
        /\ \A q : Elses(s, b, j + 1, q) = Elses(s, b, j, q)
    BY ONLY b \in Nat, j \in Nat, b <= j, <2>1, NoStatement
  <2> QED
    BY ONLY <2>2, k = j + 1
<1>10. o \in OpenAt(s, b, j) /\ s[o].kind \in Openers /\ bs[p].kind \in Openers
       /\ o \in (b + 1)..j /\ o - 1 \in Nat /\ b <= o - 1 /\ o \in Mem(s, b, j, Cur(s, b, o - 1))
  <2>1. o \in OpenAt(s, b, j)
    BY <1>8 DEF Greatest
  <2>2. s[o].kind \in Openers
    BY <2>1, OpenType
  <2>0. HasLines(bs, s, b, j) /\ IsFilled(bs, p)
    BY ONLY <1>1, <1>8
  <2>3. /\ bs[p].line \in (b + 1)..j /\ bs[p].line - 1 \in Nat /\ b <= bs[p].line - 1
        /\ bs[p].line \in Mem(s, b, j, Cur(s, b, bs[p].line - 1))
        /\ bs[p].kind = s[bs[p].line].kind
        /\ \A y : IsFilled(bs, y) /\ bs[y].line = bs[p].line => y = p
        /\ \A y : IsFilled(bs, y) /\ bs[p].line < bs[y].line => p < y
    <3>1. Placed(bs, s, b, j, p)
      BY ONLY b \in Nat, j \in Nat, b <= j, <2>0, LineFacts
    <3> QED
      BY <3>1 DEF Placed
  <2> QED
    BY <1>7, <2>1, <2>2, <2>3
<1>11. OpenAt(s, b, k) = OpenAt(s, b, j) \ {o} /\ OpenAt(s, b, k) = OpenAt(s, b, o - 1)
       /\ Cur(s, b, k) = Cur(s, b, o - 1)
  <2>1. s[j + 1].kind = "end"
    OBVIOUS
  <2>2. OpenAt(s, b, j + 1) = OpenAt(s, b, j) \ {o}
    BY ONLY b \in Nat, j \in Nat, b <= j, <1>8, <2>1, OpenNext
  <2>3. Cur(s, b, j + 1) = Cur(s, b, o - 1)
    BY ONLY b \in Nat, j \in Nat, b <= j, <1>8, <2>1, CurNext
  <2>4. {q \in OpenAt(s, b, j) : q < o} = OpenAt(s, b, o - 1)
    BY ONLY b \in Nat, j \in Nat, b <= j, <1>10, OpenWithin
  <2>5. \A q \in OpenAt(s, b, j) : q # o <=> q < o
    <3>1. \A q \in OpenAt(s, b, j) : q \in (b + 1)..j /\ q <= o
      BY <1>8, OpenType DEF Greatest
    <3> QED
      BY <1>10, <3>1
  <2> QED
    BY <2>2, <2>3, <2>4, <2>5
<1>12. /\ r[p].kind = bs[p].kind /\ p \in 1..Len(bs) /\ ~Fresh(r, p) /\ p # 0
       /\ \A t : Tip(r, p, t) = 0
       /\ \A t : Tip(bs, c, t = here) = IF t = here THEN c ELSE 0
  BY <1>5, <1>8 DEF Fresh, Tip, IsFilled
<1>13. Shape(r, p, b, k)
  <2>1. r[p].kind # "freed" /\ p \in 0..Len(r)
    BY <1>8, <1>12 DEF IsFilled
  <2>2. ASSUME NEW x \in 1..Len(r)
        PROVE  r[x].kind # "unfilled" /\ (r[x].kind = "freed" => r[x].next = 0)
    BY <1>1, <1>2, <1>8 DEF Shape, Unlinks
  <2> QED
    BY <1>12, <2>1, <2>2 DEF Shape
<1>14. HasLines(r, s, b, k)
  BY <1>1, <1>3, <1>4, <1>5, <1>9 DEF HasLines
<1>15. Parents(r, p, s, b, k)
  <2>1. \A x : IsFilled(bs, x) /\ bs[x].kind \in Openers => LastOf(r, bs[x].parent, OpenAt(s, b, bs[x].line - 1))
    <3>1. \A x : IsFilled(bs, x) /\ bs[x].kind \in Openers => LastOf(bs, bs[x].parent, OpenAt(s, b, bs[x].line - 1))
      BY <1>1, <1>5 DEF Parents
    <3> QED
      BY <1>5, <3>1, PointsKept
  <2>2. LastOf(r, r[p].parent, OpenAt(s, b, k))
    BY <1>3, <1>7, <1>8, <1>10, <1>11, <1>12, <2>1
  <2>3. \A x \in 1..Len(r) : IsFilled(r, x) /\ r[x].kind \in Openers =>
          LastOf(r, r[x].parent, OpenAt(s, b, r[x].line - 1))
    BY <1>3, <1>4, <1>5, <2>1
  <2> QED
    BY <2>2, <2>3 DEF Parents
<1>16. ASSUME NEW x \in 1..Len(r), IsFilled(r, x) PROVE NextOk(r, p, s, b, k, x)
  <2>1. IsFilled(bs, x) /\ r[x].line = bs[x].line
    BY <1>3, <1>4, <1>16
  <2>2. Points(r, r[x].next, After(Mem(s, b, j, Cur(s, b, bs[x].line - 1)), bs[x].line), 0)
    BY <1>8, <2>1
  <2> QED
    BY <1>9, <1>12, <2>1, <2>2 DEF NextOk
<1>17. ASSUME NEW x \in 1..Len(r), IsFilled(r, x), r[x].kind \in Openers, Whole(s, b, k, r[x].line)
       PROVE  SetsOk(r, p, s, b, k, x)
  <2>1. /\ IsFilled(bs, x) /\ r[x].line = bs[x].line /\ bs[x].kind \in Openers /\ x \in 1..Len(bs)
        /\ r[x].elseblock = bs[x].elseblock
    BY <1>3, <1>4, <1>5, <1>17
  <2>2. PICK q : q = bs[x].line
    OBVIOUS
  <2>3. \A e \in Elses(s, b, j, q) :
          Elses(s, b, j, q) = {e} /\ (q \notin OpenAt(s, b, k) => Mem(s, b, j, e) # {})
    BY <1>9, <1>17, <2>1, <2>2 DEF Whole
  <2>4. SetsOk(bs, c, s, b, j, x)
    <3>1. Whole(s, b, j, q)
      BY <1>11, <2>3 DEF Whole
    <3> QED
      BY <1>1, <2>1, <2>2, <3>1
  <2>5. here \in Elses(s, b, j, q) => q = o /\ Mem(s, b, j, here) # {}
    <3>1. ASSUME here \in Elses(s, b, j, q) PROVE q = o
      <4>1. Greatest(OpenAt(s, b, j), q)
        BY <1>6, <3>1, HereIs
      <4>2. q \in 0..j /\ o \in 0..j /\ q <= o /\ o <= q
        BY <1>8, <4>1, OpenType DEF Greatest
      <4> QED
        BY <4>2
    <3> QED
      BY <1>11, <2>3, <3>1
  <2>6. Points(r, r[x].children, Mem(s, b, j, q), 0)
    <3>1. ASSUME q = o, here # o PROVE Mem(s, b, j, here) # {}
      <4>1. here \in Elses(s, b, j, o)
        BY <1>6, <1>8, <3>1, CurBounds
      <4> QED
        BY <2>5, <3>1, <4>1
    <3> QED
      BY <1>8, <2>1, <2>2, <2>4, <3>1
  <2>7. ASSUME NEW e \in Elses(s, b, j, q) PROVE Points(r, r[x].elseblock, Mem(s, b, j, e), 0)
    <3>1. Points(bs, bs[x].elseblock, Mem(s, b, j, e), Tip(bs, c, e = here))
      BY <1>6, <2>2, <2>4, <2>7 DEF SetsOk
    <3>2. Mem(s, b, j, e) # {} \/ Tip(bs, c, e = here) = 0
      BY <1>12, <2>5, <2>7
    <3>3. r[x].elseblock = bs[x].elseblock
      BY <2>1
    <3> QED
      BY ONLY <1>5, <3>1, <3>2, <3>3, PointsKept
  <2> QED
    BY <1>9, <1>12, <2>1, <2>2, <2>6, <2>7 DEF SetsOk
<1>18. LastSet(r, p, s, b, k)
  <2>1. PICK t : t = Cur(s, b, o - 1)
    OBVIOUS
  <2>2. t <= o - 1 /\ t \in Nat
    <3>1. Cur(s, b, o - 1) \in b..(o - 1)
      BY <1>10, CurBounds
    <3> QED
      BY <1>10, <2>1, <3>1
  <2>3. ASSUME NEW i \in Mem(s, b, j, t) PROVE i <= o
    <3>1. i \in (b + 1)..j
      BY MemNext
    <3>2. i > o => o <= t
      BY ONLY b \in Nat, j \in Nat, b <= j, <1>10, <2>3, MemNext
    <3> QED
      BY <1>10, <2>2, <3>1, <3>2
  <2>4. Greatest(Mem(s, b, k, t), o)
    BY <1>9, <1>10, <2>1, <2>3 DEF Greatest
  <2>5. IsFilled(r, p) /\ r[p].line = o
    BY <1>3, <1>4, <1>7, <1>8, <1>12
  <2> QED
    BY <1>11, <1>12, <2>1, <2>4, <2>5 DEF LastSet, LastOf, Greatest
<1> QED
  BY <1>13, <1>14, <1>15, <1>16, <1>17, <1>18 DEF BInv
(* else: the last block becomes the first of the second set.               *)
LEMMA SecondSet ==
    ASSUME NEW s, NEW b \in Nat, NEW j \in Nat, b <= j, NEW bs, NEW c, BInv(bs, c, s, b, j),
           Fresh(bs, c), NEW p, p = bs[c].parent, p # 0, bs[p].kind = "if", NEW w, w = bs[c].prev,
           NEW k, k = j + 1, s[k].kind = "else",
           NEW r, Records(r, Links), Len(r) = Len(bs),
           SameBut(r, bs, 1..Len(bs), {"prev", "next", "children", "elseblock"}),
           r[c].prev = 0,
           Unlinks(r, bs, w, p),
           \A x \in 1..Len(bs) : r[x].elseblock = IF x = p THEN c ELSE bs[x].elseblock
    PROVE  BInv(r, c, s, b, k)
<1>1. /\ Shape(bs, c, b, j) /\ HasLines(bs, s, b, j) /\ Parents(bs, c, s, b, j) /\ LastSet(bs, c, s, b, j)
      /\ \A x \in 1..Len(bs) : IsFilled(bs, x) => NextOk(bs, c, s, b, j, x)
      /\ \A x \in 1..Len(bs) :
           IsFilled(bs, x) /\ bs[x].kind \in Openers /\ Whole(s, b, j, bs[x].line) => SetsOk(bs, c, s, b, j, x)
  BY DEF BInv
<1>2. c # 0 /\ c \in 1..Len(bs) /\ bs[c].kind = "unfilled"
  BY <1>1 DEF Shape, Fresh
<1>3. \A x \in 1..Len(bs) : r[x].kind = bs[x].kind /\ r[x].line = bs[x].line /\ r[x].parent = bs[x].parent
  <2>1. ASSUME NEW x \in 1..Len(bs)
        PROVE  r[x].kind = bs[x].kind /\ r[x].line = bs[x].line /\ r[x].parent = bs[x].parent
    <3>1. PICK F : F = {"prev", "next", "children", "elseblock"}
      OBVIOUS
    <3>2. "kind" \notin F /\ "line" \notin F /\ "parent" \notin F
      BY <3>1
    <3>3. SameBut(r, bs, 1..Len(bs), F)
      BY <3>1
    <3> QED
      BY ONLY <2>1, <3>2, <3>3, Field
  <2> QED
    BY <2>1
<1>4. \A x : IsFilled(r, x) <=> IsFilled(bs, x)
  BY <1>3 DEF IsFilled
<1>5. Keeps(r, bs) /\ Fresh(r, c) /\ \A x : IsFilled(bs, x) => x \in 1..Len(bs)
  BY <1>2, <1>3, <1>4 DEF Keeps, IsFilled, Fresh
<1>6. PICK here : here = Cur(s, b, j)
  OBVIOUS
<1>7. PICK o : o = bs[p].line
  OBVIOUS
<1>8. /\ IsFilled(bs, p) /\ Greatest(OpenAt(s, b, j), o) /\ p # c /\ w # c
      /\ w = 0 <=> Mem(s, b, j, here) = {}
      /\ \A x : IsFilled(bs, x) =>
           LET i == bs[x].line IN
           Points(r, r[x].next, After(Mem(s, b, j, Cur(s, b, i - 1)), i), 0)
      /\ \A x : /\ IsFilled(bs, x) /\ bs[x].kind \in Openers /\ SetsOk(bs, c, s, b, j, x)
                /\ bs[x].line = o /\ here # o => Mem(s, b, j, here) # {}
                => Points(r, r[x].children, Mem(s, b, j, bs[x].line), 0)
  <2>1. Unlinked(r, bs, c, s, b, j, w, p)
    BY ONLY b \in Nat, j \in Nat, b <= j, BInv(bs, c, s, b, j), Fresh(bs, c), p = bs[c].parent, p # 0,
            w = bs[c].prev, Unlinks(r, bs, w, p), <1>5, Cut
  <2> QED
    BY <1>6, <1>7, <2>1 DEF Unlinked
<1>9. /\ \A t : Mem(s, b, k, t) = Mem(s, b, j, t)
      /\ PlainLines(s, b, k) = PlainLines(s, b, j)
  <2>1. s[j + 1].kind \in {"end", "else"}
    OBVIOUS
  <2>2. /\ \A t : Mem(s, b, j + 1, t) = Mem(s, b, j, t)
        /\ PlainLines(s, b, j + 1) = PlainLines(s, b, j)
    BY ONLY b \in Nat, j \in Nat, b <= j, <2>1, NoStatement
  <2> QED
    BY ONLY <2>2, k = j + 1
<1>10. o \in (b + 1)..j /\ s[o].kind = "if" /\ \A x : IsFilled(bs, x) /\ bs[x].line = o => x = p
  <2>0. HasLines(bs, s, b, j) /\ IsFilled(bs, p)
    BY ONLY <1>1, <1>8
  <2>1. /\ bs[p].line \in (b + 1)..j /\ bs[p].kind = s[bs[p].line].kind
        /\ \A x : IsFilled(bs, x) /\ bs[x].line = bs[p].line => x = p
    <3>1. Placed(bs, s, b, j, p)
      BY ONLY b \in Nat, j \in Nat, b <= j, <2>0, LineFacts
    <3> QED
      BY <3>1 DEF Placed
  <2> QED
    BY <1>7, <2>1
<1>11. /\ OpenAt(s, b, k) = OpenAt(s, b, j) /\ Cur(s, b, k) = k
       /\ \A q : Elses(s, b, k, q) = Elses(s, b, j, q) \cup (IF q = o THEN {k} ELSE {})
  <2>1. s[j + 1].kind = "else" /\ s[j + 1].kind \notin Openers \cup {"end"}
    BY DEF Openers, Loops
  <2>2. OpenAt(s, b, j + 1) = OpenAt(s, b, j)
    BY ONLY b \in Nat, j \in Nat, b <= j, <2>1, OpenNext
  <2>3. Cur(s, b, j + 1) = j + 1
    <3>1. ElseOf(s, b, j, o)
      BY <1>8, <1>10, <2>1 DEF ElseOf
    <3> QED
      BY ONLY b \in Nat, j \in Nat, b <= j, <3>1, CurNext
  <2>4. ASSUME NEW q PROVE Elses(s, b, j + 1, q) = Elses(s, b, j, q) \cup (IF q = o THEN {j + 1} ELSE {})
    <3>1. Greatest(OpenAt(s, b, j), q) <=> q = o
      <4>1. OpenAt(s, b, j) \subseteq 0..j
        BY OpenType
      <4>2. ASSUME Greatest(OpenAt(s, b, j), q) PROVE q = o
        <5>1. q \in 0..j /\ o \in 0..j /\ q <= o /\ o <= q
          BY <1>8, <4>1, <4>2 DEF Greatest
        <5> QED
          BY <5>1
      <4> QED
        BY <1>8, <4>2
    <3>2. s[j + 1].kind = "else" /\ s[q].kind = "if" /\ Greatest(OpenAt(s, b, j), q) <=> q = o
      BY <1>10, <2>1, <3>1
    <3>3. Elses(s, b, j + 1, q) =
            Elses(s, b, j, q)
            \cup (IF s[j + 1].kind = "else" /\ s[q].kind = "if" /\ Greatest(OpenAt(s, b, j), q)
                  THEN {j + 1} ELSE {})
      BY ONLY b \in Nat, j \in Nat, b <= j, ElsesNext
    <3> QED
      BY <3>2, <3>3
  <2> QED
    BY <2>2, <2>3, <2>4
<1>12. /\ k \in Nat /\ (\A i \in b..j : i # k) /\ here \in b..j
       /\ \A t : Tip(r, c, t = Cur(s, b, k)) = IF t = k THEN c ELSE 0
       /\ \A t : Tip(bs, c, t = here) = IF t = here THEN c ELSE 0
  <2>1. here \in b..j
    BY <1>6, CurBounds
  <2>2. k \in Nat /\ \A i \in b..j : i # k
    OBVIOUS
  <2>3. \A t : Tip(r, c, t = Cur(s, b, k)) = IF t = k THEN c ELSE 0
    BY <1>5, <1>11 DEF Tip
  <2>4. \A t : Tip(bs, c, t = here) = IF t = here THEN c ELSE 0
    BY DEF Tip
  <2> QED
    BY <2>1, <2>2, <2>3, <2>4
<1>13. Shape(r, c, b, k)
  <2>1. r[c].kind # "freed" /\ c \in 0..Len(r)
    BY <1>1, <1>2, <1>3 DEF Shape
  <2>2. ASSUME NEW x \in 1..Len(r)
        PROVE  /\ r[x].kind = "freed" => r[x].next = 0
               /\ r[x].kind = "unfilled" =>
                    x = c /\ c = Len(r) /\ r[x].next = 0 /\ r[x].children = 0 /\ r[x].elseblock = 0
    <3>1. /\ bs[x].kind = "freed" => bs[x].next = 0
          /\ bs[x].kind = "unfilled" =>
               x = c /\ c = Len(bs) /\ bs[x].next = 0 /\ bs[x].children = 0 /\ bs[x].elseblock = 0
      BY <1>1 DEF Shape
    <3>2. r[x].kind = bs[x].kind /\ r[x].next \in {0, bs[x].next} /\ r[x].children \in {0, bs[x].children}
      BY <1>3 DEF Unlinks
    <3>3. x # p => r[x].elseblock = bs[x].elseblock
      OBVIOUS
    <3> QED
      BY <1>8, <3>1, <3>2, <3>3
  <2> QED
    BY <1>2, <2>1, <2>2 DEF Shape
<1>14. HasLines(r, s, b, k)
  BY <1>1, <1>3, <1>4, <1>5, <1>9 DEF HasLines
<1>15. Parents(r, c, s, b, k)
  <2>1. LastOf(r, bs[c].parent, OpenAt(s, b, j))
    BY <1>1, <1>2, <1>5, PointsKept DEF Parents
  <2>2. \A x : IsFilled(bs, x) /\ bs[x].kind \in Openers => LastOf(r, bs[x].parent, OpenAt(s, b, bs[x].line - 1))
    <3>1. \A x : IsFilled(bs, x) /\ bs[x].kind \in Openers => LastOf(bs, bs[x].parent, OpenAt(s, b, bs[x].line - 1))
      BY <1>1, <1>5 DEF Parents
    <3> QED
      BY <1>5, <3>1, PointsKept
  <2>3. \A x \in 1..Len(r) : IsFilled(r, x) /\ r[x].kind \in Openers =>
          LastOf(r, r[x].parent, OpenAt(s, b, r[x].line - 1))
    BY <1>3, <1>4, <1>5, <2>2
  <2> QED
    BY <1>2, <1>3, <1>11, <2>1, <2>3 DEF Parents
<1>16. ASSUME NEW x \in 1..Len(r), IsFilled(r, x) PROVE NextOk(r, c, s, b, k, x)
  <2>1. IsFilled(bs, x) /\ r[x].line = bs[x].line
    BY <1>3, <1>4, <1>16
  <2>2. Points(r, r[x].next, After(Mem(s, b, j, Cur(s, b, bs[x].line - 1)), bs[x].line), 0)
    BY <1>8, <2>1
  <2>3. Cur(s, b, bs[x].line - 1) # k
    <3>1. bs[x].line \in (b + 1)..j /\ bs[x].line - 1 \in Nat /\ b <= bs[x].line - 1
      <4>1. Placed(bs, s, b, j, x)
        BY ONLY b \in Nat, j \in Nat, b <= j, <1>1, <2>1, LineFacts
      <4> QED
        BY <4>1, <2>1 DEF Placed
    <3>2. Cur(s, b, bs[x].line - 1) \in b..(bs[x].line - 1)
      BY ONLY b \in Nat, <3>1, CurBounds
    <3> QED
      BY <3>1, <3>2
  <2>4. PICK t : t = Cur(s, b, bs[x].line - 1)
    OBVIOUS
  <2>5. Tip(r, c, t = Cur(s, b, k)) = 0
    BY <1>12, <2>3, <2>4
  <2>6. Points(r, r[x].next, After(Mem(s, b, k, t), bs[x].line), Tip(r, c, t = Cur(s, b, k)))
    BY <1>9, <2>2, <2>4, <2>5
  <2> QED
    BY <2>1, <2>4, <2>6 DEF NextOk
<1>17. ASSUME NEW x \in 1..Len(r), IsFilled(r, x), r[x].kind \in Openers, Whole(s, b, k, r[x].line)
       PROVE  SetsOk(r, c, s, b, k, x)
  <2>1. IsFilled(bs, x) /\ r[x].line = bs[x].line /\ bs[x].kind \in Openers /\ x \in 1..Len(bs)
    BY <1>3, <1>4, <1>5, <1>17
  <2>2. PICK q : q = bs[x].line
    OBVIOUS
  <2>3. q \in (b + 1)..j /\ q # k /\ (q = o <=> x = p)
    <3>1. bs[x].line \in (b + 1)..j
      <4>1. Placed(bs, s, b, j, x)
        BY ONLY b \in Nat, j \in Nat, b <= j, <1>1, <2>1, LineFacts
      <4> QED
        BY <4>1, <2>1 DEF Placed
    <3> QED
      BY <1>7, <1>10, <1>12, <2>1, <2>2, <3>1
  <2>4. \A e \in Elses(s, b, j, q) : e \in (b + 1)..j /\ e # k
    <3>1. \A e \in Elses(s, b, j, q) : e \in (b + 1)..j
      BY ElsesType
    <3> QED
      BY <1>12, <3>1
  <2>5. \A e \in Elses(s, b, k, q) :
          Elses(s, b, k, q) = {e} /\ (q \notin OpenAt(s, b, k) => Mem(s, b, k, e) # {})
    BY <1>17, <2>1, <2>2 DEF Whole
  <2>6. q = o => Elses(s, b, j, q) = {} /\ Elses(s, b, k, q) = {k}
    <3>1. ASSUME q = o PROVE Elses(s, b, k, q) = {k}
      BY <1>11, <2>5, <3>1
    <3> QED
      BY <1>11, <2>4, <3>1
  <2>7. q # o => Elses(s, b, k, q) = Elses(s, b, j, q)
    BY <1>11
  <2>8. SetsOk(bs, c, s, b, j, x)
    <3>1. Whole(s, b, j, q)
      BY <1>9, <1>11, <2>5, <2>6, <2>7 DEF Whole
    <3> QED
      BY <1>1, <2>1, <2>2, <3>1
  <2>9. Points(r, r[x].children, Mem(s, b, j, q), 0)
    <3>1. q = o => here = o
      BY <1>6, <1>8, <2>6, CurBounds
    <3> QED
      BY <1>8, <2>1, <2>2, <2>8, <3>1
  <2>10. ASSUME NEW e \in Elses(s, b, k, q)
         PROVE  Points(r, r[x].elseblock, Mem(s, b, j, e), IF e = k THEN c ELSE 0)
    <3>1. CASE q = o
      <4>1. e = k /\ r[x].elseblock = c
        BY <2>1, <2>3, <2>6, <2>10, <3>1
      <4>2. Mem(s, b, j, k) = {}
        <5>1. \A i \in Mem(s, b, j, k) : i \in (b + 1)..j /\ k \in b..(i - 1)
          BY <1>12, MemNext
        <5>2. \A i \in (b + 1)..j : k \notin b..(i - 1)
          OBVIOUS
        <5> QED
          BY <5>1, <5>2
      <4> QED
        BY <4>1, <4>2 DEF Points
    <3>2. CASE q # o
      <4>1. e \in Elses(s, b, j, q) /\ e # k /\ r[x].elseblock = bs[x].elseblock
        BY <2>1, <2>3, <2>4, <2>7, <2>10, <3>2
      <4>2. Points(bs, bs[x].elseblock, Mem(s, b, j, e), Tip(bs, c, e = here))
        BY <1>6, <2>2, <2>8, <4>1 DEF SetsOk
      <4>3. e # here
        <5>1. ASSUME e = here PROVE FALSE
          <6>1. Greatest(OpenAt(s, b, j), q)
            BY <1>6, <4>1, <5>1, HereIs
          <6>2. q \in 0..j /\ o \in 0..j /\ q <= o /\ o <= q
            BY <1>8, <6>1, OpenType DEF Greatest
          <6> QED
            BY <3>2, <6>2
        <5> QED
          BY <5>1
      <4>4. Tip(bs, c, e = here) = 0
        BY <1>12, <4>3
      <4>5. Points(r, r[x].elseblock, Mem(s, b, j, e), 0)
        BY ONLY <1>5, <4>1, <4>2, <4>4, PointsKept
      <4> QED
        BY <4>1, <4>5
    <3> QED
      BY <3>1, <3>2
  <2>11. Points(r, r[x].children, Mem(s, b, k, q), Tip(r, c, q = Cur(s, b, k)))
    BY <1>9, <1>12, <2>3, <2>9
  <2>12. \A e \in Elses(s, b, k, q) : Points(r, r[x].elseblock, Mem(s, b, k, e), Tip(r, c, e = Cur(s, b, k)))
    <3>1. ASSUME NEW e \in Elses(s, b, k, q)
          PROVE  Points(r, r[x].elseblock, Mem(s, b, k, e), Tip(r, c, e = Cur(s, b, k)))
      <4>1. Points(r, r[x].elseblock, Mem(s, b, j, e), IF e = k THEN c ELSE 0)
        BY <2>10, <3>1
      <4>2. Mem(s, b, k, e) = Mem(s, b, j, e) /\ Tip(r, c, e = Cur(s, b, k)) = IF e = k THEN c ELSE 0
        BY <1>9, <1>12
      <4> QED
        BY ONLY <4>1, <4>2
    <3> QED
      BY <3>1
  <2> QED
    BY <2>1, <2>2, <2>11, <2>12 DEF SetsOk
<1>18. LastSet(r, c, s, b, k)
  <2>1. Mem(s, b, k, k) = {}
    <3>1. \A i \in Mem(s, b, j, k) : i \in (b + 1)..j /\ k \in b..(i - 1)
      BY <1>12, MemNext
    <3>2. \A i \in (b + 1)..j : k \notin b..(i - 1)
      OBVIOUS
    <3> QED
      BY <1>9, <3>1, <3>2
  <2> QED
    BY <1>5, <1>11, <2>1 DEF LastSet, LastOf
<1> QED
  BY <1>13, <1>14, <1>15, <1>16, <1>17, <1>18 DEF BInv

(* A script's lines, and how far it is read.                               *)
Read ==
    /\ script \in Seq(Line) /\ base \in Nat /\ read \in Nat /\ base <= read /\ read <= Len(script)

(* Nothing is read yet, or all is forgotten.                               *)
LEMMA NoBlocks ==
    ASSUME NEW s, NEW b \in Nat
    PROVE  BInv(<<>>, 0, s, b, b)
<1>1. Len(<<>>) = 0 /\ <<>> \in Seq(Elements(<<>>)) /\ 1..0 = {}
  BY EmptySeq
<1>2. (b + 1)..b = {}
  OBVIOUS
<1>3. PlainLines(s, b, b) = {}
  BY <1>2 DEF PlainLines
<1>4. Shape(<<>>, 0, b, b)
  BY <1>1 DEF Shape, Records
<1>5. HasLines(<<>>, s, b, b) /\ Parents(<<>>, 0, s, b, b) /\ LastSet(<<>>, 0, s, b, b)
  BY <1>1, <1>3 DEF HasLines, Parents, LastSet
<1> QED
  BY <1>1, <1>4, <1>5 DEF BInv

(* The very first block.                                                   *)
LEMMA FirstBlock ==
    ASSUME NEW s, NEW b \in Nat, NEW r, Records(r, Links), Len(r) = 1,
           r[1].kind = "unfilled", r[1].parent = 0, r[1].prev = 0,
           r[1].next = 0, r[1].children = 0, r[1].elseblock = 0
    PROVE  BInv(r, 1, s, b, b)
<1>1. (b + 1)..b = {} /\ 1..1 = {1} /\ 1 \in 0..1
  OBVIOUS
<1>2. PlainLines(s, b, b) = {} /\ OpenAt(s, b, b) = {} /\ \A t : Mem(s, b, b, t) = {}
  BY <1>1 DEF PlainLines, OpenAt, Mem
<1>3. \A x : ~IsFilled(r, x)
  BY <1>1 DEF IsFilled
<1>4. Shape(r, 1, b, b)
  BY <1>1 DEF Shape
<1>5. HasLines(r, s, b, b) /\ Parents(r, 1, s, b, b) /\ LastSet(r, 1, s, b, b)
  BY <1>1, <1>2, <1>3 DEF HasLines, Parents, LastSet, LastOf, Fresh
<1> QED
  BY <1>3, <1>4, <1>5 DEF BInv

(* Each line begins with a block to fill.                                  *)
LEMMA Allocates ==
    ASSUME Read, BlocksInv
    PROVE  BInv(Allocate.bs, Allocate.c, script, base, read) /\ Fresh(Allocate.bs, Allocate.c)
<1>1. base \in Nat /\ read \in Nat /\ base <= read /\ BInv(blocks, cend, script, base, read)
  BY DEF Read, BlocksInv
<1>2. Shape(blocks, cend, base, read) /\ LastSet(blocks, cend, script, base, read)
  BY <1>1 DEF BInv
<1>3. CASE cend = 0
  <2>1. PICK r : r = Append(<<>>, Unfilled(0, 0))
    OBVIOUS
  <2>2. Allocate.bs = r /\ Allocate.c = 1
    BY <1>3, <2>1 DEF Allocate
  <2>3. read = base
    BY <1>2, <1>3 DEF Shape
  <2>4. Records(<<>>, Links) /\ Len(<<>>) + 1 = 1
    BY EmptySeq DEF Records
  <2>5. /\ Records(r, Links) /\ Len(r) = 1
        /\ r[1].kind = "unfilled" /\ r[1].parent = 0 /\ r[1].prev = 0
        /\ r[1].next = 0 /\ r[1].children = 0 /\ r[1].elseblock = 0
    <3>1. Added(r, <<>>, 0, 0)
      BY ONLY <2>1, <2>4, AddBlock
    <3> QED
      BY <2>4, <3>1 DEF Added
  <2>6. BInv(r, 1, script, base, base)
    BY <1>1, <2>5, FirstBlock
  <2> QED
    BY <2>2, <2>3, <2>5, <2>6 DEF Fresh
<1>4. CASE cend # 0 /\ blocks[cend].kind = "unfilled"
  <2>1. Allocate.bs = blocks /\ Allocate.c = cend
    BY <1>4 DEF Allocate
  <2> QED
    BY <1>1, <1>4, <2>1 DEF Fresh
<1>5. CASE cend # 0 /\ blocks[cend].kind # "unfilled"
  <2>0. cend \in 1..Len(blocks) /\ Records(blocks, Links)
    BY <1>2, <1>5 DEF Shape
  <2>1. PICK bs, c : bs = blocks /\ c = cend
    OBVIOUS
  <2>2. PICK n : n = Len(bs) + 1
    OBVIOUS
  <2>3. PICK q : q = [bs EXCEPT ![c].next = n]
    OBVIOUS
  <2>4. PICK r : r = Append(q, Unfilled(bs[c].parent, c))
    OBVIOUS
  <2>5. /\ Records(q, Links) /\ Len(q) = Len(bs) /\ Len(bs) \in Nat /\ q[c]["next"] = n
        /\ SameBut(q, bs, {c}, {"next"})
    <3>1. Records(bs, Links) /\ c \in 1..Len(bs) /\ "next" \in Links
      BY <2>0, <2>1 DEF Links
    <3>2. PICK f : f = "next"
      OBVIOUS
    <3>3. q = [bs EXCEPT ![c] = [@ EXCEPT ![f] = n]]
      BY <2>3, <3>2
    <3>4. Set(q, bs, c, f, n)
      BY ONLY <3>1, <3>2, <3>3, SetField
    <3> QED
      BY <3>2, <3>4 DEF Set
  <2>6. /\ Records(r, Links) /\ Len(r) = n
        /\ r[n].kind = "unfilled" /\ r[n].parent = bs[c].parent /\ r[n].prev = c
        /\ r[n].next = 0 /\ r[n].children = 0 /\ r[n].elseblock = 0
        /\ SameBut(r, q, {}, {})
    <3>1. Added(r, q, bs[c].parent, c)
      BY ONLY <2>4, <2>5, AddBlock
    <3> QED
      BY <2>2, <2>5, <3>1 DEF Added
  <2>7. SameBut(r, bs, {c}, {"next"}) /\ r[c].next = n
    <3>1. \A x \in 1..Len(bs), g \in Links : r[x][g] = q[x][g]
      BY <2>5, <2>6 DEF SameBut
    <3>2. c \in 1..Len(bs) /\ "next" \in Links
      BY <2>0, <2>1 DEF Links
    <3>3. SameBut(r, bs, {c}, {"next"})
      BY <2>5, <3>1 DEF SameBut
    <3>4. r[c]["next"] = n
      BY <2>5, <3>1, <3>2
    <3> QED
      BY <3>3, <3>4
  <2>8. Allocate.bs = r /\ Allocate.c = n
    BY <1>5, <2>1, <2>2, <2>3, <2>4 DEF Allocate
  <2>9. BInv(r, n, script, base, read)
    <3>1. BInv(bs, c, script, base, read) /\ c # 0 /\ bs[c].kind # "unfilled"
      BY <1>1, <1>5, <2>1
    <3>2. Len(bs) \in Nat
      BY <2>5
    <3> QED
      BY ONLY <1>1, <2>2, <2>6, <2>7, <3>1, <3>2, Attach
  <2> QED
    BY <2>2, <2>5, <2>6, <2>8, <2>9 DEF Fresh
<1> QED
  BY <1>3, <1>4, <1>5

(* An assignment to one field.                                             *)
LEMMA SetOnce ==
    ASSUME NEW bs, Records(bs, Links), NEW c \in 1..Len(bs), NEW v
    PROVE  /\ Set([bs EXCEPT ![c].kind = v], bs, c, "kind", v)
           /\ Set([bs EXCEPT ![c].arg = v], bs, c, "arg", v)
           /\ Set([bs EXCEPT ![c].line = v], bs, c, "line", v)
           /\ Set([bs EXCEPT ![c].prev = v], bs, c, "prev", v)
           /\ Set([bs EXCEPT ![c].next = v], bs, c, "next", v)
           /\ Set([bs EXCEPT ![c].children = v], bs, c, "children", v)
           /\ Set([bs EXCEPT ![c].elseblock = v], bs, c, "elseblock", v)
<1>1. \A f \in Links : Set([bs EXCEPT ![c] = [@ EXCEPT ![f] = v]], bs, c, f, v)
  BY SetField
<1>2. /\ "kind" \in Links /\ "arg" \in Links /\ "line" \in Links /\ "prev" \in Links
      /\ "next" \in Links /\ "children" \in Links /\ "elseblock" \in Links
  BY DEF Links
<1> QED
  BY <1>1, <1>2

(* What a line puts into its block.                                        *)
LEMMA FillsLine ==
    ASSUME NEW bs, Records(bs, Links), NEW c \in 1..Len(bs), NEW line, NEW r, r = Filled(bs, c, line)
    PROVE  /\ Records(r, Links) /\ Len(r) = Len(bs) /\ Len(bs) \in Nat
           /\ SameBut(r, bs, {c}, {"kind", "arg", "line"})
           /\ r[c].kind = line.kind /\ r[c].line = read + 1
<1>1. PICK q : q = [bs EXCEPT ![c].kind = line.kind]
  OBVIOUS
<1>2. PICK p : p = [q EXCEPT ![c].arg = line.arg]
  OBVIOUS
<1>3. r = [p EXCEPT ![c].line = read + 1]
  BY <1>1, <1>2 DEF Filled
<1>4. Set(q, bs, c, "kind", line.kind)
  BY <1>1, SetOnce
<1>5. Set(p, q, c, "arg", line.arg)
  <2>1. Records(q, Links) /\ c \in 1..Len(q)
    BY <1>4 DEF Set
  <2> QED
    BY ONLY <1>2, <2>1, SetOnce
<1>6. Set(r, p, c, "line", read + 1)
  <2>1. Records(p, Links) /\ c \in 1..Len(p)
    BY <1>4, <1>5 DEF Set
  <2> QED
    BY ONLY <1>3, <2>1, SetOnce
<1>7. Len(q) = Len(bs) /\ Len(p) = Len(bs) /\ Len(r) = Len(bs) /\ Records(r, Links) /\ Len(bs) \in Nat
  BY <1>4, <1>5, <1>6 DEF Set
<1>8. /\ "kind" \in Links /\ "arg" \in Links /\ "line" \in Links
  BY DEF Links
<1>9. /\ \A x \in 1..Len(bs), g \in Links : x # c \/ g # "kind" => q[x][g] = bs[x][g]
      /\ \A x \in 1..Len(bs), g \in Links : x # c \/ g # "arg" => p[x][g] = q[x][g]
      /\ \A x \in 1..Len(bs), g \in Links : x # c \/ g # "line" => r[x][g] = p[x][g]
  BY <1>4, <1>5, <1>6, <1>7 DEF Set, SameBut
<1>10. SameBut(r, bs, {c}, {"kind", "arg", "line"})
  <2>1. ASSUME NEW x \in 1..Len(bs), NEW g \in Links, x \notin {c} \/ g \notin {"kind", "arg", "line"}
        PROVE  r[x][g] = bs[x][g]
    BY <1>9, <2>1
  <2> QED
    BY <2>1 DEF SameBut
<1>11. r[c]["line"] = read + 1 /\ r[c]["kind"] = line.kind
  <2>1. q[c]["kind"] = line.kind
    BY <1>4 DEF Set
  <2>2. p[c]["kind"] = q[c]["kind"] /\ r[c]["kind"] = p[c]["kind"]
    BY <1>8, <1>9
  <2>3. r[c]["line"] = read + 1
    BY <1>6 DEF Set
  <2> QED
    BY <2>1, <2>2, <2>3
<1> QED
  BY <1>7, <1>10, <1>11

(* The line that is read is a statement.                                   *)
LEMMA ReadsStatement ==
    ASSUME Read, read < Len(script), NEW bs, NEW c, BInv(bs, c, script, base, read), Fresh(bs, c),
           NEW line, line = script[read + 1], line.kind \in Openers \cup Statements,
           \/ line.kind \in Openers /\ AddOpener(bs, c, line)
           \/ line.kind \notin Openers /\ AddLeaf(bs, c, line)
    PROVE  BInv(blocks', cend', script, base, read + 1)
<1>1. base \in Nat /\ read \in Nat /\ base <= read
  BY DEF Read
<1>2. c \in 1..Len(bs) /\ Records(bs, Links)
  BY DEF BInv, Shape, Fresh
<1>3. PICK f : f = Filled(bs, c, line)
  OBVIOUS
<1>4. /\ Records(f, Links) /\ Len(f) = Len(bs) /\ Len(bs) \in Nat
      /\ SameBut(f, bs, {c}, {"kind", "arg", "line"})
      /\ f[c].kind = line.kind /\ f[c].line = read + 1
  BY ONLY <1>2, <1>3, FillsLine
<1>5. PICK k, kind : k = read + 1 /\ kind = script[k].kind
  OBVIOUS
<1>6. kind \notin {"end", "else", "unfilled", "freed"} /\ kind = line.kind
  BY <1>5 DEF Openers, Loops, Statements
<1>7. CASE kind \in Openers
  <2>0. blocks' = Append([f EXCEPT ![c].children = Len(bs) + 1], Unfilled(c, 0)) /\ cend' = Len(bs) + 1
    BY <1>3, <1>6, <1>7 DEF AddOpener
  <2>1. PICK n : n = Len(bs) + 1
    OBVIOUS
  <2>2. PICK q : q = [f EXCEPT ![c].children = n]
    OBVIOUS
  <2>3. PICK r : r = Append(q, Unfilled(c, 0))
    OBVIOUS
  <2>4. Set(q, f, c, "children", n)
    <3>1. c \in 1..Len(f)
      BY <1>2, <1>4
    <3> QED
      BY ONLY <1>4, <2>2, <3>1, SetOnce
  <2>5. Added(r, q, c, 0)
    <3>1. Records(q, Links)
      BY <2>4 DEF Set
    <3> QED
      BY ONLY <2>3, <3>1, AddBlock
  <2>6. Len(q) = Len(bs) /\ Len(r) = n /\ Records(r, Links)
    BY <1>4, <2>1, <2>4, <2>5 DEF Set, Added
  <2>7. /\ \A x \in 1..Len(bs), g \in Links : x # c \/ g \notin {"kind", "arg", "line"} => f[x][g] = bs[x][g]
        /\ \A x \in 1..Len(bs), g \in Links : x # c \/ g # "children" => q[x][g] = f[x][g]
        /\ \A x \in 1..Len(bs), g \in Links : r[x][g] = q[x][g]
    BY <1>4, <2>4, <2>5, <2>6 DEF SameBut, Set, Added
  <2>8. SameBut(r, bs, {c}, {"kind", "arg", "line", "children"})
    <3>1. ASSUME NEW x \in 1..Len(bs), NEW g \in Links, x \notin {c} \/ g \notin {"kind", "arg", "line", "children"}
          PROVE  r[x][g] = bs[x][g]
      BY <2>7, <3>1
    <3> QED
      BY <3>1 DEF SameBut
  <2>9. r[c].kind = kind /\ r[c].line = k /\ r[c].children = n
    <3>1. "kind" \in Links /\ "line" \in Links /\ "children" \in Links
      BY DEF Links
    <3>2. r[c]["kind"] = f[c]["kind"] /\ r[c]["line"] = f[c]["line"] /\ r[c]["children"] = q[c]["children"]
      BY <1>2, <2>7, <3>1
    <3>3. q[c]["children"] = n
      BY <2>4 DEF Set
    <3> QED
      BY <1>4, <1>5, <1>6, <3>2, <3>3
  <2>10. /\ r[n].kind = "unfilled" /\ r[n].parent = c /\ r[n].prev = 0
         /\ r[n].next = 0 /\ r[n].children = 0 /\ r[n].elseblock = 0
    BY <2>1, <2>5, <2>6 DEF Added
  <2>11. BInv(r, n, script, base, k)
    <3>1. kind \notin {"end", "else", "unfilled", "freed"} /\ Len(bs) \in Nat
      BY <1>4, <1>6
    <3> QED
      BY ONLY <1>1, BInv(bs, c, script, base, read), Fresh(bs, c), <1>5, <1>7, <2>1, <2>6, <2>8, <2>9, <2>10,
              <3>1, Fill
  <2> QED
    BY <1>5, <2>0, <2>1, <2>2, <2>3, <2>11
<1>8. CASE kind \notin Openers
  <2>1. blocks' = f /\ cend' = c
    BY <1>3, <1>6, <1>8 DEF AddLeaf
  <2>2. SameBut(f, bs, {c}, {"kind", "arg", "line", "children"})
    <3>1. ASSUME NEW x \in 1..Len(bs), NEW g \in Links, x \notin {c} \/ g \notin {"kind", "arg", "line", "children"}
          PROVE  f[x][g] = bs[x][g]
      BY <1>4, <3>1 DEF SameBut
    <3> QED
      BY <3>1 DEF SameBut
  <2>3. BInv(f, c, script, base, k)
    <3>1. kind \notin {"end", "else", "unfilled", "freed"} /\ Len(bs) \in Nat /\ f[c].kind = kind /\ f[c].line = k
      BY <1>4, <1>5, <1>6
    <3>2. PICK n : n = Len(bs) + 1
      OBVIOUS
    <3> QED
      BY ONLY <1>1, BInv(bs, c, script, base, read), Fresh(bs, c), <1>4, <1>5, <1>8, <2>2, <3>1, <3>2, Fill
  <2> QED
    BY <1>5, <2>1, <2>3
<1> QED
  BY <1>7, <1>8

(* The last block's parent and the block before it.                        *)
LEMMA Innermost ==
    ASSUME NEW s, NEW b, NEW j, NEW bs, NEW c, BInv(bs, c, s, b, j), Fresh(bs, c)
    PROVE  /\ c \in 1..Len(bs) /\ Records(bs, Links) /\ c # 0
           /\ bs[c].prev # 0 => bs[c].prev \in 1..Len(bs)
           /\ bs[c].parent # 0 => /\ bs[c].parent \in 1..Len(bs) /\ IsFilled(bs, bs[c].parent)
                                  /\ Greatest(OpenAt(s, b, j), bs[bs[c].parent].line)
           /\ bs[c].parent = 0 => OpenAt(s, b, j) = {}
<1>1. Shape(bs, c, b, j) /\ Parents(bs, c, s, b, j) /\ LastSet(bs, c, s, b, j) /\ c # 0
  BY DEF BInv, Fresh
<1>2. LastOf(bs, bs[c].parent, OpenAt(s, b, j)) /\ LastOf(bs, bs[c].prev, Mem(s, b, j, Cur(s, b, j)))
  BY <1>1 DEF Parents, LastSet
<1>3. ~IsFilled(bs, 0)
  BY DEF IsFilled
<1>4. c \in 1..Len(bs) /\ Records(bs, Links)
  BY <1>1 DEF Shape
<1> QED
  BY <1>1, <1>2, <1>3, <1>4 DEF LastOf, IsFilled

(* The next of the block before the last, or its parent's children, is     *)
(* cleared.                                                                *)
Without(q, w, p) ==
    IF w # 0 THEN [q EXCEPT ![w].next = 0] ELSE [q EXCEPT ![p].children = 0]

CutFrom(r, q, w, p) ==
    /\ Records(r, Links) /\ Len(r) = Len(q) /\ Len(q) \in Nat
    /\ SameBut(r, q, 1..Len(q), {"next", "children"})
    /\ Unlinks(r, q, w, p)

LEMMA CutsFrom ==
    ASSUME NEW q, Records(q, Links), NEW w, NEW p,
           w # 0 => w \in 1..Len(q), p \in 1..Len(q)
    PROVE  CutFrom(Without(q, w, p), q, w, p)
<1>0. PICK r : r = Without(q, w, p)
  OBVIOUS
<1>1. "next" \in Links /\ "children" \in Links
  BY DEF Links
<1>2. CASE w # 0
  <2>1. r = [q EXCEPT ![w].next = 0] /\ w \in 1..Len(q)
    BY <1>0, <1>2 DEF Without
  <2>2. Set(r, q, w, "next", 0)
    BY ONLY Records(q, Links), <2>1, SetOnce
  <2>3. \A x \in 1..Len(q), g \in Links : x # w \/ g # "next" => r[x][g] = q[x][g]
    BY <2>2 DEF Set, SameBut
  <2>4. r[w]["next"] = 0
    BY <2>2 DEF Set
  <2>5. SameBut(r, q, 1..Len(q), {"next", "children"})
    <3>1. ASSUME NEW x \in 1..Len(q), NEW g \in Links, x \notin 1..Len(q) \/ g \notin {"next", "children"}
          PROVE  r[x][g] = q[x][g]
      BY <2>3, <3>1
    <3> QED
      BY <3>1 DEF SameBut
  <2>6. ASSUME NEW x \in 1..Len(q)
        PROVE  r[x]["next"] = (IF x = w THEN 0 ELSE q[x]["next"]) /\ r[x]["children"] = q[x]["children"]
    BY <1>1, <2>3, <2>4
  <2>7. Unlinks(r, q, w, p)
    BY <1>2, <2>6 DEF Unlinks
  <2> QED
    BY <1>0, <2>2, <2>5, <2>7 DEF Set, CutFrom
<1>3. CASE w = 0
  <2>1. r = [q EXCEPT ![p].children = 0]
    BY <1>0, <1>3 DEF Without
  <2>2. Set(r, q, p, "children", 0)
    BY ONLY Records(q, Links), p \in 1..Len(q), <2>1, SetOnce
  <2>3. \A x \in 1..Len(q), g \in Links : x # p \/ g # "children" => r[x][g] = q[x][g]
    BY <2>2 DEF Set, SameBut
  <2>4. r[p]["children"] = 0 /\ Len(q) \in Nat
    BY <2>2 DEF Set
  <2>5. SameBut(r, q, 1..Len(q), {"next", "children"})
    <3>1. ASSUME NEW x \in 1..Len(q), NEW g \in Links, x \notin 1..Len(q) \/ g \notin {"next", "children"}
          PROVE  r[x][g] = q[x][g]
      BY <2>3, <3>1
    <3> QED
      BY <3>1 DEF SameBut
  <2>6. ASSUME NEW x \in 1..Len(q)
        PROVE  r[x]["children"] = (IF x = p THEN 0 ELSE q[x]["children"]) /\ r[x]["next"] = q[x]["next"]
               /\ x # w
    <3>1. x # 0
      BY <2>4
    <3> QED
      BY <1>1, <1>3, <2>3, <2>4, <3>1
  <2>7. Unlinks(r, q, w, p)
    BY <1>3, <2>6 DEF Unlinks
  <2> QED
    BY <1>0, <2>2, <2>5, <2>7 DEF Set, CutFrom
<1> QED
  BY <1>2, <1>3

(* The line that is read is an end.                                        *)
LEMMA ReadsEnd ==
    ASSUME Read, read < Len(script), NEW bs, NEW c, BInv(bs, c, script, base, read), Fresh(bs, c),
           script[read + 1].kind = "end", AddEnd(bs, c)
    PROVE  BInv(blocks', cend', script, base, read + 1)
<1>1. base \in Nat /\ read \in Nat /\ base <= read
  BY DEF Read
<1>2. /\ c \in 1..Len(bs) /\ Records(bs, Links) /\ c # 0
      /\ bs[c].prev # 0 => bs[c].prev \in 1..Len(bs)
      /\ bs[c].parent # 0 => bs[c].parent \in 1..Len(bs)
      /\ bs[c].parent = 0 => OpenAt(script, base, read) = {}
  BY Innermost
<1>3. PICK p, w : p = bs[c].parent /\ w = bs[c].prev
  OBVIOUS
<1>4. CASE p = 0
  <2>1. blocks' = bs /\ cend' = c
    BY <1>3, <1>4 DEF AddEnd
  <2>2. OpenAt(script, base, read) = {}
    BY <1>2, <1>3, <1>4
  <2>3. OpenAt(script, base, read + 1) = OpenAt(script, base, read)
    BY <1>1, <2>2, OpenNext
  <2>4. Cur(script, base, read + 1) = Cur(script, base, read)
    BY <1>1, <2>2, CurNext
  <2>5. /\ \A t : Mem(script, base, read + 1, t) = Mem(script, base, read, t)
        /\ PlainLines(script, base, read + 1) = PlainLines(script, base, read)
        /\ \A o : Elses(script, base, read + 1, o) = Elses(script, base, read, o)
    <3>1. script[read + 1].kind \in {"end", "else"} /\ script[read + 1].kind = "end"
      OBVIOUS
    <3> QED
      BY ONLY <1>1, <3>1, NoStatement
  <2>6. BInv(bs, c, script, base, read + 1)
    BY ONLY BInv(bs, c, script, base, read), <1>2, <2>3, <2>4, <2>5, Skip
  <2> QED
    BY <2>1, <2>6
<1>5. CASE p # 0
  <2>1. PICK q : q = [bs EXCEPT ![c].kind = "freed"]
    OBVIOUS
  <2>2. PICK r : r = Without(q, w, p)
    OBVIOUS
  <2>3. blocks' = r /\ cend' = p
    BY <1>3, <1>5, <2>1, <2>2 DEF AddEnd, Without
  <2>4. Set(q, bs, c, "kind", "freed")
    BY ONLY <1>2, <2>1, SetOnce
  <2>5. Records(q, Links) /\ Len(q) = Len(bs) /\ Len(bs) \in Nat /\ q[c]["kind"] = "freed"
        /\ \A x \in 1..Len(bs), g \in Links : x # c \/ g # "kind" => q[x][g] = bs[x][g]
    BY <2>4 DEF Set, SameBut
  <2>6. /\ Records(r, Links) /\ Len(r) = Len(q)
        /\ SameBut(r, q, 1..Len(q), {"next", "children"}) /\ Unlinks(r, q, w, p)
    <3>1. (w # 0 => w \in 1..Len(q)) /\ p \in 1..Len(q)
      BY <1>2, <1>3, <1>5, <2>5
    <3>2. CutFrom(r, q, w, p)
      BY ONLY <2>2, <2>5, <3>1, CutsFrom
    <3> QED
      BY <3>2 DEF CutFrom
  <2>7. \A x \in 1..Len(bs), g \in Links : g \notin {"next", "children"} => r[x][g] = q[x][g]
    BY <2>5, <2>6 DEF SameBut
  <2>8. SameBut(r, bs, 1..Len(bs), {"kind", "next", "children"})
    <3>1. ASSUME NEW x \in 1..Len(bs), NEW g \in Links, x \notin 1..Len(bs) \/ g \notin {"kind", "next", "children"}
          PROVE  r[x][g] = bs[x][g]
      BY <2>5, <2>7, <3>1
    <3> QED
      BY <3>1 DEF SameBut
  <2>9. "kind" \in Links /\ "next" \in Links /\ "children" \in Links
    BY DEF Links
  <2>10. r[c]["kind"] = "freed" /\ \A x \in 1..Len(bs) : x # c => r[x]["kind"] = bs[x]["kind"]
    BY <1>2, <2>5, <2>7, <2>9
  <2>11. Unlinks(r, bs, w, p)
    <3>1. \A x \in 1..Len(bs) : q[x]["next"] = bs[x]["next"] /\ q[x]["children"] = bs[x]["children"]
      BY <2>5, <2>9
    <3> QED
      BY <2>5, <2>6, <3>1 DEF Unlinks
  <2>12. BInv(r, p, script, base, read + 1)
    <3>1. PICK k : k = read + 1
      OBVIOUS
    <3>2. script[k].kind = "end"
      BY <3>1
    <3>3. /\ r[c].kind = "freed" /\ \A x \in 1..Len(bs) : x # c => r[x].kind = bs[x].kind
          /\ Records(r, Links) /\ Len(r) = Len(bs)
      BY <2>5, <2>6, <2>10
    <3>4. p = bs[c].parent /\ w = bs[c].prev
      BY <1>3
    <3>5. BInv(r, p, script, base, k)
      BY ONLY <1>1, BInv(bs, c, script, base, read), Fresh(bs, c), <1>5, <2>8, <2>11, <3>1, <3>2, <3>3, <3>4, EndSet
    <3> QED
      BY <3>1, <3>5
  <2> QED
    BY <2>3, <2>12
<1> QED
  BY <1>4, <1>5

(* The line that is read is an else.                                       *)
LEMMA ReadsElse ==
    ASSUME Read, read < Len(script), NEW bs, NEW c, BInv(bs, c, script, base, read), Fresh(bs, c),
           script[read + 1].kind = "else", AddElse(bs, c)
    PROVE  BInv(blocks', cend', script, base, read + 1)
<1>1. base \in Nat /\ read \in Nat /\ base <= read
  BY DEF Read
<1>2. /\ c \in 1..Len(bs) /\ Records(bs, Links) /\ c # 0
      /\ bs[c].prev # 0 => bs[c].prev \in 1..Len(bs)
      /\ bs[c].parent # 0 => /\ bs[c].parent \in 1..Len(bs) /\ IsFilled(bs, bs[c].parent)
                             /\ Greatest(OpenAt(script, base, read), bs[bs[c].parent].line)
      /\ bs[c].parent = 0 => OpenAt(script, base, read) = {}
  BY Innermost
<1>3. PICK p, w : p = bs[c].parent /\ w = bs[c].prev
  OBVIOUS
<1>4. script[read + 1].kind \notin Openers \cup {"end"} /\ script[read + 1].kind \in {"end", "else"}
  BY DEF Openers, Loops
<1>5. CASE ~(p # 0 /\ bs[p].kind = "if")
  <2>1. blocks' = bs /\ cend' = c
    BY <1>3, <1>5 DEF AddElse
  <2>2. \A o : ~ElseOf(script, base, read, o)
    <3>1. ASSUME NEW o, ElseOf(script, base, read, o) PROVE FALSE
      <4>1. Greatest(OpenAt(script, base, read), o) /\ script[o].kind = "if"
        BY <3>1 DEF ElseOf
      <4>2. p # 0 /\ IsFilled(bs, p) /\ Greatest(OpenAt(script, base, read), bs[p].line)
        BY <1>2, <1>3, <4>1 DEF Greatest
      <4>3. o = bs[p].line
        <5>1. OpenAt(script, base, read) \subseteq 0..read
          BY <1>1, OpenType
        <5>2. o \in 0..read /\ bs[p].line \in 0..read /\ o <= bs[p].line /\ bs[p].line <= o
          BY <4>1, <4>2, <5>1 DEF Greatest
        <5> QED
          BY <1>1, <5>2
      <4>4. bs[p].kind = script[bs[p].line].kind
        BY <4>2 DEF BInv, HasLines, IsFilled
      <4> QED
        BY <1>5, <4>1, <4>2, <4>3, <4>4
    <3> QED
      BY <3>1
  <2>3. OpenAt(script, base, read + 1) = OpenAt(script, base, read)
    BY ONLY <1>1, <1>4, OpenNext
  <2>4. Cur(script, base, read + 1) = Cur(script, base, read)
    BY ONLY <1>1, <1>4, <2>2, CurNext
  <2>5. /\ \A t : Mem(script, base, read + 1, t) = Mem(script, base, read, t)
        /\ PlainLines(script, base, read + 1) = PlainLines(script, base, read)
    BY ONLY <1>1, <1>4, NoStatement
  <2>6. ASSUME NEW o PROVE Elses(script, base, read + 1, o) = Elses(script, base, read, o)
    <3>1. ~(script[read + 1].kind = "else" /\ script[o].kind = "if" /\ Greatest(OpenAt(script, base, read), o))
      BY <2>2 DEF ElseOf
    <3>2. Elses(script, base, read + 1, o) =
            Elses(script, base, read, o)
            \cup (IF script[read + 1].kind = "else" /\ script[o].kind = "if"
                     /\ Greatest(OpenAt(script, base, read), o)
                  THEN {read + 1} ELSE {})
      BY ONLY <1>1, ElsesNext
    <3> QED
      BY <3>1, <3>2
  <2>7. BInv(bs, c, script, base, read + 1)
    BY ONLY BInv(bs, c, script, base, read), <1>2, <2>3, <2>4, <2>5, <2>6, Skip
  <2> QED
    BY <2>1, <2>7
<1>6. CASE p # 0 /\ bs[p].kind = "if"
  <2>1. PICK q : q = Without(bs, w, p)
    OBVIOUS
  <2>2. PICK u : u = [q EXCEPT ![p].elseblock = c]
    OBVIOUS
  <2>3. PICK r : r = [u EXCEPT ![c].prev = 0]
    OBVIOUS
  <2>4. blocks' = r /\ cend' = c
    BY <1>3, <1>6, <2>1, <2>2, <2>3 DEF AddElse, Without
  <2>5. /\ Records(q, Links) /\ Len(q) = Len(bs) /\ Len(bs) \in Nat
        /\ SameBut(q, bs, 1..Len(bs), {"next", "children"}) /\ Unlinks(q, bs, w, p)
    <3>1. (w # 0 => w \in 1..Len(bs)) /\ p \in 1..Len(bs)
      BY <1>2, <1>3, <1>6
    <3>2. CutFrom(q, bs, w, p)
      BY ONLY <1>2, <2>1, <3>1, CutsFrom
    <3> QED
      BY <3>2 DEF CutFrom
  <2>6. Set(u, q, p, "elseblock", c)
    <3>1. p \in 1..Len(q)
      BY <1>2, <1>3, <1>6, <2>5
    <3> QED
      BY ONLY <2>2, <2>5, <3>1, SetOnce
  <2>7. Set(r, u, c, "prev", 0)
    <3>1. c \in 1..Len(u) /\ Records(u, Links)
      BY <1>2, <2>5, <2>6 DEF Set
    <3> QED
      BY ONLY <2>3, <3>1, SetOnce
  <2>8. Records(r, Links) /\ Len(r) = Len(bs) /\ Len(u) = Len(bs) /\ r[c]["prev"] = 0 /\ u[p]["elseblock"] = c
    BY <2>5, <2>6, <2>7 DEF Set
  <2>9. /\ \A x \in 1..Len(bs), g \in Links : g \notin {"next", "children"} => q[x][g] = bs[x][g]
        /\ \A x \in 1..Len(bs), g \in Links : x # p \/ g # "elseblock" => u[x][g] = q[x][g]
        /\ \A x \in 1..Len(bs), g \in Links : x # c \/ g # "prev" => r[x][g] = u[x][g]
    BY <2>5, <2>6, <2>7, <2>8 DEF Set, SameBut
  <2>10. SameBut(r, bs, 1..Len(bs), {"prev", "next", "children", "elseblock"})
    <3>1. ASSUME NEW x \in 1..Len(bs), NEW g \in Links,
                 x \notin 1..Len(bs) \/ g \notin {"prev", "next", "children", "elseblock"}
          PROVE  r[x][g] = bs[x][g]
      BY <2>9, <3>1
    <3> QED
      BY <3>1 DEF SameBut
  <2>11. "next" \in Links /\ "children" \in Links /\ "elseblock" \in Links
    BY DEF Links
  <2>12. Unlinks(r, bs, w, p)
    <3>1. \A x \in 1..Len(bs) : r[x]["next"] = q[x]["next"] /\ r[x]["children"] = q[x]["children"]
      BY <2>9, <2>11
    <3> QED
      BY <2>5, <3>1 DEF Unlinks
  <2>13. \A x \in 1..Len(bs) : r[x]["elseblock"] = IF x = p THEN c ELSE bs[x]["elseblock"]
    <3>1. \A x \in 1..Len(bs) : r[x]["elseblock"] = u[x]["elseblock"]
      BY <2>9, <2>11
    <3>2. \A x \in 1..Len(bs) : x # p => u[x]["elseblock"] = q[x]["elseblock"]
      BY <2>9, <2>11
    <3>3. \A x \in 1..Len(bs) : q[x]["elseblock"] = bs[x]["elseblock"]
      BY <2>9, <2>11
    <3> QED
      BY <2>8, <3>1, <3>2, <3>3
  <2>14. BInv(r, c, script, base, read + 1)
    <3>1. PICK k : k = read + 1
      OBVIOUS
    <3>2. script[k].kind = "else"
      BY <3>1
    <3>3. p = bs[c].parent /\ w = bs[c].prev /\ p # 0 /\ bs[p].kind = "if"
      BY <1>3, <1>6
    <3>4. r[c].prev = 0 /\ \A x \in 1..Len(bs) : r[x].elseblock = IF x = p THEN c ELSE bs[x].elseblock
      BY <2>8, <2>13
    <3>5. BInv(r, c, script, base, k)
      BY ONLY <1>1, BInv(bs, c, script, base, read), Fresh(bs, c), <2>8, <2>10, <2>12, <3>1, <3>2, <3>3, <3>4, SecondSet
    <3> QED
      BY <3>1, <3>5
  <2> QED
    BY <2>4, <2>14
<1> QED
  BY <1>5, <1>6

(* Executing changes no link.                                              *)
LEMMA SameLinks ==
    ASSUME NEW s, NEW b, NEW j, NEW bs, NEW c, BInv(bs, c, s, b, j),
           NEW r, Records(r, Links), Len(r) = Len(bs), SameBut(r, bs, {}, {})
    PROVE  BInv(r, c, s, b, j)
<1>1. /\ Shape(bs, c, b, j) /\ HasLines(bs, s, b, j) /\ Parents(bs, c, s, b, j) /\ LastSet(bs, c, s, b, j)
      /\ \A x \in 1..Len(bs) : IsFilled(bs, x) => NextOk(bs, c, s, b, j, x)
      /\ \A x \in 1..Len(bs) :
           IsFilled(bs, x) /\ bs[x].kind \in Openers /\ Whole(s, b, j, bs[x].line) => SetsOk(bs, c, s, b, j, x)
  BY DEF BInv
<1>2. \A x \in 1..Len(bs) : /\ r[x].kind = bs[x].kind /\ r[x].line = bs[x].line
                            /\ r[x].parent = bs[x].parent /\ r[x].prev = bs[x].prev
                            /\ r[x].next = bs[x].next /\ r[x].children = bs[x].children
                            /\ r[x].elseblock = bs[x].elseblock
  BY Field
<1>3. \A x : IsFilled(r, x) <=> IsFilled(bs, x)
  BY <1>2 DEF IsFilled
<1>4. Keeps(r, bs) /\ \A x : IsFilled(bs, x) => x \in 1..Len(bs)
  BY <1>2, <1>3 DEF Keeps, IsFilled
<1>5. c # 0 => c \in 1..Len(bs)
  BY <1>1 DEF Shape
<1>6. Fresh(r, c) <=> Fresh(bs, c)
  BY <1>2, <1>5 DEF Fresh
<1>7. \A h : Tip(r, c, h) = Tip(bs, c, h)
  BY <1>6 DEF Tip
<1>8. Shape(r, c, b, j)
  <2>1. r = <<>> <=> bs = <<>>
    <3>1. (Len(r) = 0 <=> r = <<>>) /\ (Len(bs) = 0 <=> bs = <<>>)
      BY <1>1, EmptySeq DEF Shape, Records
    <3> QED
      BY <3>1
  <2> QED
    BY <1>1, <1>2, <1>5, <2>1 DEF Shape
<1>9. HasLines(r, s, b, j)
  BY <1>1, <1>2, <1>3 DEF HasLines
<1>10. Parents(r, c, s, b, j)
  <2>1. c # 0 => LastOf(r, r[c].parent, OpenAt(s, b, j))
    <3>1. c # 0 => LastOf(bs, bs[c].parent, OpenAt(s, b, j))
      BY <1>1 DEF Parents
    <3> QED
      BY <1>2, <1>4, <1>5, <3>1, PointsKept
  <2>2. ASSUME NEW x \in 1..Len(r), IsFilled(r, x), r[x].kind \in Openers
        PROVE  LastOf(r, r[x].parent, OpenAt(s, b, r[x].line - 1))
    <3>1. LastOf(bs, bs[x].parent, OpenAt(s, b, bs[x].line - 1))
      BY <1>1, <1>2, <1>3, <2>2 DEF Parents
    <3>2. LastOf(r, bs[x].parent, OpenAt(s, b, bs[x].line - 1))
      BY ONLY <1>4, <3>1, PointsKept
    <3> QED
      BY <1>2, <2>2, <3>2
  <2> QED
    BY <2>1, <2>2 DEF Parents
<1>11. \A p, T, u : Points(bs, p, T, u) => Points(r, p, T, u)
  BY <1>4, PointsKept
<1>12. ASSUME NEW x \in 1..Len(r), IsFilled(r, x) PROVE NextOk(r, c, s, b, j, x)
  BY <1>1, <1>2, <1>3, <1>7, <1>11, <1>12 DEF NextOk
<1>13. ASSUME NEW x \in 1..Len(r), IsFilled(r, x), r[x].kind \in Openers, Whole(s, b, j, r[x].line)
       PROVE  SetsOk(r, c, s, b, j, x)
  <2>1. SetsOk(bs, c, s, b, j, x)
    BY <1>1, <1>2, <1>3, <1>13
  <2> QED
    BY <1>2, <1>7, <1>11, <2>1 DEF SetsOk
<1>14. LastSet(r, c, s, b, j)
  <2>1. CASE c = 0
    BY <2>1 DEF LastSet
  <2>2. CASE c # 0
    <3>1. PICK p : p = IF Fresh(bs, c) THEN bs[c].prev ELSE c
      OBVIOUS
    <3>2. LastOf(bs, p, Mem(s, b, j, Cur(s, b, j)))
      BY <1>1, <2>2, <3>1 DEF LastSet
    <3>3. LastOf(r, p, Mem(s, b, j, Cur(s, b, j)))
      BY <1>4, <3>2, PointsKept
    <3>4. p = IF Fresh(r, c) THEN r[c].prev ELSE c
      BY <1>2, <1>5, <1>6, <2>2, <3>1
    <3> QED
      BY <3>3, <3>4 DEF LastSet
  <2> QED
    BY <2>1, <2>2
<1> QED
  BY <1>8, <1>9, <1>10, <1>12, <1>13, <1>14 DEF BInv

LEMMA TodoKeeps ==
    ASSUME NEW bs, Records(bs, Links), NEW x, NEW n, NEW r, r = [bs EXCEPT ![x].todo = n]
    PROVE  Records(r, Links) /\ Len(r) = Len(bs) /\ SameBut(r, bs, {}, {})
<1>1. bs \in Seq(Elements(bs)) /\ Len(bs) \in Nat /\ DOMAIN bs = 1..Len(bs)
  BY Enlarge DEF Records
<1>2. CASE x \notin 1..Len(bs)
  <2>1. r = bs
    BY <1>1, <1>2
  <2> QED
    BY <2>1 DEF SameBut
<1>3. CASE x \in 1..Len(bs)
  <2>1. PICK e : e = [bs[x] EXCEPT !.todo = n]
    OBVIOUS
  <2>2. Links \subseteq DOMAIN bs[x] /\ "todo" \notin Links
    BY <1>3 DEF Records, Links
  <2>3. DOMAIN e = DOMAIN bs[x] /\ Links \subseteq DOMAIN e
    BY <2>1, <2>2
  <2>4. \A g \in Links : e[g] = bs[x][g]
    <3>1. ASSUME NEW g \in Links PROVE e[g] = bs[x][g]
      <4>1. g \in DOMAIN bs[x] /\ g # "todo"
        BY <2>2
      <4> QED
        BY <2>1, <4>1
    <3> QED
      BY <3>1
  <2>5. r = [bs EXCEPT ![x] = e]
    BY <2>1
  <2>6. /\ Records([bs EXCEPT ![x] = e], Links)
        /\ Len([bs EXCEPT ![x] = e]) = Len(bs)
        /\ \A i \in 1..Len(bs) : [bs EXCEPT ![x] = e][i] = IF i = x THEN e ELSE bs[i]
    BY ONLY Records(bs, Links), x \in 1..Len(bs), <1>3, <2>3, RecordsExcept
  <2>7. \A i \in 1..Len(bs) : r[i] = IF i = x THEN e ELSE bs[i]
    BY ONLY <2>5, <2>6
  <2>8. SameBut(r, bs, {}, {})
    BY <2>4, <2>7 DEF SameBut
  <2> QED
    BY ONLY <2>5, <2>6, <2>8
<1> QED
  BY <1>2, <1>3

-----------------------------------------------------------------------------
(* The invariant, which every action keeps.                                *)
Kept == Read /\ BlocksInv

LEMMA ReadKeeps == ASSUME Kept, ReadLine PROVE Kept'
<1>1. /\ Read /\ BlocksInv /\ read < Len(script) /\ read' = read + 1
      /\ script' = script /\ base' = base
  BY DEF Kept, ReadLine
<1>2. Read'
  BY <1>1 DEF Read
<1>3. PICK bs, c, line : bs = Allocate.bs /\ c = Allocate.c /\ line = script[read + 1]
  OBVIOUS
<1>4. BInv(bs, c, script, base, read) /\ Fresh(bs, c)
  BY <1>1, <1>3, Allocates
<1>5. line.kind \in Openers \cup {"else", "end"} \cup Statements
  <2>1. script \in Seq(Line) /\ read + 1 \in 1..Len(script)
    BY <1>1 DEF Read
  <2>2. line \in Line
    BY <1>3, <2>1
  <2> QED
    BY <2>2 DEF Line
<1>6. /\ line.kind \in Openers => AddOpener(bs, c, line)
      /\ line.kind = "end" => AddEnd(bs, c)
      /\ line.kind = "else" => AddElse(bs, c)
      /\ line.kind \in Statements => AddLeaf(bs, c, line)
  <2>1. (CASE line.kind \in Openers -> AddOpener(bs, c, line)
           [] line.kind = "end"     -> AddEnd(bs, c)
           [] line.kind = "else"    -> AddElse(bs, c)
           [] OTHER                 -> AddLeaf(bs, c, line))
    BY <1>3 DEF ReadLine
  <2>2. /\ line.kind \in Openers => line.kind \notin {"end", "else"} \cup Statements
        /\ line.kind \in Statements => line.kind \notin {"end", "else"}
    BY DEF Openers, Loops, Statements
  <2> QED
    BY <2>1, <2>2
<1>7. BInv(blocks', cend', script, base, read + 1)
  <2>1. CASE line.kind \in Openers \cup Statements
    <3>1. line.kind \in Openers => line.kind \notin Statements
      BY DEF Openers, Loops, Statements
    <3> QED
      BY <1>1, <1>3, <1>4, <1>6, <2>1, <3>1, ReadsStatement
  <2>2. CASE line.kind = "end"
    BY <1>1, <1>3, <1>4, <1>6, <2>2, ReadsEnd
  <2>3. CASE line.kind = "else"
    BY <1>1, <1>3, <1>4, <1>6, <2>3, ReadsElse
  <2> QED
    BY <1>5, <2>1, <2>2, <2>3
<1> QED
  BY <1>1, <1>2, <1>7 DEF Kept, BlocksInv

LEMMA DoblockKeeps == ASSUME Kept, doblock PROVE Kept'
<1>1. /\ UNCHANGED <<script, read, base, cend>>
      /\ blocks' = blocks \/ \E n : blocks' = [blocks EXCEPT ![frame.block].todo = n]
  <2>1. CASE CallTop \/ Plain \/ Break \/ Continue \/ Goto \/ While \/ ForEach \/ IfBlock
             \/ Call \/ EndOfSet \/ GoOn \/ LeaveIf \/ TopReturned
    BY <2>1 DEF CallTop, Plain, Break, Continue, Leave, Goto, While, ForEach, IfBlock, Call, EndOfSet,
                GoOn, LeaveIf, TopReturned, reading
  <2>2. CASE Repeat
    BY <2>2 DEF Repeat, Todo
  <2>3. CASE BreakLoop
    BY <2>3 DEF BreakLoop, Cleared, Todo
  <2>4. CASE ContinueLoop
    BY <2>4 DEF ContinueLoop, Cleared, Todo
  <2>5. CASE FindLabel
    BY <2>5 DEF FindLabel, Cleared, Todo
  <2> QED
    BY <2>1, <2>2, <2>3, <2>4, <2>5 DEF doblock
<1>2. BInv(blocks, cend, script, base, read) /\ Read /\ Records(blocks, Links)
  BY DEF Kept, BlocksInv, BInv, Shape
<1>3. BInv(blocks', cend, script, base, read)
  <2>1. CASE blocks' = blocks
    BY <1>2, <2>1
  <2>2. CASE \E n : blocks' = [blocks EXCEPT ![frame.block].todo = n]
    <3>1. PICK n : blocks' = [blocks EXCEPT ![frame.block].todo = n]
      BY <2>2
    <3>2. PICK r, x, bs : r = blocks' /\ x = frame.block /\ bs = blocks
      OBVIOUS
    <3>3. r = [bs EXCEPT ![x].todo = n] /\ Records(bs, Links)
      BY <1>2, <3>1, <3>2
    <3>4. Records(r, Links) /\ Len(r) = Len(bs) /\ SameBut(r, bs, {}, {})
      BY ONLY <3>3, TodoKeeps
    <3>5. BInv(bs, cend, script, base, read)
      BY <1>2, <3>2
    <3>6. BInv(r, cend, script, base, read)
      BY ONLY <3>4, <3>5, SameLinks
    <3> QED
      BY <3>2, <3>6
  <2> QED
    BY <1>1, <2>1, <2>2
<1> QED
  BY <1>1, <1>2, <1>3 DEF Kept, BlocksInv, Read

LEMMA KeptInit == Init => Kept
<1> SUFFICES ASSUME Init PROVE Kept
  OBVIOUS
<1>1. script \in Seq(Line) /\ read = 0 /\ base = 0 /\ blocks = <<>> /\ cend = 0
  BY ScriptsAssumption DEF Init
<1>2. Read
  BY <1>1 DEF Read
<1>3. BInv(<<>>, 0, script, 0, 0)
  BY NoBlocks
<1> QED
  BY <1>1, <1>2, <1>3 DEF Kept, BlocksInv

LEMMA KeptNext == Kept /\ [Next]_vars => Kept'
<1> SUFFICES ASSUME Kept, [Next]_vars PROVE Kept'
  OBVIOUS
<1>1. CASE ReadLine
  BY <1>1, ReadKeeps
<1>2. CASE ResetControl
  <2>1. blocks' = <<>> /\ cend' = 0 /\ base' = read /\ read' = read /\ script' = script
    BY <1>2 DEF ResetControl
  <2>2. Read
    BY DEF Kept
  <2>3. BInv(<<>>, 0, script, read, read)
    BY <2>2, NoBlocks DEF Read
  <2>4. Read'
    BY <2>1, <2>2 DEF Read
  <2> QED
    BY <2>1, <2>3, <2>4 DEF Kept, BlocksInv
<1>3. CASE doblock
  BY <1>3, DoblockKeeps
<1>4. CASE UNCHANGED vars
  BY <1>4 DEF Kept, Read, BlocksInv, vars, reading
<1> QED
  BY <1>1, <1>2, <1>3, <1>4 DEF Next

-----------------------------------------------------------------------------
(* What the lines say of blocks and sets, in the terms of the invariant.   *)
LEMMA DepthLine ==
    ASSUME Read
    PROVE  \A i \in base..read : Depth[i] = DepthOf(script, base, i)
<1>1. base \in Nat /\ read \in Nat /\ base <= read
  BY DEF Read
<1>2. Depth = DepthTo(script, base, read)
  BY DEF Depth, DepthTo, Kind
<1> QED
  BY <1>1, <1>2, DepthAgree

(* What is around a line was open before it.                               *)
LEMMA AroundIs ==
    ASSUME Read, NEW i \in (base + 1)..read, Kind(i) # "end"
    PROVE  Around(i) = OpenAt(script, base, i - 1)
<1> DEFINE d(k) == DepthOf(script, base, k)
<1>1. base \in Nat /\ read \in Nat /\ base <= read
  BY DEF Read
<1>2. i - 1 \in Nat /\ base <= i - 1 /\ (i - 1) + 1 = i
  BY <1>1
<1>3. \A k \in base..read : Depth[k] = d(k)
  BY DepthLine
<1>4. \A k \in Nat : base <= k => d(k) \in Nat
  BY <1>1, DepthRuns
<1>5. d(i) >= d(i - 1)
  <2>1. d((i - 1) + 1) = DepthStep(script[(i - 1) + 1].kind, d(i - 1))
    BY <1>1, <1>2, DepthRuns
  <2> HIDE DEF d
  <2> QED
    BY <1>2, <1>4, <2>1 DEF DepthStep, Kind
<1> HIDE DEF d
<1>6. ASSUME NEW o \in (base + 1)..(i - 1)
      PROVE  (\A k \in (o + 1)..i : Depth[k] >= Depth[o])
             <=> (\A k \in (o + 1)..(i - 1) : d(k) >= d(o))
  <2>1. o \in Nat /\ base <= o /\ Depth[o] = d(o) /\ d(o) \in Nat /\ d(i) \in Nat /\ d(i - 1) \in Nat
    BY <1>1, <1>2, <1>3, <1>4
  <2>2. \A k \in (o + 1)..i : Depth[k] = d(k)
    BY <1>1, <1>3
  <2>3. \A k : k \in (o + 1)..i <=> k \in (o + 1)..(i - 1) \/ k = i
    BY <1>1
  <2>4. o = i - 1 \/ i - 1 \in (o + 1)..(i - 1)
    BY <1>1
  <2>5. (\A k \in (o + 1)..(i - 1) : d(k) >= d(o)) => d(i) >= d(o)
    BY <1>5, <2>1, <2>4
  <2> QED
    BY <2>1, <2>2, <2>3, <2>5
<1> QED
  BY <1>6 DEF Around, OpenAt, Kind, d

(* A block is open before its end.                                         *)
LEMMA EndOfIs ==
    ASSUME Read, NEW o \in (base + 1)..read, Kind(o) \in Openers
    PROVE  /\ EndOf(o) \in (o + 1)..(read + 1)
           /\ \A m \in o..read : o \in OpenAt(script, base, m) <=> m < EndOf(o)
<1> DEFINE d(k) == DepthOf(script, base, k)
           ends == {k \in (o + 1)..read : Depth[k] < Depth[o]}
<1>1. base \in Nat /\ read \in Nat /\ base <= read
  BY DEF Read
<1>2. \A k \in o..read : Depth[k] = d(k) /\ d(k) \in Nat
  <2>1. \A k \in base..read : Depth[k] = d(k)
    BY DepthLine
  <2>2. \A k \in Nat : base <= k => d(k) \in Nat
    BY <1>1, DepthRuns
  <2> HIDE DEF d
  <2> QED
    BY <1>1, <2>1, <2>2
<1>3. \A m \in o..read : o \in OpenAt(script, base, m) <=> \A k \in (o + 1)..m : d(k) >= d(o)
  BY <1>1 DEF OpenAt, Kind
<1>4. \A k \in (o + 1)..read : k \in ends <=> ~(d(k) >= d(o))
  <2> HIDE DEF d
  <2> QED
    BY <1>1, <1>2
<1>5. EndOf(o) = IF ends = {} THEN read + 1 ELSE MinOf(ends)
  BY DEF EndOf
<1>6. ends \subseteq (o + 1)..read
  OBVIOUS
<1> HIDE DEF ends, d
<1>7. CASE ends = {}
  <2>1. EndOf(o) = read + 1
    BY <1>5, <1>7
  <2>2. \A k \in (o + 1)..read : d(k) >= d(o)
    BY <1>4, <1>7
  <2> QED
    BY <1>1, <1>3, <2>1, <2>2
<1>8. CASE ends # {}
  <2>1. ends \subseteq Nat
    BY <1>1, <1>6
  <2>2. Smallest(ends, EndOf(o))
    <3>1. \E x : Smallest(ends, x)
      BY <1>8, <2>1, SmallestIs
    <3> QED
      BY <1>5, <1>8, <3>1 DEF Smallest, MinOf
  <2>3. PICK e \in (o + 1)..read : EndOf(o) = e /\ e \in ends /\ \A y \in ends : e <= y
    BY <1>6, <2>2 DEF Smallest
  <2>4. ASSUME NEW m \in o..read
        PROVE  o \in OpenAt(script, base, m) <=> m < e
    <3>1. CASE m < e
      <4>1. \A k \in (o + 1)..m : k \in (o + 1)..read /\ ~(e <= k)
        BY <1>1, <3>1
      <4> QED
        BY <1>3, <1>4, <2>3, <3>1, <4>1
    <3>2. CASE ~(m < e)
      <4>1. e \in (o + 1)..m
        BY <1>1, <3>2
      <4> QED
        BY <1>3, <1>4, <2>3, <3>2, <4>1
    <3> QED
      BY <3>1, <3>2
  <2> QED
    BY <1>1, <2>3, <2>4
<1> QED
  BY <1>7, <1>8

(* Elses, sets and members are those of the invariant.                     *)
LEMMA ElsesAre ==
    ASSUME Read, NEW o \in (base + 1)..read, Kind(o) \in Openers
    PROVE  ElsesOf(o) = Elses(script, base, read, o)
<1>1. base \in Nat /\ read \in Nat /\ base <= read
  BY DEF Read
<1>2. /\ EndOf(o) \in (o + 1)..(read + 1)
      /\ \A m \in o..read : o \in OpenAt(script, base, m) <=> m < EndOf(o)
  BY EndOfIs
<1>3. ASSUME NEW e \in (base + 1)..read, Kind(e) = "else"
      PROVE  IsElse(e) /\ Opener(e) = o <=>
               Greatest(OpenAt(script, base, e - 1), o) /\ Kind(o) = "if"
  <2>1. Around(e) = OpenAt(script, base, e - 1)
    BY <1>3, AroundIs
  <2>2. e - 1 \in Nat
    BY <1>1
  <2>3. OpenAt(script, base, e - 1) \subseteq 0..(e - 1)
    BY <1>1, <2>2, OpenType
  <2>4. /\ Around(e) # {} => Greatest(Around(e), Opener(e))
        /\ \A x : Greatest(Around(e), x) => Opener(e) = x
    BY <2>1, <2>2, <2>3, GreatestIs DEF Opener
  <2>5. Greatest(Around(e), o) => Around(e) # {}
    BY DEF Greatest
  <2> QED
    BY <1>3, <2>1, <2>4, <2>5 DEF IsElse
<1>4. ASSUME NEW e \in (base + 1)..read, Kind(e) = "else",
             Greatest(OpenAt(script, base, e - 1), o)
      PROVE  e \in (o + 1)..(EndOf(o) - 1)
  <2>1. e - 1 \in Nat /\ base <= e - 1 /\ (e - 1) + 1 = e
    BY <1>1
  <2>2. o \in OpenAt(script, base, e - 1) /\ o \in 0..(e - 1)
    BY <1>1, <1>4, <2>1, OpenType DEF Greatest
  <2>3. OpenAt(script, base, (e - 1) + 1) = OpenAt(script, base, e - 1)
    <3>1. script[(e - 1) + 1].kind \notin Openers \cup {"end"}
      BY <1>4, <2>1 DEF Kind, Openers, Loops
    <3> QED
      BY <1>1, <2>1, <3>1, OpenNext
  <2>4. o \in OpenAt(script, base, e) /\ e \in o..read
    BY <1>1, <2>1, <2>2, <2>3
  <2>5. e < EndOf(o)
    BY <1>2, <2>4
  <2> QED
    BY <1>1, <1>2, <2>2, <2>5
<1>5. (o + 1)..(EndOf(o) - 1) \subseteq (base + 1)..read
  BY <1>1, <1>2
<1>6. ASSUME NEW e
      PROVE  e \in ElsesOf(o) <=> e \in Elses(script, base, read, o)
  <2>1. CASE e \in (base + 1)..read /\ Kind(e) = "else"
    BY <1>3, <1>4, <1>5, <2>1 DEF ElsesOf, Elses, Kind
  <2>2. CASE ~(e \in (base + 1)..read /\ Kind(e) = "else")
    BY <1>5, <2>2 DEF ElsesOf, Elses, Kind, IsElse
  <2> QED
    BY <2>1, <2>2
<1> QED
  BY <1>6 DEF ElsesOf, Elses

LEMMA SetIs ==
    ASSUME Read, NEW i \in (base + 1)..read, Kind(i) \notin {"end", "else"}
    PROVE  SetOf(i) = Cur(script, base, i - 1)
<1> DEFINE A == OpenAt(script, base, i - 1)
           o == MaxOf(A)
           before == {e \in ElsesOf(o) : e < i}
<1>1. base \in Nat /\ read \in Nat /\ base <= read /\ i - 1 \in Nat /\ base <= i - 1 /\ i - 1 <= read
  BY DEF Read
<1>2. Around(i) = A
  BY AroundIs
<1>3. SetOf(i) = IF A = {} THEN base ELSE IF before = {} THEN o ELSE MaxOf(before)
  BY <1>2 DEF SetOf, Opener
<1>6. ASSUME NEW q
      PROVE  /\ \A e \in Elses(script, base, read, q) : e \in (base + 1)..read
             /\ \A e \in Elses(script, base, i - 1, q) : e \in (base + 1)..(i - 1) /\ q < e
             /\ Elses(script, base, i - 1, q) = {e \in Elses(script, base, read, q) : e <= i - 1}
  BY <1>1, ElsesType
<1>4. CASE A = {}
  BY <1>3, <1>4 DEF Cur
<1>5. CASE A # {}
  <2>1. A \subseteq 0..(i - 1) /\ A \subseteq (base + 1)..(i - 1) /\ \A p \in A : script[p].kind \in Openers
    BY <1>1, OpenType
  <2>2. Greatest(A, o)
    BY <1>1, <1>5, <2>1, GreatestIs
  <2>3. o \in (base + 1)..read /\ Kind(o) \in Openers
    <3>1. o \in A
      BY <2>2 DEF Greatest
    <3> HIDE DEF A, o
    <3> QED
      BY <1>1, <2>1, <3>1 DEF Kind
  <2> DEFINE E == Elses(script, base, i - 1, o)
  <2>4. before = E
    <3>1. ElsesOf(o) = Elses(script, base, read, o)
      BY <2>3, ElsesAre
    <3>2. E = {e \in Elses(script, base, read, o) : e <= i - 1}
      BY <1>6
    <3>3. \A e \in Elses(script, base, read, o) : e \in (base + 1)..read
      BY <1>6
    <3>4. \A e \in Elses(script, base, read, o) : e < i <=> e <= i - 1
      BY <1>1, <3>3
    <3> QED
      BY <3>1, <3>2, <3>4
  <2>5. \A e \in E : e \in 0..(i - 1) /\ o < e
    <3>1. \A e \in E : e \in (base + 1)..(i - 1) /\ o < e
      BY <1>6
    <3> HIDE DEF E, o
    <3> QED
      BY <1>1, <3>1
  <2>6. Cur(script, base, i - 1) = MaxOf({o} \cup E)
    BY <1>5 DEF Cur
  <2>7. SetOf(i) = IF E = {} THEN o ELSE MaxOf(E)
    BY <1>3, <1>5, <2>4
  <2>8. o \in 0..(i - 1)
    BY <2>1, <2>2 DEF Greatest
  <2> HIDE DEF E, o, A
  <2>9. {o} \cup E \subseteq 0..(i - 1) /\ E \subseteq 0..(i - 1)
    BY <2>5, <2>8
  <2>10. CASE E = {}
    <3>1. Greatest({o} \cup E, o)
      BY <2>8, <2>10 DEF Greatest
    <3> QED
      BY <1>1, <2>6, <2>7, <2>9, <2>10, <3>1, GreatestIs
  <2>11. CASE E # {}
    <3>1. Greatest(E, MaxOf(E))
      BY <1>1, <2>9, <2>11, GreatestIs
    <3>2. o <= MaxOf(E)
      BY <1>1, <2>5, <2>8, <3>1 DEF Greatest
    <3>3. Greatest({o} \cup E, MaxOf(E))
      BY <3>1, <3>2 DEF Greatest
    <3> QED
      BY <1>1, <2>6, <2>7, <2>9, <2>11, <3>3, GreatestIs
  <2> QED
    BY <2>10, <2>11
<1> QED
  BY <1>4, <1>5

LEMMA MembersAre ==
    ASSUME Read, NEW t
    PROVE  Members(t) = Mem(script, base, read, t)
<1>1. \A i \in (base + 1)..read : Kind(i) \notin {"end", "else"} => SetOf(i) = Cur(script, base, i - 1)
  BY SetIs
<1> QED
  BY <1>1 DEF Members, Mem, PlainLines, Kind

LEMMA WholeIs ==
    ASSUME Read, NEW o \in (base + 1)..read, Kind(o) \in Openers, WholeIf(o)
    PROVE  Whole(script, base, read, o)
<1>1. base \in Nat /\ read \in Nat /\ base <= read
  BY DEF Read
<1>2. EndOf(o) \in (o + 1)..(read + 1) /\ (o \in OpenAt(script, base, read) <=> read < EndOf(o))
  BY <1>1, EndOfIs
<1>3. o \notin OpenAt(script, base, read) => EndOf(o) <= read
  BY <1>1, <1>2
<1>4. ElsesOf(o) = Elses(script, base, read, o)
  BY ElsesAre
<1>5. \A e : Members(e) = Mem(script, base, read, e)
  BY MembersAre
<1> QED
  BY <1>3, <1>4, <1>5 DEF WholeIf, Whole

-----------------------------------------------------------------------------
(* The lines of a list of blocks.                                          *)
LEMMA OrderType ==
    ASSUME NEW n \in Nat, NEW S, S \subseteq 1..n
    PROVE  InOrder(S) \in Seq(Nat) /\ Len(InOrder(S)) = Cardinality(S) /\ Cardinality(S) \in Nat
<1>1. Cardinality(S) \in Nat
  <2>1. IsFiniteSet(1..n)
    BY FS_Interval
  <2> QED
    BY <2>1, FS_Subset, FS_CardinalityType
<1>2. ASSUME NEW k \in 1..Cardinality(S) PROVE Nth(S, k) \in Nat
  <2>1. Nth(S, k) \in S
    BY NthExists
  <2>2. PICK v : v = Nth(S, k)
    OBVIOUS
  <2>3. v \in S
    BY <2>1, <2>2
  <2>4. v \in Nat
    BY ONLY <2>3, S \subseteq 1..n, n \in Nat
  <2> QED
    BY <2>2, <2>4
<1>3. PICK c \in Nat : c = Cardinality(S)
  BY <1>1
<1> DEFINE f(k) == Nth(S, k)
<1>4. InOrder(S) = [k \in 1..c |-> f(k)] /\ \A k \in 1..c : f(k) \in Nat
  BY <1>2, <1>3 DEF InOrder
<1> HIDE DEF f
<1> QED
  BY <1>3, <1>4

LEMMA OrderEmpty == InOrder({}) = <<>>
<1>1. Cardinality({}) = 0
  BY FS_EmptySet
<1>2. InOrder({}) \in Seq(Nat) /\ Len(InOrder({})) = 0
  <2>1. 0 \in Nat /\ {} \subseteq 1..0
    OBVIOUS
  <2> QED
    BY <1>1, <2>1, OrderType
<1> QED
  BY <1>2, EmptySeq

Heads(i, S, T) == InOrder(T) = <<i>> \o InOrder(S)

(* A line before the others comes first.                                   *)
LEMMA OrderBelow ==
    ASSUME NEW n \in Nat, NEW S, S \subseteq 1..n, NEW i \in 1..n, \A j \in S : i < j
    PROVE  Heads(i, S, S \cup {i})
<1> DEFINE T == S \cup {i}
           s == InOrder(S)
           t == InOrder(T)
           u == <<i>> \o s
<1>1. Leads(i, S, T)
  BY NthBelow
<1>2. T \subseteq 1..n
  OBVIOUS
<1>3. /\ s \in Seq(Nat) /\ Len(s) = Cardinality(S) /\ Cardinality(S) \in Nat
      /\ t \in Seq(Nat) /\ Len(t) = Cardinality(T)
  BY <1>2, OrderType
<1>4. \A k \in 1..Cardinality(S) : s[k] = Nth(S, k)
  BY DEF InOrder
<1>5. \A k \in 1..Cardinality(T) : t[k] = Nth(T, k)
  BY DEF InOrder
<1>6. <<i>> \in Seq(Nat) /\ Len(<<i>>) = 1 /\ <<i>>[1] = i
  OBVIOUS
<1> HIDE DEF T, s, t
<1>7. PICK one : one = <<i>>
  OBVIOUS
<1>8. /\ one \o s \in Seq(Nat) /\ Len(one \o s) = 1 + Len(s)
      /\ \A k \in 1..1 : (one \o s)[k] = one[k]
      /\ \A k \in 1..Len(s) : (one \o s)[1 + k] = s[k]
  BY <1>3, <1>6, <1>7, Joining
<1> HIDE DEF u
<1>9. u = one \o s
  BY <1>7 DEF u
<1>10. Len(u) = Len(t)
  BY <1>1, <1>3, <1>8, <1>9 DEF Leads
<1>11. ASSUME NEW k \in 1..Len(t) PROVE u[k] = t[k]
  <2>1. CASE k = 1
    BY <1>1, <1>3, <1>5, <1>6, <1>7, <1>8, <1>9, <2>1 DEF Leads
  <2>2. CASE k # 1
    <3>1. PICK m \in 1..Cardinality(S) : k = m + 1 /\ k = 1 + m
      <4>1. k - 1 \in 1..Cardinality(S) /\ k = (k - 1) + 1 /\ k = 1 + (k - 1)
        BY <1>1, <1>3, <2>2 DEF Leads
      <4> QED
        BY <4>1
    <3>2. u[1 + m] = s[m]
      BY <1>3, <1>8, <1>9
    <3>3. Nth(T, m + 1) = Nth(S, m)
      BY <1>1 DEF Leads
    <3> QED
      BY <1>3, <1>4, <1>5, <3>1, <3>2, <3>3
  <2> QED
    BY <2>1, <2>2
<1>12. u = t
  BY <1>3, <1>8, <1>9, <1>10, <1>11, SeqEqual
<1> QED
  BY <1>12 DEF Heads, u, t, s, T

(* The statements from a block on, of its own set.                         *)
From(bs, s, b, j, x) ==
    IF x # 0 /\ IsFilled(bs, x)
    THEN InOrder({k \in Mem(s, b, j, Cur(s, b, bs[x].line - 1)) : bs[x].line <= k})
    ELSE IF x # 0 /\ bs[x].kind = "freed" THEN <<bs[x].line>> ELSE <<>>

Own(bs, x)  == IF bs[x].kind = "unfilled" THEN <<>> ELSE <<bs[x].line>>
Onward(bs, x) == bs[x].next = 0 \/ (bs[x].next \in 1..Len(bs) /\ x < bs[x].next)
Joined(bs, s, b, j, x) == From(bs, s, b, j, x) = Own(bs, x) \o From(bs, s, b, j, bs[x].next)

(* A list that is told by its first block has the lines of the set.        *)
LEMMA FromSet ==
    ASSUME NEW s, NEW b \in Nat, NEW j \in Nat, b <= j, NEW bs, NEW c, BInv(bs, c, s, b, j),
           NEW t, NEW S, NEW m \in Nat, S = After(Mem(s, b, j, t), m),
           NEW p, NEW here \in BOOLEAN, Points(bs, p, S, Tip(bs, c, here))
    PROVE  From(bs, s, b, j, p) = InOrder(S) /\ p \in 0..Len(bs)
<1>1. Shape(bs, c, b, j) /\ HasLines(bs, s, b, j)
  BY DEF BInv
<1>2. Len(bs) \in Nat /\ c \in 0..Len(bs)
  BY <1>1, Enlarge DEF Shape, Records
<1>3. CASE S = {}
  <2>1. p = Tip(bs, c, here)
    BY <1>3 DEF Points
  <2>2. p = 0 \/ (p = c /\ c # 0 /\ bs[c].kind = "unfilled")
    BY <2>1 DEF Tip, Fresh
  <2>3. From(bs, s, b, j, p) = <<>>
    BY <2>2 DEF From, IsFilled
  <2> QED
    BY <1>2, <1>3, <2>2, <2>3, OrderEmpty
<1>4. CASE S # {}
  <2>1. IsFilled(bs, p) /\ Smallest(S, bs[p].line)
    BY <1>4 DEF Points
  <2>2. p \in 1..Len(bs) /\ p # 0 /\ bs[p].line \in S /\ \A y \in S : bs[p].line <= y
    BY <1>2, <2>1 DEF IsFilled, Smallest
  <2>3. bs[p].line \in Mem(s, b, j, t) /\ Cur(s, b, bs[p].line - 1) = t
    <3>1. bs[p].line \in Mem(s, b, j, t)
      BY <2>2 DEF After
    <3> QED
      BY <3>1 DEF Mem
  <2>4. \A k \in Mem(s, b, j, t) : k \in (b + 1)..j
    BY MemNext
  <2>5. {k \in Mem(s, b, j, t) : bs[p].line <= k} = S
    BY <2>2, <2>3, <2>4 DEF After
  <2>6. From(bs, s, b, j, p) = InOrder(S)
    <3> DEFINE line == bs[p].line
               set  == Cur(s, b, line - 1)
    <3>1. From(bs, s, b, j, p) = InOrder({k \in Mem(s, b, j, set) : line <= k})
      BY <2>1, <2>2 DEF From
    <3>2. set = t /\ {k \in Mem(s, b, j, t) : line <= k} = S
      BY <2>3, <2>5
    <3> HIDE DEF set, line
    <3> QED
      BY ONLY <3>1, <3>2
  <2> QED
    BY <1>2, <2>2, <2>6
<1> QED
  BY <1>3, <1>4

(* A block joins its line to those of the next.                            *)
LEMMA FromNext ==
    ASSUME NEW s, NEW b \in Nat, NEW j \in Nat, b <= j, NEW bs, NEW c, BInv(bs, c, s, b, j),
           NEW x \in 1..Len(bs)
    PROVE  Onward(bs, x) /\ Joined(bs, s, b, j, x)
<1>1. Shape(bs, c, b, j) /\ HasLines(bs, s, b, j) /\ (IsFilled(bs, x) => NextOk(bs, c, s, b, j, x))
  BY DEF BInv
<1>2. Len(bs) \in Nat /\ c \in 0..Len(bs) /\ x # 0
  BY <1>1, Enlarge DEF Shape, Records
<1>3. From(bs, s, b, j, 0) = <<>>
  BY DEF From
<1>4. CASE bs[x].kind = "unfilled"
  <2>1. bs[x].next = 0
    BY <1>1, <1>4 DEF Shape
  <2>2. From(bs, s, b, j, x) = <<>> /\ Own(bs, x) = <<>>
    BY <1>4 DEF From, IsFilled, Own
  <2>3. <<>> \o <<>> = <<>>
    OBVIOUS
  <2> QED
    BY <1>3, <2>1, <2>2, <2>3 DEF Onward, Joined
<1>5. CASE bs[x].kind = "freed"
  <2>1. bs[x].next = 0
    BY <1>1, <1>5 DEF Shape
  <2>2. PICK l : l = bs[x].line
    OBVIOUS
  <2>3. From(bs, s, b, j, x) = <<l>> /\ Own(bs, x) = <<l>>
    BY <1>2, <1>5, <2>2 DEF From, IsFilled, Own
  <2>4. <<l>> \in Seq({l})
    OBVIOUS
  <2>5. <<l>> \o <<>> = <<l>>
    BY <2>4, ConcatEmptySeq
  <2> QED
    BY <1>3, <2>1, <2>3, <2>5 DEF Onward, Joined
<1>6. CASE IsFilled(bs, x)
  <2> DEFINE i == bs[x].line
             t == Cur(s, b, i - 1)
             S == After(Mem(s, b, j, t), i)
             h == (t = Cur(s, b, j))
  <2>1. Points(bs, bs[x].next, S, Tip(bs, c, h))
    BY <1>1, <1>6 DEF NextOk
  <2>2. /\ i \in (b + 1)..j /\ i - 1 \in Nat /\ b <= i - 1 /\ i \in Mem(s, b, j, t)
        /\ \A y : IsFilled(bs, y) /\ i < bs[y].line => x < y
    <3>1. Placed(bs, s, b, j, x)
      BY ONLY b \in Nat, j \in Nat, b <= j, <1>1, <1>6, LineFacts
    <3> QED
      BY <3>1, <1>6 DEF Placed
  <2>3. S \subseteq Mem(s, b, j, t) /\ \A k \in Mem(s, b, j, t) : k \in S <=> i < k
    BY DEF After
  <2>4. \A k \in Mem(s, b, j, t) : k \in (b + 1)..j
    BY MemNext
  <2>5. bs[x].kind # "unfilled" /\ Own(bs, x) = <<i>>
    BY <1>6 DEF IsFilled, Own
  <2>6. From(bs, s, b, j, x) = InOrder({k \in Mem(s, b, j, t) : i <= k})
    BY <1>2, <1>6 DEF From
  <2>7. ASSUME S = {} PROVE Onward(bs, x)
    <3>1. bs[x].next = Tip(bs, c, h)
      BY <2>1, <2>7 DEF Points
    <3>2. bs[x].next = 0 \/ (bs[x].next = c /\ c # 0 /\ bs[c].kind = "unfilled")
      BY <3>1 DEF Tip, Fresh
    <3> HIDE DEF i, t, S, h
    <3>3. CASE bs[x].next = 0
      BY <3>3 DEF Onward
    <3>4. CASE bs[x].next = c /\ c # 0 /\ bs[c].kind = "unfilled"
      <4>1. c \in 1..Len(bs)
        BY <1>2, <3>4
      <4>2. c = Len(bs)
        BY <1>1, <3>4, <4>1 DEF Shape
      <4>3. x # c
        BY <2>5, <3>4
      <4> QED
        BY <1>2, <3>4, <4>1, <4>2, <4>3 DEF Onward
    <3> QED
      BY <3>2, <3>3, <3>4
  <2>8. ASSUME S # {} PROVE Onward(bs, x)
    <3>1. IsFilled(bs, bs[x].next) /\ bs[bs[x].next].line \in S
      BY <2>1, <2>8 DEF Points, Smallest
    <3>2. i < bs[bs[x].next].line
      BY <3>1 DEF After
    <3> HIDE DEF i, t, S, h
    <3> QED
      BY <2>2, <3>1, <3>2 DEF Onward, IsFilled
  <2>9. h \in BOOLEAN
    OBVIOUS
  <2> HIDE DEF h
  <2>10. PICK l : l = i
    OBVIOUS
  <2> HIDE DEF i
  <2> HIDE DEF t
  <2>11. From(bs, s, b, j, bs[x].next) = InOrder(S)
    <3>1. l \in Nat /\ S = After(Mem(s, b, j, t), l)
      BY <2>2, <2>10 DEF S
    <3>2. PICK p : p = bs[x].next
      OBVIOUS
    <3>3. Points(bs, p, S, Tip(bs, c, h))
      BY <2>1, <3>2
    <3>4. From(bs, s, b, j, p) = InOrder(S)
      BY ONLY b \in Nat, j \in Nat, b <= j, BInv(bs, c, s, b, j), <2>9, <3>1, <3>3, FromSet
    <3> QED
      BY <3>2, <3>4
  <2> HIDE DEF S
  <2>12. /\ {k \in Mem(s, b, j, t) : l <= k} = S \cup {l}
         /\ S \subseteq 1..j /\ l \in 1..j /\ \A k \in S : l < k
    <3>1. /\ l \in (b + 1)..j /\ l \in Mem(s, b, j, t)
          /\ S \subseteq Mem(s, b, j, t) /\ \A k \in Mem(s, b, j, t) : k \in S <=> l < k
      BY <2>2, <2>3, <2>10
    <3>2. \A k \in Mem(s, b, j, t) : l <= k <=> k \in S \/ k = l
      BY ONLY <2>4, <3>1, b \in Nat, j \in Nat
    <3>3. {k \in Mem(s, b, j, t) : l <= k} = S \cup {l}
      BY ONLY <3>1, <3>2
    <3>4. S \subseteq 1..j /\ l \in 1..j /\ \A k \in S : l < k
      BY ONLY <2>4, <3>1, b \in Nat, j \in Nat
    <3> QED
      BY <3>3, <3>4
  <2>13. InOrder(S \cup {l}) = <<l>> \o InOrder(S)
    BY ONLY j \in Nat, <2>12, OrderBelow DEF Heads
  <2> QED
    BY <2>5, <2>6, <2>7, <2>8, <2>10, <2>11, <2>12, <2>13 DEF Joined
<1> QED
  BY <1>4, <1>5, <1>6 DEF IsFilled

(* The recursion over the list: two answers to it would differ at a last   *)
(* block, whose next comes after it.                                       *)
LEMMA LinesAre ==
    ASSUME NEW s, NEW b \in Nat, NEW j \in Nat, b <= j, NEW c, BInv(blocks, c, s, b, j),
           NEW p \in 0..Len(blocks)
    PROVE  LinesOf(p) = From(blocks, s, b, j, p)
<1> DEFINE n == Len(blocks)
           g(x) == From(blocks, s, b, j, x)
           Step(l, i) == IF i = 0 THEN <<>> ELSE Own(blocks, i) \o l[blocks[i].next]
           f == CHOOSE l : l = [i \in 0..n |-> Step(l, i)]
<1>1. n \in Nat
  BY Enlarge DEF BInv, Shape, Records
<1>2. LinesOf(p) = f[p]
  BY DEF LinesOf, Own
<1>3. \A x \in 1..n : /\ blocks[x].next = 0 \/ (blocks[x].next \in 1..n /\ x < blocks[x].next)
                      /\ g(x) = Own(blocks, x) \o g(blocks[x].next)
  <2> TAKE x \in 1..n
  <2>1. Onward(blocks, x) /\ Joined(blocks, s, b, j, x)
    BY FromNext
  <2> QED
    BY <2>1 DEF Onward, Joined
<1>4. g(0) = <<>>
  BY DEF From
<1> HIDE DEF n, g
<1>5. \E l : l = [i \in 0..n |-> Step(l, i)]
  <2> DEFINE l == [i \in 0..n |-> g(i)]
  <2>1. ASSUME NEW i \in 0..n PROVE g(i) = Step(l, i)
    <3>1. CASE i = 0
      BY <1>4, <3>1
    <3>2. CASE i # 0
      <4>1. i \in 1..n
        BY <1>1, <3>2
      <4>2. blocks[i].next \in 0..n
        BY <1>1, <1>3, <4>1
      <4>3. l[blocks[i].next] = g(blocks[i].next)
        BY <4>2
      <4> QED
        BY <1>3, <3>2, <4>1, <4>3
    <3> QED
      BY <3>1, <3>2
  <2>2. l = [i \in 0..n |-> Step(l, i)]
    BY <2>1
  <2> HIDE DEF l
  <2> QED
    BY <2>2
<1>6. f = [i \in 0..n |-> Step(f, i)]
  BY <1>5
<1> HIDE DEF f
<1>7. \A i \in 0..n : f[i] = IF i = 0 THEN <<>> ELSE Own(blocks, i) \o f[blocks[i].next]
  BY <1>6
<1> DEFINE D == {x \in 0..n : f[x] # g(x)}
<1>8. D = {}
  <2> SUFFICES ASSUME D # {} PROVE FALSE
    OBVIOUS
  <2>1. D \subseteq 0..n
    OBVIOUS
  <2>2. PICK m : m \in D /\ \A y \in D : y <= m
    <3> HIDE DEF D
    <3> QED
      BY <1>1, <2>1, GreatestIs DEF Greatest
  <2>3. m \in 1..n /\ m # 0
    BY <1>1, <1>4, <1>7, <2>2
  <2>4. f[m] = Own(blocks, m) \o f[blocks[m].next] /\ g(m) = Own(blocks, m) \o g(blocks[m].next)
    <3>1. m \in 0..n
      BY <2>2
    <3> QED
      BY ONLY <1>3, <1>7, <2>3, <3>1
  <2>5. blocks[m].next \in 0..n /\ blocks[m].next \notin D
    <3>1. CASE blocks[m].next = 0
      BY <1>1, <1>4, <1>7, <3>1
    <3>2. CASE blocks[m].next \in 1..n /\ m < blocks[m].next
      BY <1>1, <2>2, <2>3, <3>2
    <3> QED
      BY <1>3, <2>3, <3>1, <3>2
  <2>6. f[blocks[m].next] = g(blocks[m].next)
    BY <2>5
  <2> QED
    BY <2>2, <2>4, <2>6
<1>9. f[p] = g(p)
  BY <1>8 DEF n
<1> QED
  BY <1>2, <1>9 DEF g

(* The lines of a list are the statements of its set.                      *)
LEMMA SetLines ==
    ASSUME NEW s, NEW b \in Nat, NEW j \in Nat, b <= j, NEW c, BInv(blocks, c, s, b, j),
           NEW t, NEW p, NEW here \in BOOLEAN, Points(blocks, p, Mem(s, b, j, t), Tip(blocks, c, here))
    PROVE  LinesOf(p) = InOrder(Mem(s, b, j, t))
<1>1. \A k \in Mem(s, b, j, t) : k \in (b + 1)..j
  BY MemNext
<1>2. Mem(s, b, j, t) = After(Mem(s, b, j, t), 0) /\ 0 \in Nat
  BY <1>1 DEF After
<1>3. From(blocks, s, b, j, p) = InOrder(Mem(s, b, j, t)) /\ p \in 0..Len(blocks)
  BY <1>2, FromSet
<1> QED
  BY <1>3, LinesAre

(* What the invariant means.                                               *)
LEMMA HoldSets == ASSUME Kept PROVE BlocksHoldSets
<1>1. Read /\ BInv(blocks, cend, script, base, read)
  BY DEF Kept, BlocksInv
<1>2. base \in Nat /\ read \in Nat /\ base <= read
  BY <1>1 DEF Read
<1>3. ASSUME NEW o \in (base + 1)..read, Kind(o) \in Openers, WholeIf(o)
      PROVE  \E i \in DOMAIN blocks :
             /\ blocks[i].line = o /\ blocks[i].kind = Kind(o)
             /\ LinesOf(blocks[i].children) = InOrder(Members(o))
             /\ \A e \in ElsesOf(o) : LinesOf(blocks[i].elseblock) = InOrder(Members(e))
  <2>1. o \in PlainLines(script, base, read)
    BY <1>3 DEF PlainLines, Kind, Openers, Loops
  <2>2. PICK x \in 1..Len(blocks) : IsFilled(blocks, x) /\ blocks[x].line = o
    BY <1>1, <2>1 DEF BInv, HasLines
  <2>3. blocks[x].kind = Kind(o)
    BY <1>1, <2>2 DEF BInv, HasLines, Kind
  <2>4. Whole(script, base, read, o)
    BY <1>1, <1>3, WholeIs
  <2>5. SetsOk(blocks, cend, script, base, read, x)
    BY <1>1, <1>3, <2>2, <2>3, <2>4 DEF BInv
  <2>6. \A e : Members(e) = Mem(script, base, read, e)
    BY <1>1, MembersAre
  <2>7. ElsesOf(o) = Elses(script, base, read, o)
    BY <1>1, <1>3, ElsesAre
  <2>8. ASSUME NEW t, NEW p,
               Points(blocks, p, Mem(script, base, read, t),
                      Tip(blocks, cend, t = Cur(script, base, read)))
        PROVE  LinesOf(p) = InOrder(Members(t))
    <3>1. PICK h \in BOOLEAN : h = (t = Cur(script, base, read))
      OBVIOUS
    <3>2. LinesOf(p) = InOrder(Mem(script, base, read, t))
      <4>1. Points(blocks, p, Mem(script, base, read, t), Tip(blocks, cend, h))
        BY <2>8, <3>1
      <4> QED
        BY ONLY <1>1, <1>2, <4>1, SetLines
    <3> QED
      BY <2>6, <3>2
  <2>9. LinesOf(blocks[x].children) = InOrder(Members(o))
    BY <2>2, <2>5, <2>8 DEF SetsOk
  <2>10. \A e \in ElsesOf(o) : LinesOf(blocks[x].elseblock) = InOrder(Members(e))
    BY <2>2, <2>5, <2>7, <2>8 DEF SetsOk
  <2>11. x \in DOMAIN blocks
    BY <1>1, Enlarge DEF BInv, Shape, Records
  <2> QED
    BY <2>2, <2>3, <2>9, <2>10, <2>11
<1> QED
  BY <1>3 DEF BlocksHoldSets

(* BlocksHoldSets: for every script, at every line, each block that has    *)
(* been read holds in its list of statements (control.c, co_children and   *)
(* co_next) exactly the statements the script has there, in their order,   *)
(* and in its second set (co_elseblock) those behind the else.             *)
THEOREM BlocksCorrect == Spec => []BlocksHoldSets
<1>1. Init => Kept
  BY KeptInit
<1>2. Kept /\ [Next]_vars => Kept'
  BY KeptNext
<1>3. Kept => BlocksHoldSets
  BY HoldSets
<1> QED
  BY <1>1, <1>2, <1>3, PTL DEF Spec
=============================================================================
