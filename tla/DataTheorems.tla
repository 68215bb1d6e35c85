----------------------------- MODULE DataTheorems -----------------------------
(***************************************************************************)
(* What some operators of the community modules return: Min and Max of     *)
(* sets of natural numbers, and sequences that are joined or cut.          *)
(***************************************************************************)
EXTENDS Integers, SequencesExt, SequenceTheorems, WellFoundedInduction, TLAPS

LEMMA LessIsBelow == \A x, y \in Nat : y < x => <<y, x>> \in OpToRel(<, Nat)
  BY SMT DEF OpToRel

\* The least element of a set of naturals is one of them, and below the others.
LEMMA MinIsLeast ==
  ASSUME NEW S \in SUBSET Nat, S # {}
  PROVE  Min(S) \in S /\ \A y \in S : Min(S) <= y
<1> DEFINE Below == OpToRel(<, Nat)
<1>1. \A x, y \in Nat : y < x => <<y, x>> \in Below
  BY LessIsBelow
<1>2. \E x \in S : \A y \in S : ~ (<<y, x>> \in Below)
  BY NatLessThanWellFounded, WFMin
<1> HIDE DEF Below
<1>3. PICK x \in S : \A y \in S : ~ (<<y, x>> \in Below)
  BY <1>2
<1>4. ASSUME NEW y \in S PROVE x <= y
  <2>1. x \in Nat /\ y \in Nat /\ ~ (y < x)
    BY <1>1, <1>3, Zenon
  <2> QED BY <2>1
<1> QED
  BY <1>4 DEF Min

\* A difference that is cut off at zero.
LEMMA MaxWithZero == ASSUME NEW x \in Int PROVE Max({0, x}) = IF x > 0 THEN x ELSE 0
<1> DEFINE m == IF x > 0 THEN x ELSE 0
<1>1. m \in {0, x} /\ \A y \in {0, x} : m >= y
  OBVIOUS
<1>2. \A z \in {0, x} : (\A y \in {0, x} : z >= y) => z = m
  OBVIOUS
<1> HIDE DEF m
<1>3. Max({0, x}) = m
  BY <1>1, <1>2 DEF Max
<1> QED
  BY <1>3 DEF m

\* Two sequences, and three, one behind the other.
LEMMA TwoParts ==
  ASSUME NEW S, NEW s1 \in Seq(S), NEW s2 \in Seq(S)
  PROVE  /\ s1 \o s2 \in Seq(S) /\ Len(s1 \o s2) = Len(s1) + Len(s2)
         /\ \A i \in 1 .. Len(s1) : (s1 \o s2)[i] = s1[i]
         /\ \A i \in 1 .. Len(s2) : (s1 \o s2)[Len(s1) + i] = s2[i]
<1>1. Len(s1) \in Nat /\ Len(s2) \in Nat
  OBVIOUS
<1> DEFINE c == s1 \o s2
<1>2. /\ c \in Seq(S) /\ Len(c) = Len(s1) + Len(s2)
      /\ \A i \in 1 .. Len(s1) + Len(s2) : c[i] =
           IF i <= Len(s1) THEN s1[i] ELSE s2[i - Len(s1)]
  BY ConcatProperties, Zenon
<1> HIDE DEF c
<1>5. \A i \in 1 .. Len(s1) : c[i] = s1[i]
  BY <1>1, <1>2
<1>6. \A i \in 1 .. Len(s2) : c[Len(s1) + i] = s2[i]
  BY <1>1, <1>2
<1> QED
  BY <1>2, <1>5, <1>6, Zenon DEF c

\* A sequence without its i-th element.
LEMMA RemoveIs ==
  ASSUME NEW S, NEW s \in Seq(S), NEW i \in 1 .. Len(s)
  PROVE  /\ RemoveAt(s, i) \in Seq(S) /\ Len(RemoveAt(s, i)) = Len(s) - 1
         /\ \A j \in 1 .. Len(s) - 1 : RemoveAt(s, i)[j] = IF j < i THEN s[j] ELSE s[j + 1]
<1> DEFINE front == SubSeq(s, 1, i - 1)
           rest  == SubSeq(s, i + 1, Len(s))
<1>1. front \in Seq(S) /\ Len(front) = i - 1 /\ \A j \in 1 .. i - 1 : front[j] = s[j]
  OBVIOUS
<1>2. rest \in Seq(S) /\ Len(rest) = Len(s) - i /\ \A j \in 1 .. Len(s) - i : rest[j] = s[j + i]
  OBVIOUS
<1>3. RemoveAt(s, i) = front \o rest
  BY DEF RemoveAt
<1> HIDE DEF front, rest
<1>4. /\ front \o rest \in Seq(S) /\ Len(front \o rest) = Len(front) + Len(rest)
      /\ \A j \in 1 .. Len(front) : (front \o rest)[j] = front[j]
      /\ \A j \in 1 .. Len(rest) : (front \o rest)[Len(front) + j] = rest[j]
  <2>1. front \in Seq(S) /\ rest \in Seq(S)
    BY <1>1, <1>2
  <2> QED
    BY <2>1, TwoParts, SMT
<1> DEFINE c == front \o rest
<1> HIDE DEF c
<1>5. c \in Seq(S) /\ Len(c) = Len(s) - 1
  BY <1>1, <1>2, <1>4 DEF c
<1>6. \A j \in 1 .. i - 1 : c[j] = s[j]
  BY <1>1, <1>4 DEF c
<1>7. ASSUME NEW j \in 1 .. Len(s) - 1, ~ (j < i) PROVE c[j] = s[j + 1]
  <2> DEFINE t == j - (i - 1)
  <2>1. t \in 1 .. Len(s) - i /\ (i - 1) + t = j /\ t + i = j + 1
    BY <1>7
  <2> HIDE DEF t
  <2>2. c[(i - 1) + t] = rest[t]
    BY <2>1, <1>1, <1>2, <1>4 DEF c
  <2>3. rest[t] = s[t + i]
    BY <2>1, <1>2
  <2> QED
    BY <2>1, <2>2, <2>3
<1> QED
  <2>1. RemoveAt(s, i) = c
    BY <1>3, Zenon DEF c
  <2>2. ASSUME NEW j \in 1 .. Len(s) - 1
        PROVE  c[j] = IF j < i THEN s[j] ELSE s[j + 1]
    <3>1. CASE j < i
      <4>1. j \in 1 .. i - 1
        BY <3>1
      <4> QED
        BY <4>1, <3>1, <1>6
    <3>2. CASE ~ (j < i)
      BY <3>2, <1>7
    <3> QED
      BY <3>1, <3>2
  <2> QED
    BY <2>1, <2>2, <1>5, Zenon
=============================================================================
