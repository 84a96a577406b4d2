-------------------------- MODULE Sequence_proofs --------------------------
(***************************************************************************)
(* Lemmas about the operators on sequences that the modules are built      *)
(* from: the first place of an element, an element appended, and an        *)
(* element removed from a sequence without repetitions.                    *)
(***************************************************************************)
EXTENDS Integers, SequencesExt, SequenceTheorems, WellFoundedInduction, TLAPS

NoRepeat(s) == \A i, j \in 1..Len(s) : s[i] = s[j] => i = j

(* A set of numbers has a least one, which Min names.                      *)
LEMMA Least ==
  ASSUME NEW I \in SUBSET Nat, I # {}
  PROVE  Min(I) \in I /\ \A n \in I : Min(I) <= n
<1> DEFINE R == {p \in Nat \X Nat : p[1] < p[2]}
<1>1. OpToRel(<, Nat) = R
  BY DEF OpToRel
<1>2. IsWellFoundedOn(R, Nat)
  BY <1>1, NatLessThanWellFounded
<1>3. \E n \in I : \A m \in I : <<m, n>> \notin R
  BY <1>2, WFMin
<1>4. \A m, n \in I : m < n => <<m, n>> \in R
  OBVIOUS
<1> HIDE DEF R
<1>5. PICK n \in I : \A m \in I : <<m, n>> \notin R
  BY <1>3
<1>6. ASSUME NEW m \in I PROVE n <= m
  <2>1. ~(m < n)
    BY <1>4, <1>5, <1>6
  <2>2. m \in Nat /\ n \in Nat
    OBVIOUS
  <2> QED BY <2>1, <2>2
<1> QED BY <1>6 DEF Min

(* The greatest of some places, which Max names.                           *)
LEMMA Greatest ==
  ASSUME NEW N \in Nat, NEW I \in SUBSET (1..N), I # {}
  PROVE  Max(I) \in I /\ \A i \in I : Max(I) >= i
<1> DEFINE D == {N - i : i \in I}
<1>1. D \in SUBSET Nat /\ D # {}
  <2>1. \A i \in I : i \in Nat /\ N - i \in Nat
    OBVIOUS
  <2> QED BY <2>1
<1>2. Min(D) \in D /\ \A d \in D : Min(D) <= d
  BY <1>1, Least
<1>3. PICK m \in I : Min(D) = N - m
  BY <1>2
<1>4. ASSUME NEW i \in I PROVE m >= i
  <2>1. N - i \in D
    OBVIOUS
  <2>2. N - m <= N - i
    BY <1>2, <1>3, <2>1
  <2>3. i \in 1..N /\ m \in 1..N
    OBVIOUS
  <2> QED BY <2>2, <2>3
<1> QED BY <1>4 DEF Max

(* Where SelectInSeq finds an element.                                     *)
LEMMA FirstPlace ==
  ASSUME NEW S, NEW s \in Seq(S), NEW x, NEW i \in 1..Len(s), s[i] = x
  PROVE  /\ SelectInSeq(s, LAMBDA v : v = x) \in 1..Len(s)
         /\ s[SelectInSeq(s, LAMBDA v : v = x)] = x
<1> DEFINE I == {j \in 1..Len(s) : s[j] = x}
<1>1. SelectInSeq(s, LAMBDA v : v = x) = IF I # {} THEN Min(I) ELSE 0
  BY DEF SelectInSeq
<1>2. I \in SUBSET Nat /\ I # {}
  OBVIOUS
<1>4. Min(I) \in I
  BY <1>2, Least
<1> QED BY <1>1, <1>2, <1>4

(* RemoveFirst takes the element out, when it is there once.               *)
LEMMA RemovedFirst ==
  ASSUME NEW S, NEW s \in Seq(S), NoRepeat(s), NEW x
  PROVE  /\ RemoveFirst(s, x) \in Seq(S)
         /\ NoRepeat(RemoveFirst(s, x))
         /\ Range(RemoveFirst(s, x)) = Range(s) \ {x}
<1>1. CASE \E i \in 1..Len(s) : s[i] = x
  <2> DEFINE k == SelectInSeq(s, LAMBDA v : v = x)
             t == SubSeq(s, 1, k - 1) \o SubSeq(s, k + 1, Len(s))
  <2>1. k \in 1..Len(s) /\ s[k] = x
    BY <1>1, FirstPlace
  <2>2. RemoveFirst(s, x) = t
    BY <1>1 DEF RemoveFirst, RemoveAt
  <2> HIDE DEF k
  <2>3. /\ t \in Seq(S) /\ Len(t) = Len(s) - 1
        /\ \A i \in 1..Len(t) : t[i] = IF i < k THEN s[i] ELSE s[i + 1]
    <3> DEFINE u == SubSeq(s, 1, k - 1)
               v == SubSeq(s, k + 1, Len(s))
    <3>1. /\ u \in Seq(S) /\ Len(u) = k - 1
          /\ \A i \in 1..k - 1 : u[i] = s[i]
      BY <2>1, SubSeqProperties
    <3>2. /\ v \in Seq(S) /\ Len(v) = Len(s) - k
          /\ \A i \in 1..Len(s) - k : v[i] = s[k + i]
      BY <2>1, SubSeqProperties
    <3> HIDE DEF u, v
    <3>3. \A i \in 1..Len(u) + Len(v) :
             (u \o v)[i] = IF i <= Len(u) THEN u[i] ELSE v[i - Len(u)]
      BY <3>1, <3>2, ConcatProperties
    <3>4. u \o v \in Seq(S) /\ Len(u \o v) = Len(u) + Len(v)
      BY <3>1, <3>2, ConcatProperties
    <3>5. t = u \o v
      BY DEF u, v
    <3> HIDE DEF t
    <3>6. t \in Seq(S) /\ Len(t) = Len(s) - 1
      BY <2>1, <3>1, <3>2, <3>4, <3>5
    <3>7. ASSUME NEW i \in 1..Len(t) PROVE t[i] = IF i < k THEN s[i] ELSE s[i + 1]
      <4>1. i \in 1..Len(u) + Len(v)
        BY <2>1, <3>1, <3>2, <3>6
      <4>2. CASE i < k
        BY <2>1, <3>1, <3>3, <3>5, <4>1, <4>2
      <4>3. CASE ~(i < k)
        <5>1. i - Len(u) \in 1..Len(s) - k /\ k + (i - Len(u)) = i + 1 /\ ~(i <= Len(u))
          BY <2>1, <3>1, <3>2, <3>6, <4>1, <4>3
        <5> QED BY <3>2, <3>3, <3>5, <4>1, <4>3, <5>1
      <4> QED BY <4>2, <4>3
    <3> QED BY <3>6, <3>7
  <2> HIDE DEF t
  <2>4. NoRepeat(t)
    <3> SUFFICES ASSUME NEW i \in 1..Len(t), NEW j \in 1..Len(t), t[i] = t[j] PROVE i = j
      BY DEF NoRepeat
    <3> DEFINE place(n) == IF n < k THEN n ELSE n + 1
    <3>1. /\ place(i) \in 1..Len(s) /\ place(j) \in 1..Len(s)
          /\ t[i] = s[place(i)] /\ t[j] = s[place(j)]
      BY <2>1, <2>3
    <3>2. place(i) = place(j)
      BY <3>1 DEF NoRepeat
    <3> QED BY <2>1, <3>2
  <2>5. ASSUME NEW i \in 1..Len(t) PROVE t[i] \in Range(s) \ {x}
    BY <2>1, <2>3, <2>5 DEF NoRepeat, Range
  <2>6. ASSUME NEW j \in 1..Len(s), s[j] # x PROVE s[j] \in Range(t)
    <3>1. CASE j < k
      BY <3>1, <2>1, <2>3 DEF Range
    <3>2. CASE j > k
      <4>1. j - 1 \in 1..Len(t) /\ t[j - 1] = s[j]
        BY <3>2, <2>1, <2>3
      <4> QED BY <4>1, <2>3 DEF Range
    <3> QED BY <3>1, <3>2, <2>1, <2>6
  <2>7. Range(t) = Range(s) \ {x}
    BY <2>3, <2>5, <2>6 DEF Range
  <2> QED BY <2>2, <2>3, <2>4, <2>7
<1>2. CASE ~ \E i \in 1..Len(s) : s[i] = x
  BY <1>2 DEF RemoveFirst, Range
<1> QED BY <1>1, <1>2

(* A new element at either end.                                            *)
LEMMA Appended ==
  ASSUME NEW S, NEW s \in Seq(S), NoRepeat(s), NEW x \in S, x \notin Range(s)
  PROVE  /\ Append(s, x) \in Seq(S)
         /\ NoRepeat(Append(s, x))
         /\ Range(Append(s, x)) = Range(s) \cup {x}
<1>1. Append(s, x) \in Seq(S) /\ Len(Append(s, x)) = Len(s) + 1
  OBVIOUS
<1>2. \A i \in 1..Len(s) + 1 : Append(s, x)[i] = IF i = Len(s) + 1 THEN x ELSE s[i]
  OBVIOUS
<1>3. \A i \in 1..Len(s) : s[i] # x
  BY DEF Range
<1>4. NoRepeat(Append(s, x))
  BY <1>1, <1>2, <1>3 DEF NoRepeat
<1>5. Range(Append(s, x)) = Range(s) \cup {x}
  BY <1>1, <1>2 DEF Range
<1> QED BY <1>1, <1>4, <1>5

LEMMA Prepended ==
  ASSUME NEW S, NEW s \in Seq(S), NoRepeat(s), NEW x \in S, x \notin Range(s)
  PROVE  /\ <<x>> \o s \in Seq(S)
         /\ NoRepeat(<<x>> \o s)
         /\ Range(<<x>> \o s) = Range(s) \cup {x}
<1> DEFINE t == <<x>> \o s
<1>1. <<x>> \in Seq(S) /\ Len(<<x>>) = 1 /\ <<x>>[1] = x
  OBVIOUS
<1>2. /\ t \in Seq(S) /\ Len(t) = Len(s) + 1
      /\ \A i \in 1..Len(s) + 1 : t[i] = IF i <= 1 THEN <<x>>[i] ELSE s[i - 1]
  BY <1>1, ConcatProperties
<1> HIDE DEF t
<1>3. t[1] = x
  BY <1>1, <1>2
<1>4. ASSUME NEW i \in 2..Len(s) + 1
      PROVE  i - 1 \in 1..Len(s) /\ t[i] = s[i - 1] /\ t[i] # x
  <2>1. i - 1 \in 1..Len(s) /\ i \in 1..Len(s) + 1 /\ ~(i <= 1)
    OBVIOUS
  <2>2. t[i] = s[i - 1]
    BY <1>2, <2>1
  <2>3. s[i - 1] \in Range(s)
    BY <2>1 DEF Range
  <2> QED BY <2>1, <2>2, <2>3
<1>5. NoRepeat(t)
  <2> SUFFICES ASSUME NEW i \in 1..Len(t), NEW j \in 1..Len(t), t[i] = t[j] PROVE i = j
    BY DEF NoRepeat
  <2>1. CASE i = 1 \/ j = 1
    BY <1>2, <1>3, <1>4, <2>1
  <2>2. CASE i # 1 /\ j # 1
    <3>1. i \in 2..Len(s) + 1 /\ j \in 2..Len(s) + 1
      BY <1>2, <2>2
    <3>2. s[i - 1] = s[j - 1] /\ i - 1 \in 1..Len(s) /\ j - 1 \in 1..Len(s)
      BY <1>4, <3>1
    <3>3. i - 1 = j - 1
      BY <3>2 DEF NoRepeat
    <3> QED BY <3>1, <3>3
  <2> QED BY <2>1, <2>2
<1>6. Range(t) = Range(s) \cup {x}
  <2>1. ASSUME NEW i \in 1..Len(t) PROVE t[i] \in Range(s) \cup {x}
    <3>1. CASE i = 1
      BY <1>3, <3>1
    <3>2. CASE i # 1
      <4>1. i \in 2..Len(s) + 1
        BY <1>2, <3>2
      <4> QED BY <1>4, <4>1 DEF Range
    <3> QED BY <3>1, <3>2
  <2>2. ASSUME NEW i \in 1..Len(s) PROVE s[i] \in Range(t)
    <3>1. i + 1 \in 2..Len(s) + 1 /\ i + 1 \in DOMAIN t /\ i + 1 - 1 = i
      BY <1>2
    <3>2. t[i + 1] = s[i]
      BY <1>4, <3>1
    <3> QED BY <3>1, <3>2 DEF Range
  <2>3. x \in Range(t)
    BY <1>2, <1>3 DEF Range
  <2>4. Range(t) \subseteq Range(s) \cup {x}
    BY <1>2, <2>1 DEF Range
  <2>5. Range(s) \subseteq Range(t)
    BY <2>2 DEF Range
  <2> QED BY <2>3, <2>4, <2>5
<1> QED BY <1>2, <1>5, <1>6 DEF t
=============================================================================
