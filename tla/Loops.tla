------------------------------- MODULE Loops -------------------------------
(***************************************************************************)
(* Lemmas about loops over the elements of a list, for lists of any        *)
(* length: induction on a set of numbers, that the function a loop defines *)
(* exists, and the elements of the lists that loops build.                 *)
(***************************************************************************)
EXTENDS SequencesExt, FiniteSetTheorems, SequenceTheorems, WellFoundedInduction, TLAPS

\* A set that has zero, and with each number the next, has all of them.
LEMMA AllNumbers ==
    ASSUME NEW S \in SUBSET Nat, 0 \in S, \A n \in S : n + 1 \in S
    PROVE  S = Nat
<1> DEFINE LT == {p \in Nat \X Nat : p[1] < p[2]}
<1> SUFFICES ASSUME Nat \ S # {}
             PROVE  FALSE
  OBVIOUS
<1>1. IsWellFoundedOn(LT, Nat)
  BY NatLessThanWellFounded DEF OpToRel
<1>2. \E n \in Nat \ S : \A m \in Nat \ S : ~(<<m, n>> \in LT)
  <2> HIDE DEF LT
  <2> QED
    BY <1>1, WFMin
<1>3. PICK n \in Nat \ S : \A m \in Nat \ S : n <= m
  <2>1. \A m, n \in Nat : <<m, n>> \in LT <=> m < n
    OBVIOUS
  <2>2. PICK n \in Nat \ S : \A m \in Nat \ S : ~(<<m, n>> \in LT)
    BY <1>2
  <2>3. ASSUME NEW m \in Nat \ S
        PROVE  n <= m
    <3>1. ~(<<m, n>> \in LT)
      BY <2>2
    <3>2. m \in Nat /\ n \in Nat
      OBVIOUS
    <3>3. ~(m < n)
      BY <2>1, <3>1, <3>2
    <3> QED
      BY <3>2, <3>3
  <2> QED
    BY <2>3
<1>4. n - 1 \in S
  BY <1>3
<1> QED
  BY <1>3, <1>4

\* The values of a loop over 1..n that starts with t0 and applies step.
Steps(n, T) == [(1..n) \X T -> T]
Runs(f, t0, n, step) == f[0] = t0 /\ \A i \in 1..n : f[i] = step[<<i, f[i - 1]>>]

\* Such a loop runs to its end.
LEMMA Iterates ==
    ASSUME NEW T, NEW t0 \in T, NEW n \in Nat, NEW step \in Steps(n, T)
    PROVE  \E f \in [0..n -> T] : Runs(f, t0, n, step)
<1> DEFINE Run(m, f) == f[0] = t0 /\ \A i \in 1..m : f[i] = step[<<i, f[i - 1]>>]
           S == {m \in Nat : m <= n => \E f \in [0..m -> T] : Run(m, f)}
<1>0. step \in [(1..n) \X T -> T]
  BY DEF Steps
<1>1. 0 \in S
  <2> DEFINE f == [i \in 0..0 |-> t0]
  <2>1. f \in [0..0 -> T] /\ Run(0, f)
    OBVIOUS
  <2> HIDE DEF f, Run
  <2> QED
    BY <2>1
<1>2. ASSUME NEW m \in S
      PROVE  m + 1 \in S
  <2> SUFFICES ASSUME m + 1 <= n
               PROVE  \E f \in [0..m + 1 -> T] : Run(m + 1, f)
    OBVIOUS
  <2>1. m \in Nat /\ m <= n
    OBVIOUS
  <2>2. PICK g \in [0..m -> T] : Run(m, g)
    BY <2>1
  <2> DEFINE f == [i \in 0..m + 1 |-> IF i = m + 1 THEN step[<<m + 1, g[m]>>] ELSE g[i]]
  <2>3. step[<<m + 1, g[m]>>] \in T
    BY <1>0, <2>1
  <2>4. f \in [0..m + 1 -> T]
    BY <2>1, <2>3
  <2>5. f[m + 1] = step[<<m + 1, g[m]>>] /\ \A i \in 0..m : f[i] = g[i]
    BY <2>1
  <2> HIDE DEF f
  <2>6. f[0] = t0
    BY <2>1, <2>2, <2>5
  <2>7. ASSUME NEW i \in 1..m + 1
        PROVE  f[i] = step[<<i, f[i - 1]>>]
    <3>1. CASE i = m + 1
      <4>1. i - 1 = m /\ m \in 0..m
        BY <2>1, <3>1
      <4> QED
        BY <2>5, <3>1, <4>1
    <3>2. CASE i # m + 1
      <4>1. i \in 1..m /\ i \in 0..m /\ i - 1 \in 0..m
        BY <2>1, <3>2
      <4> QED
        BY <2>2, <2>5, <4>1
    <3> QED
      BY <3>1, <3>2
  <2>8. Run(m + 1, f)
    BY <2>6, <2>7
  <2> HIDE DEF Run
  <2> QED
    BY <2>4, <2>8
<1>3. S \in SUBSET Nat
  OBVIOUS
<1> HIDE DEF S
<1>4. n \in S
  BY <1>1, <1>2, <1>3, AllNumbers
<1> QED
  BY <1>4 DEF S, Runs

\* The elements of a longer sequence.
LEMMA SetOfAppend ==
    ASSUME NEW R, NEW s \in Seq(R), NEW x \in R
    PROVE  Append(s, x) \in Seq(R) /\ ToSet(Append(s, x)) = ToSet(s) \cup {x}
<1> DEFINE a == Append(s, x)
           n == Len(s)
<1>1. n \in Nat /\ DOMAIN s = 1..n
  BY LenProperties
<1>2. /\ a \in Seq(R) /\ DOMAIN a = 1..n + 1
      /\ a[n + 1] = x /\ \A i \in 1..n : a[i] = s[i]
  BY AppendProperties, LenProperties
<1> HIDE DEF a, n
<1>3. \A i \in 1..n + 1 : i = n + 1 \/ i \in 1..n
  BY <1>1
<1>4. n + 1 \in 1..n + 1 /\ \A i \in 1..n : i \in 1..n + 1
  BY <1>1
<1>5. ASSUME NEW y
      PROVE  y \in ToSet(a) <=> y \in ToSet(s) \cup {x}
  BY <1>1, <1>2, <1>3, <1>4 DEF ToSet
<1>6. a \in Seq(R) /\ ToSet(a) = ToSet(s) \cup {x}
  BY <1>2, <1>5
<1> QED
  BY <1>6 DEF a

LEMMA SetOfConcat ==
    ASSUME NEW R, NEW s \in Seq(R), NEW t \in Seq(R)
    PROVE  s \o t \in Seq(R) /\ ToSet(s \o t) = ToSet(s) \cup ToSet(t)
<1> DEFINE c == s \o t
           m == Len(s)
           n == Len(t)
<1>1. m \in Nat /\ n \in Nat /\ DOMAIN s = 1..m /\ DOMAIN t = 1..n
  BY LenProperties
<1>2. /\ c \in Seq(R) /\ DOMAIN c = 1..m + n
      /\ \A i \in 1..m + n : c[i] = IF i <= m THEN s[i] ELSE t[i - m]
  BY ConcatProperties, LenProperties
<1> HIDE DEF c, m, n
<1>3. ASSUME NEW y
      PROVE  y \in ToSet(c) <=> y \in ToSet(s) \cup ToSet(t)
  <2>1. ASSUME NEW i \in 1..m + n
        PROVE  c[i] \in ToSet(s) \cup ToSet(t)
    <3>1. CASE i <= m
      <4>1. i \in 1..m
        BY <1>1, <3>1
      <4> QED
        BY <1>1, <1>2, <3>1, <4>1 DEF ToSet
    <3>2. CASE ~(i <= m)
      <4>1. i - m \in 1..n
        BY <1>1, <3>2
      <4> QED
        BY <1>1, <1>2, <3>2, <4>1 DEF ToSet
    <3> QED
      BY <3>1, <3>2
  <2>2. ASSUME NEW i \in 1..m
        PROVE  s[i] \in ToSet(c)
    <3>1. i \in 1..m + n /\ i <= m
      BY <1>1
    <3> QED
      BY <1>2, <3>1 DEF ToSet
  <2>3. ASSUME NEW i \in 1..n
        PROVE  t[i] \in ToSet(c)
    <3>1. i + m \in 1..m + n /\ ~(i + m <= m) /\ (i + m) - m = i
      BY <1>1
    <3>2. c[i + m] = t[i]
      BY <1>2, <3>1
    <3> QED
      BY <1>2, <3>1, <3>2 DEF ToSet
  <2>4. \A z \in ToSet(c) : \E i \in 1..m + n : z = c[i]
    BY <1>2 DEF ToSet
  <2>5. \A z \in ToSet(s) : \E i \in 1..m : z = s[i]
    BY <1>1 DEF ToSet
  <2>6. \A z \in ToSet(t) : \E i \in 1..n : z = t[i]
    BY <1>1 DEF ToSet
  <2> QED
    BY <2>1, <2>2, <2>3, <2>4, <2>5, <2>6
<1>4. c \in Seq(R) /\ ToSet(c) = ToSet(s) \cup ToSet(t)
  BY <1>2, <1>3
<1> QED
  BY <1>4 DEF c
=============================================================================
