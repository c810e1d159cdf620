---------------------------- MODULE IndexProofs ----------------------------
(***************************************************************************)
(* Proofs about InvertedIndex, for any pages, terms, snapshots and number  *)
(* of writes: the postings, the URL map, the lengths and the total stay    *)
(* exact, and the index implements CorpusContract.                         *)
(***************************************************************************)
EXTENDS InvertedIndex, Loops

----------------------------------------------------------------------------
(* Sums *)

\* The pairs that Total counts.
Pairs(f) == UNION {{x} \X (1..f[x]) : x \in DOMAIN f}

LEMMA PairsOf ==
    ASSUME NEW f, IsFiniteSet(DOMAIN f), \A x \in DOMAIN f : f[x] \in Nat
    PROVE  /\ IsFiniteSet(Pairs(f))
           /\ Total(f) = Cardinality(Pairs(f)) /\ Total(f) \in Nat
           /\ \A p : p \in Pairs(f) <=> \E x \in DOMAIN f : \E k \in 1..f[x] : p = <<x, k>>
<1> DEFINE g == [x \in DOMAIN f |-> {x} \X (1..f[x])]
           S == {{x} \X (1..f[x]) : x \in DOMAIN f}
<1>1. g \in Surjection(DOMAIN f, S)
  BY DEF Surjection
<1>2. IsFiniteSet(S)
  <2> HIDE DEF g, S
  <2> QED
    BY <1>1, FS_Surjection
<1>3. ASSUME NEW T \in S
      PROVE  IsFiniteSet(T)
  <2>1. PICK x \in DOMAIN f : T = {x} \X (1..f[x])
    BY <1>3
  <2>2. 1 \in Int /\ f[x] \in Int
    OBVIOUS
  <2>3. IsFiniteSet(1..f[x])
    BY <2>2, FS_Interval
  <2>4. IsFiniteSet({x})
    BY FS_Singleton
  <2> QED
    BY <2>1, <2>3, <2>4, FS_Product
<1>4. IsFiniteSet(Pairs(f))
  <2>1. Pairs(f) = UNION S
    BY DEF Pairs
  <2> HIDE DEF S
  <2> QED
    BY <1>2, <1>3, <2>1, FS_UNION
<1>5. Total(f) = Cardinality(Pairs(f))
  BY DEF Total, Pairs
<1>6. \A p : p \in Pairs(f) <=> \E x \in DOMAIN f : \E k \in 1..f[x] : p = <<x, k>>
  BY DEF Pairs
<1> QED
  BY <1>4, <1>5, <1>6, FS_CardinalityType

\* The sum of a function with one more value.
LEMMA TotalPut ==
    ASSUME NEW f, IsFiniteSet(DOMAIN f), \A x \in DOMAIN f : f[x] \in Nat,
           NEW k, k \notin DOMAIN f, NEW v \in Nat
    PROVE  Total(Put(f, k, v)) = Total(f) + v
<1> DEFINE h == Put(f, k, v)
           new == {k} \X (1..v)
<1>1. DOMAIN h = DOMAIN f \cup {k} /\ \A x \in DOMAIN h : h[x] = IF x = k THEN v ELSE f[x]
  BY DEF Put
<1>2. IsFiniteSet(DOMAIN h) /\ \A x \in DOMAIN h : h[x] \in Nat
  BY <1>1, FS_AddElement
<1> HIDE DEF h
<1>3. Pairs(h) = Pairs(f) \cup new
  <2>1. \A p : p \in new <=> \E i \in 1..v : p = <<k, i>>
    OBVIOUS
  <2>2. ASSUME NEW p
        PROVE  p \in Pairs(h) <=> p \in Pairs(f) \cup new
    <3>1. p \in Pairs(h) <=> \E x \in DOMAIN h : \E i \in 1..h[x] : p = <<x, i>>
      BY <1>2, PairsOf
    <3>2. p \in Pairs(f) <=> \E x \in DOMAIN f : \E i \in 1..f[x] : p = <<x, i>>
      BY PairsOf
    <3> HIDE DEF new
    <3> QED
      BY <1>1, <2>1, <3>1, <3>2
  <2> HIDE DEF new
  <2> QED
    BY <2>2
<1>4. Pairs(f) \cap new = {}
  <2>1. ASSUME NEW p \in Pairs(f)
        PROVE  p \notin new
    BY PairsOf
  <2> QED
    BY <2>1
<1>5. IsFiniteSet(new) /\ Cardinality(new) = v
  <2>1. IsFiniteSet({k}) /\ Cardinality({k}) = 1
    BY FS_Singleton
  <2>2. IsFiniteSet(1..v) /\ Cardinality(1..v) = v
    BY FS_Interval
  <2>3. IsFiniteSet(new) /\ Cardinality(new) = Cardinality({k}) * Cardinality(1..v)
    BY <2>1, <2>2, FS_Product
  <2>4. 1 * v = v
    OBVIOUS
  <2> QED
    BY <2>1, <2>2, <2>3, <2>4
<1> HIDE DEF new
<1>6. Cardinality(Pairs(h)) = Cardinality(Pairs(f)) + v
  <2>1. IsFiniteSet(Pairs(f)) /\ Cardinality(Pairs(f)) \in Nat
    BY PairsOf
  <2>2. Cardinality(Pairs(f) \cup new) =
           Cardinality(Pairs(f)) + Cardinality(new) - Cardinality(Pairs(f) \cap new)
    BY <1>5, <2>1, FS_Union
  <2>3. Cardinality(Pairs(f) \cap new) = 0
    BY <1>4, FS_EmptySet
  <2> QED
    BY <1>3, <1>5, <2>1, <2>2, <2>3
<1> QED
  BY <1>2, <1>6, PairsOf DEF h

\* And with one less.
LEMMA TotalDrop ==
    ASSUME NEW f, IsFiniteSet(DOMAIN f), \A x \in DOMAIN f : f[x] \in Nat,
           f = [x \in DOMAIN f |-> f[x]], NEW k \in DOMAIN f
    PROVE  Total(Drop(f, k)) = Total(f) - f[k] /\ Total(Drop(f, k)) \in Nat
<1> DEFINE g == Drop(f, k)
<1>1. DOMAIN g = DOMAIN f \ {k} /\ \A x \in DOMAIN g : g[x] = f[x]
  BY DEF Drop, Restrict
<1>2. Put(g, k, f[k]) = f
  <2>1. DOMAIN g \cup {k} = DOMAIN f
    BY <1>1
  <2> QED
    BY <1>1, <2>1 DEF Put
<1>3. IsFiniteSet(DOMAIN g)
  BY <1>1, FS_RemoveElement
<1> HIDE DEF g
<1>4. \A x \in DOMAIN g : g[x] \in Nat
  BY <1>1
<1>5. k \notin DOMAIN g /\ f[k] \in Nat
  BY <1>1
<1>6. Total(Put(g, k, f[k])) = Total(g) + f[k]
  BY <1>3, <1>4, <1>5, TotalPut
<1>7. Total(g) \in Nat
  BY <1>3, <1>4, PairsOf
<1> QED
  BY <1>2, <1>5, <1>6, <1>7 DEF g

\* The empty sum.
LEMMA TotalEmpty == \A f : DOMAIN f = {} => Total(f) = 0
<1>1. ASSUME NEW f, DOMAIN f = {}
      PROVE  Total(f) = 0
  <2>1. UNION {{x} \X (1..f[x]) : x \in DOMAIN f} = {}
    BY <1>1
  <2> QED
    BY <2>1, FS_EmptySet DEF Total
<1> QED
  BY <1>1

\* A sum that is zero.
LEMMA TotalZero ==
    ASSUME NEW f, IsFiniteSet(DOMAIN f), \A x \in DOMAIN f : f[x] \in Nat, Total(f) = 0,
           NEW x \in DOMAIN f
    PROVE  f[x] = 0
<1> SUFFICES ASSUME f[x] # 0
             PROVE  FALSE
  OBVIOUS
<1>1. 1 \in 1..f[x]
  OBVIOUS
<1>2. <<x, 1>> \in Pairs(f)
  BY <1>1, PairsOf
<1> QED
  BY <1>2, PairsOf, FS_EmptySet

\* Two functions with the same values at corresponding places have one sum.
LEMMA TotalSame ==
    ASSUME NEW f, IsFiniteSet(DOMAIN f), \A x \in DOMAIN f : f[x] \in Nat,
           NEW g, NEW r \in Bijection(DOMAIN f, DOMAIN g), \A x \in DOMAIN f : g[r[x]] = f[x]
    PROVE  Total(g) = Total(f)
<1> DEFINE h == [p \in Pairs(f) |-> <<r[p[1]], p[2]>>]
<1>1. /\ r \in [DOMAIN f -> DOMAIN g]
      /\ \A a, b \in DOMAIN f : r[a] = r[b] => a = b
      /\ \A y \in DOMAIN g : \E x \in DOMAIN f : r[x] = y
  BY DEF Bijection, Injection, Surjection, IsInjective
<1>2. IsFiniteSet(DOMAIN g) /\ \A y \in DOMAIN g : g[y] \in Nat
  <2>1. ExistsBijection(DOMAIN f, DOMAIN g)
    BY DEF ExistsBijection
  <2> QED
    BY <1>1, <2>1, FS_Bijection
<1>3. /\ \A p : p \in Pairs(f) <=> \E x \in DOMAIN f : \E k \in 1..f[x] : p = <<x, k>>
      /\ \A p : p \in Pairs(g) <=> \E x \in DOMAIN g : \E k \in 1..g[x] : p = <<x, k>>
      /\ IsFiniteSet(Pairs(f))
  BY <1>2, PairsOf
<1>4. ASSUME NEW p \in Pairs(f)
      PROVE  p[1] \in DOMAIN f /\ h[p] \in Pairs(g) /\ h[p] = <<r[p[1]], p[2]>> /\ p = <<p[1], p[2]>>
  <2>1. PICK x \in DOMAIN f : \E k \in 1..f[x] : p = <<x, k>>
    BY <1>3
  <2>0. PICK k \in 1..f[x] : p = <<x, k>>
    BY <2>1
  <2>2. h[p] = <<r[x], k>> /\ r[x] \in DOMAIN g /\ g[r[x]] = f[x]
    BY <1>1, <2>0
  <2>3. <<r[x], k>> \in Pairs(g)
    BY <1>3, <2>2
  <2> HIDE DEF h
  <2> QED
    BY <2>0, <2>2, <2>3
<1>5. ASSUME NEW p \in Pairs(f), NEW q \in Pairs(f), h[p] = h[q]
      PROVE  p = q
  <2>1. /\ p[1] \in DOMAIN f /\ h[p] = <<r[p[1]], p[2]>> /\ p = <<p[1], p[2]>>
        /\ q[1] \in DOMAIN f /\ h[q] = <<r[q[1]], q[2]>> /\ q = <<q[1], q[2]>>
    BY <1>4
  <2> HIDE DEF h
  <2>2. r[p[1]] = r[q[1]] /\ p[2] = q[2]
    <3>1. <<r[p[1]], p[2]>> = <<r[q[1]], q[2]>>
      BY <1>5, <2>1
    <3> QED
      BY <3>1
  <2>3. p[1] = q[1]
    BY <1>1, <2>1, <2>2
  <2> QED
    BY <2>1, <2>2, <2>3
<1>6. ASSUME NEW q \in Pairs(g)
      PROVE  \E p \in Pairs(f) : h[p] = q
  <2>1. PICK y \in DOMAIN g : \E k \in 1..g[y] : q = <<y, k>>
    BY <1>3
  <2>0. PICK k \in 1..g[y] : q = <<y, k>>
    BY <2>1
  <2>2. PICK x \in DOMAIN f : r[x] = y
    BY <1>1
  <2>3. <<x, k>> \in Pairs(f)
    BY <1>3, <2>0, <2>2
  <2>4. h[<<x, k>>] = q
    BY <2>0, <2>2, <2>3
  <2> QED
    BY <2>3, <2>4
<1>7. h \in Bijection(Pairs(f), Pairs(g))
  <2>1. h \in [Pairs(f) -> Pairs(g)] /\ DOMAIN h = Pairs(f)
    BY <1>4
  <2> HIDE DEF h
  <2> QED
    BY <1>5, <1>6, <2>1 DEF Bijection, Injection, Surjection, IsInjective
<1>8. Cardinality(Pairs(g)) = Cardinality(Pairs(f))
  <2>1. ExistsBijection(Pairs(f), Pairs(g))
    BY <1>7 DEF ExistsBijection
  <2> QED
    BY <1>3, <2>1, FS_Bijection
<1> QED
  BY <1>2, <1>8, PairsOf

----------------------------------------------------------------------------
(* Lists of postings *)

Posting == [docId : Nat, termFreq : Nat]

\* A list with at most one posting for each document.
Once(list) == \A i, j \in DOMAIN list : list[i].docId = list[j].docId => i = j

\* push_back of a posting for a document that has none in the list.
LEMMA AppendOnce ==
    ASSUME NEW list \in Seq(Posting), Once(list), NEW p \in Posting,
           \A q \in ToSet(list) : q.docId # p.docId
    PROVE  /\ Append(list, p) \in Seq(Posting) /\ Once(Append(list, p))
           /\ ToSet(Append(list, p)) = ToSet(list) \cup {p}
<1> DEFINE a == Append(list, p)
           n == Len(list)
<1>1. n \in Nat /\ DOMAIN list = 1..n
  BY LenProperties
<1>2. a \in Seq(Posting) /\ Len(a) = n + 1 /\ DOMAIN a = 1..n + 1
  BY AppendProperties, LenProperties
<1>3. a[n + 1] = p /\ \A i \in 1..n : a[i] = list[i]
  BY AppendProperties, <1>1
<1> HIDE DEF a
<1>4. \A i \in 1..n : a[i].docId # p.docId
  BY <1>1, <1>3 DEF ToSet
<1>5. Once(a)
  <2>1. ASSUME NEW i \in 1..n + 1, NEW j \in 1..n + 1, a[i].docId = a[j].docId
        PROVE  i = j
    <3>1. (i = n + 1 \/ i \in 1..n) /\ (j = n + 1 \/ j \in 1..n)
      BY <1>1
    <3> QED
      BY <1>1, <1>3, <1>4, <2>1, <3>1 DEF Once
  <2> QED
    BY <1>2, <2>1 DEF Once
<1>6. ToSet(a) = ToSet(list) \cup {p}
  <2>1. 1..n + 1 = (1..n) \cup {n + 1}
    BY <1>1
  <2> QED
    BY <1>1, <1>2, <1>3, <2>1 DEF ToSet
<1> QED
  BY <1>2, <1>5, <1>6 DEF a

\* The recursion that defines Others is a loop.
LEMMA OthersLoop ==
    ASSUME NEW list \in Seq(Posting), NEW id
    PROVE  \E kept \in [0..Len(list) -> Seq(Posting)] :
              /\ kept[0] = <<>>
              /\ \A i \in 1..Len(list) :
                    kept[i] = IF list[i].docId = id THEN kept[i - 1]
                              ELSE Append(kept[i - 1], list[i])
              /\ Others(list, id) = kept[Len(list)]
<1> DEFINE n == Len(list)
           T == Seq(Posting)
           Next1(i, l) == IF list[i].docId = id THEN l ELSE Append(l, list[i])
           step == [e \in (1..n) \X T |-> Next1(e[1], e[2])]
           Body(f) == [k \in 0..n |-> IF k = 0 THEN <<>> ELSE Next1(k, f[k - 1])]
<1>1. n \in Nat /\ \A i \in 1..n : list[i] \in Posting
  BY LenProperties, ElementOfSeq
<1>2. ASSUME NEW i \in 1..n, NEW l \in T
      PROVE  Next1(i, l) \in T
  BY <1>1, AppendProperties
<1>3. <<>> \in T
  BY EmptySeq
<1> HIDE DEF Next1, T, n
<1>4. step \in [(1..n) \X T -> T]
  BY <1>2
<1>5. \A i \in 1..n, l \in T : step[<<i, l>>] = Next1(i, l)
  OBVIOUS
<1> HIDE DEF step
<1>6. \E f \in [0..n -> T] : Runs(f, <<>>, n, step)
  <2>1. n \in Nat /\ step \in Steps(n, T)
    BY <1>1, <1>4 DEF Steps
  <2> QED
    BY <1>3, <2>1, Iterates
<1>7. PICK f \in [0..n -> T] : f[0] = <<>> /\ \A i \in 1..n : f[i] = step[<<i, f[i - 1]>>]
  BY <1>6 DEF Runs
<1>8. \A i \in 1..n : i - 1 \in 0..n
  BY <1>1
<1>9. f = Body(f)
  <2>1. ASSUME NEW k \in 0..n
        PROVE  f[k] = IF k = 0 THEN <<>> ELSE Next1(k, f[k - 1])
    <3>1. CASE k = 0
      BY <1>7, <3>1
    <3>2. CASE k # 0
      <4>1. k \in 1..n /\ k - 1 \in 0..n
        BY <1>1, <3>2
      <4>2. f[k - 1] \in T
        BY <4>1
      <4>3. f[k] = Next1(k, f[k - 1])
        BY <1>5, <1>7, <4>1, <4>2
      <4> QED
        BY <3>2, <4>3
    <3> QED
      BY <3>1, <3>2
  <2> QED
    BY <2>1
<1> DEFINE kept == CHOOSE g : g = Body(g)
<1>10. kept = Body(kept)
  <2>1. \E g : g = Body(g)
    BY <1>9
  <2> HIDE DEF Body
  <2> QED
    BY <2>1
<1>11. Others(list, id) = kept[n]
  BY DEF Others, Next1, n
<1> HIDE DEF kept
<1>12. DOMAIN kept = 0..n /\ kept[0] = <<>> /\ \A i \in 1..n : kept[i] = Next1(i, kept[i - 1])
  <2>1. 0 \in 0..n /\ \A i \in 1..n : i \in 0..n /\ i # 0
    BY <1>1
  <2>2. \A k \in 0..n : kept[k] = IF k = 0 THEN <<>> ELSE Next1(k, kept[k - 1])
    BY <1>10
  <2>3. DOMAIN kept = 0..n
    BY <1>10
  <2> QED
    BY <2>1, <2>2, <2>3
<1>13. \A k \in 0..n : kept[k] \in T
  <2> DEFINE S == {m \in Nat : m <= n => kept[m] \in T}
  <2>1. 0 \in S
    BY <1>3, <1>12
  <2>2. ASSUME NEW m \in S
        PROVE  m + 1 \in S
    <3> SUFFICES ASSUME m + 1 <= n
                 PROVE  kept[m + 1] \in T
      OBVIOUS
    <3>1. m + 1 \in 1..n /\ (m + 1) - 1 = m /\ kept[m] \in T
      BY <1>1
    <3>2. kept[m + 1] = Next1(m + 1, kept[m])
      BY <1>12, <3>1
    <3> QED
      BY <1>2, <3>1, <3>2
  <2>3. S = Nat
    <3>1. S \in SUBSET Nat
      OBVIOUS
    <3> HIDE DEF S
    <3> QED
      BY <2>1, <2>2, <3>1, AllNumbers
  <2>4. \A k \in 0..n : k \in S /\ k <= n
    BY <1>1, <2>3
  <2> QED
    BY <2>4
<1>14. kept \in [0..n -> T]
  <2>1. kept = [k \in 0..n |-> kept[k]]
    BY <1>10
  <2> QED
    BY <1>13, <2>1
<1> QED
  BY <1>11, <1>12, <1>14 DEF Next1, T, n

\* The erase-remove idiom leaves the postings of all other documents, each once.
LEMMA OthersLeft ==
    ASSUME NEW list \in Seq(Posting), Once(list), NEW id
    PROVE  /\ Others(list, id) \in Seq(Posting) /\ Once(Others(list, id))
           /\ \A p : p \in ToSet(Others(list, id)) <=> p \in ToSet(list) /\ p.docId # id
<1> DEFINE n == Len(list)
<1>1. n \in Nat /\ DOMAIN list = 1..n /\ \A i \in 1..n : list[i] \in Posting
  BY LenProperties, ElementOfSeq
<1>2. PICK kept \in [0..n -> Seq(Posting)] :
         /\ kept[0] = <<>>
         /\ \A i \in 1..n : kept[i] = IF list[i].docId = id THEN kept[i - 1]
                                      ELSE Append(kept[i - 1], list[i])
         /\ Others(list, id) = kept[n]
  BY OthersLoop
<1> DEFINE Good(m) == /\ Once(kept[m])
                      /\ \A p : p \in ToSet(kept[m]) <=>
                                   \E i \in 1..m : p = list[i] /\ list[i].docId # id
           S == {m \in Nat : m <= n => Good(m)}
<1> HIDE DEF n
<1>3. 0 \in S
  <2>1. Once(<<>>) /\ ToSet(<<>>) = {}
    BY DEF Once, ToSet
  <2>2. Good(0)
    BY <1>2, <2>1
  <2> HIDE DEF Good
  <2> QED
    BY <2>2
<1>4. ASSUME NEW m \in S
      PROVE  m + 1 \in S
  <2> SUFFICES ASSUME m + 1 <= n
               PROVE  Good(m + 1)
    <3> HIDE DEF Good
    <3> QED
      OBVIOUS
  <2> DEFINE k == m + 1
             p == list[k]
  <2>1. m \in Nat /\ m \in 0..n /\ k \in 1..n /\ k - 1 = m /\ Good(m)
    <3> HIDE DEF Good
    <3> QED
      BY <1>1
  <2>2. 1..k = (1..m) \cup {k}
    BY <2>1
  <2>3. kept[m] \in Seq(Posting) /\ p \in Posting
    BY <1>1, <1>2, <2>1
  <2>4. kept[k] = IF p.docId = id THEN kept[m] ELSE Append(kept[m], p)
    BY <1>2, <2>1
  <2> HIDE DEF p, k
  <2>5. CASE p.docId = id
    <3>1. kept[k] = kept[m]
      BY <2>4, <2>5
    <3>2. \A q : (\E i \in 1..k : q = list[i] /\ list[i].docId # id)
                    <=> (\E i \in 1..m : q = list[i] /\ list[i].docId # id)
      BY <2>2, <2>5 DEF p
    <3> QED
      BY <2>1, <3>1, <3>2 DEF k
  <2>6. CASE p.docId # id
    <3>1. ASSUME NEW q \in ToSet(kept[m])
          PROVE  q.docId # p.docId
      <4>1. PICK i \in 1..m : q = list[i]
        BY <2>1
      <4>2. i \in DOMAIN list /\ k \in DOMAIN list /\ i # k
        BY <1>1, <2>1 DEF k
      <4> QED
        BY <4>1, <4>2 DEF Once, p
    <3>2. Once(kept[m])
      BY <2>1
    <3>3. kept[k] = Append(kept[m], p)
      BY <2>4, <2>6
    <3>4. Once(kept[k]) /\ ToSet(kept[k]) = ToSet(kept[m]) \cup {p}
      BY <2>3, <3>1, <3>2, <3>3, AppendOnce
    <3>5. \A q : (\E i \in 1..k : q = list[i] /\ list[i].docId # id)
                    <=> (\E i \in 1..m : q = list[i] /\ list[i].docId # id) \/ q = p
      BY <2>2, <2>6 DEF p
    <3>6. \A q : q \in ToSet(kept[k]) <=> \E i \in 1..k : q = list[i] /\ list[i].docId # id
      BY <2>1, <3>4, <3>5, SMTT(30)
    <3> QED
      BY <3>4, <3>6 DEF k
  <2> QED
    BY <2>5, <2>6
<1>5. S = Nat
  <2>1. S \in SUBSET Nat
    OBVIOUS
  <2> HIDE DEF S
  <2> QED
    BY <1>3, <1>4, <2>1, AllNumbers
<1>6. Good(n)
  <2>1. n \in S
    BY <1>1, <1>5
  <2> HIDE DEF Good
  <2> QED
    BY <1>1, <2>1
<1>7. n \in 0..n
  BY <1>1
<1>8. \A p : p \in ToSet(list) <=> \E i \in 1..n : p = list[i]
  BY <1>1 DEF ToSet
<1> QED
  BY <1>2, <1>6, <1>7, <1>8

----------------------------------------------------------------------------
(* An exact index *)

\* Functions on a part of a set.
Partial(S, T) == UNION {[Part -> T] : Part \in SUBSET S}

IndexRecord ==
    [postings : [Terms -> Seq(Posting)], urlToId : Partial(Urls, Nat), docs : Partial(Nat, Doc),
     docTerms : Partial(Nat, Partial(Terms, Nat)), docLengths : Partial(Nat, Nat),
     nextId : Nat \ {0}, totalTerms : Nat]

\* The posting of document id with content v in the list of term t.
IsPosting(p, id, v, t) ==
    t \in DOMAIN Freqs(v) /\ p = [docId |-> id, termFreq |-> Freqs(v)[t]]

\* The lists of a store have the postings of some of the documents, each once.
ListsHold(lists, docs, ids) ==
    \A t \in Terms :
       /\ Once(lists[t])
       /\ \A p : p \in ToSet(lists[t]) <=> \E id \in ids : IsPosting(p, id, docs[id].ver, t)

\* Every id was assigned, and what was extracted from a document is still known.
IdsExact(x) ==
    /\ DOMAIN x.docs \subseteq 1..(x.nextId - 1)
    /\ DOMAIN x.docTerms = DOMAIN x.docs /\ DOMAIN x.docLengths = DOMAIN x.docs
    /\ \A id \in DOMAIN x.docs : /\ x.docTerms[id] = Freqs(x.docs[id].ver)
                                 /\ x.docLengths[id] = Total(Freqs(x.docs[id].ver))

\* Each URL leads to its own document.
UrlsExact(x) ==
    /\ \A id \in DOMAIN x.docs : /\ x.docs[id].url \in DOMAIN x.urlToId
                                 /\ x.urlToId[x.docs[id].url] = id
    /\ \A u \in DOMAIN x.urlToId : /\ x.urlToId[u] \in DOMAIN x.docs
                                   /\ x.docs[x.urlToId[u]].url = u

Exact(x) ==
    /\ x \in IndexRecord
    /\ IdsExact(x) /\ UrlsExact(x)
    /\ ListsHold(x.postings, x.docs, DOMAIN x.docs)
    /\ x.totalTerms = Total(x.docLengths)

\* A partial function is a function on some part.
LEMMA PartialFun ==
    ASSUME NEW S, NEW T, NEW f
    PROVE  f \in Partial(S, T) <=> DOMAIN f \subseteq S /\ f \in [DOMAIN f -> T]
BY DEF Partial

\* The weighted frequencies of a version: finitely many terms, each at least
\* once, titles 3x.
LEMMA FreqsOf ==
    ASSUME NEW v \in Versions
    PROVE  /\ DOMAIN Freqs(v) = {t \in Terms : Title[v][t] + Text[v][t] > 0}
           /\ IsFiniteSet(DOMAIN Freqs(v))
           /\ \A t \in DOMAIN Freqs(v) : /\ Freqs(v)[t] = 3 * Title[v][t] + Text[v][t]
                                         /\ Freqs(v)[t] \in Nat \ {0}
           /\ Freqs(v) \in Partial(Terms, Nat)
           /\ Total(Freqs(v)) \in Nat
<1> USE InvertedIndexAssumption
<1> DEFINE total == [t \in Terms |-> Title[v][t] + Text[v][t] + 2 * Title[v][t]]
           D == {t \in Terms : total[t] > 0}
<1>1. \A t \in Terms : Title[v][t] \in Nat /\ Text[v][t] \in Nat
  OBVIOUS
<1>2. \A t \in Terms : total[t] = 3 * Title[v][t] + Text[v][t]
  BY <1>1
<1>3. Freqs(v) = [t \in D |-> total[t]]
  BY DEF Freqs, Restrict
<1>4. D = {t \in Terms : Title[v][t] + Text[v][t] > 0}
  <2>1. \A t \in Terms : total[t] > 0 <=> Title[v][t] + Text[v][t] > 0
    BY <1>1, <1>2
  <2> HIDE DEF total
  <2> QED
    BY <2>1
<1>5. IsFiniteSet(D)
  BY <1>4
<1>6. \A t \in D : total[t] = 3 * Title[v][t] + Text[v][t] /\ total[t] \in Nat \ {0} /\ t \in Terms
  BY <1>1, <1>2
<1> HIDE DEF total, D
<1>7. DOMAIN Freqs(v) = D /\ \A t \in D : Freqs(v)[t] = total[t]
  BY <1>3
<1>8. Freqs(v) \in Partial(Terms, Nat)
  <2>1. D \in SUBSET Terms
    BY <1>4
  <2>2. Freqs(v) \in [D -> Nat]
    BY <1>3, <1>6
  <2> QED
    BY <2>1, <2>2 DEF Partial
<1>9. Total(Freqs(v)) \in Nat
  BY <1>5, <1>6, <1>7, PairsOf
<1> QED
  BY <1>4, <1>5, <1>6, <1>7, <1>8, <1>9

\* The parts of an index.
LEMMA PartsOf ==
    ASSUME NEW x \in IndexRecord
    PROVE  /\ x.postings \in [Terms -> Seq(Posting)] /\ x.nextId \in Nat \ {0} /\ x.totalTerms \in Nat
           /\ x.docs \in [DOMAIN x.docs -> Doc] /\ DOMAIN x.docs \subseteq Nat
           /\ x.urlToId \in [DOMAIN x.urlToId -> Nat] /\ DOMAIN x.urlToId \subseteq Urls
           /\ x.docTerms \in [DOMAIN x.docTerms -> Partial(Terms, Nat)]
           /\ x.docLengths \in [DOMAIN x.docLengths -> Nat]
           /\ \A id \in DOMAIN x.docs : x.docs[id].url \in Urls /\ x.docs[id].ver \in Versions
<1>1. /\ x.postings \in [Terms -> Seq(Posting)] /\ x.nextId \in Nat \ {0} /\ x.totalTerms \in Nat
      /\ x.docs \in Partial(Nat, Doc) /\ x.urlToId \in Partial(Urls, Nat)
      /\ x.docTerms \in Partial(Nat, Partial(Terms, Nat)) /\ x.docLengths \in Partial(Nat, Nat)
  BY DEF IndexRecord
<1>2. /\ x.docs \in [DOMAIN x.docs -> Doc] /\ DOMAIN x.docs \subseteq Nat
      /\ x.urlToId \in [DOMAIN x.urlToId -> Nat] /\ DOMAIN x.urlToId \subseteq Urls
      /\ x.docTerms \in [DOMAIN x.docTerms -> Partial(Terms, Nat)]
      /\ x.docLengths \in [DOMAIN x.docLengths -> Nat]
  BY <1>1, PartialFun
<1>3. \A id \in DOMAIN x.docs : x.docs[id].url \in Urls /\ x.docs[id].ver \in Versions
  BY <1>2 DEF Doc
<1> QED
  BY <1>1, <1>2, <1>3

\* The index that clear leaves.
LEMMA EmptyExact == Exact(Empty)
<1>1. DOMAIN <<>> = {} /\ <<>> = [i \in {} |-> i]
  OBVIOUS
<1>2. \A S, T : <<>> \in Partial(S, T)
  BY <1>1 DEF Partial
<1>3. Empty \in IndexRecord
  <2>1. [t \in Terms |-> <<>>] \in [Terms -> Seq(Posting)]
    BY EmptySeq
  <2> QED
    BY <1>2, <2>1 DEF Empty, IndexRecord
<1>4. /\ Empty.docs = <<>> /\ Empty.docTerms = <<>> /\ Empty.docLengths = <<>>
      /\ Empty.urlToId = <<>> /\ Empty.totalTerms = 0
      /\ Empty.postings = [t \in Terms |-> <<>>]
  BY DEF Empty
<1>5. IdsExact(Empty) /\ UrlsExact(Empty)
  BY <1>1, <1>4 DEF IdsExact, UrlsExact
<1>6. ListsHold(Empty.postings, Empty.docs, {})
  BY <1>1, <1>4 DEF ListsHold, Once, ToSet
<1>7. Total(Empty.docLengths) = 0
  BY <1>1, <1>4, TotalEmpty
<1> QED
  BY <1>1, <1>3, <1>4, <1>5, <1>6, <1>7 DEF Exact

----------------------------------------------------------------------------
(* Un-indexing a document *)

\* Erasing a key of a map, and storing a value under one.
LEMMA DropDomain == \A f, k : DOMAIN Drop(f, k) = DOMAIN f \ {k}
BY DEF Drop, Restrict

LEMMA DropOf == \A f, k : \A i \in DOMAIN f : i # k => Drop(f, k)[i] = f[i]
BY DEF Drop, Restrict

LEMMA PutDomain == \A f, k, v : DOMAIN Put(f, k, v) = DOMAIN f \cup {k}
BY DEF Put

LEMMA PutOf ==
    \A f, k, v : /\ Put(f, k, v)[k] = v
                 /\ \A i \in DOMAIN f : i # k => Put(f, k, v)[i] = f[i]
BY DEF Put

LEMMA DropPartial ==
    ASSUME NEW S, NEW T, NEW f \in Partial(S, T), NEW k
    PROVE  Drop(f, k) \in Partial(S, T)
<1>1. DOMAIN f \subseteq S /\ f \in [DOMAIN f -> T]
  BY PartialFun
<1>2. Drop(f, k) = [i \in DOMAIN f \ {k} |-> f[i]]
  BY DEF Drop, Restrict
<1>3. Drop(f, k) \in [DOMAIN f \ {k} -> T] /\ DOMAIN f \ {k} \subseteq S
  BY <1>1, <1>2
<1> QED
  BY <1>3, DropDomain, PartialFun

LEMMA PutPartial ==
    ASSUME NEW S, NEW T, NEW f \in Partial(S, T), NEW k \in S, NEW v \in T
    PROVE  Put(f, k, v) \in Partial(S, T)
<1>1. DOMAIN f \subseteq S /\ f \in [DOMAIN f -> T]
  BY PartialFun
<1>2. Put(f, k, v) = [i \in DOMAIN f \cup {k} |-> IF i = k THEN v ELSE f[i]]
  BY DEF Put
<1>3. Put(f, k, v) \in [DOMAIN f \cup {k} -> T] /\ DOMAIN f \cup {k} \subseteq S
  BY <1>1, <1>2
<1> QED
  BY <1>3, PutDomain, PartialFun

\* The lists, terms, lengths and total are those of the documents in ids.
Holds(x, ids) ==
    /\ x \in IndexRecord
    /\ DOMAIN x.docTerms = ids /\ DOMAIN x.docLengths = ids
    /\ \A id \in ids : /\ x.docTerms[id] = Freqs(x.docs[id].ver)
                       /\ x.docLengths[id] = Total(Freqs(x.docs[id].ver))
    /\ ListsHold(x.postings, x.docs, ids)
    /\ x.totalTerms = Total(x.docLengths)

LEMMA ExactHolds ==
    \A x : Exact(x) <=> /\ Holds(x, DOMAIN x.docs) /\ UrlsExact(x)
                        /\ DOMAIN x.docs \subseteq 1..(x.nextId - 1)
BY DEF Exact, Holds, IdsExact

\* Removing the postings of a document leaves those of the others.
LEMMA RemovePostingsHold ==
    ASSUME NEW x, Exact(x), NEW id \in DOMAIN x.docs
    PROVE  /\ RemovePostings(x, id) \in [Terms -> Seq(Posting)]
           /\ ListsHold(RemovePostings(x, id), x.docs, DOMAIN x.docs \ {id})
<1> DEFINE r == RemovePostings(x, id)
           v == x.docs[id].ver
<1>1. x \in IndexRecord /\ x.docTerms[id] = Freqs(v) /\ ListsHold(x.postings, x.docs, DOMAIN x.docs)
  BY DEF Exact, IdsExact
<1>2. x.postings \in [Terms -> Seq(Posting)] /\ v \in Versions
  BY <1>1, PartsOf
<1>3. \A t \in Terms : r[t] = IF t \in DOMAIN Freqs(v) THEN Others(x.postings[t], id)
                              ELSE x.postings[t]
  BY <1>1 DEF RemovePostings
<1>4. ASSUME NEW t \in Terms
      PROVE  /\ r[t] \in Seq(Posting) /\ Once(r[t])
             /\ \A p : p \in ToSet(r[t]) <=>
                   \E k \in DOMAIN x.docs \ {id} : IsPosting(p, k, x.docs[k].ver, t)
  <2>1. /\ x.postings[t] \in Seq(Posting) /\ Once(x.postings[t])
        /\ \A p : p \in ToSet(x.postings[t]) <=>
              \E k \in DOMAIN x.docs : IsPosting(p, k, x.docs[k].ver, t)
    BY <1>1, <1>2 DEF ListsHold
  <2>2. \A p, k : IsPosting(p, k, x.docs[k].ver, t) => p.docId = k
    BY DEF IsPosting
  <2>3. CASE t \in DOMAIN Freqs(v)
    <3>1. /\ r[t] \in Seq(Posting) /\ Once(r[t])
          /\ \A p : p \in ToSet(r[t]) <=> p \in ToSet(x.postings[t]) /\ p.docId # id
      <4>1. r[t] = Others(x.postings[t], id)
        BY <1>3, <2>3
      <4> HIDE DEF r
      <4> QED
        BY <2>1, <4>1, OthersLeft
    <3> HIDE DEF r
    <3> QED
      BY <2>1, <2>2, <3>1
  <2>4. CASE t \notin DOMAIN Freqs(v)
    <3>1. r[t] = x.postings[t]
      BY <1>3, <2>4
    <3>2. \A p : ~IsPosting(p, id, v, t)
      BY <2>4 DEF IsPosting
    <3> HIDE DEF r
    <3> QED
      BY <2>1, <3>1, <3>2
  <2> QED
    BY <2>3, <2>4
<1>5. r \in [Terms -> Seq(Posting)]
  <2>1. r = [t \in Terms |-> r[t]]
    BY DEF RemovePostings
  <2> HIDE DEF r
  <2> QED
    BY <1>4, <2>1
<1> HIDE DEF r
<1>6. ListsHold(r, x.docs, DOMAIN x.docs \ {id})
  BY <1>4 DEF ListsHold
<1> QED
  BY <1>5, <1>6 DEF r

\* The documents of an index are finitely many.
LEMMA IdsFinite ==
    ASSUME NEW x, Exact(x)
    PROVE  IsFiniteSet(DOMAIN x.docs)
<1>1. x.nextId - 1 \in Int /\ 1 \in Int /\ DOMAIN x.docs \subseteq 1..(x.nextId - 1)
  BY PartsOf DEF Exact, IdsExact
<1>2. IsFiniteSet(1..(x.nextId - 1))
  BY <1>1, FS_Interval
<1> QED
  BY <1>1, <1>2, FS_Subset

\* A document that is un-indexed leaves no trace but itself and its URL.
LEMMA UnindexedHolds ==
    ASSUME NEW x, Exact(x), NEW id \in DOMAIN x.docs, NEW b, b = Unindexed(x, id)
    PROVE  /\ Holds(b, DOMAIN x.docs \ {id})
           /\ b.docs = x.docs /\ b.urlToId = x.urlToId /\ b.nextId = x.nextId
<1> DEFINE ids == DOMAIN x.docs
           total == x.totalTerms - x.docLengths[id]
<1>1. x \in IndexRecord /\ Holds(x, ids)
  BY ExactHolds DEF Exact
<1>2. /\ b.postings = RemovePostings(x, id) /\ b.totalTerms = total
      /\ b.docLengths = Drop(x.docLengths, id) /\ b.docTerms = Drop(x.docTerms, id)
      /\ b.docs = x.docs /\ b.urlToId = x.urlToId /\ b.nextId = x.nextId
      /\ b = [postings |-> b.postings, urlToId |-> b.urlToId, docs |-> b.docs,
              docTerms |-> b.docTerms, docLengths |-> b.docLengths, nextId |-> b.nextId,
              totalTerms |-> b.totalTerms]
  BY <1>1 DEF Unindexed, IndexRecord
<1>3. /\ x.docTerms \in Partial(Nat, Partial(Terms, Nat)) /\ x.docLengths \in Partial(Nat, Nat)
      /\ x.urlToId \in Partial(Urls, Nat) /\ x.docs \in Partial(Nat, Doc) /\ x.nextId \in Nat \ {0}
  BY <1>1 DEF IndexRecord
<1>4. DOMAIN x.docTerms = ids /\ DOMAIN x.docLengths = ids /\ x.totalTerms = Total(x.docLengths)
  BY <1>1 DEF Holds
<1>5. /\ Drop(x.docLengths, id) \in Partial(Nat, Nat) /\ DOMAIN Drop(x.docLengths, id) = ids \ {id}
      /\ \A k \in ids \ {id} : Drop(x.docLengths, id)[k] = x.docLengths[k]
  <2>1. Drop(x.docLengths, id) \in Partial(Nat, Nat)
    BY <1>3, DropPartial
  <2> QED
    BY <1>4, <2>1, DropDomain, DropOf
<1>6. /\ Drop(x.docTerms, id) \in Partial(Nat, Partial(Terms, Nat))
      /\ DOMAIN Drop(x.docTerms, id) = ids \ {id}
      /\ \A k \in ids \ {id} : Drop(x.docTerms, id)[k] = x.docTerms[k]
  <2>1. Drop(x.docTerms, id) \in Partial(Nat, Partial(Terms, Nat))
    BY <1>3, DropPartial
  <2> QED
    BY <1>4, <2>1, DropDomain, DropOf
<1>7. total = Total(Drop(x.docLengths, id)) /\ total \in Nat
  <2>1. /\ IsFiniteSet(DOMAIN x.docLengths) /\ id \in DOMAIN x.docLengths
        /\ x.docLengths \in [DOMAIN x.docLengths -> Nat]
    BY <1>3, <1>4, IdsFinite, PartialFun
  <2>2. /\ \A k \in DOMAIN x.docLengths : x.docLengths[k] \in Nat
        /\ x.docLengths = [k \in DOMAIN x.docLengths |-> x.docLengths[k]]
    BY <2>1
  <2> QED
    BY <1>4, <2>1, <2>2, TotalDrop
<1>8. /\ RemovePostings(x, id) \in [Terms -> Seq(Posting)]
      /\ ListsHold(RemovePostings(x, id), x.docs, ids \ {id})
  BY RemovePostingsHold
<1>9. \A k \in ids : /\ x.docTerms[k] = Freqs(x.docs[k].ver)
                     /\ x.docLengths[k] = Total(Freqs(x.docs[k].ver))
  BY <1>1 DEF Holds
<1> HIDE DEF ids, total
<1>10. b \in IndexRecord
  <2>1. /\ b.postings \in [Terms -> Seq(Posting)] /\ b.urlToId \in Partial(Urls, Nat)
        /\ b.docs \in Partial(Nat, Doc) /\ b.docTerms \in Partial(Nat, Partial(Terms, Nat))
        /\ b.docLengths \in Partial(Nat, Nat) /\ b.nextId \in Nat \ {0} /\ b.totalTerms \in Nat
    BY <1>2, <1>3, <1>5, <1>6, <1>7, <1>8
  <2> QED
    BY <1>2, <2>1 DEF IndexRecord
<1>11. Holds(b, ids \ {id})
  BY <1>2, <1>5, <1>6, <1>7, <1>8, <1>9, <1>10 DEF Holds
<1> QED
  BY <1>2, <1>11 DEF ids

----------------------------------------------------------------------------
(* Adding and removing a document *)

\* What addDocumentLocked indexes the document into.
Base(x, u) == IF u \in DOMAIN x.urlToId THEN Unindexed(x, x.urlToId[u]) ELSE x

LEMMA BaseHolds ==
    ASSUME NEW x, Exact(x), NEW u \in Urls
    PROVE  /\ Holds(Base(x, u), DOMAIN x.docs \ {IdFor(x, u)})
           /\ Base(x, u).docs = x.docs /\ Base(x, u).urlToId = x.urlToId
           /\ Base(x, u).nextId = x.nextId
           /\ IdFor(x, u) \in Nat \ {0}
           /\ u \in DOMAIN x.urlToId => IdFor(x, u) \in DOMAIN x.docs
           /\ u \notin DOMAIN x.urlToId => IdFor(x, u) = x.nextId
<1>1. /\ x \in IndexRecord /\ x.nextId \in Nat \ {0} /\ DOMAIN x.docs \subseteq 1..(x.nextId - 1)
      /\ \A w \in DOMAIN x.urlToId : x.urlToId[w] \in DOMAIN x.docs
  BY PartsOf DEF Exact, IdsExact, UrlsExact
<1>2. CASE u \in DOMAIN x.urlToId
  <2> DEFINE id == x.urlToId[u]
  <2>1. id \in DOMAIN x.docs /\ id \in Nat \ {0}
    BY <1>1, <1>2
  <2>2. IdFor(x, u) = id /\ Base(x, u) = Unindexed(x, id)
    BY <1>2 DEF IdFor, Base
  <2> HIDE DEF id
  <2> QED
    BY <1>2, <2>1, <2>2, UnindexedHolds
<1>3. CASE u \notin DOMAIN x.urlToId
  <2>1. IdFor(x, u) = x.nextId /\ Base(x, u) = x
    BY <1>3 DEF IdFor, Base
  <2>2. x.nextId \notin DOMAIN x.docs
    BY <1>1
  <2>3. DOMAIN x.docs \ {x.nextId} = DOMAIN x.docs
    BY <2>2
  <2>4. Holds(x, DOMAIN x.docs)
    BY ExactHolds
  <2> QED
    BY <1>1, <1>3, <2>1, <2>3, <2>4
<1> QED
  BY <1>2, <1>3

\* The lists with the postings of one more document.
WithPostings(lists, id, freqs) ==
    [t \in Terms |-> IF t \in DOMAIN freqs
                     THEN Append(lists[t], [docId |-> id, termFreq |-> freqs[t]])
                     ELSE lists[t]]

\* Appending the postings of a document that has none gives it its own, and
\* leaves those of the others.
LEMMA WithPostingsHold ==
    ASSUME NEW lists \in [Terms -> Seq(Posting)], NEW docs, NEW ids \in SUBSET DOMAIN docs,
           ListsHold(lists, docs, ids), NEW id \in Nat, id \notin ids, NEW doc \in Doc
    PROVE  /\ WithPostings(lists, id, Freqs(doc.ver)) \in [Terms -> Seq(Posting)]
           /\ ListsHold(WithPostings(lists, id, Freqs(doc.ver)), Put(docs, id, doc), ids \cup {id})
<1> DEFINE v == doc.ver
           F == Freqs(v)
           r == WithPostings(lists, id, F)
           new == Put(docs, id, doc)
<1>1. v \in Versions
  BY DEF Doc
<1>2. new[id] = doc /\ \A k \in ids : new[k] = docs[k]
  BY PutOf
<1>3. \A t \in Terms : r[t] = IF t \in DOMAIN F THEN Append(lists[t], [docId |-> id, termFreq |-> F[t]])
                              ELSE lists[t]
  BY DEF WithPostings
<1>4. r = [t \in Terms |-> r[t]]
  BY DEF WithPostings
<1>5. \A t \in DOMAIN F : F[t] \in Nat
  BY <1>1, FreqsOf
<1>6. \A p, t : IsPosting(p, id, new[id].ver, t) <=> t \in DOMAIN F /\ p = [docId |-> id, termFreq |-> F[t]]
  BY <1>2 DEF IsPosting
<1>7. \A p, t : \A k \in ids : IsPosting(p, k, new[k].ver, t) <=> IsPosting(p, k, docs[k].ver, t)
  BY <1>2
<1>8. \A p, t, k, w : IsPosting(p, k, w, t) => p.docId = k
  BY DEF IsPosting
<1> HIDE DEF v, F, r, new
<1>9. ASSUME NEW t \in Terms
      PROVE  /\ r[t] \in Seq(Posting) /\ Once(r[t])
             /\ \A p : p \in ToSet(r[t]) <=>
                   \E k \in ids \cup {id} : IsPosting(p, k, new[k].ver, t)
  <2>1. /\ lists[t] \in Seq(Posting) /\ Once(lists[t])
        /\ \A p : p \in ToSet(lists[t]) <=> \E k \in ids : IsPosting(p, k, docs[k].ver, t)
    BY DEF ListsHold
  <2>2. \A p : p \in ToSet(lists[t]) <=> \E k \in ids : IsPosting(p, k, new[k].ver, t)
    BY <1>7, <2>1
  <2>3. CASE t \in DOMAIN F
    <3> DEFINE p == [docId |-> id, termFreq |-> F[t]]
    <3>1. p \in Posting /\ p.docId = id
      BY <1>5, <2>3 DEF Posting
    <3>2. r[t] = Append(lists[t], p)
      BY <1>3, <2>3
    <3>3. \A q : IsPosting(q, id, new[id].ver, t) <=> q = p
      BY <1>6, <2>3
    <3> HIDE DEF p
    <3>4. \A q \in ToSet(lists[t]) : q.docId # p.docId
      BY <1>8, <2>1, <3>1
    <3>5. r[t] \in Seq(Posting) /\ Once(r[t]) /\ ToSet(r[t]) = ToSet(lists[t]) \cup {p}
      BY <2>1, <3>1, <3>2, <3>4, AppendOnce
    <3> QED
      BY <2>2, <3>3, <3>5
  <2>4. CASE t \notin DOMAIN F
    <3>1. r[t] = lists[t]
      BY <1>3, <2>4
    <3>2. \A q : ~IsPosting(q, id, new[id].ver, t)
      BY <1>6, <2>4
    <3> QED
      BY <2>1, <2>2, <3>1, <3>2
  <2> QED
    BY <2>3, <2>4
<1>10. r \in [Terms -> Seq(Posting)]
  BY <1>4, <1>9
<1>11. ListsHold(r, new, ids \cup {id})
  BY <1>9 DEF ListsHold
<1> QED
  BY <1>10, <1>11 DEF r, new, F, v

\* The fields of the index after addDocumentLocked.
LEMMA AddedFields ==
    ASSUME NEW x, NEW doc, NEW y, y = Added(x, doc), NEW b, b = Base(x, doc.url),
           NEW id, id = IdFor(x, doc.url), NEW F, F = Freqs(doc.ver)
    PROVE  /\ y.postings = WithPostings(b.postings, id, F)
           /\ y.urlToId = Put(b.urlToId, doc.url, id)
           /\ y.docs = Put(b.docs, id, doc)
           /\ y.docTerms = Put(b.docTerms, id, F)
           /\ y.docLengths = Put(b.docLengths, id, Total(F))
           /\ y.nextId = (IF doc.url \in DOMAIN x.urlToId THEN b.nextId ELSE b.nextId + 1)
           /\ y.totalTerms = b.totalTerms + Total(F)
           /\ y = [postings |-> y.postings, urlToId |-> y.urlToId, docs |-> y.docs,
                   docTerms |-> y.docTerms, docLengths |-> y.docLengths, nextId |-> y.nextId,
                   totalTerms |-> y.totalTerms]
BY DEF Added, Base, WithPostings

\* The index after addDocumentLocked is exact, and the document is in it.
LEMMA AddedExact ==
    ASSUME NEW x, Exact(x), NEW doc \in Doc
    PROVE  /\ Exact(Added(x, doc))
           /\ Added(x, doc).docs = Put(x.docs, IdFor(x, doc.url), doc)
           /\ Added(x, doc).urlToId = Put(x.urlToId, doc.url, IdFor(x, doc.url))
           /\ Added(x, doc).nextId \in {x.nextId, x.nextId + 1}
<1> DEFINE id == IdFor(x, doc.url)
           b == Base(x, doc.url)
           F == Freqs(doc.ver)
           y == Added(x, doc)
           ids == DOMAIN x.docs
<1>1. /\ y.postings = WithPostings(b.postings, id, F)
      /\ y.urlToId = Put(b.urlToId, doc.url, id)
      /\ y.docs = Put(b.docs, id, doc)
      /\ y.docTerms = Put(b.docTerms, id, F)
      /\ y.docLengths = Put(b.docLengths, id, Total(F))
      /\ y.nextId = (IF doc.url \in DOMAIN x.urlToId THEN b.nextId ELSE b.nextId + 1)
      /\ y.totalTerms = b.totalTerms + Total(F)
      /\ y = [postings |-> y.postings, urlToId |-> y.urlToId, docs |-> y.docs,
              docTerms |-> y.docTerms, docLengths |-> y.docLengths, nextId |-> y.nextId,
              totalTerms |-> y.totalTerms]
  BY AddedFields
<1>2. doc.url \in Urls /\ doc.ver \in Versions
  BY DEF Doc
<1>3. /\ Holds(b, ids \ {id}) /\ b.docs = x.docs /\ b.urlToId = x.urlToId /\ b.nextId = x.nextId
      /\ id \in Nat \ {0}
      /\ doc.url \in DOMAIN x.urlToId => id \in ids
      /\ doc.url \notin DOMAIN x.urlToId => id = x.nextId
  BY <1>2, BaseHolds
<1>4. F \in Partial(Terms, Nat) /\ Total(F) \in Nat
  BY <1>2, FreqsOf
<1> HIDE DEF id, b, F, y
<1>5. /\ b \in IndexRecord /\ DOMAIN b.docTerms = ids \ {id} /\ DOMAIN b.docLengths = ids \ {id}
      /\ ListsHold(b.postings, b.docs, ids \ {id}) /\ b.totalTerms = Total(b.docLengths)
      /\ \A k \in ids \ {id} : /\ b.docTerms[k] = Freqs(b.docs[k].ver)
                               /\ b.docLengths[k] = Total(Freqs(b.docs[k].ver))
  BY <1>3 DEF Holds
<1>6. /\ b.postings \in [Terms -> Seq(Posting)] /\ b.urlToId \in Partial(Urls, Nat)
      /\ b.docs \in Partial(Nat, Doc) /\ b.docTerms \in Partial(Nat, Partial(Terms, Nat))
      /\ b.docLengths \in Partial(Nat, Nat) /\ b.nextId \in Nat \ {0} /\ b.totalTerms \in Nat
  BY <1>5 DEF IndexRecord
<1>18. y.urlToId = Put(x.urlToId, doc.url, id) /\ y.docs = Put(x.docs, id, doc)
  BY <1>1, <1>3
<1>19. y.docTerms = Put(b.docTerms, id, F) /\ y.docLengths = Put(b.docLengths, id, Total(F))
  BY <1>1
<1>7. /\ y.urlToId \in Partial(Urls, Nat) /\ y.docs \in Partial(Nat, Doc)
      /\ y.docTerms \in Partial(Nat, Partial(Terms, Nat)) /\ y.docLengths \in Partial(Nat, Nat)
  <2>0. id \in Nat /\ x.urlToId \in Partial(Urls, Nat) /\ x.docs \in Partial(Nat, Doc)
    BY <1>3, <1>6
  <2>1. y.urlToId \in Partial(Urls, Nat)
    BY <1>18, <1>2, <2>0, PutPartial
  <2>2. y.docs \in Partial(Nat, Doc)
    BY <1>18, <2>0, PutPartial
  <2>3. y.docTerms \in Partial(Nat, Partial(Terms, Nat))
    <3>1. b.docTerms \in Partial(Nat, Partial(Terms, Nat))
      BY <1>6
    <3>2. Put(b.docTerms, id, F) \in Partial(Nat, Partial(Terms, Nat))
      BY <1>4, <2>0, <3>1, PutPartial
    <3> QED
      BY <1>19, <3>2
  <2>4. y.docLengths \in Partial(Nat, Nat)
    <3>1. b.docLengths \in Partial(Nat, Nat)
      BY <1>6
    <3>2. Put(b.docLengths, id, Total(F)) \in Partial(Nat, Nat)
      BY <1>4, <2>0, <3>1, PutPartial
    <3> QED
      BY <1>19, <3>2
  <2> QED
    BY <2>1, <2>2, <2>3, <2>4
<1>8. /\ DOMAIN y.docs = ids \cup {id} /\ y.docs[id] = doc
      /\ \A k \in ids \ {id} : y.docs[k] = x.docs[k]
  <2>1. DOMAIN y.docs = DOMAIN x.docs \cup {id}
    BY <1>18, PutDomain, ZenonT(40)
  <2>2. y.docs[id] = doc /\ \A k \in DOMAIN x.docs : k # id => y.docs[k] = x.docs[k]
    BY <1>18, PutOf
  <2> QED
    BY <2>1, <2>2
<1>9. /\ DOMAIN y.docTerms = ids \cup {id} /\ y.docTerms[id] = F
      /\ \A k \in ids \ {id} : y.docTerms[k] = b.docTerms[k]
  <2>1. DOMAIN y.docTerms = DOMAIN b.docTerms \cup {id}
    BY <1>19, PutDomain, ZenonT(40)
  <2>2. y.docTerms[id] = F /\ \A k \in DOMAIN b.docTerms : k # id => y.docTerms[k] = b.docTerms[k]
    BY <1>19, PutOf
  <2> QED
    BY <1>5, <2>1, <2>2
<1>10. /\ DOMAIN y.docLengths = ids \cup {id} /\ y.docLengths[id] = Total(F)
       /\ \A k \in ids \ {id} : y.docLengths[k] = b.docLengths[k]
  <2>1. DOMAIN y.docLengths = DOMAIN b.docLengths \cup {id}
    BY <1>19, PutDomain, ZenonT(40)
  <2>2. /\ y.docLengths[id] = Total(F)
        /\ \A k \in DOMAIN b.docLengths : k # id => y.docLengths[k] = b.docLengths[k]
    BY <1>19, PutOf
  <2> QED
    BY <1>5, <2>1, <2>2
<1>11. /\ y.postings \in [Terms -> Seq(Posting)]
       /\ ListsHold(y.postings, y.docs, ids \cup {id})
  <2> DEFINE rest == ids \ {id}
  <2>1. rest \in SUBSET DOMAIN b.docs /\ id \notin rest /\ id \in Nat /\ rest \cup {id} = ids \cup {id}
    BY <1>3
  <2>2. ListsHold(b.postings, b.docs, rest)
    BY <1>5
  <2> HIDE DEF rest, ids
  <2>3. /\ WithPostings(b.postings, id, Freqs(doc.ver)) \in [Terms -> Seq(Posting)]
        /\ ListsHold(WithPostings(b.postings, id, Freqs(doc.ver)), Put(b.docs, id, doc), rest \cup {id})
    BY <1>6, <2>1, <2>2, WithPostingsHold
  <2> QED
    BY <1>1, <2>1, <2>3 DEF F
<1>12. y.totalTerms = Total(y.docLengths) /\ y.totalTerms \in Nat
  <2>1. /\ IsFiniteSet(DOMAIN b.docLengths) /\ id \notin DOMAIN b.docLengths
        /\ \A k \in DOMAIN b.docLengths : b.docLengths[k] \in Nat
    <3>1. IsFiniteSet(ids \ {id})
      BY IdsFinite, FS_Subset
    <3>2. b.docLengths \in [DOMAIN b.docLengths -> Nat]
      BY <1>6, PartialFun
    <3> QED
      BY <1>5, <3>1, <3>2
  <2>2. Total(y.docLengths) = Total(b.docLengths) + Total(F)
    BY <1>1, <1>4, <2>1, TotalPut
  <2> QED
    BY <1>1, <1>4, <1>5, <1>6, <2>2
<1>13. y.nextId \in Nat \ {0} /\ ids \cup {id} \subseteq 1..(y.nextId - 1)
       /\ y.nextId \in {x.nextId, x.nextId + 1}
  <2>1. ids \subseteq 1..(x.nextId - 1)
    BY ExactHolds
  <2> HIDE DEF ids
  <2>2. CASE doc.url \in DOMAIN x.urlToId
    BY <1>1, <1>3, <1>6, <2>1, <2>2
  <2>3. CASE doc.url \notin DOMAIN x.urlToId
    <3>1. y.nextId = x.nextId + 1 /\ id = x.nextId /\ x.nextId \in Nat \ {0}
      BY <1>1, <1>3, <1>6, <2>3
    <3>2. y.nextId - 1 = x.nextId /\ id \in 1..x.nextId /\ \A k \in 1..(x.nextId - 1) : k \in 1..x.nextId
      BY <3>1
    <3>3. ids \cup {id} \subseteq 1..x.nextId
      BY <2>1, <3>2
    <3> QED
      BY <3>1, <3>2, <3>3
  <2> QED
    BY <2>2, <2>3
<1>14. y \in IndexRecord
  BY <1>1, <1>7, <1>11, <1>12, <1>13 DEF IndexRecord
<1>15. Holds(y, ids \cup {id})
  <2>1. ASSUME NEW k \in ids \cup {id}
        PROVE  /\ y.docTerms[k] = Freqs(y.docs[k].ver)
               /\ y.docLengths[k] = Total(Freqs(y.docs[k].ver))
    <3>1. CASE k = id
      BY <1>8, <1>9, <1>10, <3>1 DEF F
    <3>2. CASE k # id
      <4>1. k \in ids \ {id}
        BY <3>2
      <4>2. y.docs[k] = b.docs[k] /\ y.docTerms[k] = b.docTerms[k] /\ y.docLengths[k] = b.docLengths[k]
        BY <1>3, <1>8, <1>9, <1>10, <4>1
      <4> QED
        BY <1>5, <4>1, <4>2
    <3> QED
      BY <3>1, <3>2
  <2> QED
    BY <1>9, <1>10, <1>11, <1>12, <1>14, <2>1 DEF Holds
<1>16. UrlsExact(y)
  <2>1. /\ \A k \in ids : x.docs[k].url \in DOMAIN x.urlToId /\ x.urlToId[x.docs[k].url] = k
        /\ \A u \in DOMAIN x.urlToId : x.urlToId[u] \in ids /\ x.docs[x.urlToId[u]].url = u
    BY DEF Exact, UrlsExact
  <2>2. /\ DOMAIN y.urlToId = DOMAIN x.urlToId \cup {doc.url} /\ y.urlToId[doc.url] = id
        /\ \A u \in DOMAIN x.urlToId \ {doc.url} : y.urlToId[u] = x.urlToId[u]
    <3>1. DOMAIN y.urlToId = DOMAIN x.urlToId \cup {doc.url}
      <4>1. DOMAIN Put(x.urlToId, doc.url, id) = DOMAIN x.urlToId \cup {doc.url}
        BY PutDomain
      <4> QED
        BY <1>18, <4>1
    <3>2. /\ y.urlToId[doc.url] = id
          /\ \A u \in DOMAIN x.urlToId : u # doc.url => y.urlToId[u] = x.urlToId[u]
      BY <1>18, PutOf
    <3> QED
      BY <3>1, <3>2
  <2>3. \A k \in ids \ {id} : x.docs[k].url # doc.url
    <3>1. ASSUME NEW k \in ids \ {id}, x.docs[k].url = doc.url
          PROVE  FALSE
      BY <2>1, <3>1 DEF id, IdFor
    <3> QED
      BY <3>1
  <2>4. \A u \in DOMAIN x.urlToId \ {doc.url} : x.urlToId[u] # id
    <3>1. ASSUME NEW u \in DOMAIN x.urlToId \ {doc.url}, x.urlToId[u] = id
          PROVE  FALSE
      <4>1. id \in ids /\ x.docs[id].url = u
        BY <2>1, <3>1
      <4>2. CASE doc.url \in DOMAIN x.urlToId
        BY <2>1, <4>1, <4>2 DEF id, IdFor
      <4>3. CASE doc.url \notin DOMAIN x.urlToId
        <5>1. id = x.nextId /\ x.nextId \in Nat
          BY <1>3, <1>6, <4>3
        <5>2. ids \subseteq 1..(x.nextId - 1)
          BY ExactHolds
        <5> HIDE DEF ids
        <5> QED
          BY <4>1, <5>1, <5>2
      <4> QED
        BY <4>2, <4>3
    <3> QED
      BY <3>1
  <2> HIDE DEF ids
  <2> QED
    BY <1>8, <2>1, <2>2, <2>3, <2>4 DEF UrlsExact
<1>17. Exact(y)
  BY <1>8, <1>13, <1>15, <1>16, ExactHolds
<1> QED
  BY <1>1, <1>3, <1>13, <1>17 DEF id, y

\* The index after removeDocument is exact, without the document.
LEMMA RemovedExact ==
    ASSUME NEW x, Exact(x), NEW id \in DOMAIN x.docs
    PROVE  /\ Exact(Removed(x, id))
           /\ Removed(x, id).docs = Drop(x.docs, id)
           /\ Removed(x, id).urlToId = Drop(x.urlToId, x.docs[id].url)
           /\ Removed(x, id).nextId = x.nextId
<1> DEFINE b == Unindexed(x, id)
           y == Removed(x, id)
           ids == DOMAIN x.docs
           url == x.docs[id].url
<1>1. Holds(b, ids \ {id}) /\ b.docs = x.docs /\ b.urlToId = x.urlToId /\ b.nextId = x.nextId
  BY UnindexedHolds
<1>2. y = [b EXCEPT !.urlToId = Drop(b.urlToId, url), !.docs = Drop(b.docs, id)]
  BY DEF Removed
<1> HIDE DEF b, y
<1>3. /\ b \in IndexRecord /\ DOMAIN b.docTerms = ids \ {id} /\ DOMAIN b.docLengths = ids \ {id}
      /\ ListsHold(b.postings, b.docs, ids \ {id}) /\ b.totalTerms = Total(b.docLengths)
      /\ \A k \in ids \ {id} : /\ b.docTerms[k] = Freqs(b.docs[k].ver)
                               /\ b.docLengths[k] = Total(Freqs(b.docs[k].ver))
  BY <1>1 DEF Holds
<1>4. /\ y.postings = b.postings /\ y.docTerms = b.docTerms /\ y.docLengths = b.docLengths
      /\ y.nextId = b.nextId /\ y.totalTerms = b.totalTerms
      /\ y.urlToId = Drop(b.urlToId, url) /\ y.docs = Drop(b.docs, id)
      /\ y = [postings |-> y.postings, urlToId |-> y.urlToId, docs |-> y.docs,
              docTerms |-> y.docTerms, docLengths |-> y.docLengths, nextId |-> y.nextId,
              totalTerms |-> y.totalTerms]
  BY <1>2, <1>3 DEF IndexRecord
<1>5. /\ b.postings \in [Terms -> Seq(Posting)] /\ b.urlToId \in Partial(Urls, Nat)
      /\ b.docs \in Partial(Nat, Doc) /\ b.docTerms \in Partial(Nat, Partial(Terms, Nat))
      /\ b.docLengths \in Partial(Nat, Nat) /\ b.nextId \in Nat \ {0} /\ b.totalTerms \in Nat
  BY <1>3 DEF IndexRecord
<1>6. y.urlToId = Drop(x.urlToId, url) /\ y.docs = Drop(x.docs, id)
  BY <1>1, <1>4
<1>7. y.urlToId \in Partial(Urls, Nat) /\ y.docs \in Partial(Nat, Doc)
  <2>1. Drop(b.urlToId, url) \in Partial(Urls, Nat)
    BY <1>5, DropPartial
  <2>2. Drop(b.docs, id) \in Partial(Nat, Doc)
    BY <1>5, DropPartial
  <2> QED
    BY <1>4, <2>1, <2>2
<1>8. DOMAIN y.docs = ids \ {id} /\ \A k \in ids \ {id} : y.docs[k] = x.docs[k]
  <2>1. DOMAIN Drop(x.docs, id) = ids \ {id}
    BY DropDomain
  <2>2. \A k \in ids : k # id => Drop(x.docs, id)[k] = x.docs[k]
    BY DropOf
  <2> QED
    BY <1>6, <2>1, <2>2
<1>9. /\ DOMAIN y.urlToId = DOMAIN x.urlToId \ {url}
      /\ \A u \in DOMAIN x.urlToId \ {url} : y.urlToId[u] = x.urlToId[u]
  <2>1. DOMAIN Drop(x.urlToId, url) = DOMAIN x.urlToId \ {url}
    BY DropDomain
  <2>2. \A u \in DOMAIN x.urlToId : u # url => Drop(x.urlToId, url)[u] = x.urlToId[u]
    BY DropOf
  <2> QED
    BY <1>6, <2>1, <2>2
<1>10. y \in IndexRecord
  BY <1>4, <1>5, <1>7 DEF IndexRecord
<1>11. Holds(y, ids \ {id})
  <2>1. \A k \in ids \ {id} : y.docs[k] = b.docs[k]
    BY <1>1, <1>8
  <2>2. ListsHold(y.postings, y.docs, ids \ {id})
    <3>1. \A t, p : \A k \in ids \ {id} :
             IsPosting(p, k, y.docs[k].ver, t) <=> IsPosting(p, k, b.docs[k].ver, t)
      BY <2>1
    <3> QED
      BY <1>3, <1>4, <3>1 DEF ListsHold
  <2>3. \A k \in ids \ {id} : /\ y.docTerms[k] = Freqs(y.docs[k].ver)
                              /\ y.docLengths[k] = Total(Freqs(y.docs[k].ver))
    BY <1>3, <1>4, <2>1
  <2>4. /\ DOMAIN y.docTerms = ids \ {id} /\ DOMAIN y.docLengths = ids \ {id}
        /\ y.totalTerms = Total(y.docLengths)
    BY <1>3, <1>4
  <2> QED
    BY <1>10, <2>2, <2>3, <2>4 DEF Holds
<1>12. UrlsExact(y)
  <2>1. /\ \A k \in ids : x.docs[k].url \in DOMAIN x.urlToId /\ x.urlToId[x.docs[k].url] = k
        /\ \A u \in DOMAIN x.urlToId : x.urlToId[u] \in ids /\ x.docs[x.urlToId[u]].url = u
    BY DEF Exact, UrlsExact
  <2> QED
    BY <1>8, <1>9, <2>1 DEF UrlsExact
<1>13. DOMAIN y.docs \subseteq 1..(y.nextId - 1)
  <2>1. ids \subseteq 1..(x.nextId - 1)
    BY ExactHolds
  <2>2. y.nextId = x.nextId
    BY <1>1, <1>4
  <2> QED
    BY <1>8, <2>1, <2>2
<1>14. Exact(y)
  BY <1>8, <1>11, <1>12, <1>13, ExactHolds
<1> QED
  BY <1>1, <1>4, <1>6, <1>14 DEF y

----------------------------------------------------------------------------
(* The corpus of an index *)

Corpus(x) == [u \in DOMAIN x.urlToId |-> x.docs[x.urlToId[u]].ver]

\* Adding a document puts its version under its URL.
LEMMA AddedCorpus ==
    ASSUME NEW x, Exact(x), NEW doc \in Doc
    PROVE  Corpus(Added(x, doc)) = Put(Corpus(x), doc.url, doc.ver)
<1> DEFINE id == IdFor(x, doc.url)
           y == Added(x, doc)
<1>1. y.docs = Put(x.docs, id, doc) /\ y.urlToId = Put(x.urlToId, doc.url, id)
  BY AddedExact
<1>2. /\ \A u \in DOMAIN x.urlToId : x.urlToId[u] \in DOMAIN x.docs /\ x.docs[x.urlToId[u]].url = u
      /\ x.nextId \notin DOMAIN x.docs
  <2>1. x.nextId \in Nat /\ DOMAIN x.docs \subseteq 1..(x.nextId - 1)
    BY PartsOf DEF Exact, IdsExact
  <2> QED
    BY <2>1 DEF Exact, UrlsExact
<1>3. \A u \in DOMAIN x.urlToId : u # doc.url => x.urlToId[u] # id
  BY <1>2 DEF IdFor
<1> HIDE DEF id, y
<1>4. DOMAIN y.urlToId = DOMAIN x.urlToId \cup {doc.url}
  <2>1. DOMAIN Put(x.urlToId, doc.url, id) = DOMAIN x.urlToId \cup {doc.url}
    BY PutDomain
  <2> QED
    BY <1>1, <2>1
<1>5. /\ y.urlToId[doc.url] = id
      /\ \A u \in DOMAIN x.urlToId : u # doc.url => y.urlToId[u] = x.urlToId[u]
  BY <1>1, PutOf
<1>6. y.docs[id] = doc /\ \A k \in DOMAIN x.docs : k # id => y.docs[k] = x.docs[k]
  BY <1>1, PutOf
<1>7. ASSUME NEW u \in DOMAIN x.urlToId \cup {doc.url}
      PROVE  y.docs[y.urlToId[u]].ver = IF u = doc.url THEN doc.ver ELSE x.docs[x.urlToId[u]].ver
  <2>1. CASE u = doc.url
    BY <1>5, <1>6, <2>1
  <2>2. CASE u # doc.url
    <3>1. u \in DOMAIN x.urlToId /\ y.urlToId[u] = x.urlToId[u]
      BY <1>5, <2>2
    <3>2. y.docs[x.urlToId[u]] = x.docs[x.urlToId[u]]
      BY <1>2, <1>3, <1>6, <2>2, <3>1
    <3> QED
      BY <2>2, <3>1, <3>2
  <2> QED
    BY <2>1, <2>2
<1>8. Corpus(y) = [u \in DOMAIN x.urlToId \cup {doc.url} |->
                     IF u = doc.url THEN doc.ver ELSE x.docs[x.urlToId[u]].ver]
  BY <1>4, <1>7 DEF Corpus
<1>9. DOMAIN Corpus(x) = DOMAIN x.urlToId
      /\ \A u \in DOMAIN x.urlToId : Corpus(x)[u] = x.docs[x.urlToId[u]].ver
  BY DEF Corpus
<1>10. Put(Corpus(x), doc.url, doc.ver) =
          [u \in DOMAIN x.urlToId \cup {doc.url} |->
             IF u = doc.url THEN doc.ver ELSE x.docs[x.urlToId[u]].ver]
  BY <1>9 DEF Put
<1> QED
  BY <1>8, <1>10 DEF y

\* Removing one takes its URL away.
LEMMA RemovedCorpus ==
    ASSUME NEW x, Exact(x), NEW id \in DOMAIN x.docs
    PROVE  /\ x.docs[id].url \in DOMAIN Corpus(x) /\ x.docs[id].url \in Urls
           /\ Corpus(Removed(x, id)) =
                 [u \in DOMAIN Corpus(x) \ {x.docs[id].url} |-> Corpus(x)[u]]
<1> DEFINE y == Removed(x, id)
           url == x.docs[id].url
<1>1. y.docs = Drop(x.docs, id) /\ y.urlToId = Drop(x.urlToId, url)
  BY RemovedExact
<1>2. /\ \A k \in DOMAIN x.docs : x.docs[k].url \in DOMAIN x.urlToId /\ x.urlToId[x.docs[k].url] = k
      /\ \A u \in DOMAIN x.urlToId : x.urlToId[u] \in DOMAIN x.docs /\ x.docs[x.urlToId[u]].url = u
  BY DEF Exact, UrlsExact
<1>3. url \in Urls
  BY PartsOf DEF Exact
<1> HIDE DEF y
<1>4. DOMAIN y.urlToId = DOMAIN x.urlToId \ {url}
  <2>1. DOMAIN Drop(x.urlToId, url) = DOMAIN x.urlToId \ {url}
    BY DropDomain
  <2> QED
    BY <1>1, <2>1
<1>5. \A u \in DOMAIN x.urlToId : u # url => y.urlToId[u] = x.urlToId[u]
  BY <1>1, DropOf
<1>6. \A k \in DOMAIN x.docs : k # id => y.docs[k] = x.docs[k]
  BY <1>1, DropOf
<1>7. ASSUME NEW u \in DOMAIN x.urlToId \ {url}
      PROVE  y.docs[y.urlToId[u]].ver = x.docs[x.urlToId[u]].ver
  <2>1. x.urlToId[u] \in DOMAIN x.docs /\ x.urlToId[u] # id /\ y.urlToId[u] = x.urlToId[u]
    BY <1>2, <1>5
  <2> QED
    BY <1>6, <2>1
<1>8. Corpus(y) = [u \in DOMAIN x.urlToId \ {url} |-> x.docs[x.urlToId[u]].ver]
  BY <1>4, <1>7 DEF Corpus
<1>9. DOMAIN Corpus(x) = DOMAIN x.urlToId
      /\ \A u \in DOMAIN x.urlToId : Corpus(x)[u] = x.docs[x.urlToId[u]].ver
  BY DEF Corpus
<1>10. [u \in DOMAIN Corpus(x) \ {url} |-> Corpus(x)[u]]
          = [u \in DOMAIN x.urlToId \ {url} |-> x.docs[x.urlToId[u]].ver]
  BY <1>9
<1> QED
  BY <1>2, <1>3, <1>8, <1>9, <1>10 DEF y

----------------------------------------------------------------------------
(* Loading documents *)

ExactIndexes == {x \in IndexRecord : Exact(x)}

\* The recursion that defines AddedAll is a loop over the documents, and every
\* index on the way is exact.
LEMMA AddedAllLoop ==
    ASSUME NEW x, Exact(x), NEW docs \in Seq(Doc)
    PROVE  \E upTo \in [0..Len(docs) -> ExactIndexes] :
              /\ upTo[0] = x
              /\ \A i \in 1..Len(docs) : upTo[i] = Added(upTo[i - 1], docs[i])
              /\ AddedAll(x, docs) = upTo[Len(docs)]
<1> DEFINE n == Len(docs)
           T == ExactIndexes
           Next1(i, y) == Added(y, docs[i])
           step == [e \in (1..n) \X T |-> Next1(e[1], e[2])]
           Body(f) == [k \in 0..n |-> IF k = 0 THEN x ELSE Next1(k, f[k - 1])]
<1>1. n \in Nat /\ \A i \in 1..n : docs[i] \in Doc
  BY LenProperties, ElementOfSeq
<1>2. ASSUME NEW i \in 1..n, NEW y \in T
      PROVE  Next1(i, y) \in T
  <2>1. Exact(y) /\ docs[i] \in Doc
    BY <1>1 DEF ExactIndexes
  <2>2. Exact(Added(y, docs[i]))
    BY <2>1, AddedExact
  <2> QED
    BY <2>2 DEF Exact, ExactIndexes
<1>3. x \in T
  BY DEF Exact, ExactIndexes
<1> HIDE DEF Next1, T, n
<1>4. step \in [(1..n) \X T -> T]
  BY <1>2
<1>5. \A i \in 1..n, y \in T : step[<<i, y>>] = Next1(i, y)
  OBVIOUS
<1> HIDE DEF step
<1>6. \E f \in [0..n -> T] : Runs(f, x, n, step)
  <2>1. n \in Nat /\ step \in Steps(n, T)
    BY <1>1, <1>4 DEF Steps
  <2> QED
    BY <1>3, <2>1, Iterates
<1>7. PICK f \in [0..n -> T] : f[0] = x /\ \A i \in 1..n : f[i] = step[<<i, f[i - 1]>>]
  BY <1>6 DEF Runs
<1>8. \A i \in 1..n : i - 1 \in 0..n
  BY <1>1
<1>9. f = Body(f)
  <2>1. ASSUME NEW k \in 0..n
        PROVE  f[k] = IF k = 0 THEN x ELSE Next1(k, f[k - 1])
    <3>1. CASE k = 0
      BY <1>7, <3>1
    <3>2. CASE k # 0
      <4>1. k \in 1..n /\ k - 1 \in 0..n
        BY <1>1, <3>2
      <4>2. f[k - 1] \in T
        BY <4>1
      <4>3. f[k] = Next1(k, f[k - 1])
        BY <1>5, <1>7, <4>1, <4>2
      <4> QED
        BY <3>2, <4>3
    <3> QED
      BY <3>1, <3>2
  <2> QED
    BY <2>1
<1> DEFINE upTo == CHOOSE g : g = Body(g)
<1>10. upTo = Body(upTo)
  <2>1. \E g : g = Body(g)
    BY <1>9
  <2> HIDE DEF Body
  <2> QED
    BY <2>1
<1>11. AddedAll(x, docs) = upTo[n]
  BY DEF AddedAll, Next1, n
<1> HIDE DEF upTo
<1>12. DOMAIN upTo = 0..n /\ upTo[0] = x /\ \A i \in 1..n : upTo[i] = Next1(i, upTo[i - 1])
  <2>1. 0 \in 0..n /\ \A i \in 1..n : i \in 0..n /\ i # 0
    BY <1>1
  <2>2. \A k \in 0..n : upTo[k] = IF k = 0 THEN x ELSE Next1(k, upTo[k - 1])
    BY <1>10
  <2>3. DOMAIN upTo = 0..n
    BY <1>10
  <2> QED
    BY <2>1, <2>2, <2>3
<1>13. \A k \in 0..n : upTo[k] \in T
  <2> DEFINE S == {m \in Nat : m <= n => upTo[m] \in T}
  <2>1. 0 \in S
    BY <1>3, <1>12
  <2>2. ASSUME NEW m \in S
        PROVE  m + 1 \in S
    <3> SUFFICES ASSUME m + 1 <= n
                 PROVE  upTo[m + 1] \in T
      OBVIOUS
    <3>1. m + 1 \in 1..n /\ (m + 1) - 1 = m /\ upTo[m] \in T
      BY <1>1
    <3>2. upTo[m + 1] = Next1(m + 1, upTo[m])
      BY <1>12, <3>1
    <3> QED
      BY <1>2, <3>1, <3>2
  <2>3. S = Nat
    <3>1. S \in SUBSET Nat
      OBVIOUS
    <3> HIDE DEF S
    <3> QED
      BY <2>1, <2>2, <3>1, AllNumbers
  <2>4. \A k \in 0..n : k \in S /\ k <= n
    BY <1>1, <2>3
  <2> QED
    BY <2>4
<1>14. upTo \in [0..n -> T]
  <2>1. upTo = [k \in 0..n |-> upTo[k]]
    BY <1>10
  <2> QED
    BY <1>13, <2>1
<1> QED
  BY <1>11, <1>12, <1>14 DEF Next1, T, n

\* After replaceAll the index is exact and holds the URLs of the documents, each
\* with the version that came last.
LEMMA RebuiltExact ==
    ASSUME NEW docs \in Seq(Doc)
    PROVE  /\ Exact(Rebuilt(docs))
           /\ DOMAIN Corpus(Rebuilt(docs)) = {docs[i].url : i \in DOMAIN docs}
           /\ \A i \in DOMAIN docs :
                 (\A j \in DOMAIN docs : docs[j].url = docs[i].url => j <= i)
                    => Corpus(Rebuilt(docs))[docs[i].url] = docs[i].ver
<1> DEFINE n == Len(docs)
<1>1. n \in Nat /\ DOMAIN docs = 1..n /\ \A i \in 1..n : docs[i] \in Doc
  BY LenProperties, ElementOfSeq
<1>2. PICK upTo \in [0..n -> ExactIndexes] :
         /\ upTo[0] = Empty
         /\ \A i \in 1..n : upTo[i] = Added(upTo[i - 1], docs[i])
         /\ AddedAll(Empty, docs) = upTo[n]
  BY EmptyExact, AddedAllLoop
<1> DEFINE C(m) == Corpus(upTo[m])
           Latest(i, m) == \A j \in 1..m : docs[j].url = docs[i].url => j <= i
           Good(m) == /\ DOMAIN C(m) = {docs[i].url : i \in 1..m}
                      /\ \A i \in 1..m : Latest(i, m) => C(m)[docs[i].url] = docs[i].ver
           S == {m \in Nat : m <= n => Good(m)}
<1> HIDE DEF n
<1>3. 0 \in S
  <2>1. DOMAIN C(0) = {}
    BY <1>2 DEF Corpus, Empty
  <2>2. Good(0)
    <3>1. 1..0 = {}
      OBVIOUS
    <3> HIDE DEF C, Latest
    <3>2. {docs[i].url : i \in 1..0} = {}
      BY <3>1
    <3> QED
      BY <2>1, <3>1, <3>2
  <2> HIDE DEF Good
  <2> QED
    BY <2>2
<1>4. ASSUME NEW m \in S
      PROVE  m + 1 \in S
  <2> SUFFICES ASSUME m + 1 <= n
               PROVE  Good(m + 1)
    <3> HIDE DEF Good
    <3> QED
      OBVIOUS
  <2> DEFINE k == m + 1
             doc == docs[k]
  <2>1. m \in Nat /\ m \in 0..n /\ k \in 1..n /\ k - 1 = m /\ Good(m)
    <3> HIDE DEF Good
    <3> QED
      BY <1>1
  <2>2. Exact(upTo[m]) /\ doc \in Doc /\ upTo[k] = Added(upTo[m], doc)
    <3>1. upTo[m] \in ExactIndexes
      BY <1>2, <2>1
    <3> QED
      BY <1>1, <1>2, <2>1, <3>1 DEF ExactIndexes
  <2>3. C(k) = Put(C(m), doc.url, doc.ver)
    <3> HIDE DEF doc, k
    <3> QED
      BY <2>2, AddedCorpus
  <2>4. 1..k = (1..m) \cup {k} /\ k \in 1..k /\ m \in Nat
    BY <2>1
  <2> HIDE DEF C
  <2>5. DOMAIN C(k) = DOMAIN C(m) \cup {doc.url}
    <3>1. DOMAIN Put(C(m), doc.url, doc.ver) = DOMAIN C(m) \cup {doc.url}
      BY PutDomain
    <3> QED
      BY <2>3, <3>1
  <2>6. C(k)[doc.url] = doc.ver /\ \A u \in DOMAIN C(m) : u # doc.url => C(k)[u] = C(m)[u]
    BY <2>3, PutOf
  <2>7. DOMAIN C(k) = {docs[i].url : i \in 1..k}
    <3>1. {docs[i].url : i \in 1..k} = {docs[i].url : i \in 1..m} \cup {doc.url}
      <4> HIDE DEF k
      <4> QED
        BY <2>4
    <3>2. DOMAIN C(m) = {docs[i].url : i \in 1..m}
      BY <2>1
    <3> QED
      BY <2>5, <3>1, <3>2
  <2>8. ASSUME NEW i \in 1..k, Latest(i, k)
        PROVE  C(k)[docs[i].url] = docs[i].ver
    <3>1. CASE i = k
      BY <2>6, <3>1
    <3>2. CASE i # k
      <4>1. i \in 1..m /\ ~(k <= i) /\ \A j \in 1..m : j \in 1..k
        BY <2>4, <3>2
      <4>2. docs[i].url # doc.url /\ Latest(i, m)
        BY <2>4, <2>8, <4>1
      <4>3. C(m)[docs[i].url] = docs[i].ver /\ docs[i].url \in DOMAIN C(m)
        <5> HIDE DEF Latest
        <5> QED
          BY <2>1, <4>1, <4>2
      <4> QED
        BY <2>6, <4>2, <4>3
    <3> QED
      BY <3>1, <3>2
  <2> HIDE DEF Latest
  <2> QED
    BY <2>7, <2>8
<1>5. S = Nat
  <2>1. S \in SUBSET Nat
    OBVIOUS
  <2> HIDE DEF S
  <2> QED
    BY <1>3, <1>4, <2>1, AllNumbers
<1>6. Good(n)
  <2>1. n \in S
    BY <1>1, <1>5
  <2> HIDE DEF Good
  <2> QED
    BY <1>1, <2>1
<1>7. Rebuilt(docs) = upTo[n] /\ Exact(upTo[n])
  <2>1. n \in 0..n
    BY <1>1
  <2> QED
    BY <1>2, <2>1 DEF Rebuilt, ExactIndexes
<1> QED
  BY <1>1, <1>6, <1>7

----------------------------------------------------------------------------
(* What an exact index guarantees *)

LEMMA ExactUrls == Exact(index) => UrlsInverse
BY DEF Exact, UrlsExact, UrlsInverse, Ids

LEMMA ExactPostings == Exact(index) => PostingsExact
<1> SUFFICES ASSUME Exact(index), NEW t \in Terms
             PROVE  LET list == index.postings[t] IN
                    /\ \A i, j \in DOMAIN list : list[i].docId = list[j].docId => i = j
                    /\ ToSet(list) =
                          {[docId |-> id, termFreq |-> 3 * Title[index.docs[id].ver][t]
                                                       + Text[index.docs[id].ver][t]] :
                              id \in {k \in Ids : Title[index.docs[k].ver][t]
                                                  + Text[index.docs[k].ver][t] > 0}}
  BY DEF PostingsExact
<1> DEFINE list == index.postings[t]
           p(id) == [docId |-> id, termFreq |-> 3 * Title[index.docs[id].ver][t]
                                                + Text[index.docs[id].ver][t]]
           has(id) == Title[index.docs[id].ver][t] + Text[index.docs[id].ver][t] > 0
<1>1. Once(list) /\ \A q : q \in ToSet(list) <=> \E id \in Ids : IsPosting(q, id, index.docs[id].ver, t)
  BY DEF Exact, ListsHold, Ids
<1>2. ASSUME NEW id \in Ids
      PROVE  \A q : IsPosting(q, id, index.docs[id].ver, t) <=> has(id) /\ q = p(id)
  <2>1. index.docs[id].ver \in Versions
    BY PartsOf DEF Exact, Ids
  <2> DEFINE v == index.docs[id].ver
  <2>2. t \in DOMAIN Freqs(v) <=> has(id)
    BY <2>1, FreqsOf
  <2>3. t \in DOMAIN Freqs(v) => Freqs(v)[t] = 3 * Title[v][t] + Text[v][t]
    BY <2>1, FreqsOf
  <2> HIDE DEF has, v
  <2> QED
    BY <2>2, <2>3 DEF IsPosting, v
<1> HIDE DEF list, p, has
<1>3. ToSet(list) = {p(id) : id \in {k \in Ids : has(k)}}
  BY <1>1, <1>2
<1>4. \A i, j \in DOMAIN list : list[i].docId = list[j].docId => i = j
  BY <1>1 DEF Once
<1> QED
  BY <1>3, <1>4 DEF list, p, has

LEMMA ExactLengths == Exact(index) => LengthsExact
<1> SUFFICES ASSUME Exact(index), NEW id \in Ids
             PROVE  index.docLengths[id] = Total([e \in PostingsOf(id) |-> e[2].termFreq])
  BY DEF LengthsExact, Exact
<1> DEFINE F == Freqs(index.docs[id].ver)
           own == PostingsOf(id)
           p(t) == [docId |-> id, termFreq |-> F[t]]
           g == [e \in own |-> e[2].termFreq]
           r == [t \in DOMAIN F |-> <<t, p(t)>>]
<1>1. index.docs[id].ver \in Versions /\ index.docLengths[id] = Total(F)
  BY PartsOf DEF Exact, IdsExact, Ids
<1>2. /\ IsFiniteSet(DOMAIN F) /\ DOMAIN F \subseteq Terms
      /\ \A t \in DOMAIN F : F[t] \in Nat
  BY <1>1, FreqsOf
<1>3. \A e : e \in own <=> \E t \in DOMAIN F : e = <<t, p(t)>>
  <2>1. \A t \in Terms : \A q : q \in ToSet(index.postings[t])
                                  <=> \E k \in Ids : IsPosting(q, k, index.docs[k].ver, t)
    BY DEF Exact, ListsHold, Ids
  <2>2. \A t, q, k, v : IsPosting(q, k, v, t) => q.docId = k
    BY DEF IsPosting
  <2>3. \A t, q : IsPosting(q, id, index.docs[id].ver, t) <=> t \in DOMAIN F /\ q = p(t)
    BY DEF IsPosting
  <2> HIDE DEF F, p
  <2>4. ASSUME NEW t \in Terms, NEW q
        PROVE  q \in ToSet(index.postings[t]) /\ q.docId = id <=> t \in DOMAIN F /\ q = p(t)
    BY <2>1, <2>2, <2>3
  <2>5. \A e : e \in PostingsOf(id) <=>
           \E t \in Terms : e \in {t} \X {q \in ToSet(index.postings[t]) : q.docId = id}
    BY DEF PostingsOf
  <2>6. ASSUME NEW e, e \in own
        PROVE  \E t \in DOMAIN F : e = <<t, p(t)>>
    <3>1. PICK t \in Terms : e \in {t} \X {q \in ToSet(index.postings[t]) : q.docId = id}
      BY <2>5, <2>6
    <3>2. PICK q \in ToSet(index.postings[t]) : q.docId = id /\ e = <<t, q>>
      BY <3>1
    <3>3. t \in DOMAIN F /\ q = p(t)
      BY <2>4, <3>2
    <3> QED
      BY <3>2, <3>3
  <2>7. ASSUME NEW t \in DOMAIN F
        PROVE  <<t, p(t)>> \in own
    <3>1. t \in Terms
      BY <1>2
    <3>2. p(t) \in ToSet(index.postings[t]) /\ p(t).docId = id
      BY <2>4, <3>1
    <3>3. <<t, p(t)>> \in {t} \X {q \in ToSet(index.postings[t]) : q.docId = id}
      BY <3>2
    <3> QED
      BY <2>5, <3>1, <3>3
  <2> HIDE DEF own
  <2> QED
    BY <2>6, <2>7
<1>4. \A t \in DOMAIN F : p(t).termFreq = F[t]
  OBVIOUS
<1> HIDE DEF F, own, p
<1>5. r \in Bijection(DOMAIN F, DOMAIN g)
  <2>1. DOMAIN g = own
    OBVIOUS
  <2>2. \A t \in DOMAIN F : r[t] = <<t, p(t)>>
    OBVIOUS
  <2>3. r \in [DOMAIN F -> DOMAIN g]
    BY <1>3, <2>1
  <2> HIDE DEF r, g
  <2>4. ASSUME NEW a \in DOMAIN F, NEW b \in DOMAIN F, r[a] = r[b]
        PROVE  a = b
    BY <2>2, <2>4
  <2>5. \A e \in DOMAIN g : \E t \in DOMAIN F : r[t] = e
    BY <1>3, <2>1, <2>2
  <2> QED
    BY <2>3, <2>4, <2>5 DEF Bijection, Injection, Surjection, IsInjective
<1>6. ASSUME NEW t \in DOMAIN F
      PROVE  g[r[t]] = F[t]
  <2>1. r[t] = <<t, p(t)>> /\ r[t] \in own /\ r[t][2] = p(t)
    BY <1>3
  <2>2. g[r[t]] = r[t][2].termFreq
    BY <2>1
  <2> HIDE DEF g, r
  <2> QED
    BY <1>4, <2>1, <2>2
<1> HIDE DEF g, r
<1>7. Total(g) = Total(F)
  BY <1>2, <1>5, <1>6, TotalSame
<1> QED
  BY <1>1, <1>7 DEF g, own

----------------------------------------------------------------------------
(* Every reachable index is exact *)

IInv == Exact(index) /\ writes \in 0..MaxWrites /\ loads \in 0..MaxLoads

LEMMA InitInv == Init => IInv
BY EmptyExact, InvertedIndexAssumption DEF Init, IInv

LEMMA NextInv == IInv /\ [Next]_ivars => IInv'
<1> USE InvertedIndexAssumption
<1> SUFFICES ASSUME IInv, [Next]_ivars
             PROVE  IInv'
  OBVIOUS
<1>1. \A x : index' = x /\ Exact(x) => Exact(index)'
  BY DEF Exact, Holds, IdsExact, UrlsExact, ListsHold
<1>2. CASE \E doc \in Doc : AddDocument(doc)
  <2>1. PICK doc \in Doc : AddDocument(doc)
    BY <1>2
  <2>2. Exact(Added(index, doc))
    BY AddedExact DEF IInv
  <2>3. Exact(index)'
    BY <1>1, <2>1, <2>2 DEF AddDocument
  <2> QED
    BY <2>1, <2>3 DEF IInv, AddDocument
<1>3. CASE \E id \in DOMAIN index.docs : RemoveDocument(id)
  <2>1. PICK id \in DOMAIN index.docs : RemoveDocument(id)
    BY <1>3
  <2>2. Exact(Removed(index, id))
    BY RemovedExact DEF IInv
  <2>3. Exact(index)'
    BY <1>1, <2>1, <2>2 DEF RemoveDocument
  <2> QED
    BY <2>1, <2>3 DEF IInv, RemoveDocument
<1>4. CASE ClearIndex
  <2>1. Exact(index)'
    BY <1>1, <1>4, EmptyExact DEF ClearIndex
  <2> QED
    BY <1>4, <2>1 DEF IInv, ClearIndex
<1>5. CASE \E docs \in Corpora : ReplaceIndex(docs)
  <2>1. PICK docs \in Corpora : ReplaceIndex(docs)
    BY <1>5
  <2>2. docs \in Seq(Doc)
    OBVIOUS
  <2>3. Exact(Rebuilt(docs))
    BY <2>2, RebuiltExact
  <2>4. Exact(index)'
    BY <1>1, <2>1, <2>3 DEF ReplaceIndex
  <2> QED
    BY <2>1, <2>4 DEF IInv, ReplaceIndex
<1>6. CASE UNCHANGED ivars
  BY <1>1, <1>6 DEF IInv, ivars
<1> QED
  BY <1>2, <1>3, <1>4, <1>5, <1>6 DEF Next

\* The fields of the index keep their types; every id was assigned and the
\* unsigned total does not wrap (the members of InvertedIndex,
\* include/shadowse/inverted_index.hpp).
THEOREM Typing == Spec => []TypeOK
<1>1. IInv => TypeOK
  BY PartsOf DEF IInv, TypeOK, Exact, IdsExact, UrlsExact, Ids
<1> QED
  BY <1>1, InitInv, NextInv, PTL DEF Spec

\* However documents are added, replaced, removed, cleared and loaded, the
\* postings, the URL map, the lengths and the total are what a fresh computation
\* from the stored documents gives (addDocumentLocked, removeDocument, replaceAll).
THEOREM AlwaysExact == Spec => []IndexExact
<1>1. IInv => IndexExact
  BY ExactUrls, ExactPostings, ExactLengths DEF IInv, IndexExact
<1> QED
  BY <1>1, InitInv, NextInv, PTL DEF Spec

----------------------------------------------------------------------------
(* The index implements the corpus *)

LEMMA CorpusStep == IInv /\ [Next]_ivars => [Contract!CNext]_(Corpus(index))
<1> USE InvertedIndexAssumption
<1> SUFFICES ASSUME IInv, [Next]_ivars
             PROVE  [Contract!CNext]_(Corpus(index))
  OBVIOUS
<1>1. Exact(index)
  BY DEF IInv
<1>2. CASE \E doc \in Doc : AddDocument(doc)
  <2>1. PICK doc \in Doc : AddDocument(doc)
    BY <1>2
  <2>2. Corpus(index)' = Put(Corpus(index), doc.url, doc.ver)
    BY <1>1, <2>1, AddedCorpus DEF AddDocument
  <2>3. doc.url \in Urls /\ doc.ver \in Versions
    BY DEF Doc
  <2>4. Contract!Put(doc.url, doc.ver)
    BY <2>2 DEF Contract!Put, Put, Corpus
  <2> QED
    BY <2>3, <2>4 DEF Contract!CNext
<1>3. CASE \E id \in DOMAIN index.docs : RemoveDocument(id)
  <2>1. PICK id \in DOMAIN index.docs : RemoveDocument(id)
    BY <1>3
  <2>2. /\ index.docs[id].url \in DOMAIN Corpus(index) /\ index.docs[id].url \in Urls
        /\ Corpus(index)' = [w \in DOMAIN Corpus(index) \ {index.docs[id].url} |-> Corpus(index)[w]]
    BY <1>1, <2>1, RemovedCorpus DEF RemoveDocument
  <2>3. PICK u \in Urls : u = index.docs[id].url
    BY <2>2
  <2>4. Contract!Delete(u)
    BY <2>2, <2>3 DEF Contract!Delete, Corpus
  <2> QED
    BY <2>4 DEF Contract!CNext
<1>4. CASE ClearIndex
  <2>1. Contract!Clear
    BY <1>4 DEF ClearIndex, Contract!Clear, Empty
  <2> QED
    BY <2>1 DEF Contract!CNext
<1>5. CASE \E docs \in Corpora : ReplaceIndex(docs)
  <2>1. PICK docs \in Corpora : ReplaceIndex(docs)
    BY <1>5
  <2>2. docs \in Seq(Doc)
    OBVIOUS
  <2>3. /\ DOMAIN Corpus(index)' = {docs[i].url : i \in DOMAIN docs}
        /\ \A i \in DOMAIN docs :
              (\A j \in DOMAIN docs : docs[j].url = docs[i].url => j <= i)
                 => Corpus(index)'[docs[i].url] = docs[i].ver
    BY <2>1, <2>2, RebuiltExact DEF ReplaceIndex
  <2>4. Contract!Replace(docs)
    BY <2>3 DEF Contract!Replace, Corpus
  <2> QED
    BY <2>4 DEF Contract!CNext
<1>6. CASE UNCHANGED ivars
  BY <1>6 DEF ivars, Corpus
<1> QED
  BY <1>2, <1>3, <1>4, <1>5, <1>6 DEF Next

\* Seen from outside, the index is a corpus with one document per URL, the one
\* added last, and replaceAll replaces it as a whole: addDocumentLocked,
\* removeDocument, clear and replaceAll do what inverted_index.hpp says they do.
THEOREM Implements == Spec => ImplementsCorpus
<1>1. Init => Contract!CInit
  BY DEF Init, Empty, Contract!CInit
<1>2. [Contract!CNext]_(Corpus(index)) <=> [Contract!CNext]_([u \in DOMAIN index.urlToId |-> index.docs[index.urlToId[u]].ver])
  BY DEF Corpus
<1> QED
  BY <1>1, <1>2, InitInv, NextInv, CorpusStep, PTL DEF Spec, ImplementsCorpus, Contract!CSpec
=============================================================================
