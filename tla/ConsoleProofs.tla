---------------------------- MODULE ConsoleProofs ----------------------------
(***************************************************************************)
(* Proofs about Snapshot and Console, for any documents, passwords and     *)
(* number of saves: type correctness, that a save which reported success   *)
(* left a file that loads, and that console and server load a snapshot     *)
(* whole or not at all; then, for any pages, number of workers and         *)
(* capacity of the activity log, that the interactive program is a         *)
(* behaviour of Snapshot, so that all this holds of it, and that the       *)
(* dashboard lists an event for every page it counts.                      *)
(***************************************************************************)
EXTENDS Console, FiniteSetTheorems, SequenceTheorems, TLAPS

----------------------------------------------------------------------------
(* The plain format *)

\* SetToSeq lists each element of a finite set once.
LEMMA Ordering ==
    ASSUME NEW S, IsFiniteSet(S)
    PROVE  /\ Cardinality(S) \in Nat
           /\ SetToSeq(S) \in [1..Cardinality(S) -> S]
           /\ \A d \in S : \E k \in 1..Cardinality(S) : SetToSeq(S)[k] = d
<1>1. Cardinality(S) \in Nat /\ ExistsBijection(1..Cardinality(S), S)
  BY FS_CardinalityType
<1> DEFINE D == 1..Cardinality(S)
<1>2. \E f \in [D -> S] : IsInjective(f)
  BY <1>1 DEF ExistsBijection, Bijection, Injection
<1>3. SetToSeq(S) \in [D -> S] /\ IsInjective(SetToSeq(S))
  BY <1>2 DEF SetToSeq
<1>4. SetToSeq(S) \in Injection(D, S)
  BY <1>3 DEF Injection
<1>5. IsFiniteSet(D) /\ Cardinality(D) = Cardinality(S)
  BY <1>1, FS_Interval
<1>6. SetToSeq(S) \in Surjection(D, S)
  <2> HIDE DEF D
  <2> QED
    BY <1>4, <1>5, FS_Injection
<1> QED
  BY <1>1, <1>3, <1>6 DEF Surjection

\* serializeDocuments: three header fields, and two for each document.
LEMMA PlainFields ==
    ASSUME NEW docs, IsFiniteSet(docs)
    PROVE  LET p == SerializeDocuments(docs)
               n == Cardinality(docs) IN
           /\ n \in Nat
           /\ p \in Seq({p[i] : i \in 1..Len(p)})
           /\ Len(p) = 3 + 2 * n
           /\ p[1] = Field("magic", 0) /\ p[2] = Field("version", 1) /\ p[3] = Field("count", n)
           /\ \A i \in 4..Len(p) : p[i].tag \in {"head", "body"} /\ p[i].value \in docs
           /\ \A d \in docs : \E i \in 4..Len(p) : p[i].value = d
<1> DEFINE p == SerializeDocuments(docs)
           n == Cardinality(docs)
           order == SetToSeq(docs)
           hd == <<Field("magic", 0), Field("version", 1), Field("count", n)>>
           body == [k \in 1..2 * n |-> SerializeOne(order[(k + 1) \div 2])[2 - (k % 2)]]
           Fields == {Field(t, v) : t \in {"head", "body"}, v \in docs}
           Fld == Fields \cup {hd[1], hd[2], hd[3]}
<1>1. /\ n \in Nat
      /\ order \in [1..n -> docs]
      /\ \A d \in docs : \E k \in 1..n : order[k] = d
  BY Ordering
<1>2. p = hd \o body
  BY DEF SerializeDocuments
<1>3. ASSUME NEW k \in 1..2 * n
      PROVE  /\ (k + 1) \div 2 \in 1..n
             /\ body[k] \in Fields
             /\ body[k].tag \in {"head", "body"} /\ body[k].value = order[(k + 1) \div 2]
             /\ body[k].value \in docs
  <2>1. (k + 1) \div 2 \in 1..n /\ 2 - (k % 2) \in {1, 2}
    BY <1>1
  <2> DEFINE d == order[(k + 1) \div 2]
             e == 2 - (k % 2)
  <2>2. d \in docs
    BY <1>1, <2>1
  <2>3. body[k] = SerializeOne(d)[e]
    OBVIOUS
  <2>4. e = 1 \/ e = 2
    BY <2>1
  <2> HIDE DEF d, e, body
  <2>5. SerializeOne(d)[e] = Field("head", d) \/ SerializeOne(d)[e] = Field("body", d)
    BY <2>4 DEF SerializeOne
  <2>6. \E t \in {"head", "body"} : body[k] = Field(t, d)
    BY <2>3, <2>5
  <2>7. body[k] \in Fields
    BY <2>2, <2>6
  <2>8. body[k].tag \in {"head", "body"} /\ body[k].value = d
    BY <2>6 DEF Field
  <2> QED
    BY <2>1, <2>2, <2>7, <2>8 DEF d
<1>4. hd \in Seq(Fld) /\ Len(hd) = 3
  OBVIOUS
<1>5. body \in Seq(Fld) /\ Len(body) = 2 * n
  <2>1. \A k \in 1..2 * n : body[k] \in Fld
    BY <1>3
  <2>2. body \in [1..2 * n -> Fld] /\ 2 * n \in Nat
    BY <1>1, <2>1
  <2> HIDE DEF body, Fld
  <2> QED
    BY <2>2, SeqDef, LenProperties
<1> HIDE DEF hd, body, Fld, p
<1>6. /\ p \in Seq(Fld) /\ Len(p) = 3 + 2 * n
      /\ \A i \in 1..3 + 2 * n : p[i] = IF i <= 3 THEN hd[i] ELSE body[i - 3]
  <2>1. /\ hd \o body \in Seq(Fld)
        /\ Len(hd \o body) = Len(hd) + Len(body)
        /\ \A i \in 1..Len(hd) + Len(body) :
              (hd \o body)[i] = IF i <= Len(hd) THEN hd[i] ELSE body[i - Len(hd)]
    BY <1>4, <1>5, ConcatProperties
  <2> QED
    BY <1>2, <1>4, <1>5, <2>1
<1>7. p[1] = hd[1] /\ p[2] = hd[2] /\ p[3] = hd[3]
  BY <1>1, <1>6
<1>8. p[1] = Field("magic", 0) /\ p[2] = Field("version", 1) /\ p[3] = Field("count", n)
  BY <1>7 DEF hd
<1>9. ASSUME NEW i \in 4..Len(p)
      PROVE  p[i].tag \in {"head", "body"} /\ p[i].value \in docs
  <2>1. i - 3 \in 1..2 * n /\ p[i] = body[i - 3]
    BY <1>1, <1>6
  <2> QED
    BY <1>3, <2>1
<1>10. ASSUME NEW d \in docs
       PROVE  \E i \in 4..Len(p) : p[i].value = d
  <2>1. PICK k \in 1..n : order[k] = d
    BY <1>1
  <2>2. 2 * k \in 1..2 * n /\ (2 * k + 1) \div 2 = k
    BY <1>1
  <2>3. body[2 * k].value = d
    BY <1>3, <2>1, <2>2
  <2>4. 2 * k + 3 \in 4..Len(p) /\ p[2 * k + 3] = body[2 * k]
    BY <1>1, <1>6, <2>2
  <2> QED
    BY <2>3, <2>4
<1>11. p \in Seq({p[i] : i \in 1..Len(p)})
  <2>1. p \in [1..Len(p) -> {p[i] : i \in 1..Len(p)}] /\ Len(p) \in Nat
    BY <1>1, <1>6, LenProperties
  <2> QED
    BY <2>1, SeqDef
<1> QED
  BY <1>1, <1>6, <1>8, <1>9, <1>10, <1>11 DEF p

\* What deserializeDocuments makes of what serializeDocuments wrote, and of a
\* part of it that it accepts.
LEMMA ReadsBack ==
    ASSUME NEW docs, IsFiniteSet(docs), Cardinality(docs) <= MaxCount
    PROVE  Deserialize(SerializeDocuments(docs)) = docs
<1> DEFINE p == SerializeDocuments(docs)
           n == Cardinality(docs)
<1>1. /\ n \in Nat
      /\ Len(p) = 3 + 2 * n
      /\ p[1] = Field("magic", 0) /\ p[2] = Field("version", 1) /\ p[3] = Field("count", n)
      /\ \A i \in 4..Len(p) : p[i].value \in docs
      /\ \A d \in docs : \E i \in 4..Len(p) : p[i].value = d
  BY PlainFields
<1> HIDE DEF p, n
<1>2. p[1].tag = "magic" /\ p[2].tag = "version" /\ p[3].tag = "count" /\ p[3].value = n
  BY <1>1 DEF Field
<1>3. Len(p) >= 3 /\ p[3].value <= MaxCount /\ BodyComplete(p, p[3].value)
  BY <1>1, <1>2 DEF BodyComplete, n
<1>4. Deserialize(p) = {p[i].value : i \in {k \in 4..Len(p) : k <= 3 + 2 * p[3].value}}
  BY <1>2, <1>3 DEF Deserialize
<1>5. {k \in 4..Len(p) : k <= 3 + 2 * p[3].value} = 4..Len(p)
  BY <1>1, <1>2
<1>6. Deserialize(p) = {p[i].value : i \in 4..Len(p)}
  BY <1>4, <1>5
<1> QED
  BY <1>1, <1>6 DEF p

\* A plaintext is read only in full.
LEMMA ReadsWhole ==
    ASSUME NEW docs, IsFiniteSet(docs), NEW T, NEW data \in Seq(T),
           Len(data) <= Len(SerializeDocuments(docs)),
           \A i \in 1..Len(data) : data[i] = SerializeDocuments(docs)[i],
           Deserialize(data) # NoResult
    PROVE  Deserialize(data) = docs
<1> DEFINE p == SerializeDocuments(docs)
           n == Cardinality(docs)
           U == T \cup {p[i] : i \in 1..Len(p)}
<1>1. /\ n \in Nat
      /\ p \in Seq({p[i] : i \in 1..Len(p)})
      /\ Len(p) = 3 + 2 * n
      /\ p[3] = Field("count", n)
  BY PlainFields, ZenonT(40)
<1>2. Len(data) <= Len(p) /\ \A i \in 1..Len(data) : data[i] = p[i]
  OBVIOUS
<1>3. p \in Seq(U) /\ data \in Seq(U)
  <2> HIDE DEF p
  <2> QED
    BY <1>1, SeqMonotonic
<1> HIDE DEF p, n, U
<1>4. Len(data) >= 3 /\ data[3].value <= MaxCount /\ BodyComplete(data, data[3].value)
  BY DEF Deserialize
<1>5. Len(data) \in Nat
  BY LenProperties
<1>6. data[3] = p[3]
  BY <1>2, <1>4, <1>5
<1>7. data[3].value = n
  BY <1>1, <1>6 DEF Field
<1>8. Len(data) = Len(p)
  BY <1>1, <1>2, <1>4, <1>5, <1>7 DEF BodyComplete
<1>9. data = p
  BY <1>2, <1>3, <1>8, SeqEqual
<1> QED
  BY <1>4, <1>7, <1>9, ReadsBack DEF p, n

----------------------------------------------------------------------------
(* The encrypted format *)

\* The parts of a plaintext in the blocks of its ciphertext make it up again.
LEMMA PartsJoin ==
    ASSUME NEW T, NEW p \in Seq(T)
    PROVE  Part(p, 1) \o Part(p, 2) = p
<1> DEFINE half == Len(p) \div 2
<1>1. Len(p) \in Nat
  BY LenProperties
<1>2. 1 \in 1..Len(p) + 1 /\ half \in (1 - 1)..Len(p) /\ Len(p) \in half..Len(p)
  BY <1>1
<1>3. Part(p, 1) = SubSeq(p, 1, half) /\ Part(p, 2) = SubSeq(p, half + 1, Len(p))
  BY DEF Part
<1> HIDE DEF half
<1>4. SubSeq(p, 1, half) \o SubSeq(p, half + 1, Len(p)) = SubSeq(p, 1, Len(p))
  BY <1>2, ConcatAdjacentSubSeq
<1>5. SubSeq(p, 1, Len(p)) = p
  BY SubSeqFull
<1> QED
  BY <1>3, <1>4, <1>5

\* saveEncryptedSnapshot: six fields.
LEMMA EncryptedFields ==
    ASSUME NEW j
    PROVE  LET e == Encrypted(j) IN
           /\ e \in Seq({e[i] : i \in 1..Len(e)})
           /\ Len(e) = 6
           /\ e[1].tag = "magic" /\ e[2].tag = "salt" /\ e[3].tag = "nonce" /\ e[4].tag = "clen"
           /\ e[2].value = j.salt /\ e[3].value = j.salt /\ e[4].value = 2
           /\ e[5] = Block(j, 1) /\ e[6] = Block(j, 2)
<1> DEFINE e == Encrypted(j)
<1>1. e = <<Field("magic", 0), Field("salt", j.salt), Field("nonce", j.salt),
            Field("clen", 2), Block(j, 1), Block(j, 2)>>
  BY DEF Encrypted, NumBlocks
<1> HIDE DEF e
<1>2. Len(e) = 6 /\ e \in [1..6 -> {e[i] : i \in 1..6}]
  BY <1>1
<1>3. e \in Seq({e[i] : i \in 1..Len(e)})
  BY <1>2, SeqDef
<1>4. /\ e[1] = Field("magic", 0) /\ e[2] = Field("salt", j.salt) /\ e[3] = Field("nonce", j.salt)
      /\ e[4] = Field("clen", 2) /\ e[5] = Block(j, 1) /\ e[6] = Block(j, 2)
  BY <1>1
<1>5. /\ e[1].tag = "magic" /\ e[2].tag = "salt" /\ e[3].tag = "nonce" /\ e[4].tag = "clen"
      /\ e[2].value = j.salt /\ e[3].value = j.salt /\ e[4].value = 2
  BY <1>4 DEF Field
<1> QED
  BY <1>2, <1>3, <1>4, <1>5 DEF e

\* The jobs of the commands that a console knows, for a finite index.
RealJob == {j \in Job : IsFiniteSet(j.docs) /\ <<j.kind, j.pw>> \in Commands}

\* A field that some job writes.
Item == UNION {{Contents(j)[i] : i \in 1..Len(Contents(j))} : j \in RealJob}

\* A real job is plain without a password or encrypted with one.
LEMMA Kinds ==
    ASSUME NEW j \in RealJob
    PROVE  /\ j \in Job /\ IsFiniteSet(j.docs) /\ j.docs \in SUBSET Docs /\ j.salt \in 1..MaxSaves
           /\ \/ j.kind = "plain" /\ j.pw = NoPassword /\ Contents(j) = SerializeDocuments(j.docs)
              \/ j.kind = "encrypted" /\ j.pw \in Passwords /\ Contents(j) = Encrypted(j)
<1>1. j \in Job /\ IsFiniteSet(j.docs) /\ <<j.kind, j.pw>> \in Commands
  BY DEF RealJob
<1>2. j.docs \in SUBSET Docs /\ j.salt \in 1..MaxSaves
  BY <1>1 DEF Job
<1>3. \/ j.kind = "plain" /\ j.pw = NoPassword
      \/ j.kind = "encrypted" /\ j.pw \in Passwords
  BY <1>1 DEF Commands
<1> QED
  BY <1>1, <1>2, <1>3 DEF Contents

\* What a job writes is a sequence of fields, and not empty.
LEMMA ContentsSeq ==
    ASSUME NEW j \in RealJob
    PROVE  Contents(j) \in Seq(Item) /\ Len(Contents(j)) \in Nat \ {0}
<1> DEFINE w == Contents(j)
           W == {w[i] : i \in 1..Len(w)}
<1>1. w \in Seq(W) /\ Len(w) \in Nat \ {0}
  <2>1. CASE j.kind = "plain"
    <3>1. w = SerializeDocuments(j.docs) /\ IsFiniteSet(j.docs)
      BY <2>1, Kinds
    <3> QED
      BY <3>1, PlainFields
  <2>2. CASE j.kind = "encrypted"
    <3>1. w = Encrypted(j)
      BY <2>2, Kinds
    <3> QED
      BY <3>1, EncryptedFields
  <2> QED
    BY <2>1, <2>2, Kinds
<1>2. W \subseteq Item
  BY DEF Item
<1> HIDE DEF W
<1> QED
  BY <1>1, <1>2, SeqMonotonic
\* What a job has written loads with its own command and password.
LEMMA LoadsOwn ==
    ASSUME NEW j \in RealJob, Cardinality(j.docs) <= MaxCount
    PROVE  LoadFile(j.kind, j.pw, Contents(j)) = j.docs
<1> DEFINE p == SerializeDocuments(j.docs)
           e == Encrypted(j)
<1>1. Deserialize(p) = j.docs
  BY Kinds, ReadsBack
<1>2. CASE j.kind = "plain"
  BY <1>1, <1>2, Kinds DEF LoadFile
<1>3. CASE j.kind = "encrypted"
  <2>1. /\ Len(e) = 6 /\ e[1].tag = "magic" /\ e[4].tag = "clen" /\ e[4].value = 2
        /\ e[2].value = j.salt /\ e[3].value = j.salt
        /\ e[5] = Block(j, 1) /\ e[6] = Block(j, 2)
    BY EncryptedFields
  <2>2. p \in Seq({p[i] : i \in 1..Len(p)})
    BY Kinds, PlainFields
  <2> HIDE DEF p, e
  <2>3. /\ e[5].tag = "cipher" /\ e[5].block = 1 /\ e[5].nonce = j.salt
        /\ e[6].tag = "cipher" /\ e[6].block = 2 /\ e[6].nonce = j.salt
        /\ e[5].key = <<j.pw, j.salt>> /\ e[6].key = <<j.pw, j.salt>>
        /\ e[5].plain = Part(p, 1) /\ e[6].plain = Part(p, 2)
    BY <2>1 DEF Block, p
  <2>4. Authentic(e, j.pw, 2)
    <3>1. ASSUME NEW b \in 1..2
          PROVE  /\ e[4 + b].tag = "cipher" /\ e[4 + b].block = b
                 /\ e[4 + b].key = <<j.pw, e[2].value>> /\ e[4 + b].nonce = e[3].value
      <4>1. (4 + b = 5 /\ b = 1) \/ (4 + b = 6 /\ b = 2)
        OBVIOUS
      <4> QED
        BY <2>1, <2>3, <4>1
    <3> QED
      BY <3>1 DEF Authentic, NumBlocks
  <2>5. DecryptFile(e, j.pw) = Deserialize(e[5].plain \o e[6].plain)
    BY <2>1, <2>4 DEF DecryptFile
  <2>6. e[5].plain \o e[6].plain = p
    BY <2>2, <2>3, PartsJoin
  <2> QED
    BY <1>1, <1>3, <2>5, <2>6, Kinds DEF LoadFile, e
<1> QED
  BY <1>2, <1>3, Kinds

\* A file that is a start of what a job writes.
StartOf(data, whole) ==
    /\ data \in Seq(Item)
    /\ Len(data) <= Len(whole)
    /\ \A i \in 1..Len(data) : data[i] = whole[i]

\* Fields each of which some job of a set has written in its place.
Mixed(data, jobs) ==
    /\ data \in Seq(Item)
    /\ \A i \in 1..Len(data) :
          \E j \in jobs : i <= Len(Contents(j)) /\ data[i] = Contents(j)[i]

\* A start of what one job writes is such a mixture.
LEMMA StartIsMixed ==
    ASSUME NEW jobs \in SUBSET RealJob, NEW j \in jobs, NEW data, StartOf(data, Contents(j))
    PROVE  Mixed(data, jobs)
<1>1. data \in Seq(Item) /\ Len(data) <= Len(Contents(j))
  BY DEF StartOf
<1>2. ASSUME NEW i \in 1..Len(data)
      PROVE  i <= Len(Contents(j)) /\ data[i] = Contents(j)[i]
  <2>1. data[i] = Contents(j)[i]
    BY DEF StartOf
  <2>2. Len(data) \in Nat
    BY <1>1, LenProperties
  <2>3. Len(Contents(j)) \in Nat
    BY ContentsSeq
  <2> QED
    BY <1>1, <2>1, <2>2, <2>3
<1> QED
  BY <1>1, <1>2 DEF Mixed

\* A plain file that is a start of what a job writes loads only when the job
\* is plain and the file has all its documents.
LEMMA PlainWhole ==
    ASSUME NEW j \in RealJob, NEW data, StartOf(data, Contents(j)),
           Deserialize(data) # NoResult
    PROVE  j.kind = "plain" /\ j.pw = NoPassword /\ j.docs = Deserialize(data)
<1>1. data \in Seq(Item) /\ Len(data) \in Nat
  BY LenProperties DEF StartOf
<1>2. Len(data) >= 3 /\ data[2].tag = "version"
  BY DEF Deserialize
<1>3. data[2] = Contents(j)[2]
  BY <1>1, <1>2 DEF StartOf
<1>4. j.kind # "encrypted"
  <2>1. Encrypted(j)[2].tag = "salt"
    BY EncryptedFields
  <2> QED
    BY <1>2, <1>3, <2>1, Kinds
<1>5. j.kind = "plain" /\ j.pw = NoPassword /\ Contents(j) = SerializeDocuments(j.docs)
  BY <1>4, Kinds
<1>6. Deserialize(data) = j.docs
  <2>1. IsFiniteSet(j.docs)
    BY Kinds
  <2>2. /\ Len(data) <= Len(SerializeDocuments(j.docs))
        /\ \A i \in 1..Len(data) : data[i] = SerializeDocuments(j.docs)[i]
    BY <1>5 DEF StartOf
  <2> QED
    BY <1>1, <2>1, <2>2, ReadsWhole
<1> QED
  BY <1>5, <1>6

\* A block of a ciphertext is in its place in the file of an encrypted job.
LEMMA BlockOf ==
    ASSUME NEW jobs \in SUBSET RealJob, NEW data, Mixed(data, jobs),
           NEW b \in 1..2, 4 + b <= Len(data), data[4 + b].tag = "cipher"
    PROVE  \E j \in jobs : j.kind = "encrypted" /\ data[4 + b] = Block(j, b)
<1>1. Len(data) \in Nat /\ 4 + b \in 1..Len(data)
  <2>1. Len(data) \in Nat
    BY LenProperties DEF Mixed
  <2> QED
    BY <2>1
<1>2. PICK j \in jobs : 4 + b <= Len(Contents(j)) /\ data[4 + b] = Contents(j)[4 + b]
  BY <1>1 DEF Mixed
<1>3. j.kind = "encrypted" /\ Contents(j) = Encrypted(j)
  <2>1. CASE j.kind = "plain"
    <3>1. Contents(j) = SerializeDocuments(j.docs) /\ IsFiniteSet(j.docs)
      BY <2>1, Kinds
    <3>2. 4 + b \in 4..Len(SerializeDocuments(j.docs))
      BY <1>2, <3>1, PlainFields
    <3>3. Contents(j)[4 + b].tag \in {"head", "body"}
      BY <3>1, <3>2, PlainFields
    <3> QED
      BY <1>2, <3>3
  <2> QED
    BY <2>1, Kinds
<1>4. (4 + b = 5 /\ b = 1) \/ (4 + b = 6 /\ b = 2)
  OBVIOUS
<1>5. Encrypted(j)[5] = Block(j, 1) /\ Encrypted(j)[6] = Block(j, 2)
  BY EncryptedFields
<1> QED
  BY <1>2, <1>3, <1>4, <1>5

\* An encrypted file loads only with all the documents of one encrypted job
\* of that password, even when its fields come from several jobs: both blocks
\* have the key, and so the salt, of the same job.
LEMMA DecryptWhole ==
    ASSUME NEW jobs \in SUBSET RealJob, \A i, j \in jobs : i.salt = j.salt => i = j,
           NEW data, Mixed(data, jobs), NEW pw, DecryptFile(data, pw) # NoResult
    PROVE  \E j \in jobs : j.kind = "encrypted" /\ j.pw = pw /\ j.docs = DecryptFile(data, pw)
<1>1. /\ Len(data) >= 4 /\ data[4].value <= Len(data) - 4
      /\ Authentic(data, pw, data[4].value)
      /\ DecryptFile(data, pw) = Deserialize(data[5].plain \o data[6].plain)
  BY DEF DecryptFile
<1>2. Len(data) \in Nat /\ data[4].value = 2 /\ Len(data) >= 6
  <2>1. Len(data) \in Nat
    BY LenProperties DEF Mixed
  <2> QED
    BY <1>1, <2>1 DEF Authentic, NumBlocks
<1>3. \A b \in 1..2 : /\ data[4 + b].tag = "cipher"
                      /\ data[4 + b].key = <<pw, data[2].value>>
  BY <1>1, <1>2 DEF Authentic
<1>4. /\ 1 \in 1..2 /\ 2 \in 1..2 /\ 4 + 1 = 5 /\ 4 + 2 = 6
      /\ 4 + 1 <= Len(data) /\ 4 + 2 <= Len(data)
  BY <1>2
<1>5. PICK j \in jobs : j.kind = "encrypted" /\ data[5] = Block(j, 1)
  BY <1>3, <1>4, BlockOf
<1>6. PICK k \in jobs : k.kind = "encrypted" /\ data[6] = Block(k, 2)
  BY <1>3, <1>4, BlockOf
<1>7. data[5].key = <<pw, data[2].value>> /\ data[6].key = <<pw, data[2].value>>
  BY <1>3, <1>4
<1>8. j.pw = pw /\ j.salt = k.salt
  BY <1>5, <1>6, <1>7 DEF Block
<1>9. k = j
  BY <1>8
<1> DEFINE p == SerializeDocuments(j.docs)
<1>10. data[5].plain = Part(p, 1) /\ data[6].plain = Part(p, 2)
  BY <1>5, <1>6, <1>9 DEF Block
<1>11. p \in Seq({p[i] : i \in 1..Len(p)}) /\ Len(p) \in Nat /\ IsFiniteSet(j.docs)
  BY Kinds, PlainFields
<1>12. data[5].plain \o data[6].plain = p
  <2> HIDE DEF p
  <2> QED
    BY <1>10, <1>11, PartsJoin
<1>13. Deserialize(p) = j.docs
  <2>1. Deserialize(p) # NoResult
    BY <1>1, <1>12
  <2>2. Len(p) <= Len(p) /\ \A i \in 1..Len(p) : p[i] = p[i]
    BY <1>11
  <2> QED
    BY <1>11, <2>1, <2>2, ReadsWhole
<1> QED
  BY <1>1, <1>5, <1>8, <1>12, <1>13

----------------------------------------------------------------------------
(* The invariant *)

\* The jobs whose files were opened, and the one whose file is about to be.
Jobs == begun \cup ({job} \ {NoJob})

\* They come from commands of the console, on a finite index.
JobsInv ==
    /\ IsFiniteSet(index)
    /\ Jobs \in SUBSET RealJob
    /\ last # NoJob => last \in begun

\* The file is a start of what one job writes: of this job while it writes, all
\* of it once that was successful.  A stream gone bad has nothing to write.
FileInv ==
    /\ todo \in Seq(Item)
    /\ file = <<>> \/ \E j \in begun : StartOf(file, Contents(j))
    /\ console = "prompt" => todo = <<>> /\ good
    /\ console = "open" => todo = Contents(job) /\ good
    /\ console = "write" => job \in begun /\ StartOf(file, Contents(job)) /\ last = NoJob
    /\ ~good => todo = <<>>
    /\ last # NoJob => file = Contents(last)

\* No two jobs share a salt.
SaltsInv ==
    /\ \A i, j \in Jobs : i.salt = j.salt => i = j
    /\ \A j \in Jobs : j.salt <= saves

\* What the server has read so far may come from several files.
BufferInv == Mixed(buffer, begun)

SnapInv == TypeOK /\ JobsInv /\ FileInv /\ SaltsInv /\ BufferInv

\* No mixture is lost when more jobs have begun.
LEMMA MixedGrows ==
    ASSUME NEW jobs, NEW more, jobs \subseteq more, NEW data, Mixed(data, jobs)
    PROVE  Mixed(data, more)
BY DEF Mixed

\* The empty sequence is a start and a mixture of anything, and loads nothing.
LEMMA Nothing ==
    /\ \A jobs : Mixed(<<>>, jobs)
    /\ \A j \in RealJob : StartOf(<<>>, Contents(j))
    /\ \A kind, pw : LoadFile(kind, pw, <<>>) = NoResult
<1>1. <<>> \in Seq(Item) /\ Len(<<>>) = 0
  BY EmptySeq
<1>2. Deserialize(<<>>) = NoResult
  BY <1>1 DEF Deserialize
<1>3. \A pw : DecryptFile(<<>>, pw) = NoResult
  BY <1>1 DEF DecryptFile
<1>4. \A j \in RealJob : StartOf(<<>>, Contents(j))
  BY <1>1, ContentsSeq DEF StartOf
<1> QED
  BY <1>1, <1>2, <1>3, <1>4 DEF Mixed, LoadFile

\* What a load yields is what some job saved with the same command and
\* password.
LEMMA LoadsJob ==
    ASSUME JobsInv, FileInv, SaltsInv, NEW c \in Commands,
           LoadFile(c[1], c[2], file) # NoResult
    PROVE  \E j \in begun : /\ j.kind = c[1] /\ j.pw = c[2]
                            /\ j.docs = LoadFile(c[1], c[2], file)
<1>1. PICK i \in begun : StartOf(file, Contents(i))
  BY Nothing DEF FileInv
<1>2. begun \in SUBSET RealJob /\ i \in RealJob
  BY DEF JobsInv, Jobs
<1>3. CASE c[1] = "plain" /\ c[2] = NoPassword
  <2>1. LoadFile(c[1], c[2], file) = Deserialize(file)
    BY <1>3 DEF LoadFile
  <2> QED
    BY <1>1, <1>2, <1>3, <2>1, PlainWhole
<1>4. CASE c[1] = "encrypted"
  <2>1. LoadFile(c[1], c[2], file) = DecryptFile(file, c[2])
    BY <1>4 DEF LoadFile
  <2>2. Mixed(file, begun)
    BY <1>1, <1>2, StartIsMixed
  <2>3. \A m, n \in begun : m.salt = n.salt => m = n
    BY DEF SaltsInv, Jobs
  <2>4. \E j \in begun : j.kind = "encrypted" /\ j.pw = c[2] /\ j.docs = DecryptFile(file, c[2])
    BY <1>2, <2>1, <2>2, <2>3, DecryptWhole
  <2> QED
    BY <1>4, <2>1, <2>4
<1>5. (c[1] = "plain" /\ c[2] = NoPassword) \/ c[1] = "encrypted"
  BY DEF Commands
<1> QED
  BY <1>3, <1>4, <1>5

\* The same for what the server has read.
LEMMA ServesJob ==
    ASSUME JobsInv, SaltsInv, BufferInv, NEW pw \in Passwords,
           LoadFile("encrypted", pw, buffer) # NoResult
    PROVE  \E j \in begun : /\ j.kind = "encrypted" /\ j.pw = pw
                            /\ j.docs = LoadFile("encrypted", pw, buffer)
<1>1. LoadFile("encrypted", pw, buffer) = DecryptFile(buffer, pw)
  BY DEF LoadFile
<1>2. begun \in SUBSET RealJob
  BY DEF JobsInv, Jobs
<1>3. \A m, n \in begun : m.salt = n.salt => m = n
  BY DEF SaltsInv, Jobs
<1> QED
  BY <1>1, <1>2, <1>3, DecryptWhole DEF BufferInv

\* What the parts of the invariant say about sequences and jobs.
LEMMA Facts ==
    ASSUME SnapInv
    PROVE  /\ file \in Seq(Item) /\ buffer \in Seq(Item) /\ todo \in Seq(Item)
           /\ Len(file) \in Nat /\ Len(buffer) \in Nat
           /\ begun \in SUBSET RealJob
           /\ job # NoJob => job \in Jobs /\ job \in RealJob
           /\ job = NoJob => Jobs = begun
<1>1. begun \in SUBSET RealJob /\ (job # NoJob => job \in Jobs /\ job \in RealJob)
      /\ (job = NoJob => Jobs = begun)
  BY DEF SnapInv, JobsInv, Jobs
<1>2. file \in Seq(Item)
  BY EmptySeq DEF SnapInv, FileInv, StartOf
<1>3. buffer \in Seq(Item) /\ todo \in Seq(Item)
  BY DEF SnapInv, BufferInv, FileInv, Mixed
<1> QED
  BY <1>1, <1>2, <1>3, LenProperties

\* The invariant holds at the start.
LEMMA SnapInit == Init => SnapInv
<1> SUFFICES ASSUME Init
             PROVE  SnapInv
  OBVIOUS
<1> USE SnapshotAssumption
<1>1. TypeOK
  <2>1. saves \in 0..MaxSaves /\ index \subseteq Docs
    BY DEF Init
  <2> QED
    BY <2>1 DEF Init, TypeOK
<1>2. JobsInv
  BY DEF Init, JobsInv, Jobs
<1>3. FileInv
  BY EmptySeq DEF Init, FileInv
<1>4. SaltsInv
  BY DEF Init, SaltsInv, Jobs
<1>5. BufferInv
  BY Nothing DEF Init, BufferInv
<1> QED
  BY <1>1, <1>2, <1>3, <1>4, <1>5 DEF SnapInv

\* Steps that leave the file, the jobs and the stream alone.
LEMMA OtherSteps ==
    ASSUME SnapInv, UNCHANGED <<disk, console, job, todo, good, saves, begun, last>>
    PROVE  /\ FileInv' /\ SaltsInv'
           /\ IsFiniteSet(index') => JobsInv'
           /\ (UNCHANGED <<server, loaded>> /\ index' \in SUBSET Docs) => TypeOK'
           /\ UNCHANGED buffer => BufferInv'
<1>1. FileInv'
  BY DEF SnapInv, FileInv, disk
<1>2. SaltsInv'
  BY DEF SnapInv, SaltsInv, Jobs
<1>3. IsFiniteSet(index') => JobsInv'
  BY DEF SnapInv, JobsInv, Jobs
<1>4. (UNCHANGED <<server, loaded>> /\ index' \in SUBSET Docs) => TypeOK'
  BY DEF SnapInv, TypeOK, disk
<1>5. UNCHANGED buffer => BufferInv'
  BY DEF SnapInv, BufferInv
<1> QED
  BY <1>1, <1>2, <1>3, <1>4, <1>5

\* The crawler, the commands that load, and a step that changes nothing.
LEMMA IndexStep ==
    ASSUME SnapInv, \/ \E d \in Docs : IndexDocument(d)
                    \/ \E c \in Commands : Load(c[1], c[2])
                    \/ UNCHANGED vars
    PROVE  SnapInv'
<1>1. UNCHANGED <<disk, console, job, todo, good, saves, begun, last, server, loaded, buffer>>
  BY DEF IndexDocument, Load, vars, reading
<1>2. index' \in SUBSET Docs /\ IsFiniteSet(index')
  <2>1. index \in SUBSET Docs /\ IsFiniteSet(index)
    BY DEF SnapInv, TypeOK, JobsInv
  <2>2. CASE \E d \in Docs : IndexDocument(d)
    BY <2>1, <2>2, FS_AddElement DEF IndexDocument
  <2>3. CASE UNCHANGED vars
    BY <2>1, <2>3 DEF vars
  <2>4. ASSUME NEW c \in Commands, Load(c[1], c[2])
        PROVE  index' \in SUBSET Docs /\ IsFiniteSet(index')
    <3>1. CASE LoadFile(c[1], c[2], file) = NoResult
      BY <2>1, <2>4, <3>1 DEF Load, Replaced
    <3>2. CASE LoadFile(c[1], c[2], file) # NoResult
      <4>1. PICK j \in begun : j.docs = LoadFile(c[1], c[2], file)
        BY <3>2, LoadsJob DEF SnapInv
      <4>2. j.docs \in SUBSET Docs /\ IsFiniteSet(j.docs)
        BY Kinds DEF SnapInv, JobsInv, Jobs
      <4> QED
        BY <2>4, <3>2, <4>1, <4>2 DEF Load, Replaced
    <3> QED
      BY <3>1, <3>2
  <2> QED
    BY <2>2, <2>3, <2>4
<1> QED
  BY <1>1, <1>2, OtherSteps DEF SnapInv

\* The server program.
LEMMA ReaderStep ==
    ASSUME SnapInv, StartServer \/ ReadField \/ \E pw \in Passwords : EndOfFile(pw)
    PROVE  SnapInv'
<1>1. UNCHANGED <<disk, index, console, job, todo, good, saves, begun, last>>
  BY DEF StartServer, ReadField, EndOfFile
<1>2. FileInv' /\ SaltsInv' /\ JobsInv'
  BY <1>1, OtherSteps DEF SnapInv, TypeOK, JobsInv
<1>3. CASE StartServer
  <2>1. TypeOK'
    BY <1>1, <1>3 DEF SnapInv, TypeOK, StartServer, disk
  <2>2. BufferInv'
    BY <1>3, Nothing DEF StartServer, BufferInv
  <2> QED
    BY <1>2, <2>1, <2>2 DEF SnapInv
<1>4. CASE ReadField
  <2>1. TypeOK'
    BY <1>1, <1>4 DEF SnapInv, TypeOK, ReadField, disk
  <2>2. PICK j \in begun : StartOf(file, Contents(j))
    <3>1. file # <<>>
      BY <1>4, Facts, EmptySeq DEF ReadField
    <3> QED
      BY <3>1 DEF SnapInv, FileInv
  <2> DEFINE n == Len(buffer) + 1
  <2>3. n \in 1..Len(file) /\ file[n] \in Item
    BY <1>4, Facts, ElementOfSeq DEF ReadField
  <2>4. n <= Len(Contents(j)) /\ file[n] = Contents(j)[n]
    <3>1. Mixed(file, {j})
      BY <2>2, Facts, StartIsMixed
    <3> QED
      BY <2>3, <3>1 DEF Mixed
  <2>5. buffer' = Append(buffer, file[n]) /\ begun' = begun
    BY <1>1, <1>4 DEF ReadField
  <2>6. buffer' \in Seq(Item) /\ Len(buffer') = n
        /\ \A i \in 1..n : buffer'[i] = IF i = n THEN file[n] ELSE buffer[i]
    BY <2>3, <2>5, Facts, AppendProperties
  <2>7. ASSUME NEW i \in 1..Len(buffer')
        PROVE  \E k \in begun : i <= Len(Contents(k)) /\ buffer'[i] = Contents(k)[i]
    <3>1. CASE i = n
      BY <2>4, <2>6, <3>1
    <3>2. CASE i # n
      <4>1. i \in 1..Len(buffer) /\ buffer'[i] = buffer[i]
        BY <2>6, <3>2, Facts
      <4> QED
        BY <4>1 DEF SnapInv, BufferInv, Mixed
    <3> QED
      BY <3>1, <3>2
  <2>8. BufferInv'
    BY <2>5, <2>6, <2>7 DEF BufferInv, Mixed
  <2> QED
    BY <1>2, <2>1, <2>8 DEF SnapInv
<1>5. ASSUME NEW pw \in Passwords, EndOfFile(pw)
      PROVE  SnapInv'
  <2>1. loaded' = LoadFile("encrypted", pw, buffer)
        /\ server' = IF loaded' = NoResult THEN "off" ELSE "serving"
    BY <1>5 DEF EndOfFile
  <2>2. loaded' # NoResult => loaded' \in SUBSET Docs
    BY <2>1, ServesJob, Kinds DEF SnapInv, JobsInv, Jobs
  <2>3. TypeOK'
    BY <1>1, <2>1, <2>2 DEF SnapInv, TypeOK, disk
  <2>4. BufferInv'
    BY <1>5, Nothing DEF EndOfFile, BufferInv
  <2> QED
    BY <1>2, <2>3, <2>4 DEF SnapInv
<1> QED
  BY <1>3, <1>4, <1>5

\* Moving the first of the remaining fields to the end of the written ones.
LEMMA MoveOne ==
    ASSUME NEW s \in Seq(Item), NEW t \in Seq(Item), t # <<>>
    PROVE  /\ Append(s, Head(t)) \in Seq(Item) /\ Tail(t) \in Seq(Item)
           /\ Append(s, Head(t)) \o Tail(t) = s \o t
<1> DEFINE a == Append(s, Head(t))
<1>1. /\ Head(t) \in Item /\ Tail(t) \in Seq(Item) /\ Len(Tail(t)) = Len(t) - 1
      /\ \A i \in 1..Len(Tail(t)) : Tail(t)[i] = t[i + 1]
  BY HeadTailProperties
<1>2. Head(t) = t[1] /\ Len(t) \in Nat \ {0} /\ Len(s) \in Nat
  BY EmptySeq, LenProperties
<1>3. a \in Seq(Item) /\ Len(a) = Len(s) + 1
      /\ \A i \in 1..Len(s) + 1 : a[i] = IF i = Len(s) + 1 THEN Head(t) ELSE s[i]
  BY <1>1, <1>2, AppendProperties
<1> HIDE DEF a
<1>4. /\ a \o Tail(t) \in Seq(Item) /\ Len(a \o Tail(t)) = Len(a) + Len(Tail(t))
      /\ \A i \in 1..Len(a) + Len(Tail(t)) :
            (a \o Tail(t))[i] = IF i <= Len(a) THEN a[i] ELSE Tail(t)[i - Len(a)]
  BY <1>1, <1>3, ConcatProperties
<1>5. /\ s \o t \in Seq(Item) /\ Len(s \o t) = Len(s) + Len(t)
      /\ \A i \in 1..Len(s) + Len(t) :
            (s \o t)[i] = IF i <= Len(s) THEN s[i] ELSE t[i - Len(s)]
  BY ConcatProperties
<1>6. Len(a \o Tail(t)) = Len(s \o t)
  BY <1>1, <1>2, <1>3, <1>4, <1>5
<1>7. ASSUME NEW i \in 1..Len(s) + Len(t)
      PROVE  (a \o Tail(t))[i] = (s \o t)[i]
  <2>1. CASE i <= Len(s)
    BY <1>1, <1>2, <1>3, <1>4, <1>5, <2>1
  <2>2. CASE i = Len(s) + 1
    <3>1. (a \o Tail(t))[i] = a[i] /\ a[i] = t[1]
      BY <1>1, <1>2, <1>3, <1>4, <2>2
    <3>2. (s \o t)[i] = t[1]
      BY <1>2, <1>5, <2>2
    <3> QED
      BY <3>1, <3>2
  <2>3. CASE i > Len(s) + 1
    <3>1. i - Len(a) \in 1..Len(Tail(t)) /\ (i - Len(a)) + 1 = i - Len(s)
      BY <1>1, <1>2, <1>3, <2>3
    <3>2. (a \o Tail(t))[i] = Tail(t)[i - Len(a)]
      BY <1>1, <1>2, <1>3, <1>4, <2>3
    <3>3. (s \o t)[i] = t[i - Len(s)]
      BY <1>2, <1>5, <2>3
    <3> QED
      BY <1>1, <3>1, <3>2, <3>3
  <2>4. i <= Len(s) \/ i = Len(s) + 1 \/ i > Len(s) + 1
    BY <1>2
  <2> QED
    BY <2>1, <2>2, <2>3, <2>4
<1>8. a \o Tail(t) = s \o t
  BY <1>4, <1>5, <1>6, <1>7, SeqEqual
<1> QED
  BY <1>1, <1>3, <1>8 DEF a

\* The written fields are a start of all.
LEMMA StartOfConcat ==
    ASSUME NEW s \in Seq(Item), NEW t \in Seq(Item)
    PROVE  StartOf(s, s \o t)
<1>1. Len(s) \in Nat /\ Len(t) \in Nat
  BY LenProperties
<1>2. /\ Len(s \o t) = Len(s) + Len(t)
      /\ \A i \in 1..Len(s) + Len(t) :
            (s \o t)[i] = IF i <= Len(s) THEN s[i] ELSE t[i - Len(s)]
  BY ConcatProperties
<1> QED
  BY <1>1, <1>2 DEF StartOf

----------------------------------------------------------------------------
(* The steps of the console *)

LEMMA BeginSaveStep ==
    ASSUME SnapInv, NEW c \in Commands, BeginSave(c[1], c[2])
    PROVE  SnapInv'
<1> USE SnapshotAssumption
<1> DEFINE j == [kind |-> c[1], pw |-> c[2], docs |-> index, salt |-> saves + 1]
<1>1. /\ console = "prompt" /\ saves' = saves + 1 /\ saves \in Nat /\ saves + 1 \in 1..MaxSaves
      /\ UNCHANGED <<exists, file, index, good, server, buffer, loaded, begun, last>>
  BY DEF BeginSave, SnapInv, TypeOK, disk, reading
<1>2. job = NoJob /\ Jobs = begun /\ todo = <<>> /\ good
  BY <1>1 DEF SnapInv, TypeOK, FileInv, Jobs
<1>3. BufferInv'
  BY <1>1 DEF SnapInv, BufferInv
<1>4. \A i \in Jobs : i.salt \in Nat /\ i.salt <= saves
  <2>1. \A i \in Jobs : i.salt \in Nat
    BY Kinds DEF SnapInv, JobsInv
  <2> QED
    BY <2>1 DEF SnapInv, SaltsInv
<1>5. CASE UNCHANGED <<console, job, todo>>
  <2>1. TypeOK'
    <3>1. saves' \in 0..MaxSaves
      BY <1>1
    <3> QED
      BY <1>1, <1>5, <3>1 DEF SnapInv, TypeOK
  <2>2. JobsInv' /\ FileInv'
    BY <1>1, <1>5 DEF SnapInv, JobsInv, FileInv, Jobs
  <2>3. SaltsInv'
    <3>1. Jobs' = Jobs
      BY <1>1, <1>5 DEF Jobs
    <3>2. \A i \in Jobs : i.salt <= saves + 1
      BY <1>1, <1>4
    <3> QED
      BY <1>1, <3>1, <3>2 DEF SnapInv, SaltsInv
  <2> QED
    BY <1>3, <2>1, <2>2, <2>3 DEF SnapInv
<1>6. CASE console' = "open" /\ job' = j /\ todo' = Contents(j)
  <2>1. j \in RealJob /\ j # NoJob
    <3>1. IsFiniteSet(index) /\ index \in SUBSET Docs
      BY DEF SnapInv, TypeOK, JobsInv
    <3>2. j \in Job
      <4>1. c[1] \in {"plain", "encrypted"} /\ c[2] \in Passwords \cup {NoPassword}
        BY DEF Commands
      <4> QED
        BY <1>1, <3>1, <4>1 DEF Job
    <3>3. <<j.kind, j.pw>> \in Commands
      BY DEF Commands
    <3> QED
      BY <3>1, <3>2, <3>3 DEF RealJob
  <2>2. j.salt = saves + 1
    OBVIOUS
  <2> HIDE DEF j
  <2>3. Jobs' = Jobs \cup {j}
    BY <1>1, <1>2, <1>6, <2>1 DEF Jobs
  <2>4. TypeOK'
    <3>1. saves' \in 0..MaxSaves
      BY <1>1
    <3>2. j \in Job
      BY <2>1 DEF RealJob
    <3> QED
      BY <1>1, <1>6, <2>1, <3>1, <3>2 DEF SnapInv, TypeOK
  <2>5. JobsInv'
    BY <1>1, <2>1, <2>3 DEF SnapInv, JobsInv
  <2>6. FileInv'
    <3>1. Contents(j) \in Seq(Item)
      BY <2>1, ContentsSeq
    <3> QED
      BY <1>1, <1>2, <1>6, <3>1 DEF SnapInv, FileInv
  <2>7. SaltsInv'
    <3>1. \A i \in Jobs : i.salt # j.salt /\ i.salt <= saves'
      BY <1>1, <1>4, <2>2
    <3>2. j.salt <= saves'
      BY <1>1, <2>2
    <3> QED
      BY <2>3, <3>1, <3>2 DEF SnapInv, SaltsInv
  <2> QED
    BY <1>3, <2>4, <2>5, <2>6, <2>7 DEF SnapInv
<1> QED
  BY <1>5, <1>6 DEF BeginSave

LEMMA OpenFileStep ==
    ASSUME SnapInv, OpenFile
    PROVE  SnapInv'
<1>1. /\ console = "open" /\ console' = "write" /\ exists' = TRUE /\ file' = <<>> /\ good' = TRUE
      /\ begun' = begun \cup {job} /\ last' = NoJob
      /\ UNCHANGED <<index, job, todo, server, buffer, loaded, saves>>
  BY DEF OpenFile, reading
<1>2. job # NoJob /\ job \in RealJob /\ todo = Contents(job)
  BY <1>1, Facts DEF SnapInv, TypeOK, FileInv
<1>3. Jobs' = Jobs
  BY <1>1, <1>2 DEF Jobs
<1>4. job \in Job
  BY <1>2 DEF RealJob
<1>5. file' \o todo' = Contents(job)
  BY <1>1, <1>2, ContentsSeq, ConcatEmptySeq
<1>6. TypeOK'
  BY <1>1, <1>2, <1>4, <1>5 DEF SnapInv, TypeOK
<1>7. JobsInv'
  BY <1>1, <1>3 DEF SnapInv, JobsInv
<1>8. FileInv'
  <2>1. StartOf(<<>>, Contents(job))
    BY <1>2, Nothing
  <2> QED
    BY <1>1, <2>1 DEF SnapInv, FileInv
<1>9. SaltsInv'
  BY <1>1, <1>3 DEF SnapInv, SaltsInv
<1>10. BufferInv'
  BY <1>1, MixedGrows DEF SnapInv, BufferInv
<1> QED
  BY <1>6, <1>7, <1>8, <1>9, <1>10 DEF SnapInv

LEMMA OpenFailsStep ==
    ASSUME SnapInv, OpenFails
    PROVE  SnapInv'
<1>1. /\ console = "open" /\ console' = "prompt" /\ job' = NoJob /\ todo' = <<>>
      /\ UNCHANGED <<exists, file, index, good, server, buffer, loaded, saves, begun, last>>
  BY DEF OpenFails, disk, reading
<1>2. Jobs' \in SUBSET Jobs
  BY <1>1 DEF Jobs
<1>3. good
  BY <1>1 DEF SnapInv, FileInv
<1>4. TypeOK'
  BY <1>1 DEF SnapInv, TypeOK
<1>5. JobsInv' /\ SaltsInv'
  BY <1>1, <1>2 DEF SnapInv, JobsInv, SaltsInv
<1>6. FileInv'
  BY <1>1, <1>3, EmptySeq DEF SnapInv, FileInv
<1>7. BufferInv'
  BY <1>1 DEF SnapInv, BufferInv
<1> QED
  BY <1>4, <1>5, <1>6, <1>7 DEF SnapInv

LEMMA WriteFieldStep ==
    ASSUME SnapInv, WriteField
    PROVE  SnapInv'
<1>1. /\ console = "write" /\ todo # <<>>
      /\ file' = Append(file, Head(todo)) /\ todo' = Tail(todo)
      /\ UNCHANGED <<exists, index, console, job, good, server, buffer, loaded, saves, begun, last>>
  BY DEF WriteField, reading
<1>2. good /\ job \in begun /\ last = NoJob
  BY <1>1 DEF SnapInv, FileInv, TypeOK
<1>3. file \o todo = Contents(job)
  BY <1>1, <1>2 DEF SnapInv, TypeOK
<1>4. file' \in Seq(Item) /\ todo' \in Seq(Item) /\ file' \o todo' = Contents(job)
  BY <1>1, <1>3, Facts, MoveOne
<1>5. StartOf(file', Contents(job))
  BY <1>4, StartOfConcat
<1>6. TypeOK'
  BY <1>1, <1>4 DEF SnapInv, TypeOK
<1>7. JobsInv' /\ SaltsInv'
  BY <1>1 DEF SnapInv, JobsInv, SaltsInv, Jobs
<1>8. FileInv'
  BY <1>1, <1>2, <1>4, <1>5 DEF FileInv
<1>9. BufferInv'
  BY <1>1 DEF SnapInv, BufferInv
<1> QED
  BY <1>6, <1>7, <1>8, <1>9 DEF SnapInv

LEMMA WriteFailsStep ==
    ASSUME SnapInv, WriteFails
    PROVE  SnapInv'
<1>1. /\ console = "write" /\ good' = FALSE /\ todo' = <<>>
      /\ UNCHANGED <<exists, file, index, console, job, server, buffer, loaded, saves, begun, last>>
  BY DEF WriteFails, disk, reading
<1>2. TypeOK'
  BY <1>1 DEF SnapInv, TypeOK
<1>3. JobsInv' /\ SaltsInv'
  BY <1>1 DEF SnapInv, JobsInv, SaltsInv, Jobs
<1>4. FileInv'
  BY <1>1, EmptySeq DEF SnapInv, FileInv
<1>5. BufferInv'
  BY <1>1 DEF SnapInv, BufferInv
<1> QED
  BY <1>2, <1>3, <1>4, <1>5 DEF SnapInv

\* Here a save reports success: with a stream that is still good, all fields
\* are in the file.
LEMMA CloseFileStep ==
    ASSUME SnapInv, CloseFile
    PROVE  SnapInv'
<1>1. /\ console = "write" /\ todo = <<>> /\ console' = "prompt"
      /\ last' = (IF good THEN job ELSE NoJob) /\ job' = NoJob /\ good' = TRUE
      /\ UNCHANGED <<exists, file, index, todo, server, buffer, loaded, saves, begun>>
  BY DEF CloseFile, Written, disk, reading
<1>2. job \in begun /\ job # NoJob /\ job \in Job
  BY <1>1 DEF SnapInv, FileInv, TypeOK
<1>3. Jobs' = Jobs
  BY <1>1, <1>2 DEF Jobs
<1>4. good => file = Contents(job)
  <2>1. good => file \o todo = Contents(job)
    BY <1>1 DEF SnapInv, TypeOK
  <2>2. file \o todo = file
    BY <1>1, Facts, ConcatEmptySeq
  <2> QED
    BY <2>1, <2>2
<1>5. TypeOK'
  BY <1>1, <1>2 DEF SnapInv, TypeOK
<1>6. JobsInv' /\ SaltsInv'
  BY <1>1, <1>2, <1>3 DEF SnapInv, JobsInv, SaltsInv
<1>7. FileInv'
  BY <1>1, <1>4 DEF SnapInv, FileInv
<1>8. BufferInv'
  BY <1>1 DEF SnapInv, BufferInv
<1> QED
  BY <1>5, <1>6, <1>7, <1>8 DEF SnapInv

LEMMA CrashStep ==
    ASSUME SnapInv, Crash
    PROVE  SnapInv'
<1> USE SnapshotAssumption
<1>1. /\ console' = "prompt" /\ index' = Demo /\ job' = NoJob /\ todo' = <<>> /\ good' = TRUE
      /\ UNCHANGED <<exists, file, server, buffer, loaded, saves, begun, last>>
  BY DEF Crash, disk, reading
<1>2. Jobs' \in SUBSET Jobs
  BY <1>1 DEF Jobs
<1>3. TypeOK'
  BY <1>1 DEF SnapInv, TypeOK
<1>4. JobsInv' /\ SaltsInv'
  BY <1>1, <1>2 DEF SnapInv, JobsInv, SaltsInv
<1>5. FileInv'
  BY <1>1, EmptySeq DEF SnapInv, FileInv
<1>6. BufferInv'
  BY <1>1 DEF SnapInv, BufferInv
<1> QED
  BY <1>3, <1>4, <1>5, <1>6 DEF SnapInv

----------------------------------------------------------------------------
(* The theorems *)

LEMMA SnapStep == SnapInv /\ [Next]_vars => SnapInv'
BY IndexStep, ReaderStep, BeginSaveStep, OpenFileStep, OpenFailsStep, WriteFieldStep,
   WriteFailsStep, CloseFileStep, CrashStep DEF Next

\* Every reachable state satisfies the invariant.
THEOREM Saved == Spec => []SnapInv
BY SnapInit, SnapStep, PTL DEF Spec

\* The values each variable ranges over; what the file holds and what is still
\* to be written are together the contents of the job, while the stream of
\* saveEncryptedSnapshot or savePlainSnapshot is good.
THEOREM Typing == Spec => []TypeOK
<1>1. SnapInv => TypeOK
  BY DEF SnapInv
<1> QED
  BY <1>1, Saved, PTL

\* The invariant holds at every save that has reported success.
LEMMA SavedLoads == SnapInv => SavedIsLoadable
<1> SUFFICES ASSUME SnapInv, last # NoJob, Cardinality(last.docs) <= MaxCount
             PROVE  LoadFile(last.kind, last.pw, file) = last.docs
  BY DEF SavedIsLoadable
<1>1. last \in RealJob /\ file = Contents(last)
  BY DEF SnapInv, JobsInv, FileInv, Jobs
<1> QED
  BY <1>1, LoadsOwn

\* A save that reported success (no error from ofs after close) left a file
\* that load or load-state reads back to the documents of the index at that
\* save, until a save opens the file again.
THEOREM Loadable == Spec => []SavedIsLoadable
BY Saved, SavedLoads, PTL

\* load and load-state replace the index by all that one save wrote, with the
\* same command and password, or leave it alone.
THEOREM WholeLoads == Spec => LoadsAreWhole
<1>1. ASSUME SnapInv, NEW c \in Commands, Load(c[1], c[2])
      PROVE  \/ index' = index
             \/ \E j \in begun : <<j.kind, j.pw, j.docs>> = <<c[1], c[2], index'>>
  <2>1. CASE LoadFile(c[1], c[2], file) = NoResult
    BY <1>1, <2>1 DEF Load, Replaced
  <2>2. CASE LoadFile(c[1], c[2], file) # NoResult
    <3>1. PICK j \in begun : /\ j.kind = c[1] /\ j.pw = c[2]
                             /\ j.docs = LoadFile(c[1], c[2], file)
      BY <1>1, <2>2, LoadsJob DEF SnapInv
    <3>2. index' = j.docs
      BY <1>1, <2>2, <3>1 DEF Load, Replaced
    <3> QED
      BY <3>1, <3>2
  <2> QED
    BY <2>1, <2>2
<1>2. SnapInv /\ [Next]_vars =>
         [\A c \in Commands :
            Load(c[1], c[2]) => \/ index' = index
                                \/ \E j \in begun : <<j.kind, j.pw, j.docs>> = <<c[1], c[2], index'>>]_vars
  BY <1>1
<1> QED
  BY <1>2, Saved, PTL DEF Spec, LoadsAreWhole

\* A server that reads the file while the console rewrites it serves all that
\* one save wrote, or nothing.
THEOREM WholeServed == Spec => ServedIsWhole
<1>1. ASSUME SnapInv, NEW pw \in Passwords, EndOfFile(pw), loaded' # NoResult
      PROVE  \E j \in begun : <<j.kind, j.pw, j.docs>> = <<"encrypted", pw, loaded'>>
  <2>1. loaded' = LoadFile("encrypted", pw, buffer)
    BY <1>1 DEF EndOfFile
  <2>2. PICK j \in begun : j.kind = "encrypted" /\ j.pw = pw /\ j.docs = loaded'
    BY <1>1, <2>1, ServesJob DEF SnapInv
  <2> QED
    BY <2>2
<1>2. SnapInv /\ [Next]_vars =>
         [\A pw \in Passwords :
            EndOfFile(pw) /\ loaded' # NoResult =>
               \E j \in begun : <<j.kind, j.pw, j.docs>> = <<"encrypted", pw, loaded'>>]_vars
  BY <1>1
<1> QED
  BY <1>2, Saved, PTL DEF Spec, ServedIsWhole

----------------------------------------------------------------------------
(* The console: the inductive invariant *)

Status == {"new", "queued", "fetched", "reported", "done"}

\* Pages that a worker or a command has touched, and those with an event.
Seen == {d \in Pages : crawl[d] # "new"}
WithEvent == {d \in Pages : crawl[d] \in {"reported", "done"}}

\* Snapshot's commands run only in the loop, after the spinner was joined.
MainInv ==
    /\ main \in {"build", "join", "joinFatal", "loop", "admin", "drain", "ended"}
    /\ probing \in BOOLEAN /\ spinner \in {"spinning", "ended"}
    /\ main # "loop" => console = "prompt"
    /\ main \in {"loop", "admin", "drain"} => spinner = "ended"

\* Finitely many pages have been touched, and none is left at the end.
CrawlInv ==
    /\ crawl \in [Pages -> Status]
    /\ IsFiniteSet(Seen)
    /\ Cardinality(Busy) <= WorkerCount
    /\ main = "ended" => Pending = {}

\* The log has an event for each page that was reported, or is full.
LogInv ==
    /\ log \in Seq(Pages) /\ Len(log) <= LogCapacity
    /\ Len(log) = LogCapacity \/ Cardinality(WithEvent) <= Len(log)

\* A page that was counted stays counted while the request is under way.
ShownInv ==
    /\ shown \in Nat \cup {NoCount}
    /\ shown # NoCount => main = "admin" /\ shown <= Cardinality(Crawled)

CInv == SnapInv /\ MainInv /\ CrawlInv /\ LogInv /\ ShownInv

\* The pages of one status or another are finitely many.
LEMMA Counts ==
    ASSUME CrawlInv
    PROVE  /\ IsFiniteSet(Busy) /\ IsFiniteSet(WithEvent) /\ IsFiniteSet(Crawled)
           /\ Cardinality(Busy) \in Nat /\ Cardinality(WithEvent) \in Nat
           /\ Cardinality(Crawled) \in Nat
           /\ Cardinality(Crawled) <= Cardinality(WithEvent)
<1>1. Busy \in SUBSET Seen /\ WithEvent \in SUBSET Seen /\ Crawled \in SUBSET WithEvent
  BY DEF Busy, WithEvent, Crawled, Seen
<1>2. IsFiniteSet(Busy) /\ IsFiniteSet(WithEvent)
  BY <1>1, FS_Subset DEF CrawlInv
<1>3. IsFiniteSet(Crawled) /\ Cardinality(Crawled) <= Cardinality(WithEvent)
  BY <1>1, <1>2, FS_Subset
<1> QED
  BY <1>2, <1>3, FS_CardinalityType

\* All pages new: nothing seen, nothing busy, nothing to cover.
LEMMA Fresh ==
    ASSUME NEW c, c = [d \in Pages |-> "new"]
    PROVE  /\ c \in [Pages -> Status]
           /\ {d \in Pages : c[d] # "new"} = {}
           /\ {d \in Pages : c[d] \in {"fetched", "reported"}} = {}
           /\ {d \in Pages : c[d] = "queued"} = {}
           /\ {d \in Pages : c[d] \in {"reported", "done"}} = {}
BY DEF Status

\* A process that has just been started, or has just ended.
LEMMA ResetStep ==
    ASSUME Reset
    PROVE  CrawlInv' /\ LogInv' /\ ShownInv' /\ probing' = TRUE /\ spinner' = "spinning"
<1> USE ConsoleAssumption
<1>1. /\ probing' = TRUE /\ spinner' = "spinning" /\ log' = <<>> /\ shown' = NoCount
      /\ crawl' = [d \in Pages |-> "new"]
  BY DEF Reset
<1>2. /\ crawl' \in [Pages -> Status]
      /\ Seen' = {} /\ Busy' = {} /\ Pending' = {} /\ WithEvent' = {}
  BY <1>1, Fresh DEF Seen, Busy, Pending, WithEvent
<1>3. IsFiniteSet({}) /\ Cardinality({}) = 0
  BY FS_EmptySet
<1>4. CrawlInv'
  BY <1>2, <1>3 DEF CrawlInv
<1>5. LogInv'
  BY <1>1, <1>2, <1>3, EmptySeq DEF LogInv
<1>6. ShownInv'
  BY <1>1 DEF ShownInv
<1> QED
  BY <1>1, <1>4, <1>5, <1>6

LEMMA CInvInit == CInit => CInv
<1> SUFFICES ASSUME CInit
             PROVE  CInv
  OBVIOUS
<1> USE ConsoleAssumption
<1>1. /\ Init /\ main = "build" /\ probing = TRUE /\ spinner = "spinning"
      /\ crawl = [d \in Pages |-> "new"] /\ log = <<>> /\ shown = NoCount
  BY DEF CInit
<1>2. SnapInv
  BY <1>1, SnapInit
<1>3. MainInv
  BY <1>1 DEF MainInv, Init
<1>4. /\ crawl \in [Pages -> Status]
      /\ Seen = {} /\ Busy = {} /\ Pending = {} /\ WithEvent = {}
  BY <1>1, Fresh DEF Seen, Busy, Pending, WithEvent
<1>5. IsFiniteSet({}) /\ Cardinality({}) = 0
  BY FS_EmptySet
<1>6. CrawlInv
  BY <1>4, <1>5 DEF CrawlInv
<1>7. LogInv
  BY <1>1, <1>4, <1>5, EmptySeq DEF LogInv
<1>8. ShownInv
  BY <1>1 DEF ShownInv
<1> QED
  BY <1>2, <1>3, <1>6, <1>7, <1>8 DEF CInv

----------------------------------------------------------------------------
(* Console is a behaviour of Snapshot *)

\* The end of the program is a crash of Snapshot's console: it is at the prompt
\* and loses its index.  Every other step is one of Snapshot's or none.
LEMMA StepsMap ==
    ASSUME CInv, [CNext]_cvars
    PROVE  [Next]_vars
<1>1. CASE Drained
  <2>1. console = "prompt" /\ todo = <<>> /\ good /\ job = NoJob
    BY <1>1 DEF Drained, CInv, MainInv, SnapInv, FileInv, TypeOK
  <2>2. good \in BOOLEAN
    BY DEF CInv, SnapInv, TypeOK
  <2>3. Crash
    BY <1>1, <2>1, <2>2 DEF Drained, Crash
  <2> QED
    BY <2>3 DEF Next
<1>2. CASE SnapshotCommand
  BY <1>2 DEF SnapshotCommand, Next
<1>3. CASE ServerStep
  BY <1>3 DEF ServerStep, Next
<1>4. CASE \E d \in Pages : ProcessPage(d)
  <2>1. PICK d \in Pages : ProcessPage(d)
    BY <1>4
  <2>2. d \in Docs
    BY ConsoleAssumption
  <2> QED
    BY <2>1, <2>2 DEF ProcessPage, Next
<1>5. CASE Dies
  BY <1>5 DEF Dies, Next
<1>6. CASE \/ BuildEngine \/ JoinSpinner \/ AdminEnds \/ SpinnerSeesFlag
           \/ AdminCommand \/ ExitCommand \/ Restart \/ ReadCrawled \/ ReadLog
           \/ \E d \in Pages : CrawlCommand(d) \/ FollowLink(d) \/ Report(d) \/ Count(d)
           \/ UNCHANGED cvars
  BY <1>6 DEF BuildEngine, JoinSpinner, AdminEnds, SpinnerSeesFlag, AdminCommand, ExitCommand,
              Restart, ReadCrawled, ReadLog, CrawlCommand, FollowLink, Report, Count, cvars
<1> QED
  BY <1>1, <1>2, <1>3, <1>4, <1>5, <1>6 DEF CNext, Undisturbed, MainStep, WorkerStep
----------------------------------------------------------------------------
(* The steps *)

LEMMA MainSteps ==
    ASSUME CInv, [CNext]_cvars
    PROVE  MainInv'
<1>1. CASE BuildEngine \/ JoinSpinner \/ AdminEnds \/ Drained \/ SpinnerSeesFlag
  <2>1. console' = console
    BY <1>1 DEF BuildEngine, JoinSpinner, AdminEnds, Drained, SpinnerSeesFlag, vars
  <2>2. CASE JoinSpinner
    <3>1. CASE main = "join" /\ main' = "loop" /\ UNCHANGED <<probing, spinner>> /\ spinner = "ended"
      BY <2>1, <3>1 DEF CInv, MainInv
    <3>2. CASE main = "joinFatal" /\ main' = "ended" /\ Reset
      BY <2>1, <3>2, ResetStep DEF CInv, MainInv
    <3> QED
      BY <2>2, <3>1, <3>2 DEF JoinSpinner
  <2>3. CASE Drained
    BY <2>1, <2>3, ResetStep DEF Drained, CInv, MainInv
  <2>4. CASE BuildEngine \/ AdminEnds \/ SpinnerSeesFlag
    BY <2>1, <2>4 DEF BuildEngine, AdminEnds, SpinnerSeesFlag, CInv, MainInv
  <2> QED
    BY <1>1, <2>2, <2>3, <2>4
<1>2. CASE SnapshotCommand
  BY <1>2 DEF SnapshotCommand, startup, CInv, MainInv
<1>3. CASE AdminCommand \/ ExitCommand \/ Restart \/ ReadCrawled \/ ReadLog
  BY <1>3 DEF AdminCommand, ExitCommand, Restart, ReadCrawled, ReadLog, AtPrompt, vars, startup,
              CInv, MainInv
<1>4. CASE ServerStep
  BY <1>4 DEF ServerStep, StartServer, ReadField, EndOfFile, startup, CInv, MainInv
<1>5. ASSUME NEW d \in Pages,
             CrawlCommand(d) \/ FollowLink(d) \/ ProcessPage(d) \/ Report(d) \/ Count(d)
      PROVE  MainInv'
  <2>1. UNCHANGED <<startup, console>>
    BY <1>5 DEF CrawlCommand, FollowLink, ProcessPage, Report, Count, IndexDocument, vars
  <2> QED
    BY <2>1 DEF startup, CInv, MainInv
<1>6. CASE Dies
  BY <1>6, ResetStep DEF Dies, Crash, CInv, MainInv
<1>7. CASE UNCHANGED cvars
  BY <1>7 DEF cvars, vars, startup, CInv, MainInv
<1> QED
  BY <1>1, <1>2, <1>3, <1>4, <1>5, <1>6, <1>7 DEF CNext, Undisturbed, MainStep, WorkerStep

\* One page gets another status.
LEMMA Moved ==
    ASSUME CrawlInv, NEW d \in Pages, NEW s \in Status \ {"new"},
           crawl' = [crawl EXCEPT ![d] = s]
    PROVE  /\ crawl' \in [Pages -> Status] /\ IsFiniteSet(Seen')
           /\ \A p \in Pages : crawl'[p] = IF p = d THEN s ELSE crawl[p]
<1>1. crawl' \in [Pages -> Status]
      /\ \A p \in Pages : crawl'[p] = IF p = d THEN s ELSE crawl[p]
  BY DEF CrawlInv
<1>2. Seen' \in SUBSET (Seen \cup {d})
  BY <1>1 DEF Seen
<1>3. IsFiniteSet(Seen \cup {d})
  BY FS_AddElement DEF CrawlInv
<1> QED
  BY <1>1, <1>2, <1>3, FS_Subset

\* Steps that touch no page.
LEMMA CrawlSame ==
    ASSUME CrawlInv, UNCHANGED crawl, main' = "ended" => main = "ended"
    PROVE  CrawlInv'
BY DEF CrawlInv, Seen, Busy, Pending

LEMMA CrawlSteps ==
    ASSUME CInv, [CNext]_cvars
    PROVE  CrawlInv'
<1> USE ConsoleAssumption
<1>1. CASE BuildEngine \/ AdminEnds \/ SpinnerSeesFlag \/ SnapshotCommand \/ AdminCommand
           \/ ExitCommand \/ Restart \/ ReadCrawled \/ ReadLog \/ ServerStep \/ UNCHANGED cvars
  <2>1. UNCHANGED crawl /\ (main' = "ended" => main = "ended")
    BY <1>1 DEF BuildEngine, AdminEnds, SpinnerSeesFlag, SnapshotCommand, AdminCommand,
                ExitCommand, Restart, ReadCrawled, ReadLog, ServerStep, cvars, startup, work
  <2> QED
    BY <2>1, CrawlSame DEF CInv
<1>2. CASE JoinSpinner
  <2>1. CASE Reset
    BY <2>1, ResetStep
  <2>2. CASE main' = "loop" /\ UNCHANGED work
    BY <2>2, CrawlSame DEF CInv, work
  <2> QED
    BY <1>2, <2>1, <2>2 DEF JoinSpinner
<1>3. CASE Drained \/ Dies
  BY <1>3, ResetStep DEF Drained, Dies
<1>4. ASSUME NEW d \in Pages, CrawlCommand(d) \/ FollowLink(d)
      PROVE  CrawlInv'
  <2>1. /\ crawl' = [crawl EXCEPT ![d] = "queued"] /\ main' = main /\ crawl[d] = "new"
        /\ main = "loop" \/ \E p \in Pages : crawl[p] = "reported"
    BY <1>4 DEF CrawlCommand, FollowLink, AtPrompt, startup
  <2>2. /\ crawl' \in [Pages -> Status] /\ IsFiniteSet(Seen')
        /\ \A p \in Pages : crawl'[p] = IF p = d THEN "queued" ELSE crawl[p]
    BY <2>1, Moved DEF CInv, Status
  <2>3. Busy' = Busy
    BY <2>1, <2>2 DEF Busy
  <2>4. main # "ended"
    BY <2>1 DEF CInv, CrawlInv, Pending, Busy
  <2> QED
    BY <2>1, <2>2, <2>3, <2>4 DEF CInv, CrawlInv
<1>5. ASSUME NEW d \in Pages, ProcessPage(d)
      PROVE  CrawlInv'
  <2>1. /\ crawl' = [crawl EXCEPT ![d] = "fetched"] /\ main' = main /\ crawl[d] = "queued"
        /\ Cardinality(Busy) < WorkerCount
    BY <1>5 DEF ProcessPage, startup
  <2>2. /\ crawl' \in [Pages -> Status] /\ IsFiniteSet(Seen')
        /\ \A p \in Pages : crawl'[p] = IF p = d THEN "fetched" ELSE crawl[p]
    BY <2>1, Moved DEF CInv, Status
  <2>3. Busy' = Busy \cup {d} /\ d \notin Busy
    BY <2>1, <2>2 DEF Busy
  <2>4. IsFiniteSet(Busy) /\ Cardinality(Busy) \in Nat
    BY Counts DEF CInv
  <2>5. Cardinality(Busy') = Cardinality(Busy) + 1
    BY <2>3, <2>4, FS_AddElement
  <2>6. Cardinality(Busy') <= WorkerCount
    BY <2>1, <2>4, <2>5
  <2>7. main # "ended"
    BY <2>1 DEF CInv, CrawlInv, Pending
  <2> QED
    BY <2>1, <2>2, <2>6, <2>7 DEF CrawlInv
<1>6. ASSUME NEW d \in Pages, Report(d) \/ Count(d)
      PROVE  CrawlInv'
  <2>1. /\ main' = main /\ d \in Busy
        /\ \E s \in {"reported", "done"} : crawl' = [crawl EXCEPT ![d] = s]
    BY <1>6 DEF Report, Count, startup, Busy
  <2>2. PICK s \in {"reported", "done"} : crawl' = [crawl EXCEPT ![d] = s]
    BY <2>1
  <2>3. /\ crawl' \in [Pages -> Status] /\ IsFiniteSet(Seen')
        /\ \A p \in Pages : crawl'[p] = IF p = d THEN s ELSE crawl[p]
    BY <2>2, Moved DEF CInv, Status
  <2>4. Busy' \in SUBSET Busy
    BY <2>1, <2>3 DEF Busy
  <2>5. IsFiniteSet(Busy) /\ Cardinality(Busy) \in Nat
    BY Counts DEF CInv
  <2>6. Cardinality(Busy') <= Cardinality(Busy) /\ Cardinality(Busy') \in Nat
    BY <2>4, <2>5, FS_Subset, FS_CardinalityType
  <2>7. Cardinality(Busy') <= WorkerCount
    BY <2>5, <2>6 DEF CInv, CrawlInv
  <2>8. main # "ended"
    BY <2>1 DEF CInv, CrawlInv, Pending
  <2> QED
    BY <2>1, <2>3, <2>7, <2>8 DEF CrawlInv
<1> QED
  BY <1>1, <1>2, <1>3, <1>4, <1>5, <1>6 DEF CNext, Undisturbed, MainStep, WorkerStep

\* The log after one more event: it has one more, or is full.
LEMMA Logged ==
    ASSUME LogInv, NEW d \in Pages
    PROVE  LET new == Trimmed(Append(log, d)) IN
           /\ new \in Seq(Pages) /\ Len(new) <= LogCapacity
           /\ Len(new) = LogCapacity \/ Len(new) = Len(log) + 1
           /\ Len(log) = LogCapacity => Len(new) = LogCapacity
<1> USE ConsoleAssumption
<1> DEFINE a == Append(log, d)
           from == IF Len(a) > LogCapacity THEN 2 ELSE 1
<1>1. log \in Seq(Pages) /\ Len(log) \in Nat /\ Len(log) <= LogCapacity
  BY LenProperties DEF LogInv
<1>2. a \in Seq(Pages) /\ Len(a) = Len(log) + 1
  BY <1>1, AppendProperties
<1>3. Trimmed(a) = SubSeq(a, from, Len(a))
  BY DEF Trimmed
<1> HIDE DEF a
<1>4. \A i \in from..Len(a) : a[i] \in Pages
  BY <1>1, <1>2, ElementOfSeq
<1>5. from \in Int /\ Len(a) \in Int
  BY <1>1, <1>2
<1>6. /\ Trimmed(a) \in Seq(Pages)
      /\ Len(Trimmed(a)) = IF from <= Len(a) THEN Len(a) - from + 1 ELSE 0
  <2> HIDE DEF from
  <2> QED
    BY <1>3, <1>4, <1>5, SubSeqProperties
<1>7. from <= Len(a)
  BY <1>1, <1>2
<1>8. Len(Trimmed(a)) = Len(a) - from + 1
  BY <1>6, <1>7
<1> QED
  BY <1>1, <1>2, <1>6, <1>8 DEF a

LEMMA LogSteps ==
    ASSUME CInv, [CNext]_cvars
    PROVE  LogInv'
<1> USE ConsoleAssumption
<1>1. CASE BuildEngine \/ AdminEnds \/ SpinnerSeesFlag \/ SnapshotCommand \/ AdminCommand
           \/ ExitCommand \/ Restart \/ ReadCrawled \/ ReadLog \/ ServerStep \/ UNCHANGED cvars
  <2>1. UNCHANGED <<crawl, log>>
    BY <1>1 DEF BuildEngine, AdminEnds, SpinnerSeesFlag, SnapshotCommand, AdminCommand,
                ExitCommand, Restart, ReadCrawled, ReadLog, ServerStep, cvars, work
  <2> QED
    BY <2>1 DEF CInv, LogInv, WithEvent
<1>2. CASE JoinSpinner
  <2>1. CASE Reset
    BY <2>1, ResetStep
  <2>2. CASE UNCHANGED work
    BY <2>2 DEF CInv, LogInv, WithEvent, work
  <2> QED
    BY <1>2, <2>1, <2>2 DEF JoinSpinner
<1>3. CASE Drained \/ Dies
  BY <1>3, ResetStep DEF Drained, Dies
<1>4. ASSUME NEW d \in Pages, CrawlCommand(d) \/ FollowLink(d) \/ ProcessPage(d) \/ Count(d)
      PROVE  LogInv'
  <2>1. log' = log /\ WithEvent' = WithEvent
    <3>1. log' = log
      BY <1>4 DEF CrawlCommand, FollowLink, ProcessPage, Count
    <3>2. crawl \in [Pages -> Status]
      BY DEF CInv, CrawlInv
    <3>3. CASE CrawlCommand(d) \/ FollowLink(d)
      BY <3>1, <3>2, <3>3 DEF CrawlCommand, FollowLink, WithEvent
    <3>4. CASE ProcessPage(d)
      BY <3>1, <3>2, <3>4 DEF ProcessPage, WithEvent
    <3>5. CASE Count(d)
      BY <3>1, <3>2, <3>5 DEF Count, WithEvent
    <3> QED
      BY <1>4, <3>3, <3>4, <3>5
  <2> QED
    BY <2>1 DEF CInv, LogInv
<1>5. ASSUME NEW d \in Pages, Report(d)
      PROVE  LogInv'
  <2>1. crawl[d] = "fetched" /\ crawl' = [crawl EXCEPT ![d] = "reported"]
        /\ log' = Trimmed(Append(log, d))
    BY <1>5 DEF Report
  <2>2. WithEvent' = WithEvent \cup {d} /\ d \notin WithEvent
    <3>1. crawl \in [Pages -> Status]
      BY DEF CInv, CrawlInv
    <3> QED
      BY <2>1, <3>1 DEF WithEvent
  <2>3. IsFiniteSet(WithEvent) /\ Cardinality(WithEvent) \in Nat
    BY Counts DEF CInv
  <2>4. Cardinality(WithEvent') = Cardinality(WithEvent) + 1
    BY <2>2, <2>3, FS_AddElement
  <2>5. /\ log' \in Seq(Pages) /\ Len(log') <= LogCapacity
        /\ Len(log') = LogCapacity \/ Len(log') = Len(log) + 1
        /\ Len(log) = LogCapacity => Len(log') = LogCapacity
    BY <2>1, Logged DEF CInv
  <2>6. Len(log) \in Nat /\ (Len(log) = LogCapacity \/ Cardinality(WithEvent) <= Len(log))
    BY LenProperties DEF CInv, LogInv
  <2>7. Len(log') = LogCapacity \/ Cardinality(WithEvent') <= Len(log')
    BY <2>3, <2>4, <2>5, <2>6
  <2> QED
    BY <2>5, <2>7 DEF LogInv
<1> QED
  BY <1>1, <1>2, <1>3, <1>4, <1>5 DEF CNext, Undisturbed, MainStep, WorkerStep

LEMMA ShownSteps ==
    ASSUME CInv, [CNext]_cvars
    PROVE  ShownInv'
<1> USE ConsoleAssumption
<1>1. CASE \/ BuildEngine \/ SpinnerSeesFlag \/ SnapshotCommand \/ AdminCommand
           \/ ExitCommand \/ Restart \/ ServerStep \/ UNCHANGED cvars
           \/ JoinSpinner /\ ~Reset
  <2>1. UNCHANGED <<crawl, shown>>
    BY <1>1 DEF BuildEngine, SpinnerSeesFlag, SnapshotCommand, AdminCommand, ExitCommand,
                Restart, ServerStep, JoinSpinner, cvars, work
  <2>2. main = "admin" => main' = "admin"
    BY <1>1 DEF BuildEngine, SpinnerSeesFlag, SnapshotCommand, AdminCommand, ExitCommand,
                Restart, ServerStep, JoinSpinner, cvars, startup, AtPrompt
  <2> QED
    BY <2>1, <2>2 DEF CInv, ShownInv, Crawled
<1>2. CASE Reset
  BY <1>2, ResetStep
<1>3. CASE AdminEnds \/ ReadLog
  BY <1>3 DEF AdminEnds, ReadLog, ShownInv
<1>4. CASE ReadCrawled
  <2>1. main = "admin" /\ main' = main /\ shown' = Cardinality(Crawled) /\ Crawled' = Crawled
    BY <1>4 DEF ReadCrawled, startup, work, Crawled
  <2>2. Cardinality(Crawled) \in Nat
    BY Counts DEF CInv
  <2>3. shown' <= Cardinality(Crawled')
    BY <2>1, <2>2
  <2> QED
    BY <2>1, <2>2, <2>3 DEF ShownInv
<1>5. ASSUME NEW d \in Pages,
             CrawlCommand(d) \/ FollowLink(d) \/ ProcessPage(d) \/ Report(d) \/ Count(d)
      PROVE  ShownInv'
  <2>1. shown' = shown /\ main' = main
    BY <1>5 DEF CrawlCommand, FollowLink, ProcessPage, Report, Count, startup
  <2>2. Crawled \in SUBSET Crawled'
    <3>1. crawl \in [Pages -> Status]
      BY DEF CInv, CrawlInv
    <3>2. crawl[d] # "done" /\ \E s : crawl' = [crawl EXCEPT ![d] = s]
      BY <1>5 DEF CrawlCommand, FollowLink, ProcessPage, Report, Count
    <3> QED
      BY <3>1, <3>2 DEF Crawled
  <2>3. CrawlInv'
    BY CrawlSteps
  <2>4. IsFiniteSet(Crawled')
    <3>1. Crawled' \in SUBSET Seen' /\ IsFiniteSet(Seen')
      BY <2>3 DEF Crawled, Seen, CrawlInv
    <3> QED
      BY <3>1, FS_Subset
  <2>5. /\ Cardinality(Crawled) <= Cardinality(Crawled')
        /\ Cardinality(Crawled) \in Nat /\ Cardinality(Crawled') \in Nat
    BY <2>2, <2>4, FS_Subset, FS_CardinalityType
  <2>6. CASE shown # NoCount
    <3>1. shown \in Nat /\ main = "admin" /\ shown <= Cardinality(Crawled)
      BY <2>6 DEF CInv, ShownInv
    <3>2. shown <= Cardinality(Crawled')
      BY <2>5, <3>1
    <3> QED
      BY <2>1, <3>1, <3>2 DEF ShownInv
  <2>7. CASE shown = NoCount
    BY <2>1, <2>7 DEF ShownInv
  <2> QED
    BY <2>6, <2>7
<1> QED
  BY <1>1, <1>2, <1>3, <1>4, <1>5 DEF CNext, Undisturbed, MainStep, WorkerStep, Drained, Dies
----------------------------------------------------------------------------
(* The theorems *)

LEMMA CInvStep == CInv /\ [CNext]_cvars => CInv'
<1> SUFFICES ASSUME CInv, [CNext]_cvars
             PROVE  CInv'
  OBVIOUS
<1>1. SnapInv'
  BY StepsMap, SnapStep DEF CInv
<1> QED
  BY <1>1, MainSteps, CrawlSteps, LogSteps, ShownSteps DEF CInv

\* Every reachable state satisfies the invariant.
THEOREM Consistent == CSpec => []CInv
BY CInvInit, CInvStep, PTL DEF CSpec

\* What main.cpp does with its threads, the log and the dashboard is one way to
\* use the snapshot functions: Snapshot's specification allows it.
THEOREM BehavesAsSnapshot == CSpec => Spec
<1>1. CInit => Init
  BY DEF CInit
<1>2. CInv /\ [CNext]_cvars => [Next]_vars
  BY StepsMap
<1> QED
  BY <1>1, <1>2, Consistent, PTL DEF CSpec, Spec

\* So the interactive program's saves that reported success can be loaded,
\* while its crawler goes on, the program is killed and started again.
THEOREM ConsoleSavesLoadable == CSpec => []SavedIsLoadable
BY BehavesAsSnapshot, Loadable, PTL

\* And its loads, and those of the server beside it, are whole.
THEOREM ConsoleLoadsWhole == CSpec => LoadsAreWhole /\ ServedIsWhole
BY BehavesAsSnapshot, WholeLoads, WholeServed, PTL

\* The values each variable ranges over.  Commands run one at a time, after
\* spinner.join(), at most crawlerWorkers pages are processed at once, and the
\* program ends with no crawl pending.
THEOREM ConsoleTyping == CSpec => []CTypeOK
<1>1. CInv => CTypeOK
  BY DEF CInv, SnapInv, MainInv, CrawlInv, LogInv, ShownInv, CTypeOK, Status
<1> QED
  BY <1>1, Consistent, PTL

\* The page that AdminServer renders lists an event for every crawled page it
\* counts, or as many as ActivityLog holds.
THEOREM DashboardComplete == CSpec => DashboardCovers
<1>1. ASSUME CInv, ReadLog
      PROVE  Len(log) >= shown \/ Len(log) = LogCapacity
  <2>1. shown \in Nat /\ shown <= Cardinality(Crawled)
    BY <1>1 DEF ReadLog, CInv, ShownInv
  <2>2. /\ Cardinality(Crawled) \in Nat /\ Cardinality(WithEvent) \in Nat
        /\ Cardinality(Crawled) <= Cardinality(WithEvent)
    BY <1>1, Counts DEF CInv
  <2>3. Len(log) \in Nat /\ (Len(log) = LogCapacity \/ Cardinality(WithEvent) <= Len(log))
    BY <1>1, LenProperties DEF CInv, LogInv
  <2> QED
    BY <2>1, <2>2, <2>3
<1>2. CInv /\ [CNext]_cvars =>
         [ReadLog => Len(log) >= shown \/ Len(log) = LogCapacity]_cvars
  BY <1>1
<1> QED
  BY <1>2, Consistent, PTL DEF CSpec, DashboardCovers
=============================================================================
