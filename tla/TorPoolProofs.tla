--------------------------- MODULE TorPoolProofs ---------------------------
(***************************************************************************)
(* Proofs about TorPool, for any number of threads, endpoints, retries and *)
(* any cooldown and rotation interval: type correctness, that an onion     *)
(* request never goes out without a proxy, that a failed endpoint stays    *)
(* out, that the clocks do not move back, and that the load is spread      *)
(* evenly.  Then, for command lines of any length, that TorArgs yields the *)
(* endpoints and retries they ask for.                                     *)
(***************************************************************************)
EXTENDS TorOptions, Loops

----------------------------------------------------------------------------
(* Positions *)

\* A finite set of positions has an element with k others before it, for every
\* k below its size: how many are before an element tells the elements apart,
\* so that all numbers occur.
LEMMA NthExists ==
    ASSUME NEW S \in SUBSET Int, IsFiniteSet(S), NEW k \in 0..(Cardinality(S) - 1)
    PROVE  Nth(S, k) \in S /\ Cardinality({j \in S : j < Nth(S, k)}) = k
<1> DEFINE Before(i) == {j \in S : j < i}
           rank == [i \in S |-> Cardinality(Before(i))]
           Ranks == 0..(Cardinality(S) - 1)
<1>1. Cardinality(S) \in Nat
  BY FS_CardinalityType
<1>2. ASSUME NEW i \in S
      PROVE  rank[i] \in Ranks
  <2>1. Before(i) \in SUBSET S /\ i \notin Before(i)
    OBVIOUS
  <2>2. IsFiniteSet(Before(i)) /\ Cardinality(Before(i)) <= Cardinality(S)
    BY <2>1, FS_Subset
  <2>3. Cardinality(Before(i)) # Cardinality(S)
    BY <2>1, FS_Subset
  <2>4. Cardinality(Before(i)) \in Nat
    BY <2>2, FS_CardinalityType
  <2> QED
    BY <1>1, <2>2, <2>3, <2>4
<1>3. ASSUME NEW a \in S, NEW b \in S, a < b
      PROVE  rank[a] # rank[b]
  <2>1. Before(a) \in SUBSET Before(b) /\ a \in Before(b) /\ a \notin Before(a)
    <3>1. a \in Int /\ b \in Int /\ S \subseteq Int
      OBVIOUS
    <3>2. \A j \in S : j < a => j < b
      BY <1>3, <3>1
    <3>3. ~(a < a)
      BY <3>1
    <3> QED
      BY <1>3, <3>2, <3>3
  <2>2. IsFiniteSet(Before(b))
    BY FS_Subset
  <2> QED
    BY <2>1, <2>2, FS_Subset
<1>4. rank \in [S -> Ranks]
  BY <1>2
<1>5. rank \in Injection(S, Ranks)
  <2>1. \A a, b \in S : rank[a] = rank[b] => a = b
    BY <1>3
  <2> QED
    BY <1>4, <2>1 DEF Injection, IsInjective
<1>6. IsFiniteSet(Ranks) /\ Cardinality(Ranks) = Cardinality(S)
  BY <1>1, FS_Interval
<1>7. rank \in Surjection(S, Ranks)
  <2> HIDE DEF rank, Ranks
  <2> QED
    BY <1>5, <1>6, FS_Injection
<1>8. PICK i \in S : rank[i] = k
  BY <1>7 DEF Surjection
<1>9. Cardinality({j \in S : j < i}) = k
  BY <1>8
<1> QED
  BY <1>9 DEF Nth

\* Of the positions 1, 2, ... the one with k others before it is k + 1.
LEMMA NthOfAll ==
    ASSUME NEW n \in Nat, NEW k \in 0..(n - 1)
    PROVE  Nth(1..n, k) = k + 1
<1>1. IsFiniteSet(1..n) /\ Cardinality(1..n) = n
  BY FS_Interval
<1> DEFINE S == 1..n
<1>2. S \in SUBSET Int /\ IsFiniteSet(S) /\ k \in 0..(Cardinality(S) - 1)
  BY <1>1
<1>3. PICK i \in S : i = Nth(S, k) /\ Cardinality({j \in S : j < i}) = k
  <2> HIDE DEF S
  <2> QED
    BY <1>2, NthExists
<1>4. {j \in S : j < i} = 1..(i - 1) /\ i - 1 \in Nat
  BY <1>3
<1>5. Cardinality(1..(i - 1)) = i - 1
  BY <1>3, FS_Interval
<1>6. i - 1 = k
  BY <1>3, <1>4, <1>5
<1> QED
  BY <1>3, <1>6

----------------------------------------------------------------------------
(* selectProxy *)

\* The entries are numbered from one.
LEMMA Entries ==
    ASSUME TypeOK
    PROVE  /\ Len(eps) \in Nat /\ DOMAIN eps = 1..Len(eps)
           /\ \A i \in DOMAIN eps : /\ eps[i] \in Entry
                                   /\ eps[i].id \in Endpoints /\ eps[i].healthy \in BOOLEAN
                                   /\ eps[i].lastProbe \in Int
           /\ eps # <<>> => Len(eps) > 0
<1>1. eps \in Seq(Entry)
  BY DEF TypeOK
<1>2. Len(eps) \in Nat /\ DOMAIN eps = 1..Len(eps) /\ eps \in [1..Len(eps) -> Entry]
  BY <1>1, LenProperties
<1> QED
  BY <1>1, <1>2, EmptySeq DEF Entry

\* Any function on the positions with entries as values is a list of entries.
LEMMA EntriesMapped ==
    ASSUME TypeOK, NEW f, DOMAIN f = DOMAIN eps, \A i \in DOMAIN eps : f[i] \in Entry,
           f = [i \in DOMAIN eps |-> f[i]]
    PROVE  f \in Seq(Entry) /\ Len(f) = Len(eps)
<1>1. f \in [1..Len(eps) -> Entry] /\ Len(eps) \in Nat
  BY Entries
<1>2. f \in Seq(Entry)
  BY <1>1, SeqDef
<1> QED
  BY <1>1, <1>2, LenProperties

\* A rotation changes nothing but the health flags, which it raises.
LEMMA Rotation ==
    ASSUME TypeOK, NEW t \in Int
    PROVE  /\ Rotated(t) \in Seq(Entry) /\ DOMAIN Rotated(t) = DOMAIN eps
           /\ \A i \in DOMAIN eps :
                 /\ Rotated(t)[i].id = eps[i].id
                 /\ Rotated(t)[i].lastProbe = eps[i].lastProbe
                 /\ Rotated(t)[i].healthy \in BOOLEAN
                 /\ Rotated(t)[i].healthy <=> eps[i].healthy \/ RotationDue(t)
<1>1. eps \in Seq(Entry)
  BY DEF TypeOK
<1>2. CASE ~RotationDue(t)
  BY <1>1, <1>2, Entries DEF Rotated
<1>3. CASE RotationDue(t)
  <2>1. Rotated(t) = [i \in DOMAIN eps |-> [eps[i] EXCEPT !.healthy = TRUE]]
    BY <1>3 DEF Rotated
  <2>2. \A i \in DOMAIN eps :
           /\ Rotated(t)[i] \in Entry
           /\ Rotated(t)[i].id = eps[i].id
           /\ Rotated(t)[i].lastProbe = eps[i].lastProbe
           /\ Rotated(t)[i].healthy = TRUE
    BY <2>1, Entries DEF Entry
  <2>3. Rotated(t) \in Seq(Entry)
    BY <2>1, <2>2, EntriesMapped
  <2> QED
    BY <1>3, <2>1, <2>2, <2>3
<1> QED
  BY <1>2, <1>3

\* The cursor is a number, and a candidate is found when there is one.
LEMMA Picking ==
    ASSUME TypeOK, eps # <<>>, NEW t \in Int
    PROVE  /\ Cursor(t) \in Nat /\ NextCursor(t) \in Nat
           /\ Candidates(t) # {} => Picked(t) \in Candidates(t)
           /\ Candidates(t) \subseteq DOMAIN eps
<1>1. Len(eps) \in Nat \ {0} /\ rr \in Nat
  BY Entries DEF TypeOK
<1>2. Cursor(t) \in Nat /\ NextCursor(t) \in Nat
  BY <1>1 DEF Cursor, NextCursor
<1>3. Candidates(t) \subseteq DOMAIN eps /\ DOMAIN eps = 1..Len(eps)
  BY Entries DEF Candidates
<1>4. Candidates(t) \in SUBSET Int /\ IsFiniteSet(Candidates(t))
  <2>1. IsFiniteSet(1..Len(eps)) /\ 1..Len(eps) \subseteq Int
    BY <1>1, FS_Interval
  <2> QED
    BY <1>3, <2>1, FS_Subset
<1>5. ASSUME Candidates(t) # {}
      PROVE  Picked(t) \in Candidates(t)
  <2>1. Cardinality(Candidates(t)) \in Nat \ {0}
    BY <1>4, <1>5, FS_EmptySet, FS_CardinalityType
  <2>2. Cursor(t) % Cardinality(Candidates(t)) \in 0..(Cardinality(Candidates(t)) - 1)
    BY <1>2, <2>1
  <2> QED
    BY <1>4, <2>2, NthExists DEF Picked
<1> QED
  BY <1>2, <1>3, <1>5

\* What selectProxy does to the entries: none moves, none is probed earlier
\* than before, and only the picked one may answer a probe.
LEMMA Selecting ==
    ASSUME TypeOK, eps # <<>>, NEW t \in 0..MaxTime, NEW alive \in BOOLEAN, SelectProxy(t, alive)
    PROVE  /\ eps' \in Seq(Entry) /\ DOMAIN eps' = DOMAIN eps
           /\ \A i \in DOMAIN eps :
                 /\ eps'[i].id = eps[i].id
                 /\ eps'[i].lastProbe \in {eps[i].lastProbe, t}
                 /\ eps'[i].lastProbe >= eps[i].lastProbe
                 /\ eps'[i].healthy =>
                       \/ eps[i].healthy \/ RotationDue(t)
                       \/ Reprobes(t) /\ alive /\ i = Picked(t)
           /\ Answer(t, alive) \in {eps[i].id : i \in DOMAIN eps} \cup {None}
           /\ Answer(t, alive) # None =>
                 /\ Picked(t) \in DOMAIN eps /\ Answer(t, alive) = eps[Picked(t)].id
                 /\ \/ eps[Picked(t)].healthy \/ RotationDue(t)
                    \/ Reprobes(t) /\ alive
<1> DEFINE p == Picked(t)
           answer == Answer(t, alive)
           ids == {eps[i].id : i \in DOMAIN eps}
<1>1. t \in Int /\ Cooldown \in Nat
  BY TorPoolAssumption
<1>2. /\ Rotated(t) \in Seq(Entry) /\ DOMAIN Rotated(t) = DOMAIN eps
      /\ \A i \in DOMAIN eps : Rotated(t)[i].id = eps[i].id
  BY <1>1, Rotation
<1>6. \A i \in DOMAIN eps : eps[i].lastProbe \in Int /\ Rotated(t)[i].lastProbe = eps[i].lastProbe
  BY <1>1, Rotation, Entries
<1>7. \A i \in DOMAIN eps : Rotated(t)[i].healthy => eps[i].healthy \/ RotationDue(t)
  BY <1>1, Rotation
<1>3. Candidates(t) # {} => p \in Candidates(t) /\ p \in DOMAIN eps
  BY <1>1, Picking
<1>4. CASE ~Reprobes(t)
  <2>1. eps' = Rotated(t)
    BY <1>4 DEF SelectProxy
  <2>2. CASE Candidates(t) = {}
    <3>1. answer = None
      BY <2>2 DEF Answer
    <3> HIDE DEF answer
    <3>2. \A i \in DOMAIN eps : /\ eps'[i].lastProbe \in {eps[i].lastProbe, t}
                               /\ eps'[i].lastProbe >= eps[i].lastProbe
      BY <1>6, <2>1
    <3> HIDE DEF p, ids
    <3> QED
      BY <1>2, <1>7, <2>1, <3>1, <3>2, Zenon DEF p, ids, answer
  <2>3. CASE Candidates(t) # {}
    <3>1. answer = Rotated(t)[p].id
      BY <1>4, <2>3 DEF Answer
    <3>2. p \in DOMAIN eps /\ Rotated(t)[p].healthy
      BY <1>3, <1>4, <2>3 DEF Reprobes
    <3> HIDE DEF answer, p
    <3>3. answer = eps[p].id /\ eps[p].id \in ids
      BY <1>2, <3>1, <3>2
    <3>4. eps[p].healthy \/ RotationDue(t)
      BY <1>7, <3>2, Zenon
    <3>5. \A i \in DOMAIN eps : /\ eps'[i].lastProbe \in {eps[i].lastProbe, t}
                               /\ eps'[i].lastProbe >= eps[i].lastProbe
      BY <1>6, <2>1
    <3> HIDE DEF ids
    <3> QED
      BY <1>2, <1>7, <2>1, <3>2, <3>3, <3>4, <3>5, Zenon DEF p, ids, answer
  <2> QED
    BY <2>2, <2>3
<1>5. CASE Reprobes(t)
  <2>1. p \in DOMAIN eps /\ p \in Candidates(t) /\ ~Rotated(t)[p].healthy
    BY <1>3, <1>5 DEF Reprobes
  <2>2. eps' = [Rotated(t) EXCEPT ![p].healthy = alive, ![p].lastProbe = t]
    BY <1>5 DEF SelectProxy
  <2>3. \/ Rotated(t)[p].healthy
        \/ t - Rotated(t)[p].lastProbe >= Cooldown
    <3>1. \A i \in Candidates(t) : \/ Rotated(t)[i].healthy
                                   \/ t - Rotated(t)[i].lastProbe >= Cooldown
      BY DEF Candidates
    <3> HIDE DEF p
    <3> QED
      BY <2>1, <3>1
  <2>4. \A i \in DOMAIN eps : Rotated(t)[i] \in Entry
    BY <1>2, ElementOfSeq, LenProperties
  <2>5. DOMAIN eps' = DOMAIN eps /\ eps' = [i \in DOMAIN eps |-> eps'[i]]
    BY <1>2, <2>2, <2>4
  <2>6. \A i \in DOMAIN eps :
          eps'[i] = IF i = p THEN [Rotated(t)[p] EXCEPT !.healthy = alive, !.lastProbe = t]
                    ELSE Rotated(t)[i]
    BY <1>2, <2>1, <2>2
  <2>7. /\ eps'[p].id = Rotated(t)[p].id /\ eps'[p].healthy = alive /\ eps'[p].lastProbe = t
        /\ eps'[p] \in Entry
    <3>1. Rotated(t)[p] \in Entry
      BY <2>1, <2>4
    <3>2. eps'[p] = [Rotated(t)[p] EXCEPT !.healthy = alive, !.lastProbe = t]
      BY <2>1, <2>6
    <3> HIDE DEF p
    <3> QED
      BY <1>1, <3>1, <3>2 DEF Entry
  <2>8. eps' \in Seq(Entry)
    BY <2>4, <2>5, <2>6, <2>7, EntriesMapped
  <2>9. answer = IF alive THEN Rotated(t)[p].id ELSE None
    BY <1>5, Zenon DEF Answer, Reprobes
  <2>10. \A i \in DOMAIN eps : i # p => eps'[i] = Rotated(t)[i]
    BY <2>6
  <2> HIDE DEF p, ids, answer
  <2>11. eps'[p].id = eps[p].id /\ eps'[p].lastProbe >= eps[p].lastProbe
    <3>1. t - eps[p].lastProbe >= Cooldown /\ eps[p].lastProbe \in Int
      BY <1>6, <2>1, <2>3
    <3>2. t >= eps[p].lastProbe
      BY <1>1, <3>1
    <3> QED
      BY <1>2, <2>1, <2>7, <3>2
  <2>12. \A i \in DOMAIN eps :
           /\ eps'[i].id = eps[i].id
           /\ eps'[i].lastProbe \in {eps[i].lastProbe, t}
           /\ eps'[i].lastProbe >= eps[i].lastProbe
           /\ eps'[i].healthy => eps[i].healthy \/ RotationDue(t) \/ (alive /\ i = p)
    <3> TAKE i \in DOMAIN eps
    <3>1. CASE i = p
      BY <3>1, <1>1, <2>1, <2>7, <2>11
    <3>2. CASE i # p
      <4>1. eps'[i] = Rotated(t)[i]
        BY <2>10, <3>2
      <4>2. eps'[i].healthy => eps[i].healthy \/ RotationDue(t)
        BY <1>7, <4>1, Zenon
      <4>3. /\ eps'[i].id = eps[i].id /\ eps'[i].lastProbe = eps[i].lastProbe
            /\ eps[i].lastProbe \in Int
        BY <1>2, <1>6, <4>1
      <4> QED
        BY <4>2, <4>3
    <3> QED
      BY <3>1, <3>2
  <2>13. /\ answer \in ids \cup {None}
         /\ answer # None => alive /\ answer = eps[p].id
    <3>1. eps[p].id \in ids /\ Rotated(t)[p].id = eps[p].id
      BY <1>2, <2>1 DEF ids
    <3> QED
      BY <2>9, <3>1
  <2> QED
    BY <1>5, <2>1, <2>5, <2>8, <2>12, <2>13 DEF p, ids, answer
<1> QED
  BY <1>4, <1>5

----------------------------------------------------------------------------
(* The other operations on the list *)

\* A report or a probe moves no entry and may set its clock to the present.
LEMMA Storing ==
    ASSUME TypeOK, NEW e \in Endpoints,
           ReportSuccess(e) \/ ReportFailure(e) \/ Probe \/ ProbeEndpoint(e)
    PROVE  /\ eps' \in Seq(Entry) /\ DOMAIN eps' = DOMAIN eps
           /\ \A i \in DOMAIN eps : /\ eps'[i].id = eps[i].id
                                   /\ eps'[i].lastProbe \in {eps[i].lastProbe, now}
           /\ Len(eps') = Len(eps)
<1> DEFINE Kept == /\ DOMAIN eps' = DOMAIN eps /\ eps' = [i \in DOMAIN eps |-> eps'[i]]
                   /\ \A i \in DOMAIN eps : /\ eps'[i] \in Entry
                                           /\ eps'[i].id = eps[i].id
                                           /\ eps'[i].lastProbe \in {eps[i].lastProbe, now}
<1>1. now \in Int /\ \A i \in DOMAIN eps : eps[i] \in Entry
  BY Entries, TorPoolAssumption DEF TypeOK
<1>2. ASSUME ReportSuccess(e)
      PROVE  Kept
  <2>1. eps' = [i \in DOMAIN eps |->
                   IF i \in First(e) THEN [eps[i] EXCEPT !.healthy = TRUE] ELSE eps[i]]
    BY <1>2 DEF ReportSuccess
  <2> QED
    BY <1>1, <2>1 DEF Entry
<1>3. ASSUME ReportFailure(e)
      PROVE  Kept
  <2>1. eps' = [i \in DOMAIN eps |->
                   IF i \in First(e)
                   THEN [eps[i] EXCEPT !.healthy = FALSE, !.lastProbe = now] ELSE eps[i]]
    BY <1>3 DEF ReportFailure
  <2> QED
    BY <1>1, <2>1 DEF Entry
<1>4. ASSUME Probe
      PROVE  Kept
  <2>1. PICK alive : eps' = [i \in DOMAIN eps |-> [eps[i] EXCEPT !.healthy = eps[i].id \in alive,
                                                               !.lastProbe = now]]
    BY <1>4 DEF Probe
  <2>2. \A i \in DOMAIN eps : (eps[i].id \in alive) \in BOOLEAN
    OBVIOUS
  <2> QED
    BY <1>1, <2>1, <2>2 DEF Entry
<1>5. ASSUME ProbeEndpoint(e)
      PROVE  Kept
  <2>1. PICK alive \in BOOLEAN :
           eps' = [i \in DOMAIN eps |->
                      IF eps[i].id = e
                      THEN [eps[i] EXCEPT !.healthy = alive, !.lastProbe = now] ELSE eps[i]]
    BY <1>5 DEF ProbeEndpoint
  <2> QED
    BY <1>1, <2>1 DEF Entry
<1>6. Kept
  BY <1>2, <1>3, <1>4, <1>5
<1>7. eps' \in Seq(Entry) /\ Len(eps') = Len(eps)
  BY <1>6, EntriesMapped
<1> QED
  BY <1>6, <1>7

\* addProxy puts one entry behind the others.
LEMMA Adding ==
    ASSUME TypeOK, NEW e \in Endpoints, AddProxy(e)
    PROVE  /\ eps' \in Seq(Entry) /\ DOMAIN eps' = 1..(Len(eps) + 1)
           /\ \A i \in DOMAIN eps : i \in DOMAIN eps' /\ eps'[i] = eps[i]
           /\ eps'[Len(eps) + 1] = Fresh(e)
<1>1. Fresh(e) \in Entry
  BY TorPoolAssumption DEF Fresh, Entry
<1>2. eps \in Seq(Entry) /\ eps' = Append(eps, Fresh(e))
  BY DEF TypeOK, AddProxy
<1> QED
  BY <1>1, <1>2, AppendProperties, LenProperties

\* removeProxy keeps entries of others only, each once.
LEMMA Removing ==
    ASSUME TypeOK, NEW e \in Endpoints
    PROVE  /\ Without(e) \in Seq(Entry)
           /\ \E from \in [DOMAIN Without(e) -> DOMAIN eps] :
                 /\ \A k \in DOMAIN Without(e) : /\ Without(e)[k] = eps[from[k]]
                                                /\ eps[from[k]].id # e
                 /\ \A k, l \in DOMAIN Without(e) : from[k] = from[l] => k = l
<1> DEFINE kept == {i \in DOMAIN eps : eps[i].id # e}
           n == Cardinality(kept)
           from == [k \in 1..n |-> Nth(kept, k - 1)]
<1>1. DOMAIN eps = 1..Len(eps) /\ Len(eps) \in Nat
  BY Entries
<1>2. kept \in SUBSET Int /\ IsFiniteSet(kept) /\ n \in Nat
  <2>1. IsFiniteSet(1..Len(eps)) /\ 1..Len(eps) \subseteq Int
    BY <1>1, FS_Interval
  <2> QED
    BY <1>1, <2>1, FS_Subset, FS_CardinalityType
<1>3. ASSUME NEW k \in 1..n
      PROVE  from[k] \in kept /\ Cardinality({j \in kept : j < from[k]}) = k - 1
  <2> HIDE DEF kept
  <2>1. k - 1 \in 0..(Cardinality(kept) - 1)
    BY <1>2
  <2> QED
    BY <1>2, <2>1, NthExists
<1>4. \A k, l \in 1..n : from[k] = from[l] => k = l
  <2> TAKE k, l \in 1..n
  <2> HAVE from[k] = from[l]
  <2>1. k - 1 = l - 1
    BY <1>3
  <2> QED
    BY <2>1, <1>2
<1>5. Without(e) = [k \in 1..n |-> eps[from[k]]]
  BY DEF Without
<1>6. \A k \in 1..n : from[k] \in DOMAIN eps /\ eps[from[k]].id # e /\ eps[from[k]] \in Entry
  BY <1>3, Entries
<1> HIDE DEF kept
<1>7. Without(e) \in Seq(Entry)
  BY <1>2, <1>5, <1>6, SeqDef
<1>8. from \in [1..n -> DOMAIN eps]
  BY <1>6
<1> HIDE DEF from, n
<1>9. DOMAIN Without(e) = 1..n /\ \A k \in 1..n : Without(e)[k] = eps[from[k]]
  BY <1>5
<1>10. from \in [DOMAIN Without(e) -> DOMAIN eps]
  BY <1>8, <1>9
<1>11. /\ \A k \in DOMAIN Without(e) : Without(e)[k] = eps[from[k]] /\ eps[from[k]].id # e
       /\ \A k, l \in DOMAIN Without(e) : from[k] = from[l] => k = l
  BY <1>4, <1>6, <1>9
<1> QED
  BY <1>7, <1>10, <1>11, Zenon

----------------------------------------------------------------------------
(* Types *)

\* TypeOK, in the part that the managers own and the part that fetches own.
PoolTypes ==
    /\ pooled \in BOOLEAN /\ eps \in Seq(Entry)
    /\ rr \in Nat /\ lastRotate \in 0..MaxTime /\ now \in 0..MaxTime
    /\ forgiven \subseteq suspect /\ suspect \subseteq Endpoints
    /\ changes \in 0..MaxChanges
    /\ picks \in [Endpoints -> Nat] /\ calm \in BOOLEAN

FetchTypes ==
    /\ fpc \in [Threads -> {"idle", "ask", "select", "transfer", "report"}]
    /\ kind \in [Threads -> {"onion", "clear"}]
    /\ tries \in [Threads -> Nat] /\ attempt \in [Threads -> Nat]
    /\ \A t \in Threads : fpc[t] # "idle" => attempt[t] < tries[t]
    /\ at \in [Threads -> 0..MaxTime]
    /\ ep \in [Threads -> Endpoints \cup {None}]
    /\ verdict \in [Threads -> {"none", "ok", "http", "transient", "other"}]
    /\ fetches \in [Threads -> 0..MaxFetches]

LEMMA TypesSplit == TypeOK <=> PoolTypes /\ FetchTypes
BY DEF TypeOK, PoolTypes, FetchTypes

LEMMA InitTypes ==
    ASSUME Init
    PROVE  TypeOK
<1>1. Config \in Seq(Endpoints) /\ Config # <<>> /\ -Cooldown \in Int
  BY TorPoolAssumption
<1>2. Len(Config) \in Nat /\ DOMAIN Config = 1..Len(Config)
      /\ \A i \in DOMAIN Config : Config[i] \in Endpoints
  BY <1>1, LenProperties, ElementOfSeq
<1>3. \A e \in Endpoints : Fresh(e) \in Entry /\ Unprobed(e) \in Entry
  BY <1>1 DEF Fresh, Unprobed, Entry
<1>4. eps \in Seq(Entry)
  <2>1. CASE pooled
    <3>1. eps = [i \in 1..Len(Config) |-> Fresh(Config[i])]
      BY <1>2, <2>1 DEF Init
    <3>2. eps \in [1..Len(Config) -> Entry]
      BY <1>2, <1>3, <3>1
    <3> QED
      BY <1>2, <3>2, SeqDef
  <2>2. CASE ~pooled
    <3>1. Head(Config) \in Endpoints
      BY <1>1, HeadTailProperties
    <3>2. Unprobed(Head(Config)) \in Entry
      BY <1>3, <3>1
    <3> QED
      BY <2>2, <3>2 DEF Init
  <2> QED
    BY <2>1, <2>2
<1>5. PoolTypes
  BY <1>4, TorPoolAssumption DEF Init, PoolTypes, NoPicks
<1>6. FetchTypes
  BY TorPoolAssumption DEF Init, FetchTypes
<1> QED
  BY <1>5, <1>6, TypesSplit

\* The number of attempts is at least one: with healthy endpoints in the pool
\* there is one to take off their number.
LEMMA RetriesCount ==
    ASSUME TypeOK, NEW k
    PROVE  MaxRetries(k) \in Nat
<1>1. IsFiniteSet(Healthy)
  <2>1. DOMAIN eps = 1..Len(eps) /\ Len(eps) \in Nat
    BY Entries
  <2>2. IsFiniteSet(DOMAIN eps)
    BY <2>1, FS_Interval
  <2>3. Healthy \subseteq DOMAIN eps
    BY DEF Healthy
  <2> QED
    BY <2>2, <2>3, FS_Subset
<1>2. Healthy # {} => Cardinality(Healthy) \in Nat \ {0}
  BY <1>1, FS_EmptySet, FS_CardinalityType
<1> QED
  BY <1>2, TorPoolAssumption DEF MaxRetries

\* Fetches keep their locals in their types: the loop goes round again only
\* below the number of attempts.
LEMMA FetchTypesStep ==
    ASSUME TypeOK, [Next]_vars
    PROVE  FetchTypes'
<1> USE DEF FetchTypes
<1>1. FetchTypes
  BY TypesSplit
<1>2. ASSUME NEW t \in Threads, NEW k \in {"onion", "clear"}, Start(t, k)
      PROVE  FetchTypes'
  <2>1. MaxRetries(k) \in Nat /\ MaxFetches \in Nat
    BY RetriesCount, TorPoolAssumption
  <2> QED
    BY <1>1, <1>2, <2>1 DEF Start
<1>3. ASSUME NEW t \in Threads, Ask(t)
      PROVE  FetchTypes'
  <2>1. now \in 0..MaxTime /\ 0 \in 0..MaxTime
    BY TorPoolAssumption DEF TypeOK
  <2> QED
    BY <1>1, <1>3, <2>1 DEF Ask
<1>4. ASSUME NEW t \in Threads, Select(t)
      PROVE  FetchTypes'
  <2>1. at[t] \in 0..MaxTime /\ 0 \in 0..MaxTime
    BY <1>1, TorPoolAssumption
  <2>2. ASSUME pooled, NEW alive \in BOOLEAN, SelectProxy(at[t], alive)
        PROVE  Answer(at[t], alive) \in Endpoints \cup {None}
    <3>1. CASE eps = <<>>
      BY <3>1 DEF Answer, Candidates
    <3>2. CASE eps # <<>>
      BY <2>1, <2>2, <3>2, Selecting, Entries
    <3> QED
      BY <3>1, <3>2
  <2>3. OnlyProxy \in Endpoints \cup {None}
    <3>1. CASE Healthy = {}
      BY <3>1 DEF OnlyProxy
    <3>2. CASE Healthy # {}
      <4>1. 1 \in DOMAIN eps
        BY <3>2, Entries DEF Healthy
      <4> QED
        BY <3>2, <4>1, Entries DEF OnlyProxy
    <3> QED
      BY <3>1, <3>2
  <2>4. PICK e \in Endpoints \cup {None} : ep' = [ep EXCEPT ![t] = e]
    BY <1>4, <2>2, <2>3 DEF Select
  <2>5. fpc' = [fpc EXCEPT ![t] = "idle"] \/ fpc' = [fpc EXCEPT ![t] = "transfer"]
    BY <1>4 DEF Select, AfterSelect
  <2>6. fpc[t] = "select" /\ at' = [at EXCEPT ![t] = 0] /\ UNCHANGED <<verdict, fetches>>
    BY <1>4 DEF Select
  <2>7. \/ /\ kind' = [kind EXCEPT ![t] = "clear"] /\ tries' = [tries EXCEPT ![t] = 0]
           /\ attempt' = [attempt EXCEPT ![t] = 0] /\ fpc'[t] = "idle"
        \/ UNCHANGED <<kind, tries, attempt>>
    BY <1>4 DEF Select, Return
  <2>8. /\ ep' \in [Threads -> Endpoints \cup {None}] /\ at' \in [Threads -> 0..MaxTime]
        /\ verdict' \in [Threads -> {"none", "ok", "http", "transient", "other"}]
        /\ fetches' \in [Threads -> 0..MaxFetches]
    BY <1>1, <2>1, <2>4, <2>6
  <2>9. /\ fpc' \in [Threads -> {"idle", "ask", "select", "transfer", "report"}]
        /\ kind' \in [Threads -> {"onion", "clear"}]
        /\ tries' \in [Threads -> Nat] /\ attempt' \in [Threads -> Nat]
    BY <1>1, <2>5, <2>7
  <2>10. \A u \in Threads : fpc'[u] # "idle" => attempt'[u] < tries'[u]
    BY <1>1, <2>5, <2>6, <2>7
  <2> QED
    BY <2>8, <2>9, <2>10
<1>5. ASSUME NEW t \in Threads, CurlInitFails(t)
      PROVE  FetchTypes'
  BY <1>1, <1>5 DEF CurlInitFails, Return
<1>6. ASSUME NEW t \in Threads, Transfer(t)
      PROVE  FetchTypes'
  BY <1>1, <1>6 DEF Transfer, Verdicts
<1>7. ASSUME NEW t \in Threads, Report(t)
      PROVE  FetchTypes'
  <2>1. \/ /\ attempt[t] + 1 < tries[t] /\ attempt' = [attempt EXCEPT ![t] = attempt[t] + 1]
           /\ fpc' = [fpc EXCEPT ![t] = "ask"] /\ UNCHANGED <<kind, tries>>
        \/ fpc' = [fpc EXCEPT ![t] = "idle"] /\ Return(t)
    BY <1>7 DEF Report, Retries, NextAttempt
  <2>2. /\ ep' = [ep EXCEPT ![t] = None] /\ verdict' = [verdict EXCEPT ![t] = "none"]
        /\ UNCHANGED <<at, fetches>>
    BY <1>7 DEF Report
  <2> QED
    BY <1>1, <2>1, <2>2 DEF Return
<1>8. CASE Probe
  BY <1>1, <1>8 DEF Probe, fetch
<1>9. ASSUME NEW e \in Endpoints, AddProxy(e) \/ RemoveProxy(e) \/ ProbeEndpoint(e)
      PROVE  FetchTypes'
  BY <1>1, <1>9 DEF AddProxy, RemoveProxy, ProbeEndpoint, fetch
<1>10. CASE Tick
  BY <1>1, <1>10 DEF Tick, fetch
<1>11. CASE UNCHANGED vars
  BY <1>1, <1>11 DEF vars, fetch
<1> QED
  BY <1>2, <1>3, <1>4, <1>5, <1>6, <1>7, <1>8, <1>9, <1>10, <1>11 DEF Next, FetchStep

\* The managers keep the pool in its types: a rotation clock is the clock value
\* of some selection, and only suspects are forgiven.
LEMMA PoolTypesStep ==
    ASSUME TypeOK, [Next]_vars
    PROVE  PoolTypes'
<1> DEFINE Lists == /\ eps' \in Seq(Entry) /\ rr' \in Nat /\ lastRotate' \in 0..MaxTime
           Records == /\ forgiven' \subseteq suspect' /\ suspect' \subseteq Endpoints
                      /\ picks' \in [Endpoints -> Nat] /\ calm' \in BOOLEAN
           Counts == now' \in 0..MaxTime /\ changes' \in 0..MaxChanges
<1>1. PoolTypes
  BY TypesSplit
<1>2. {Cooldown, MaxTime, MaxChanges} \subseteq Nat
  BY TorPoolAssumption
<1>3. ASSUME NEW t \in Threads,
             (\E k \in {"onion", "clear"} : Start(t, k)) \/ Ask(t) \/ CurlInitFails(t) \/ Transfer(t)
      PROVE  Lists /\ Records /\ Counts
  BY <1>1, <1>3 DEF Start, Ask, CurlInitFails, Transfer, pool, history, PoolTypes
<1>4. ASSUME NEW t \in Threads, Select(t)
      PROVE  Lists /\ Records /\ Counts
  <2>1. UNCHANGED <<now, changes>>
    BY <1>4 DEF Select
  <2>2. ASSUME UNCHANGED <<pool, history>>
        PROVE  Lists /\ Records
    BY <1>1, <2>2 DEF PoolTypes, pool, history
  <2>3. ASSUME NEW alive \in BOOLEAN, SelectProxy(at[t], alive), eps # <<>>
        PROVE  Lists
    <3>1. at[t] \in 0..MaxTime
      BY DEF TypeOK
    <3>2. rr' \in Nat
      BY <2>3, <3>1, Picking DEF SelectProxy
    <3>3. lastRotate' \in 0..MaxTime
      BY <1>1, <2>3, <3>1 DEF SelectProxy, PoolTypes
    <3> QED
      BY <2>3, <3>1, <3>2, <3>3, Selecting
  <2>4. ASSUME NEW alive \in BOOLEAN, SelectProxy(at[t], alive), eps # <<>>
        PROVE  Records
    <3>1. \E S : suspect' = suspect \ S
                 /\ (forgiven' = suspect \ S \/ forgiven' = forgiven \ S)
      BY <2>4, Zenon DEF SelectProxy
    <3>2. calm' \in BOOLEAN
      BY <1>1, <2>4 DEF SelectProxy, PoolTypes
    <3>3. picks' \in [Endpoints -> Nat]
      <4>1. picks' = [e \in Endpoints |->
                         IF ~calm' THEN 0
                         ELSE IF e = Answer(at[t], alive) THEN picks[e] + 1 ELSE picks[e]]
        BY <2>4 DEF SelectProxy
      <4> QED
        BY <1>1, <4>1 DEF PoolTypes
    <3> QED
      BY <1>1, <3>1, <3>2, <3>3 DEF PoolTypes
  <2>5. Lists /\ Records
    <3>1. CASE UNCHANGED <<pool, history>>
      BY <2>2, <3>1
    <3>2. CASE ~UNCHANGED <<pool, history>>
      <4>1. PICK alive \in BOOLEAN : SelectProxy(at[t], alive)
        BY <1>4, <3>2 DEF Select
      <4>2. eps # <<>>
        BY <3>2, <4>1 DEF SelectProxy
      <4> QED
        BY <2>3, <2>4, <4>1, <4>2
    <3> QED
      BY <3>1, <3>2
  <2> QED
    BY <1>1, <2>1, <2>5 DEF PoolTypes
<1>5. ASSUME NEW t \in Threads, Report(t)
      PROVE  Lists /\ Records /\ Counts
  <2>1. UNCHANGED <<rr, lastRotate, now, changes>>
    BY <1>5 DEF Report
  <2>2. CASE UNCHANGED <<eps, history>>
    BY <1>1, <2>1, <2>2 DEF PoolTypes, history
  <2>3. CASE ~UNCHANGED <<eps, history>>
    <3>1. ep[t] \in Endpoints /\ (ReportSuccess(ep[t]) \/ ReportFailure(ep[t]))
      BY <1>5, <2>3 DEF Report, TypeOK
    <3>2. eps' \in Seq(Entry)
      BY <3>1, Storing
    <3>3. Records
      <4>1. calm' \in BOOLEAN /\ (picks' = picks \/ picks' = NoPicks)
        BY <1>1, <3>1 DEF ReportSuccess, ReportFailure, CalmIf, PoolTypes
      <4>2. forgiven' \subseteq suspect' /\ suspect' \subseteq Endpoints
        BY <1>1, <3>1 DEF ReportSuccess, ReportFailure, Answered, PoolTypes
      <4> QED
        BY <1>1, <4>1, <4>2 DEF NoPicks, PoolTypes
    <3> QED
      BY <1>1, <2>1, <3>2, <3>3 DEF PoolTypes
  <2> QED
    BY <2>2, <2>3
<1>6. ASSUME Probe
      PROVE  Lists /\ Records /\ Counts
  <2>1. Endpoints # {}
    <3>1. Config \in Seq(Endpoints) /\ Config # <<>>
      BY TorPoolAssumption
    <3> QED
      BY <3>1, HeadTailProperties
  <2>2. eps' \in Seq(Entry)
    BY <1>6, <2>1, Storing
  <2>3. UNCHANGED <<rr, lastRotate, now, changes>>
    BY <1>6 DEF Probe
  <2>4. Records
    <3>1. calm' \in BOOLEAN /\ (picks' = picks \/ picks' = NoPicks)
      BY <1>6, Zenon DEF Probe, CalmIf
    <3>2. forgiven' \subseteq suspect' /\ suspect' \subseteq Endpoints
      BY <1>1, <1>6 DEF Probe, Answered, PoolTypes
    <3> QED
      BY <1>1, <3>1, <3>2 DEF NoPicks, PoolTypes
  <2> QED
    BY <1>1, <2>2, <2>3, <2>4 DEF PoolTypes
<1>7. ASSUME NEW e \in Endpoints, AddProxy(e) \/ RemoveProxy(e) \/ ProbeEndpoint(e)
      PROVE  Lists /\ Records /\ Counts
  <2>1. eps' \in Seq(Entry)
    <3>1. CASE AddProxy(e)
      BY <3>1, Adding
    <3>2. CASE RemoveProxy(e)
      BY <3>2, Removing DEF RemoveProxy
    <3>3. CASE ProbeEndpoint(e)
      BY <3>3, Storing
    <3> QED
      BY <1>7, <3>1, <3>2, <3>3
  <2>2. UNCHANGED <<rr, lastRotate, now>> /\ changes < MaxChanges /\ changes' = changes + 1
    BY <1>7 DEF AddProxy, RemoveProxy, ProbeEndpoint
  <2>3. Records
    <3>1. calm' \in BOOLEAN /\ (picks' = picks \/ picks' = NoPicks)
      BY <1>7, Zenon DEF AddProxy, RemoveProxy, ProbeEndpoint, CalmIf
    <3>2. forgiven' \subseteq suspect' /\ suspect' \subseteq Endpoints
      BY <1>1, <1>7 DEF AddProxy, RemoveProxy, ProbeEndpoint, Answered, PoolTypes
    <3> QED
      BY <1>1, <3>1, <3>2 DEF NoPicks, PoolTypes
  <2> QED
    BY <1>1, <1>2, <2>1, <2>2, <2>3 DEF PoolTypes
<1>9. CASE UNCHANGED vars
  BY <1>1, <1>9 DEF vars, pool, history, PoolTypes
<1>10. pooled' \in BOOLEAN
  BY <1>1 DEF Next, vars, PoolTypes
<1>11. CASE Next
  <2>1. Lists /\ Records /\ Counts
    <3> HIDE DEF Lists, Records, Counts
    <3>1. CASE Tick
      BY <1>1, <1>2, <3>1 DEF Lists, Records, Counts, Tick, pool, history, PoolTypes
    <3> QED
      BY <1>3, <1>4, <1>5, <1>6, <1>7, <1>11, <3>1 DEF Next, FetchStep
  <2> QED
    BY <1>10, <2>1 DEF PoolTypes
<1> QED
  BY <1>9, <1>11

\* The values each variable ranges over: the loop of CurlFetcher::fetch never
\* starts an attempt beyond the number it computed, and what the history holds
\* are endpoints.
THEOREM Typing == Spec => []TypeOK
<1>1. Init => TypeOK
  BY InitTypes
<1>2. TypeOK /\ [Next]_vars => TypeOK'
  <2>1. ASSUME TypeOK, [Next]_vars
        PROVE  PoolTypes' /\ FetchTypes'
    BY <2>1, PoolTypesStep, FetchTypesStep
  <2> QED
    BY <2>1 DEF TypeOK, PoolTypes, FetchTypes
<1> QED
  BY <1>1, <1>2, PTL DEF Spec

----------------------------------------------------------------------------
(* Onion requests *)

\* An .onion request is never on the wire without a proxy: only an endpoint
\* that selectProxy handed out lets the attempt go on to the transfer, and the
\* thread keeps it until the attempt has been reported.
THEOREM OnionThroughProxy == Spec => []OnionOnlyThroughProxy
<1>1. Init => OnionOnlyThroughProxy
  BY DEF Init, OnionOnlyThroughProxy
<1>2. ASSUME TypeOK, OnionOnlyThroughProxy, [Next]_vars
      PROVE  OnionOnlyThroughProxy'
  <2> USE DEF OnionOnlyThroughProxy
  <2> DEFINE Same(u) == UNCHANGED <<fpc[u], kind[u], ep[u]>>
  <2>1. ASSUME UNCHANGED <<fpc, fetch>>
        PROVE  OnionOnlyThroughProxy'
    BY <1>2, <2>1 DEF fetch
  <2>2. ASSUME NEW t \in Threads,
               (\E k \in {"onion", "clear"} : Start(t, k)) \/ Ask(t) \/ CurlInitFails(t)
        PROVE  OnionOnlyThroughProxy'
    <3>1. fpc'[t] \notin {"transfer", "report"} /\ (\A u \in Threads \ {t} : Same(u))
      BY <1>2, <2>2 DEF Start, Ask, CurlInitFails, Return, TypeOK
    <3> QED
      BY <1>2, <3>1
  <2>3. ASSUME NEW t \in Threads, Select(t)
        PROVE  OnionOnlyThroughProxy'
    <3>1. \A u \in Threads \ {t} : Same(u)
      BY <1>2, <2>3 DEF Select, Return, TypeOK
    <3>2. fpc' = [fpc EXCEPT ![t] = AfterSelect(t, ep'[t])]
      BY <2>3 DEF Select
    <3>3. fpc'[t] = "transfer" => ep'[t] # None \/ kind[t] # "onion"
      BY <1>2, <3>2 DEF AfterSelect, TypeOK
    <3>4. fpc'[t] \in {"idle", "transfer"} /\ (fpc'[t] = "transfer" => kind' = kind)
      BY <1>2, <2>3, <3>2 DEF Select, AfterSelect, TypeOK
    <3> QED
      BY <1>2, <3>1, <3>3, <3>4
  <2>4. ASSUME NEW t \in Threads, Transfer(t)
        PROVE  OnionOnlyThroughProxy'
    BY <1>2, <2>4 DEF Transfer, TypeOK
  <2>5. ASSUME NEW t \in Threads, Report(t)
        PROVE  OnionOnlyThroughProxy'
    <3>1. fpc'[t] \in {"ask", "idle"}
      BY <1>2, <2>5 DEF Report, TypeOK
    <3>2. \A u \in Threads \ {t} : Same(u)
      BY <1>2, <2>5 DEF Report, Return, TypeOK
    <3> QED
      BY <1>2, <3>1, <3>2
  <2>6. CASE Probe \/ Tick \/ (\E e \in Endpoints : AddProxy(e) \/ RemoveProxy(e) \/ ProbeEndpoint(e))
    BY <2>1, <2>6 DEF Probe, Tick, AddProxy, RemoveProxy, ProbeEndpoint
  <2>7. CASE UNCHANGED vars
    BY <2>1, <2>7 DEF vars
  <2> QED
    BY <1>2, <2>2, <2>3, <2>4, <2>5, <2>6, <2>7 DEF Next, FetchStep
<1> QED
  BY <1>1, <1>2, Typing, PTL DEF Spec

----------------------------------------------------------------------------
(* Clocks *)

\* What makes ClocksMonotone hold for a clock value that may be old: whatever
\* time a thread or an entry remembers has been.
ClockInv ==
    /\ \A t \in Threads : at[t] <= now
    /\ \A i \in DOMAIN eps : eps[i].lastProbe <= now
    /\ lastRotate <= now

\* selectProxy moves clocks forward only, since a rotation or a probe is made
\* only when time has passed since the last one.
LEMMA SelectClocks ==
    ASSUME TypeOK, ClockInv, NEW t \in Threads, Select(t)
    PROVE  /\ lastRotate' >= lastRotate /\ lastRotate' <= now
           /\ DOMAIN eps' = DOMAIN eps
           /\ \A i \in DOMAIN eps : /\ eps'[i].lastProbe >= eps[i].lastProbe
                                   /\ eps'[i].lastProbe <= now
<1>1. /\ at[t] \in 0..MaxTime /\ at[t] <= now /\ now \in 0..MaxTime /\ lastRotate \in 0..MaxTime
      /\ MaxTime \in Nat /\ RotateInterval \in Nat /\ lastRotate <= now
      /\ \A i \in DOMAIN eps : eps[i].lastProbe \in Int /\ eps[i].lastProbe <= now
  BY Entries, TorPoolAssumption DEF TypeOK, ClockInv
<1>2. CASE UNCHANGED <<pool, history>>
  BY <1>1, <1>2 DEF pool
<1>3. ASSUME NEW alive \in BOOLEAN, SelectProxy(at[t], alive), eps # <<>>
      PROVE  /\ lastRotate' >= lastRotate /\ lastRotate' <= now
             /\ DOMAIN eps' = DOMAIN eps
             /\ \A i \in DOMAIN eps : /\ eps'[i].lastProbe >= eps[i].lastProbe
                                     /\ eps'[i].lastProbe <= now
  <2>1. /\ DOMAIN eps' = DOMAIN eps
        /\ \A i \in DOMAIN eps : /\ eps'[i].lastProbe \in {eps[i].lastProbe, at[t]}
                                /\ eps'[i].lastProbe >= eps[i].lastProbe
    BY <1>1, <1>3, Selecting
  <2>2. lastRotate' = IF RotationDue(at[t]) THEN at[t] ELSE lastRotate
    BY <1>3 DEF SelectProxy
  <2>3. RotationDue(at[t]) => at[t] >= lastRotate
    BY <1>1 DEF RotationDue
  <2> QED
    BY <1>1, <2>1, <2>2, <2>3
<1>4. \/ UNCHANGED <<pool, history>>
      \/ eps # <<>> /\ \E alive \in BOOLEAN : SelectProxy(at[t], alive)
  BY DEF Select, SelectProxy
<1> QED
  BY <1>2, <1>3, <1>4

\* Reports and probes put the present into an entry's clock.
LEMMA StoreClocks ==
    ASSUME TypeOK, ClockInv, NEW e \in Endpoints,
           ReportSuccess(e) \/ ReportFailure(e) \/ Probe \/ ProbeEndpoint(e)
    PROVE  /\ DOMAIN eps' = DOMAIN eps
           /\ \A i \in DOMAIN eps : /\ eps'[i].lastProbe >= eps[i].lastProbe
                                   /\ eps'[i].lastProbe <= now
<1>1. /\ now \in 0..MaxTime /\ MaxTime \in Nat
      /\ \A i \in DOMAIN eps : eps[i].lastProbe \in Int /\ eps[i].lastProbe <= now
  BY Entries, TorPoolAssumption DEF TypeOK, ClockInv
<1> QED
  BY <1>1, Storing

LEMMA SomeEndpoint == Endpoints # {}
<1>1. Config \in Seq(Endpoints) /\ Config # <<>>
  BY TorPoolAssumption
<1> QED
  BY <1>1, HeadTailProperties

LEMMA ClockStep ==
    ASSUME TypeOK, ClockInv, [Next]_vars
    PROVE  /\ ClockInv'
           /\ lastRotate' >= lastRotate
           /\ changes' = changes => \A i \in DOMAIN eps : eps'[i].lastProbe >= eps[i].lastProbe
<1> DEFINE Readings == \A t \in Threads : at'[t] <= now'
           Probes == \A i \in DOMAIN eps' : eps'[i].lastProbe <= now'
           Rotates == lastRotate' <= now' /\ lastRotate' >= lastRotate
           Forward == changes' = changes =>
                          \A i \in DOMAIN eps : eps'[i].lastProbe >= eps[i].lastProbe
<1>1. /\ now \in 0..MaxTime /\ lastRotate \in 0..MaxTime /\ MaxTime \in Nat /\ Cooldown \in Nat
      /\ (\A i \in DOMAIN eps : eps[i].lastProbe \in Int) /\ at \in [Threads -> 0..MaxTime]
      /\ changes \in Nat
  <2>1. changes \in 0..MaxChanges /\ {MaxTime, Cooldown, MaxChanges} \subseteq Nat
    BY TorPoolAssumption DEF TypeOK
  <2> QED
    BY <2>1, Entries DEF TypeOK
<1> USE DEF ClockInv
<1>2. ASSUME now' = now,
             at' = at \/ (\E t \in Threads : at' = [at EXCEPT ![t] = now] \/ at' = [at EXCEPT ![t] = 0])
      PROVE  Readings
  BY <1>1, <1>2
<1>3. ASSUME UNCHANGED <<eps, lastRotate>>, now' \in {now, now + 1}
      PROVE  Probes /\ Rotates /\ Forward
  BY <1>1, <1>3
<1>4. ASSUME NEW t \in Threads,
             (\E k \in {"onion", "clear"} : Start(t, k)) \/ Ask(t) \/ CurlInitFails(t) \/ Transfer(t)
      PROVE  Readings /\ Probes /\ Rotates /\ Forward
  <2>1. now' = now /\ UNCHANGED <<eps, lastRotate>>
    BY <1>4 DEF Start, Ask, CurlInitFails, Transfer, pool
  <2>2. at' = at \/ at' = [at EXCEPT ![t] = now] \/ at' = [at EXCEPT ![t] = 0]
    BY <1>4 DEF Start, Ask, CurlInitFails, Transfer
  <2> QED
    BY <1>2, <1>3, <2>1, <2>2
<1>5. ASSUME NEW t \in Threads, Select(t)
      PROVE  Readings /\ Probes /\ Rotates /\ Forward
  <2>1. now' = now /\ at' = [at EXCEPT ![t] = 0]
    BY <1>5 DEF Select
  <2> QED
    BY <1>2, <1>5, <2>1, SelectClocks
<1>6. ASSUME NEW t \in Threads, Report(t)
      PROVE  Readings /\ Probes /\ Rotates /\ Forward
  <2>1. UNCHANGED <<lastRotate, now, at>>
    BY <1>6 DEF Report
  <2>2. CASE eps' = eps
    BY <1>2, <1>3, <2>1, <2>2
  <2>3. CASE eps' # eps
    <3>1. ep[t] \in Endpoints /\ (ReportSuccess(ep[t]) \/ ReportFailure(ep[t]))
      BY <1>6, <2>3 DEF Report, TypeOK
    <3> QED
      BY <1>1, <1>2, <2>1, <3>1, StoreClocks
  <2> QED
    BY <2>2, <2>3
<1>7. ASSUME Probe
      PROVE  Readings /\ Probes /\ Rotates /\ Forward
  <2>1. UNCHANGED <<lastRotate, now, at>>
    BY <1>7 DEF Probe, fetch
  <2> QED
    BY <1>1, <1>2, <1>7, <2>1, StoreClocks, SomeEndpoint
<1>8. ASSUME NEW e \in Endpoints, AddProxy(e) \/ RemoveProxy(e) \/ ProbeEndpoint(e)
      PROVE  Readings /\ Probes /\ Rotates /\ Forward
  <2>1. UNCHANGED <<lastRotate, now, at>> /\ changes' = changes + 1
    BY <1>8 DEF AddProxy, RemoveProxy, ProbeEndpoint, fetch
  <2>2. Probes
    <3>1. CASE AddProxy(e)
      <4>1. \A i \in DOMAIN eps' : i \in DOMAIN eps \/ i = Len(eps) + 1
        BY <3>1, Adding, Entries
      <4>2. Fresh(e).lastProbe <= now
        BY <1>1 DEF Fresh
      <4> QED
        BY <2>1, <3>1, <4>1, <4>2, Adding
    <3>2. CASE RemoveProxy(e)
      <4>1. \A k \in DOMAIN eps' : \E i \in DOMAIN eps : eps'[k] = eps[i]
        BY <3>2, Removing DEF RemoveProxy
      <4> QED
        BY <2>1, <4>1
    <3>3. CASE ProbeEndpoint(e)
      BY <2>1, <3>3, StoreClocks
    <3> QED
      BY <1>8, <3>1, <3>2, <3>3
  <2> QED
    BY <1>1, <1>2, <2>1, <2>2
<1>9. ASSUME Tick
      PROVE  Readings /\ Probes /\ Rotates /\ Forward
  <2>1. at' = at /\ now' = now + 1 /\ UNCHANGED <<eps, lastRotate>>
    BY <1>9 DEF Tick, pool, fetch
  <2> QED
    BY <1>1, <1>3, <2>1
<1>10. ASSUME UNCHANGED vars
       PROVE  Readings /\ Probes /\ Rotates /\ Forward
  <2>1. UNCHANGED <<at, now, eps, lastRotate>>
    BY <1>10 DEF vars, pool, fetch
  <2> QED
    BY <1>2, <1>3, <2>1
<1>11. Readings /\ Probes /\ Rotates /\ Forward
  <2> HIDE DEF Readings, Probes, Rotates, Forward
  <2> QED
    BY <1>4, <1>5, <1>6, <1>7, <1>8, <1>9, <1>10 DEF Next, FetchStep
<1> QED
  BY <1>11

\* Neither the rotation clock nor an endpoint's cooldown ever moves back, though
\* selectProxy works with a clock value read before it had the lock.
THEOREM ClocksForward == Spec => ClocksMonotone
<1>1. Init => ClockInv
  <2>1. ASSUME Init
        PROVE  \A i \in DOMAIN eps : eps[i].lastProbe <= now
    <3>1. \A e : Fresh(e).lastProbe = -Cooldown /\ Unprobed(e).lastProbe = -Cooldown
      BY DEF Fresh, Unprobed
    <3>2. -Cooldown <= 0
      BY TorPoolAssumption
    <3> QED
      BY <2>1, <3>1, <3>2 DEF Init
  <2> QED
    BY <2>1 DEF Init, ClockInv
<1>2. TypeOK /\ ClockInv /\ [Next]_vars => ClockInv'
  BY ClockStep
<1>3. TypeOK /\ ClockInv /\ [Next]_vars =>
         [/\ lastRotate' >= lastRotate
          /\ changes' = changes =>
                \A i \in DOMAIN eps : eps'[i].lastProbe >= eps[i].lastProbe]_vars
  BY ClockStep
<1> QED
  BY <1>1, <1>2, <1>3, Typing, PTL DEF Spec, ClocksMonotone

----------------------------------------------------------------------------
(* Failed endpoints *)

\* The operator configured no endpoint twice.  For an endpoint that occurs twice
\* the two theorems that assume this are false: a report reaches only the first
\* entry, and the endpoint is handed out twice in a round.
DistinctConfig == \A i, j \in DOMAIN Config : Config[i] = Config[j] => i = j

\* No endpoint has two entries: addProxy returns early for a known one.
Unique == \A i, j \in DOMAIN eps : eps[i].id = eps[j].id => i = j

\* What makes FailedStaysOut inductive: a healthy entry is of an endpoint that
\* has answered, or been forgiven, since it last failed.
HealthyAnswered == \A i \in DOMAIN eps : eps[i].healthy => eps[i].id \notin suspect \ forgiven

\* The default manager takes no endpoint out.
NoneOut == ~pooled => suspect = {}

OutInv == TypeOK /\ Unique /\ HealthyAnswered /\ NoneOut

\* Lists in which entries keep their places keep each endpoint once.
LEMMA UniqueKept ==
    ASSUME Unique, DOMAIN eps' = DOMAIN eps, \A i \in DOMAIN eps : eps'[i].id = eps[i].id
    PROVE  Unique'
BY DEF Unique

\* What selectProxy hands out is not a failed endpoint, and it raises the health
\* of no endpoint that has not answered or been forgiven.
LEMMA SelectOut ==
    ASSUME OutInv, NEW t \in Threads, Select(t)
    PROVE  /\ Unique' /\ HealthyAnswered' /\ (~pooled => suspect' = {})
           /\ ep'[t] \notin suspect' \ forgiven'
<1>1. /\ at[t] \in 0..MaxTime /\ None \notin Endpoints /\ suspect \subseteq Endpoints
      /\ ep \in [Threads -> Endpoints \cup {None}]
  BY TorPoolAssumption DEF OutInv, TypeOK
<1>2. CASE ~pooled
  <2>1. UNCHANGED <<pool, history>> /\ suspect = {}
    BY <1>2 DEF Select, OutInv, NoneOut
  <2> QED
    BY <2>1 DEF OutInv, pool, history, Unique, HealthyAnswered
<1>3. CASE pooled /\ eps = <<>>
  <2>1. PICK alive \in BOOLEAN : /\ SelectProxy(at[t], alive)
                                /\ ep' = [ep EXCEPT ![t] = Answer(at[t], alive)]
    BY <1>3 DEF Select
  <2>2. UNCHANGED <<pool, history>>
    BY <1>3, <2>1 DEF SelectProxy
  <2>3. Answer(at[t], alive) = None
    BY <1>3 DEF Answer, Candidates
  <2> QED
    BY <1>1, <1>3, <2>1, <2>2, <2>3 DEF OutInv, pool, history, Unique, HealthyAnswered
<1>4. CASE pooled /\ eps # <<>>
  <2>1. PICK alive \in BOOLEAN : /\ SelectProxy(at[t], alive)
                                /\ ep' = [ep EXCEPT ![t] = Answer(at[t], alive)]
    BY <1>4 DEF Select
  <2> DEFINE p == Picked(at[t])
             answer == Answer(at[t], alive)
             probed == Reprobes(at[t]) /\ alive
             due == RotationDue(at[t])
             answered == IF probed THEN {eps[p].id} ELSE {}
  <2>2. /\ DOMAIN eps' = DOMAIN eps
        /\ \A i \in DOMAIN eps : eps'[i].id = eps[i].id
        /\ \A i \in DOMAIN eps : eps'[i].healthy => eps[i].healthy \/ due \/ (probed /\ i = p)
        /\ answer # None => /\ p \in DOMAIN eps /\ answer = eps[p].id
                            /\ eps[p].healthy \/ due \/ probed
    BY <1>1, <1>4, <2>1, Selecting DEF OutInv
  <2>3. suspect' = suspect \ answered
        /\ forgiven' = (IF due THEN suspect ELSE forgiven) \ answered
    BY <1>4, <2>1, Zenon DEF SelectProxy
  <2>4. ep'[t] = answer
    BY <1>1, <2>1
  <2> HIDE DEF p, answer, probed, due
  <2>5. ASSUME NEW i \in DOMAIN eps, eps[i].healthy \/ due \/ (probed /\ i = p)
        PROVE  eps[i].id \notin suspect' \ forgiven'
    <3>1. CASE eps[i].healthy
      BY <2>3, <3>1 DEF OutInv, HealthyAnswered
    <3>2. CASE due
      BY <2>3, <3>2
    <3>3. CASE probed /\ i = p
      BY <2>3, <3>3
    <3> QED
      BY <2>5, <3>1, <3>2, <3>3
  <2>6. HealthyAnswered'
    BY <2>2, <2>5 DEF HealthyAnswered
  <2>7. Unique'
    BY <2>2, UniqueKept DEF OutInv
  <2>8. ep'[t] \notin suspect' \ forgiven'
    <3>1. CASE answer = None
      BY <1>1, <2>3, <2>4, <3>1
    <3>2. CASE answer # None
      BY <2>2, <2>4, <2>5, <3>2
    <3> QED
      BY <3>1, <3>2
  <2> QED
    BY <1>4, <2>6, <2>7, <2>8
<1> QED
  BY <1>2, <1>3, <1>4 DEF OutInv, TypeOK

\* A report or a probe changes health and history together.
LEMMA StoreOut ==
    ASSUME OutInv, NEW e \in Endpoints,
           ReportSuccess(e) \/ ReportFailure(e) \/ Probe \/ ProbeEndpoint(e)
    PROVE  Unique' /\ HealthyAnswered'
<1>1. DOMAIN eps' = DOMAIN eps /\ \A i \in DOMAIN eps : eps'[i].id = eps[i].id
  BY Storing DEF OutInv
<1>2. Unique'
  BY <1>1, UniqueKept DEF OutInv
<1>3. \A i \in DOMAIN eps : eps[i] \in Entry /\ (eps[i].healthy => eps[i].id \notin suspect \ forgiven)
  BY Entries DEF OutInv, HealthyAnswered
<1>4. ASSUME ReportSuccess(e), NEW i \in DOMAIN eps, eps'[i].healthy
      PROVE  eps[i].id \notin suspect' \ forgiven'
  <2>1. eps'[i].healthy => eps[i].healthy \/ i \in First(e)
    BY <1>4 DEF ReportSuccess
  <2>2. suspect' = suspect \ {e} /\ forgiven' = forgiven \ {e}
    BY <1>4 DEF ReportSuccess, Answered
  <2>3. i \in First(e) => eps[i].id = e
    BY DEF First
  <2> QED
    BY <1>3, <1>4, <2>1, <2>2, <2>3
<1>5. ASSUME ReportFailure(e), NEW i \in DOMAIN eps, eps'[i].healthy
      PROVE  eps[i].id \notin suspect' \ forgiven'
  <2>1. i \notin First(e) /\ eps[i].healthy
    <3>1. eps'[i] = IF i \in First(e)
                    THEN [eps[i] EXCEPT !.healthy = FALSE, !.lastProbe = now] ELSE eps[i]
      BY <1>5 DEF ReportFailure
    <3>2. i \in First(e) => eps'[i].healthy = FALSE
      BY <1>3, <3>1 DEF Entry
    <3> QED
      BY <1>5, <3>1, <3>2
  <2>2. eps[i].id # e
    BY <2>1, Entries DEF First, OutInv, Unique
  <2>3. suspect' = suspect \cup {e} /\ forgiven' = forgiven \ {e}
    BY <1>5 DEF ReportFailure
  <2> QED
    BY <1>3, <2>1, <2>2, <2>3
<1>6. ASSUME Probe, NEW i \in DOMAIN eps, eps'[i].healthy
      PROVE  eps[i].id \notin suspect' \ forgiven'
  <2>1. PICK alive : /\ eps' = [j \in DOMAIN eps |-> [eps[j] EXCEPT !.healthy = eps[j].id \in alive,
                                                                  !.lastProbe = now]]
                     /\ Answered(alive)
    BY <1>6 DEF Probe
  <2>2. eps'[i].healthy = (eps[i].id \in alive)
    BY <1>3, <2>1 DEF Entry
  <2> QED
    BY <1>6, <2>1, <2>2 DEF Answered
<1>7. ASSUME ProbeEndpoint(e), NEW i \in DOMAIN eps, eps'[i].healthy
      PROVE  eps[i].id \notin suspect' \ forgiven'
  <2>1. PICK alive \in BOOLEAN :
           /\ eps' = [j \in DOMAIN eps |->
                         IF eps[j].id = e
                         THEN [eps[j] EXCEPT !.healthy = alive, !.lastProbe = now] ELSE eps[j]]
           /\ Answered(IF alive THEN {e} ELSE {})
    BY <1>7 DEF ProbeEndpoint
  <2>2. CASE eps[i].id = e
    <3>1. eps'[i].healthy = alive
      BY <1>3, <2>1, <2>2 DEF Entry
    <3> QED
      BY <1>7, <2>1, <2>2, <3>1 DEF Answered
  <2>3. CASE eps[i].id # e
    <3>1. eps'[i] = eps[i]
      BY <2>1, <2>3
    <3> QED
      BY <1>3, <1>7, <2>1, <3>1 DEF Answered
  <2> QED
    BY <2>2, <2>3
<1>8. \A i \in DOMAIN eps : eps'[i].healthy => eps[i].id \notin suspect' \ forgiven'
  BY <1>4, <1>5, <1>6, <1>7
<1> QED
  BY <1>1, <1>2, <1>8 DEF HealthyAnswered

\* A new entry's endpoint is not under suspicion, and is the only one of its name.
LEMMA AddOut ==
    ASSUME OutInv, NEW e \in Endpoints, AddProxy(e)
    PROVE  Unique' /\ HealthyAnswered'
<1>1. /\ DOMAIN eps' = 1..(Len(eps) + 1) /\ eps'[Len(eps) + 1] = Fresh(e)
      /\ \A i \in DOMAIN eps : eps'[i] = eps[i]
  BY Adding DEF OutInv
<1>2. DOMAIN eps = 1..Len(eps) /\ Len(eps) \in Nat
  BY Entries DEF OutInv
<1>3. \A i \in DOMAIN eps : eps[i].id # e
  <2>1. First(e) = {}
    BY DEF AddProxy
  <2>2. ASSUME NEW i \in DOMAIN eps, eps[i].id = e
        PROVE  i \in First(e)
    BY <1>2, <2>2 DEF First, OutInv, Unique
  <2> QED
    BY <2>1, <2>2
<1>4. suspect' = suspect \ {e} /\ forgiven' = forgiven \ {e} /\ Fresh(e).id = e
  BY DEF AddProxy, Answered, Fresh
<1>5. \A i \in DOMAIN eps' : i \in DOMAIN eps \/ i = Len(eps) + 1
  BY <1>1, <1>2
<1>6. \A i, j \in DOMAIN eps' : eps'[i].id = eps'[j].id => i = j
  BY <1>1, <1>3, <1>4, <1>5 DEF OutInv, Unique
<1>7. \A i \in DOMAIN eps' : eps'[i].healthy => eps'[i].id \notin suspect' \ forgiven'
  BY <1>1, <1>4, <1>5 DEF OutInv, HealthyAnswered
<1> QED
  BY <1>6, <1>7 DEF Unique, HealthyAnswered

LEMMA OutStep ==
    ASSUME OutInv, [Next]_vars
    PROVE  /\ Unique' /\ HealthyAnswered' /\ NoneOut'
           /\ \A t \in Threads : Selected(t) => ep'[t] \notin suspect' \ forgiven'
<1> DEFINE Kept == Unique' /\ HealthyAnswered' /\ (~pooled => suspect' = {})
           Out == \A t \in Threads : Selected(t) => ep'[t] \notin suspect' \ forgiven'
<1>1. /\ Unique /\ HealthyAnswered /\ (~pooled => suspect = {})
      /\ fpc \in [Threads -> {"idle", "ask", "select", "transfer", "report"}]
  BY DEF OutInv, NoneOut, TypeOK
<1>2. ASSUME UNCHANGED <<eps, history>>
      PROVE  Kept
  BY <1>1, <1>2 DEF Unique, HealthyAnswered, history
<1>3. ASSUME fpc' = fpc \/ (\E t \in Threads : \E w : fpc[t] # "select" /\ fpc' = [fpc EXCEPT ![t] = w])
      PROVE  Out
  BY <1>1, <1>3 DEF Selected
<1>4. ASSUME NEW t \in Threads,
             (\E k \in {"onion", "clear"} : Start(t, k)) \/ Ask(t) \/ CurlInitFails(t) \/ Transfer(t)
      PROVE  Kept /\ Out
  <2>1. UNCHANGED <<eps, history>>
    BY <1>4 DEF Start, Ask, CurlInitFails, Transfer, pool
  <2>2. fpc[t] # "select" /\ \E w : fpc' = [fpc EXCEPT ![t] = w]
    BY <1>4 DEF Start, Ask, CurlInitFails, Transfer
  <2> QED
    BY <1>2, <1>3, <2>1, <2>2
<1>5. ASSUME NEW t \in Threads, Select(t)
      PROVE  Kept /\ Out
  <2>1. Kept /\ ep'[t] \notin suspect' \ forgiven'
    BY <1>5, SelectOut
  <2>2. \A u \in Threads : Selected(u) => u = t
    BY <1>1, <1>5 DEF Selected, Select
  <2> QED
    BY <2>1, <2>2
<1>6. ASSUME NEW t \in Threads, Report(t)
      PROVE  Kept /\ Out
  <2>1. fpc[t] # "select" /\ \E w : fpc' = [fpc EXCEPT ![t] = w]
    BY <1>6 DEF Report
  <2>2. CASE UNCHANGED <<eps, history>>
    BY <1>2, <1>3, <2>1, <2>2
  <2>3. CASE ~UNCHANGED <<eps, history>>
    <3>1. pooled /\ ep[t] \in Endpoints /\ (ReportSuccess(ep[t]) \/ ReportFailure(ep[t]))
      BY <1>6, <2>3 DEF Report, OutInv, TypeOK
    <3> QED
      BY <1>3, <2>1, <3>1, StoreOut
  <2> QED
    BY <2>2, <2>3
<1>7. ASSUME Probe
      PROVE  Kept /\ Out
  <2>1. fpc' = fpc /\ (suspect = {} => suspect' = {})
    BY <1>7 DEF Probe, Answered
  <2> QED
    BY <1>1, <1>3, <1>7, <2>1, StoreOut, SomeEndpoint
<1>8. ASSUME NEW e \in Endpoints, AddProxy(e) \/ RemoveProxy(e) \/ ProbeEndpoint(e)
      PROVE  Kept /\ Out
  <2>1. fpc' = fpc /\ pooled
    BY <1>8 DEF AddProxy, RemoveProxy, ProbeEndpoint
  <2>2. CASE AddProxy(e)
    BY <1>3, <2>1, <2>2, AddOut
  <2>3. CASE RemoveProxy(e)
    <3>1. eps' = Without(e) /\ UNCHANGED <<suspect, forgiven>>
      BY <2>3 DEF RemoveProxy
    <3>2. PICK from \in [DOMAIN eps' -> DOMAIN eps] :
             /\ \A k \in DOMAIN eps' : eps'[k] = eps[from[k]]
             /\ \A k, l \in DOMAIN eps' : from[k] = from[l] => k = l
      BY <3>1, Removing DEF OutInv
    <3>3. Unique'
      BY <1>1, <3>2 DEF Unique
    <3>4. HealthyAnswered'
      BY <1>1, <3>1, <3>2 DEF HealthyAnswered
    <3> QED
      BY <1>3, <2>1, <3>3, <3>4
  <2>4. CASE ProbeEndpoint(e)
    BY <1>3, <2>1, <2>4, StoreOut
  <2> QED
    BY <1>8, <2>2, <2>3, <2>4
<1>9. ASSUME Tick
      PROVE  Kept /\ Out
  BY <1>2, <1>3, <1>9 DEF Tick, pool
<1>10. ASSUME UNCHANGED vars
       PROVE  Kept /\ Out
  BY <1>2, <1>3, <1>10 DEF vars, pool
<1>11. Kept /\ Out
  <2> HIDE DEF Kept, Out
  <2> QED
    BY <1>4, <1>5, <1>6, <1>7, <1>8, <1>9, <1>10 DEF Next, FetchStep
<1>12. pooled' = pooled
  BY DEF Next, vars
<1> QED
  BY <1>11, <1>12 DEF NoneOut

LEMMA InitOut ==
    ASSUME DistinctConfig
    PROVE  Init => Unique /\ HealthyAnswered /\ NoneOut
<1>1. ASSUME Init
      PROVE  Unique
  <2>1. CASE pooled
    <3>1. \A i \in DOMAIN eps : i \in DOMAIN Config /\ eps[i].id = Config[i]
      BY <1>1, <2>1 DEF Init, Fresh
    <3> QED
      BY <3>1, DistinctConfig DEF DistinctConfig, Unique
  <2>2. CASE ~pooled
    BY <1>1, <2>2 DEF Init, Unique
  <2> QED
    BY <2>1, <2>2
<1> QED
  BY <1>1 DEF Init, HealthyAnswered, NoneOut

\* An endpoint that was reported down is not handed out until it has answered
\* a probe or a request, or a rotation has declared it healthy.
THEOREM FailedOut ==
    ASSUME DistinctConfig
    PROVE  Spec => FailedStaysOut
<1>1. Init => Unique /\ HealthyAnswered /\ NoneOut
  BY InitOut
<1>2. TypeOK /\ Unique /\ HealthyAnswered /\ NoneOut /\ [Next]_vars
         => (Unique /\ HealthyAnswered /\ NoneOut)'
  BY OutStep DEF OutInv
<1>3. TypeOK /\ Unique /\ HealthyAnswered /\ NoneOut /\ [Next]_vars
         => [\A t \in Threads : Selected(t) => ep'[t] \notin suspect' \ forgiven']_vars
  BY OutStep DEF OutInv
<1> QED
  BY <1>1, <1>2, <1>3, Typing, PTL DEF Spec, FailedStaysOut

----------------------------------------------------------------------------
(* Balance *)

\* Two ways to write a number with a remainder below n are the same.
LEMMA QuotientUnique ==
    ASSUME NEW n \in Nat \ {0}, NEW a \in Int, NEW b \in Int,
           NEW r \in 0..(n - 1), NEW s \in 0..(n - 1), n * a + r = n * b + s
    PROVE  a = b
<1>1. n * (a - b) = s - r
  OBVIOUS
<1>2. CASE a - b >= 1
  <2>1. n * (a - b) >= n
    BY <1>2
  <2> QED
    BY <1>1, <2>1
<1>3. CASE b - a >= 1
  <2>1. n * (b - a) >= n
    BY <1>3
  <2>2. n * (b - a) = r - s
    OBVIOUS
  <2> QED
    BY <2>1, <2>2
<1> QED
  BY <1>2, <1>3

\* The position after r % n is the next one, or the first after the last.
LEMMA NextPosition ==
    ASSUME NEW n \in Nat \ {0}, NEW r \in Nat
    PROVE  /\ r % n \in 0..(n - 1)
           /\ (r + 1) % n = IF r % n = n - 1 THEN 0 ELSE (r % n) + 1
<1> DEFINE a == r \div n
           b == (r + 1) \div n
           m == r % n
           k == (r + 1) % n
<1>1. a \in Int /\ b \in Int /\ m \in 0..(n - 1) /\ k \in 0..(n - 1)
  OBVIOUS
<1>2. r = n * a + m /\ r + 1 = n * b + k
  OBVIOUS
<1> HIDE DEF a, b, m, k
<1>3. CASE m = n - 1
  <2>1. n * (a + 1) = n * a + n
    BY <1>1
  <2>2. n * (a + 1) + 0 = n * b + k
    BY <1>1, <1>2, <1>3, <2>1
  <2>3. a + 1 = b
    BY <1>1, <2>2, QuotientUnique
  <2>4. k = 0
    BY <1>1, <2>2, <2>3
  <2> QED
    BY <1>1, <1>3, <2>4 DEF m, k
<1>4. CASE m # n - 1
  <2>1. n * a + (m + 1) = n * b + k /\ m + 1 \in 0..(n - 1)
    BY <1>1, <1>2, <1>4
  <2>2. a = b
    BY <1>1, <2>1, QuotientUnique
  <2>3. k = m + 1
    BY <1>1, <2>1, <2>2
  <2> QED
    BY <1>1, <1>4, <2>3 DEF m, k
<1> QED
  BY <1>3, <1>4

\* The pool as it was configured, every endpoint in it healthy.
AsConfigured ==
    /\ DOMAIN eps = DOMAIN Config
    /\ \A i \in DOMAIN Config : eps[i].id = Config[i] /\ eps[i].healthy = TRUE

\* Every endpoint has been handed out q times, and those before the cursor once
\* more.
InRound(p, r, q) ==
    \A i \in DOMAIN Config :
        p[Config[i]] = IF i <= r % Len(Config) THEN q + 1 ELSE q

\* What makes LoadBalanced inductive: until something fails, the cursor is the
\* number of selections, and each selection goes to the endpoint it points at.
BalanceInv ==
    /\ ~pooled => picks = NoPicks
    /\ calm /\ pooled => AsConfigured /\ \E q \in Nat : InRound(picks, rr, q)

LEMMA ConfigRange ==
    /\ Len(Config) \in Nat \ {0} /\ DOMAIN Config = 1..Len(Config)
    /\ \A i \in DOMAIN Config : Config[i] \in Endpoints
<1>1. Config \in Seq(Endpoints) /\ Config # <<>>
  BY TorPoolAssumption
<1> QED
  BY <1>1, LenProperties, ElementOfSeq, EmptySeq

\* With every endpoint healthy the cursor's position is handed out, unprobed.
LEMMA CalmAnswer ==
    ASSUME TypeOK, AsConfigured, NEW t \in Int, ~RotationDue(t), NEW alive \in BOOLEAN
    PROVE  /\ ~Reprobes(t) /\ Candidates(t) # {} /\ Rotated(t) = eps /\ Cursor(t) = rr
           /\ Answer(t, alive) = Config[(rr % Len(Config)) + 1]
<1> DEFINE n == Len(Config)
           k == rr % Len(Config)
<1>1. Rotated(t) = eps /\ Cursor(t) = rr
  BY DEF Rotated, Cursor
<1>2. DOMAIN eps = 1..n /\ n \in Nat \ {0} /\ rr \in Nat /\ DOMAIN Config = 1..n
  BY ConfigRange DEF AsConfigured, TypeOK
<1>3. k \in 0..(n - 1)
  BY <1>2, NextPosition
<1>4. Candidates(t) = 1..n
  BY <1>1, <1>2 DEF Candidates, AsConfigured
<1>5. Cardinality(1..n) = n
  BY <1>2, FS_Interval
<1>6. Picked(t) = Nth(1..n, k)
  BY <1>1, <1>4, <1>5 DEF Picked
<1> HIDE DEF n, k
<1>7. Picked(t) = k + 1
  BY <1>2, <1>3, <1>6, NthOfAll
<1>8. k + 1 \in 1..n
  BY <1>2, <1>3
<1>9. Candidates(t) # {}
  BY <1>4, <1>8
<1>10. ~Reprobes(t)
  BY <1>1, <1>2, <1>7, <1>8 DEF Reprobes, AsConfigured
<1>11. Answer(t, alive) = Rotated(t)[Picked(t)].id
  BY <1>9, <1>10 DEF Answer
<1>12. Answer(t, alive) = Config[k + 1]
  BY <1>1, <1>2, <1>7, <1>8, <1>11 DEF AsConfigured
<1> QED
  BY <1>1, <1>9, <1>10, <1>12 DEF k

\* One more selection: the cursor's endpoint has been handed out once more, and
\* when it was the last of the round all have.
LEMMA NextInRound ==
    ASSUME DistinctConfig, NEW p \in [Endpoints -> Nat], NEW r \in Nat, NEW q \in Nat,
           InRound(p, r, q)
    PROVE  \E s \in Nat :
              InRound([e \in Endpoints |->
                          IF e = Config[(r % Len(Config)) + 1] THEN p[e] + 1 ELSE p[e]], r + 1, s)
<1> DEFINE n == Len(Config)
           k == r % Len(Config)
           after == [e \in Endpoints |-> IF e = Config[k + 1] THEN p[e] + 1 ELSE p[e]]
<1>1. n \in Nat \ {0} /\ DOMAIN Config = 1..n /\ \A i \in 1..n : Config[i] \in Endpoints
  BY ConfigRange
<1>2. k \in 0..(n - 1) /\ (r + 1) % n = IF k = n - 1 THEN 0 ELSE k + 1
  BY <1>1, NextPosition
<1>3. \A i \in 1..n : p[Config[i]] = IF i <= k THEN q + 1 ELSE q
  BY <1>1 DEF InRound
<1>4. \A i \in 1..n : Config[i] = Config[k + 1] <=> i = k + 1
  BY <1>1, <1>2 DEF DistinctConfig
<1>5. \A i \in 1..n : after[Config[i]] = IF i = k + 1 THEN p[Config[i]] + 1 ELSE p[Config[i]]
  BY <1>1, <1>4
<1> HIDE DEF n, k, after
<1>6. \A i \in 1..n : after[Config[i]] = IF i <= k + 1 THEN q + 1 ELSE q
  BY <1>2, <1>3, <1>5
<1>7. CASE k = n - 1
  <2>1. \A i \in 1..n : i <= k + 1 /\ ~(i <= 0)
    BY <1>1, <1>7
  <2>2. \A i \in 1..n : after[Config[i]] = IF i <= (r + 1) % n THEN (q + 1) + 1 ELSE q + 1
    BY <1>2, <1>6, <1>7, <2>1
  <2>3. InRound(after, r + 1, q + 1)
    BY <1>1, <2>2 DEF InRound, n
  <2>4. \E s \in Nat : InRound(after, r + 1, s)
    BY <2>3
  <2> QED
    BY <2>4 DEF after, k
<1>8. CASE k # n - 1
  <2>1. \A i \in 1..n : after[Config[i]] = IF i <= (r + 1) % n THEN q + 1 ELSE q
    BY <1>2, <1>6, <1>8
  <2>2. InRound(after, r + 1, q)
    BY <1>1, <2>1 DEF InRound, n
  <2>3. \E s \in Nat : InRound(after, r + 1, s)
    BY <2>2
  <2> QED
    BY <2>3 DEF after, k
<1> QED
  BY <1>7, <1>8

\* A selection while all is calm.
LEMMA SelectBalance ==
    ASSUME DistinctConfig, TypeOK, BalanceInv, NEW t \in Threads, Select(t),
           pooled, calm'
    PROVE  AsConfigured' /\ \E q \in Nat : InRound(picks', rr', q)
<1>1. at[t] \in Int /\ rr \in Nat /\ picks \in [Endpoints -> Nat]
  <2>1. at[t] \in 0..MaxTime
    BY DEF TypeOK
  <2> QED
    BY <2>1, TorPoolAssumption DEF TypeOK
<1>2. PICK alive \in BOOLEAN : SelectProxy(at[t], alive)
  BY DEF Select
<1>3. CASE eps = <<>>
  <2>1. UNCHANGED <<pool, history>>
    BY <1>2, <1>3 DEF SelectProxy
  <2>2. eps' = eps /\ rr' = rr /\ picks' = picks /\ calm' = calm
    BY <2>1 DEF pool, history
  <2> QED
    BY <2>2 DEF BalanceInv, AsConfigured
<1>4. CASE eps # <<>>
  <2>1. calm /\ ~RotationDue(at[t])
    BY <1>2, <1>4 DEF SelectProxy
  <2>2. AsConfigured
    BY <2>1 DEF BalanceInv
  <2>3. PICK q \in Nat : InRound(picks, rr, q)
    BY <2>1 DEF BalanceInv
  <2>4. /\ ~Reprobes(at[t]) /\ Candidates(at[t]) # {} /\ Rotated(at[t]) = eps /\ Cursor(at[t]) = rr
        /\ Answer(at[t], alive) = Config[(rr % Len(Config)) + 1]
    BY <1>1, <2>1, <2>2, CalmAnswer
  <2>5. eps' = eps /\ rr' = rr + 1
    BY <1>2, <1>4, <2>4 DEF SelectProxy, NextCursor
  <2>6. picks' = [e \in Endpoints |-> IF e = Config[(rr % Len(Config)) + 1]
                                      THEN picks[e] + 1 ELSE picks[e]]
    BY <1>2, <1>4, <2>4 DEF SelectProxy
  <2>7. \E s \in Nat : InRound(picks', rr', s)
    BY <1>1, <2>3, <2>5, <2>6, NextInRound
  <2> QED
    BY <2>2, <2>5, <2>7 DEF AsConfigured
<1> QED
  BY <1>3, <1>4

\* A report or a probe that leaves the calm leaves every endpoint healthy.
LEMMA StoreBalance ==
    ASSUME OutInv, BalanceInv, NEW e \in Endpoints,
           ReportSuccess(e) \/ ReportFailure(e) \/ Probe \/ ProbeEndpoint(e),
           pooled, calm', rr' = rr
    PROVE  AsConfigured' /\ \E q \in Nat : InRound(picks', rr', q)
<1>1. DOMAIN eps' = DOMAIN eps /\ \A i \in DOMAIN eps : eps'[i].id = eps[i].id /\ eps[i] \in Entry
  BY Storing, Entries DEF OutInv
<1>2. calm /\ picks' = picks
  <2>1. calm' => calm
    BY DEF ReportSuccess, ReportFailure, Probe, ProbeEndpoint, CalmIf
  <2>2. calm' => picks' = picks
    BY DEF ReportSuccess, ReportFailure, Probe, ProbeEndpoint, CalmIf
  <2> QED
    BY <2>1, <2>2
<1>3. AsConfigured /\ \E q \in Nat : InRound(picks, rr, q)
  BY <1>2 DEF BalanceInv
<1>4. ASSUME NEW i \in DOMAIN eps
      PROVE  eps'[i].healthy = TRUE
  <2>1. eps[i].healthy = TRUE
    BY <1>3 DEF AsConfigured
  <2>2. CASE ReportSuccess(e)
    <3>1. eps'[i] = IF i \in First(e) THEN [eps[i] EXCEPT !.healthy = TRUE] ELSE eps[i]
      BY <2>2 DEF ReportSuccess
    <3> QED
      BY <1>1, <2>1, <3>1 DEF Entry
  <2>3. CASE ReportFailure(e)
    BY <2>3 DEF ReportFailure, CalmIf
  <2>4. CASE Probe
    <3>1. PICK alive : /\ eps' = [j \in DOMAIN eps |-> [eps[j] EXCEPT !.healthy = eps[j].id \in alive,
                                                                    !.lastProbe = now]]
                       /\ CalmIf(calm /\ \A j \in DOMAIN eps : eps[j].id \in alive)
      BY <2>4 DEF Probe
    <3>2. eps[i].id \in alive
      BY <3>1 DEF CalmIf
    <3>3. eps'[i].healthy = (eps[i].id \in alive)
      BY <1>1, <3>1 DEF Entry
    <3> QED
      BY <3>2, <3>3
  <2>5. CASE ProbeEndpoint(e)
    <3>1. PICK alive \in BOOLEAN :
             /\ eps' = [j \in DOMAIN eps |->
                           IF eps[j].id = e
                           THEN [eps[j] EXCEPT !.healthy = alive, !.lastProbe = now] ELSE eps[j]]
             /\ CalmIf(calm /\ (alive \/ First(e) = {}))
      BY <2>5 DEF ProbeEndpoint
    <3>2. CASE eps[i].id = e
      <4>1. i \in First(e)
        BY <3>2, Entries DEF First, OutInv, Unique
      <4>2. alive = TRUE
        BY <3>1, <4>1 DEF CalmIf
      <4>3. eps'[i] = [eps[i] EXCEPT !.healthy = alive, !.lastProbe = now]
        BY <3>1, <3>2
      <4> QED
        BY <1>1, <4>2, <4>3 DEF Entry
    <3>3. CASE eps[i].id # e
      BY <2>1, <3>1, <3>3
    <3> QED
      BY <3>2, <3>3
  <2> QED
    BY <2>2, <2>3, <2>4, <2>5
<1>5. AsConfigured'
  BY <1>1, <1>3, <1>4 DEF AsConfigured
<1> QED
  BY <1>2, <1>3, <1>5

LEMMA BalanceStep ==
    ASSUME DistinctConfig, OutInv, BalanceInv, [Next]_vars
    PROVE  BalanceInv'
<1> DEFINE Single == ~pooled => picks' = NoPicks
           Round == calm' /\ pooled => AsConfigured' /\ \E q \in Nat : InRound(picks', rr', q)
<1>1. ~pooled => picks = NoPicks
  BY DEF BalanceInv
<1>2. ASSUME UNCHANGED <<eps, rr, history>>
      PROVE  Single /\ Round
  <2>1. picks' = picks /\ calm' = calm /\ eps' = eps /\ rr' = rr
    BY <1>2 DEF history
  <2> QED
    BY <1>1, <2>1 DEF BalanceInv, AsConfigured
<1>3. ASSUME NEW t \in Threads,
             (\E k \in {"onion", "clear"} : Start(t, k)) \/ Ask(t) \/ CurlInitFails(t) \/ Transfer(t)
      PROVE  Single /\ Round
  <2>1. UNCHANGED <<eps, rr, history>>
    BY <1>3 DEF Start, Ask, CurlInitFails, Transfer, pool
  <2> QED
    BY <1>2, <2>1
<1>4. ASSUME NEW t \in Threads, Select(t)
      PROVE  Single /\ Round
  <2>1. Single
    BY <1>1, <1>4 DEF Select, history
  <2>2. Round
    BY <1>4, SelectBalance DEF OutInv
  <2> QED
    BY <2>1, <2>2
<1>5. ASSUME NEW t \in Threads, Report(t)
      PROVE  Single /\ Round
  <2>1. rr' = rr
    BY <1>5 DEF Report
  <2>2. CASE UNCHANGED <<eps, history>>
    BY <1>2, <2>1, <2>2
  <2>3. CASE ~UNCHANGED <<eps, history>>
    <3>1. pooled /\ ep[t] \in Endpoints /\ (ReportSuccess(ep[t]) \/ ReportFailure(ep[t]))
      BY <1>5, <2>3 DEF Report, OutInv, TypeOK
    <3> QED
      BY <2>1, <3>1, StoreBalance
  <2> QED
    BY <2>2, <2>3
<1>6. ASSUME Probe
      PROVE  Single /\ Round
  <2>1. rr' = rr /\ (picks' = picks \/ picks' = NoPicks)
    BY <1>6, Zenon DEF Probe, CalmIf
  <2> QED
    BY <1>1, <1>6, <2>1, StoreBalance, SomeEndpoint
<1>7. ASSUME NEW e \in Endpoints, AddProxy(e) \/ RemoveProxy(e) \/ ProbeEndpoint(e)
      PROVE  Single /\ Round
  <2>1. pooled /\ rr' = rr
    BY <1>7 DEF AddProxy, RemoveProxy, ProbeEndpoint
  <2>2. AddProxy(e) \/ RemoveProxy(e) => ~calm'
    BY DEF AddProxy, RemoveProxy, CalmIf
  <2>3. ProbeEndpoint(e) => Round
    BY <2>1, StoreBalance
  <2> QED
    BY <1>7, <2>1, <2>2, <2>3
<1>8. ASSUME Tick \/ UNCHANGED vars
      PROVE  Single /\ Round
  BY <1>2, <1>8 DEF Tick, vars, pool
<1>9. Single /\ Round
  <2> HIDE DEF Single, Round
  <2> QED
    BY <1>3, <1>4, <1>5, <1>6, <1>7, <1>8 DEF Next, FetchStep
<1>10. pooled' = pooled
  BY DEF Next, vars
<1> QED
  BY <1>9, <1>10 DEF BalanceInv, NoPicks

\* While nothing has failed or rotated, the requests of all threads together
\* are spread evenly over the endpoints: selectProxy goes round by one cursor.
THEOREM Balance ==
    ASSUME DistinctConfig
    PROVE  Spec => []LoadBalanced
<1>1. Init => Unique /\ HealthyAnswered /\ NoneOut /\ BalanceInv
  <2>1. Init => Unique /\ HealthyAnswered /\ NoneOut
    BY InitOut
  <2>2. ASSUME Init, pooled
        PROVE  AsConfigured /\ InRound(picks, rr, 0)
    <3>1. AsConfigured
      BY <2>2 DEF Init, AsConfigured, Fresh
    <3>2. Len(Config) \in Nat \ {0} /\ rr = 0 /\ picks = NoPicks
      BY <2>2, ConfigRange DEF Init
    <3>3. rr % Len(Config) = 0
      BY <3>2
    <3> QED
      BY <3>1, <3>2, <3>3, ConfigRange DEF InRound, NoPicks
  <2>3. Init => picks = NoPicks
    BY DEF Init
  <2> QED
    BY <2>1, <2>2, <2>3 DEF BalanceInv
<1>2. TypeOK /\ Unique /\ HealthyAnswered /\ NoneOut /\ BalanceInv /\ [Next]_vars
         => (Unique /\ HealthyAnswered /\ NoneOut /\ BalanceInv)'
  BY OutStep, BalanceStep DEF OutInv
<1>3. TypeOK /\ BalanceInv => LoadBalanced
  <2>1. ASSUME TypeOK, BalanceInv, calm, NEW i \in DOMAIN Config, NEW j \in DOMAIN Config
        PROVE  picks[Config[i]] - picks[Config[j]] <= 1
    <3>1. CASE pooled
      <4>1. PICK q \in Nat : InRound(picks, rr, q)
        BY <2>1, <3>1 DEF BalanceInv
      <4>2. picks[Config[i]] \in {q, q + 1} /\ picks[Config[j]] \in {q, q + 1}
        BY <2>1, <4>1 DEF InRound
      <4> QED
        BY <4>2
    <3>2. CASE ~pooled
      BY <2>1, <3>2, ConfigRange DEF BalanceInv, NoPicks
    <3> QED
      BY <3>1, <3>2
  <2> QED
    BY <2>1 DEF LoadBalanced
<1> QED
  BY <1>1, <1>2, <1>3, Typing, PTL DEF Spec

----------------------------------------------------------------------------
(* Command lines of any length *)

LEMMA LocalPiece ==
    ASSUME NEW piece \in Piece
    PROVE  Local(piece) \in Piece /\ Local(piece).host # "" /\ Local(piece).port = piece.port
<1>1. piece = [host |-> piece.host, port |-> piece.port] /\ piece.host \in Hosts /\ piece.port \in Nat
  BY DEF Piece
<1>2. CASE piece.host = ""
  <2>1. Local(piece) = [piece EXCEPT !.host = Localhost]
    BY <1>2 DEF Local
  <2>2. Local(piece) = [host |-> Localhost, port |-> piece.port]
    BY <1>1, <2>1
  <2>3. Localhost \in Hosts
    BY DEF Hosts
  <2>4. Localhost # ""
    BY DEF Localhost
  <2>5. Local(piece) \in Piece
    BY <1>1, <2>2, <2>3 DEF Piece
  <2>6. Local(piece).host = Localhost /\ Local(piece).port = piece.port
    BY <2>2
  <2> QED
    BY <2>4, <2>5, <2>6
<1>3. CASE piece.host # ""
  <2>1. Local(piece) = piece
    BY <1>3 DEF Local
  <2> QED
    BY <1>3, <2>1
<1> QED
  BY <1>2, <1>3

\* The loop of parseProxyList over the pieces, one after the other.
LEMMA PiecesLoop ==
    ASSUME NEW pieces \in Seq(Piece)
    PROVE  \E out \in [0..Len(pieces) -> Seq(Piece)] :
              /\ out[0] = <<>>
              /\ \A i \in 1..Len(pieces) :
                    out[i] = IF Good(pieces[i]) THEN Append(out[i - 1], Local(pieces[i]))
                             ELSE out[i - 1]
              /\ ParseProxyList(pieces) = out[Len(pieces)]
<1> DEFINE n == Len(pieces)
           T == Seq(Piece)
           Next1(i, list) == IF Good(pieces[i]) THEN Append(list, Local(pieces[i])) ELSE list
           step == [x \in (1..n) \X T |-> Next1(x[1], x[2])]
           Body(g) == [i \in 0..n |-> IF i = 0 THEN <<>> ELSE Next1(i, g[i - 1])]
           out == CHOOSE g : g = Body(g)
<1>1. n \in Nat /\ \A i \in 1..n : pieces[i] \in Piece /\ i - 1 \in 0..n
  BY LenProperties, ElementOfSeq
<1>2. <<>> \in T
  BY EmptySeq
<1>3. ASSUME NEW i \in 1..n, NEW list \in T
      PROVE  Next1(i, list) \in T
  <2>1. Local(pieces[i]) \in Piece
    BY <1>1, LocalPiece
  <2> QED
    BY <2>1, AppendProperties
<1>4. ParseProxyList(pieces) = out[n]
  BY DEF ParseProxyList
<1> HIDE DEF Next1, T, n
<1>5. step \in [(1..n) \X T -> T]
  BY <1>3
<1>6. \A i \in 1..n, list \in T : step[<<i, list>>] = Next1(i, list)
  OBVIOUS
<1> HIDE DEF step
<1>7. PICK f \in [0..n -> T] : f[0] = <<>> /\ \A i \in 1..n : f[i] = step[<<i, f[i - 1]>>]
  <2>1. n \in Nat /\ step \in Steps(n, T)
    BY <1>1, <1>5 DEF Steps
  <2>2. \E f \in [0..n -> T] : Runs(f, <<>>, n, step)
    BY <1>2, <2>1, Iterates
  <2> QED
    BY <2>2 DEF Runs
<1>8. f = Body(f)
  <2>1. ASSUME NEW k \in 0..n
        PROVE  f[k] = IF k = 0 THEN <<>> ELSE Next1(k, f[k - 1])
    <3>1. CASE k = 0
      BY <1>7, <3>1
    <3>2. CASE k # 0
      <4>1. k \in 1..n /\ k - 1 \in 0..n
        BY <1>1, <3>2
      <4>2. f[k - 1] \in T
        BY <4>1
      <4>3. f[k] = Next1(k, f[k - 1])
        BY <1>6, <1>7, <4>1, <4>2
      <4> QED
        BY <3>2, <4>3
    <3> QED
      BY <3>1, <3>2
  <2> QED
    BY <2>1
<1>9. out = Body(out)
  <2>1. \E g : g = Body(g)
    BY <1>8
  <2> HIDE DEF Body
  <2> QED
    BY <2>1
<1> HIDE DEF out
<1>10. /\ DOMAIN out = 0..n
       /\ \A k \in 0..n : out[k] = IF k = 0 THEN <<>> ELSE Next1(k, out[k - 1])
  BY <1>9
<1>11. out[0] = <<>> /\ \A i \in 1..n : out[i] = Next1(i, out[i - 1])
  <2>1. 0 \in 0..n /\ \A i \in 1..n : i \in 0..n /\ i # 0
    BY <1>1
  <2> QED
    BY <1>10, <2>1
<1>12. \A k \in 0..n : out[k] \in T
  <2> DEFINE S == {m \in Nat : m <= n => out[m] \in T}
  <2>1. 0 \in S
    BY <1>2, <1>11
  <2>2. ASSUME NEW m \in S
        PROVE  m + 1 \in S
    <3> SUFFICES ASSUME m + 1 <= n
                 PROVE  out[m + 1] \in T
      OBVIOUS
    <3>1. m + 1 \in 1..n /\ (m + 1) - 1 = m /\ out[m] \in T
      BY <1>1
    <3>2. out[m + 1] = Next1(m + 1, out[m])
      BY <1>11, <3>1
    <3> QED
      BY <1>3, <3>1, <3>2
  <2>3. S = Nat
    <3>1. S \in SUBSET Nat
      OBVIOUS
    <3> HIDE DEF S
    <3> QED
      BY <2>1, <2>2, <3>1, AllNumbers
  <2>4. \A k \in 0..n : k \in S /\ k <= n
    BY <1>1, <2>3
  <2> QED
    BY <2>4
<1>13. out \in [0..n -> T]
  <2>1. out = [k \in 0..n |-> out[k]]
    BY <1>9
  <2> QED
    BY <1>12, <2>1
<1> QED
  BY <1>4, <1>11, <1>13 DEF T, n, Next1

\* The first of several pieces, and how many of them are well formed.
GoodUpto(pieces, m) == {j \in 1..m : Good(pieces[j])}

LEMMA GoodCounts ==
    ASSUME NEW pieces, NEW m \in Nat
    PROVE  /\ IsFiniteSet(GoodUpto(pieces, m)) /\ Cardinality(GoodUpto(pieces, m)) \in Nat
           /\ GoodUpto(pieces, 0) = {} /\ Cardinality(GoodUpto(pieces, 0)) = 0
           /\ Cardinality(GoodUpto(pieces, m + 1)) =
                 Cardinality(GoodUpto(pieces, m)) + IF Good(pieces[m + 1]) THEN 1 ELSE 0
           /\ \A k \in 0..m : Cardinality(GoodUpto(pieces, k)) <= Cardinality(GoodUpto(pieces, m))
<1> DEFINE G(k) == GoodUpto(pieces, k)
<1>1. \A k \in Nat : IsFiniteSet(G(k)) /\ Cardinality(G(k)) \in Nat
  <2>1. ASSUME NEW k \in Nat
        PROVE  IsFiniteSet(G(k))
    <3>1. IsFiniteSet(1..k) /\ G(k) \in SUBSET (1..k)
      BY FS_Interval DEF GoodUpto
    <3> QED
      BY <3>1, FS_Subset
  <2> QED
    BY <2>1, FS_CardinalityType
<1>2. G(0) = {} /\ Cardinality({}) = 0
  BY FS_EmptySet DEF GoodUpto
<1>3. Cardinality(G(m + 1)) = Cardinality(G(m)) + IF Good(pieces[m + 1]) THEN 1 ELSE 0
  <2>1. CASE Good(pieces[m + 1])
    <3>1. G(m + 1) = G(m) \cup {m + 1} /\ m + 1 \notin G(m)
      BY <2>1 DEF GoodUpto
    <3> QED
      BY <1>1, <2>1, <3>1, FS_AddElement
  <2>2. CASE ~Good(pieces[m + 1])
    <3>1. G(m + 1) = G(m)
      BY <2>2 DEF GoodUpto
    <3> QED
      BY <1>1, <2>2, <3>1
  <2> QED
    BY <2>1, <2>2
<1>4. ASSUME NEW k \in 0..m
      PROVE  Cardinality(G(k)) <= Cardinality(G(m))
  <2>1. G(k) \in SUBSET G(m)
    BY DEF GoodUpto
  <2> QED
    BY <1>1, <2>1, FS_Subset
<1> HIDE DEF G
<1>5. /\ IsFiniteSet(G(m)) /\ Cardinality(G(m)) \in Nat /\ Cardinality(G(0)) = 0
  BY <1>1, <1>2
<1> QED
  BY <1>2, <1>3, <1>4, <1>5 DEF G

\* parseProxyList yields the well-formed pieces in their order, made local.
LEMMA Parsed ==
    ASSUME NEW pieces \in Seq(Piece)
    PROVE  LET list == ParseProxyList(pieces)
               c(i) == Cardinality(GoodUpto(pieces, i)) IN
           /\ list \in Seq(Piece) /\ Len(list) = c(Len(pieces))
           /\ \A k \in 1..Len(list) :
                 \E i \in 1..Len(pieces) :
                    Good(pieces[i]) /\ c(i) = k /\ list[k] = Local(pieces[i])
<1> DEFINE n == Len(pieces)
           c(i) == Cardinality(GoodUpto(pieces, i))
           Read(list, m) ==
              /\ Len(list) = c(m)
              /\ \A k \in 1..c(m) :
                    \E i \in 1..m : Good(pieces[i]) /\ c(i) = k /\ list[k] = Local(pieces[i])
<1>1. n \in Nat /\ \A i \in 1..n : pieces[i] \in Piece /\ Local(pieces[i]) \in Piece
  BY LenProperties, ElementOfSeq, LocalPiece
<1>2. PICK out \in [0..n -> Seq(Piece)] :
         /\ out[0] = <<>>
         /\ \A i \in 1..n : out[i] = IF Good(pieces[i]) THEN Append(out[i - 1], Local(pieces[i]))
                                     ELSE out[i - 1]
         /\ ParseProxyList(pieces) = out[n]
  BY PiecesLoop
<1>3. \A m \in Nat : c(m) \in Nat /\ c(m + 1) = c(m) + IF Good(pieces[m + 1]) THEN 1 ELSE 0
  BY GoodCounts
<1>4. c(0) = 0
  BY GoodCounts
<1> HIDE DEF c, n
<1>5. Read(out[n], n)
  <2> DEFINE S == {m \in Nat : m <= n => Read(out[m], m)}
  <2>1. 0 \in S
    <3>1. Len(out[0]) = 0 /\ 1..0 = {}
      BY <1>2, EmptySeq
    <3> QED
      BY <1>4, <3>1
  <2>2. ASSUME NEW m \in S
        PROVE  m + 1 \in S
    <3> SUFFICES ASSUME m + 1 <= n
                 PROVE  Read(out[m + 1], m + 1)
      OBVIOUS
    <3> DEFINE p == pieces[m + 1]
    <3>1. /\ m \in Nat /\ m + 1 \in 1..n /\ (m + 1) - 1 = m /\ m \in 0..n
          /\ Read(out[m], m)
      BY <1>1
    <3>2. out[m] \in Seq(Piece) /\ Local(p) \in Piece
      BY <1>1, <1>2, <3>1
    <3>3. out[m + 1] = IF Good(p) THEN Append(out[m], Local(p)) ELSE out[m]
      BY <1>2, <3>1
    <3>4. c(m) \in Nat /\ c(m + 1) = c(m) + IF Good(p) THEN 1 ELSE 0
      BY <1>3, <3>1
    <3>5. /\ Len(out[m]) = c(m)
          /\ \A k \in 1..c(m) :
                \E i \in 1..m : Good(pieces[i]) /\ c(i) = k /\ out[m][k] = Local(pieces[i])
      BY <3>1
    <3>6. \A i \in 1..m : i \in 1..m + 1
      BY <3>1
    <3>7. CASE Good(p)
      <4> DEFINE a == Append(out[m], Local(p))
      <4>1. /\ Len(a) = c(m) + 1 /\ a[c(m) + 1] = Local(p)
            /\ \A k \in 1..c(m) : a[k] = out[m][k]
        BY <3>2, <3>5, AppendProperties
      <4>2. out[m + 1] = a /\ c(m + 1) = c(m) + 1
        BY <3>3, <3>4, <3>7
      <4> HIDE DEF a
      <4>3. ASSUME NEW k \in 1..c(m + 1)
            PROVE  \E i \in 1..m + 1 : Good(pieces[i]) /\ c(i) = k /\ a[k] = Local(pieces[i])
        <5>1. CASE k = c(m) + 1
          <6>1. m + 1 \in 1..m + 1
            BY <3>1
          <6> QED
            BY <3>7, <4>1, <4>2, <5>1, <6>1
        <5>2. CASE k # c(m) + 1
          <6>1. k \in 1..c(m)
            BY <3>4, <4>2, <5>2
          <6>2. PICK i \in 1..m : Good(pieces[i]) /\ c(i) = k /\ out[m][k] = Local(pieces[i])
            BY <3>5, <6>1
          <6> QED
            BY <3>6, <4>1, <6>1, <6>2
        <5> QED
          BY <5>1, <5>2
      <4> QED
        BY <4>1, <4>2, <4>3
    <3>8. CASE ~Good(p)
      <4>1. out[m + 1] = out[m] /\ c(m + 1) = c(m)
        BY <3>3, <3>4, <3>8
      <4>2. ASSUME NEW k \in 1..c(m)
            PROVE  \E i \in 1..m + 1 : Good(pieces[i]) /\ c(i) = k /\ out[m][k] = Local(pieces[i])
        BY <3>5, <3>6
      <4> QED
        BY <3>5, <4>1, <4>2
    <3> QED
      BY <3>7, <3>8
  <2>3. S = Nat
    <3>1. S \in SUBSET Nat
      OBVIOUS
    <3> HIDE DEF S
    <3> QED
      BY <2>1, <2>2, <3>1, AllNumbers
  <2> QED
    BY <1>1, <2>3
<1>6. ParseProxyList(pieces) = out[n] /\ out[n] \in Seq(Piece)
  BY <1>1, <1>2
<1> QED
  BY <1>5, <1>6 DEF c, n

\* No two well-formed pieces have the same number of them up to and with them.
LEMMA OneForEach ==
    ASSUME NEW pieces, NEW i \in Nat, NEW j \in Nat, i < j, Good(pieces[j])
    PROVE  Cardinality(GoodUpto(pieces, i)) < Cardinality(GoodUpto(pieces, j))
<1>1. j - 1 \in Nat /\ (j - 1) + 1 = j /\ i \in 0..j - 1
  OBVIOUS
<1> DEFINE c(k) == Cardinality(GoodUpto(pieces, k))
<1>2. c(i) <= c(j - 1) /\ c((j - 1) + 1) = c(j - 1) + IF Good(pieces[(j - 1) + 1]) THEN 1 ELSE 0
  BY <1>1, GoodCounts
<1>3. c(i) \in Nat /\ c(j - 1) \in Nat
  BY <1>1, GoodCounts
<1> HIDE DEF c
<1>4. c(j) = c(j - 1) + 1
  BY <1>1, <1>2
<1>5. c(i) < c(j)
  BY <1>2, <1>3, <1>4
<1> QED
  BY <1>5 DEF c

\* The list that a command line's pieces ask for, as AskedFor puts it.
Listed(pieces) ==
    LET nth(k) == CHOOSE i \in DOMAIN pieces :
                     Good(pieces[i]) /\ Cardinality({j \in 1..i : Good(pieces[j])}) = k
    IN  [k \in 1..Cardinality({i \in DOMAIN pieces : Good(pieces[i])}) |-> Local(pieces[nth(k)])]

LEMMA ListedIsParsed ==
    ASSUME NEW pieces \in Seq(Piece)
    PROVE  ParseProxyList(pieces) = Listed(pieces)
<1> DEFINE n == Len(pieces)
           c(i) == Cardinality(GoodUpto(pieces, i))
           nth(k) == CHOOSE i \in DOMAIN pieces :
                        Good(pieces[i]) /\ Cardinality({j \in 1..i : Good(pieces[j])}) = k
           list == ParseProxyList(pieces)
<1>1. n \in Nat /\ DOMAIN pieces = 1..n
  BY LenProperties
<1>2. /\ list \in Seq(Piece) /\ Len(list) = c(n)
      /\ \A k \in 1..Len(list) :
            \E i \in 1..n : Good(pieces[i]) /\ c(i) = k /\ list[k] = Local(pieces[i])
  BY Parsed
<1>3. Listed(pieces) = [k \in 1..c(n) |-> Local(pieces[nth(k)])]
  BY <1>1 DEF Listed, GoodUpto
<1>4. \A i \in DOMAIN pieces : c(i) = Cardinality({j \in 1..i : Good(pieces[j])})
  BY DEF GoodUpto
<1> HIDE DEF list, n
<1>5. ASSUME NEW k \in 1..c(n)
      PROVE  list[k] = Local(pieces[nth(k)])
  <2>1. PICK i \in 1..n : Good(pieces[i]) /\ c(i) = k /\ list[k] = Local(pieces[i])
    BY <1>2
  <2>2. \E m \in DOMAIN pieces : Good(pieces[m]) /\ Cardinality({j \in 1..m : Good(pieces[j])}) = k
    BY <1>1, <1>4, <2>1
  <2>3. nth(k) \in DOMAIN pieces /\ Good(pieces[nth(k)]) /\ c(nth(k)) = k
    <3>1. /\ nth(k) \in DOMAIN pieces
          /\ Good(pieces[nth(k)]) /\ Cardinality({j \in 1..nth(k) : Good(pieces[j])}) = k
      BY <2>2
    <3> HIDE DEF nth
    <3> QED
      BY <1>4, <3>1
  <2> HIDE DEF nth
  <2>4. nth(k) = i
    <3>1. i \in Nat /\ nth(k) \in Nat /\ c(i) \in Nat
      BY <1>1, <2>1, <2>3, GoodCounts
    <3>2. ~(i < nth(k))
      <4> SUFFICES ASSUME i < nth(k)
                   PROVE  FALSE
        OBVIOUS
      <4>1. c(i) < c(nth(k))
        BY <2>3, <3>1, OneForEach
      <4> HIDE DEF c
      <4> QED
        BY <2>1, <2>3, <3>1, <4>1
    <3>3. ~(nth(k) < i)
      <4> SUFFICES ASSUME nth(k) < i
                   PROVE  FALSE
        OBVIOUS
      <4>1. c(nth(k)) < c(i)
        BY <2>1, <3>1, OneForEach
      <4> HIDE DEF c
      <4> QED
        BY <2>1, <2>3, <3>1, <4>1
    <3> QED
      BY <3>1, <3>2, <3>3
  <2> QED
    BY <2>1, <2>4
<1>6. list = [k \in 1..c(n) |-> list[k]]
  <2>1. DOMAIN list = 1..c(n)
    BY <1>2, LenProperties
  <2>2. list = [k \in DOMAIN list |-> list[k]]
    BY <1>2
  <2> QED
    BY <2>1, <2>2
<1>7. list = [k \in 1..c(n) |-> Local(pieces[nth(k)])]
  BY <1>5, <1>6
<1> QED
  BY <1>3, <1>7 DEF list

\* Pieces that need no repair.
WellFormed(list) == \A k \in DOMAIN list : Good(list[k]) /\ list[k].host # ""

LEMMA SamePort ==
    ASSUME NEW p, NEW q, Good(p), q.port = p.port
    PROVE  Good(q)
BY DEF Good

\* What is parsed needs none, and is nothing only if no piece is well formed.
LEMMA ParsedIsWellFormed ==
    ASSUME NEW pieces \in Seq(Piece)
    PROVE  /\ ParseProxyList(pieces) \in Seq(Piece) /\ WellFormed(ParseProxyList(pieces))
           /\ ParseProxyList(pieces) # <<>> <=> \E i \in DOMAIN pieces : Good(pieces[i])
<1> DEFINE n == Len(pieces)
           c(i) == Cardinality(GoodUpto(pieces, i))
           list == ParseProxyList(pieces)
<1>1. n \in Nat /\ DOMAIN pieces = 1..n /\ \A i \in 1..n : pieces[i] \in Piece
  BY LenProperties, ElementOfSeq
<1>2. /\ list \in Seq(Piece) /\ Len(list) = c(n)
      /\ \A k \in 1..Len(list) :
            \E i \in 1..n : Good(pieces[i]) /\ c(i) = k /\ list[k] = Local(pieces[i])
  BY Parsed
<1>3. IsFiniteSet(GoodUpto(pieces, n)) /\ c(n) \in Nat
  BY <1>1, GoodCounts
<1>4. c(n) = 0 <=> GoodUpto(pieces, n) = {}
  BY <1>3, FS_EmptySet
<1>5. GoodUpto(pieces, n) # {} <=> \E i \in DOMAIN pieces : Good(pieces[i])
  BY <1>1 DEF GoodUpto
<1> HIDE DEF c, n, list
<1>6. DOMAIN list = 1..Len(list) /\ (list # <<>> <=> c(n) # 0)
  BY <1>2, LenProperties, EmptySeq
<1>7. ASSUME NEW k \in DOMAIN list
      PROVE  Good(list[k]) /\ list[k].host # ""
  <2>1. PICK i \in 1..n : Good(pieces[i]) /\ list[k] = Local(pieces[i])
    BY <1>2, <1>6
  <2>2. Local(pieces[i]).host # "" /\ Local(pieces[i]).port = pieces[i].port
    BY <1>1, LocalPiece
  <2>3. list[k].port = pieces[i].port /\ list[k].host # ""
    BY <2>1, <2>2
  <2>4. Good(list[k])
    BY <2>1, <2>3, SamePort
  <2> QED
    BY <2>3, <2>4
<1> QED
  BY <1>2, <1>4, <1>5, <1>6, <1>7 DEF list, WellFormed

\* Printing the endpoints and parsing them again changes nothing.
LEMMA ParsedAgain ==
    ASSUME NEW list \in Seq(Piece), WellFormed(list)
    PROVE  ParseProxyList(list) = list
<1> DEFINE n == Len(list)
           c(i) == Cardinality(GoodUpto(list, i))
           again == ParseProxyList(list)
<1>1. n \in Nat /\ DOMAIN list = 1..n
  BY LenProperties
<1>2. /\ again \in Seq(Piece) /\ Len(again) = c(n)
      /\ \A k \in 1..Len(again) :
            \E i \in 1..n : Good(list[i]) /\ c(i) = k /\ again[k] = Local(list[i])
  BY Parsed
<1>3. ASSUME NEW i \in 0..n
      PROVE  c(i) = i
  <2>1. GoodUpto(list, i) = 1..i
    <3>1. \A j \in 1..i : j \in DOMAIN list
      BY <1>1
    <3>2. \A j \in 1..i : Good(list[j])
      BY <3>1 DEF WellFormed
    <3> QED
      BY <3>2 DEF GoodUpto
  <2> QED
    BY <1>1, <2>1, FS_Interval
<1>4. n \in 0..n /\ \A i \in 1..n : i \in 0..n
  BY <1>1
<1> HIDE DEF c, n, again
<1>5. Len(again) = n /\ DOMAIN again = 1..n
  BY <1>2, <1>3, <1>4, LenProperties
<1>6. ASSUME NEW k \in 1..n
      PROVE  again[k] = list[k]
  <2>1. PICK i \in 1..n : c(i) = k /\ again[k] = Local(list[i])
    BY <1>2, <1>5
  <2>2. i = k
    BY <1>3, <1>4, <2>1
  <2>3. Local(list[k]) = list[k]
    BY <1>1 DEF Local, WellFormed
  <2> QED
    BY <2>1, <2>2, <2>3
<1>7. again = [k \in 1..n |-> again[k]] /\ list = [k \in 1..n |-> list[k]]
  <2>1. again = [k \in DOMAIN again |-> again[k]]
    BY <1>2
  <2>2. list = [k \in DOMAIN list |-> list[k]]
    OBVIOUS
  <2> QED
    BY <1>1, <1>5, <2>1, <2>2
<1>8. again = list
  BY <1>6, <1>7
<1> QED
  BY <1>8 DEF again

----------------------------------------------------------------------------
(* What the flags make of the configuration *)

Cfg == [torHost : Hosts, torPort : Nat, torProxies : Seq(Piece),
        useProxyPool : BOOLEAN, onionRetries : Nat, circuitRotateInterval : Int]

LEMMA SameModulo ==
    ASSUME NEW n \in 0..Wrap - 1
    PROVE  n % Wrap = n
BY TorArgsAssumption

\* The fields of a record of the configuration.
LEMMA CfgFields ==
    ASSUME NEW cfg \in Cfg
    PROVE  /\ cfg = [torHost |-> cfg.torHost, torPort |-> cfg.torPort,
                     torProxies |-> cfg.torProxies, useProxyPool |-> cfg.useProxyPool,
                     onionRetries |-> cfg.onionRetries,
                     circuitRotateInterval |-> cfg.circuitRotateInterval]
           /\ cfg.torHost \in Hosts /\ cfg.torPort \in Nat /\ cfg.torProxies \in Seq(Piece)
           /\ cfg.useProxyPool \in BOOLEAN /\ cfg.onionRetries \in Nat
           /\ cfg.circuitRotateInterval \in Int
BY DEF Cfg

\* The flag i is the last of those in S up to k.
LastOf(S, k, i) == i \in S /\ i <= k /\ \A j \in S : j <= k => j <= i
NoneOf(S, k) == \A j \in S : ~(j <= k)

NumberOf(flag) == IF flag.number THEN flag.n ELSE 0

\* A value is that of the last of an option's numbers up to k.
LastNumber(value, flags, arg, k) ==
    \/ NoneOf(NumbersOf(flags, arg), k) /\ value = 0
    \/ \E i \in NumbersOf(flags, arg) :
          LastOf(NumbersOf(flags, arg), k, i) /\ value = NumberOf(flags[i])

\* The first endpoint and the others are those of a list.
HasList(cfg, list) ==
    /\ cfg.torHost = Head(list).host /\ cfg.torPort = Head(list).port
    /\ cfg.torProxies = Tail(list)

\* What the flags up to k have made of the configuration.
GivenSoFar(cfg, flags, k) ==
    /\ cfg.useProxyPool <=> \E i \in 1..k : flags[i].arg = "--tor-pool"
    /\ \/ /\ NoneOf(ListsOf(flags), k)
          /\ cfg.torHost = Localhost /\ cfg.torPort = 9050 /\ cfg.torProxies = <<>>
       \/ \E i \in ListsOf(flags) :
             LastOf(ListsOf(flags), k, i) /\ HasList(cfg, ParseProxyList(flags[i].pieces))
    /\ LastNumber(cfg.onionRetries, flags, "--onion-retries", k)
    /\ LastNumber(cfg.circuitRotateInterval, flags, "--circuit-rotate", k)

LEMMA LastOfNext ==
    ASSUME NEW S \in SUBSET Nat, NEW k \in Nat \ {0}
    PROVE  /\ k \in S => LastOf(S, k, k)
           /\ k \notin S => /\ NoneOf(S, k - 1) => NoneOf(S, k)
                            /\ \A i \in S : LastOf(S, k - 1, i) => LastOf(S, k, i)
<1>1. \A j \in S : j <= k <=> j <= k - 1 \/ j = k
  OBVIOUS
<1>2. \A j \in S : j <= k - 1 => j <= k
  OBVIOUS
<1>3. k \in S => LastOf(S, k, k)
  BY DEF LastOf
<1>4. k \notin S => \A j \in S : j <= k <=> j <= k - 1
  BY <1>1
<1> QED
  BY <1>3, <1>4 DEF LastOf, NoneOf

\* What one flag does to the configuration, whichever it is.
LEMMA FlagParsed ==
    ASSUME NEW cfg \in Cfg, NEW flag \in Flag
    PROVE  LET next == ParseTorFlag(cfg, flag) IN
           /\ next \in Cfg
           /\ next.useProxyPool <=> cfg.useProxyPool \/ flag.arg = "--tor-pool"
           /\ IF flag.arg = "--tor-proxy" /\ \E k \in DOMAIN flag.pieces : Good(flag.pieces[k])
              THEN HasList(next, ParseProxyList(flag.pieces))
              ELSE /\ next.torHost = cfg.torHost /\ next.torPort = cfg.torPort
                   /\ next.torProxies = cfg.torProxies
           /\ next.onionRetries = IF flag.arg = "--onion-retries" /\ flag.given
                                  THEN NumberOf(flag) ELSE cfg.onionRetries
           /\ next.circuitRotateInterval = IF flag.arg = "--circuit-rotate" /\ flag.given
                                           THEN NumberOf(flag) ELSE cfg.circuitRotateInterval
<1> DEFINE next == ParseTorFlag(cfg, flag)
<1>1. /\ cfg = [torHost |-> cfg.torHost, torPort |-> cfg.torPort,
                torProxies |-> cfg.torProxies, useProxyPool |-> cfg.useProxyPool,
                onionRetries |-> cfg.onionRetries,
                circuitRotateInterval |-> cfg.circuitRotateInterval]
      /\ cfg.torHost \in Hosts /\ cfg.torPort \in Nat /\ cfg.torProxies \in Seq(Piece)
      /\ cfg.useProxyPool \in BOOLEAN /\ cfg.onionRetries \in Nat
      /\ cfg.circuitRotateInterval \in Int
  BY CfgFields
<1>2. CASE flag.arg = "--tor-pool"
  <2>1. next = [cfg EXCEPT !.useProxyPool = TRUE]
    BY <1>2 DEF ParseTorFlag
  <2> HIDE DEF next
  <2>2. /\ next \in Cfg /\ next.useProxyPool = TRUE /\ next.onionRetries = cfg.onionRetries
        /\ next.torHost = cfg.torHost /\ next.torPort = cfg.torPort
        /\ next.torProxies = cfg.torProxies
        /\ next.circuitRotateInterval = cfg.circuitRotateInterval
    BY <1>1, <2>1 DEF Cfg
  <2> QED
    BY <1>2, <2>2 DEF next
<1>3. CASE flag.arg = "--tor-proxy"
  <2> DEFINE list == ParseProxyList(flag.pieces)
  <2>1. flag.pieces \in Seq(Piece)
    BY <1>3 DEF Flag
  <2>2. next = WithProxies(cfg, list)
    BY <1>3 DEF ParseTorFlag
  <2>3. /\ list \in Seq(Piece)
        /\ list # <<>> <=> \E k \in DOMAIN flag.pieces : Good(flag.pieces[k])
    BY <2>1, ParsedIsWellFormed
  <2> HIDE DEF next, list
  <2>4. CASE list = <<>>
    <3>1. next = cfg
      BY <2>2, <2>4 DEF WithProxies
    <3> QED
      BY <1>1, <1>3, <2>3, <2>4, <3>1 DEF next
  <2>5. CASE list # <<>>
    <3>1. Head(list) \in Piece /\ Tail(list) \in Seq(Piece)
      BY <2>3, <2>5, HeadTailProperties
    <3>2. Head(list).host \in Hosts /\ Head(list).port \in Nat
      BY <3>1 DEF Piece
    <3>3. next = [cfg EXCEPT !.torHost = Head(list).host, !.torPort = Head(list).port,
                             !.torProxies = Tail(list)]
      BY <2>2, <2>5 DEF WithProxies
    <3>4. /\ next \in Cfg /\ HasList(next, list)
          /\ next.useProxyPool = cfg.useProxyPool /\ next.onionRetries = cfg.onionRetries
          /\ next.circuitRotateInterval = cfg.circuitRotateInterval
      BY <1>1, <3>1, <3>2, <3>3 DEF Cfg, HasList
    <3> QED
      BY <1>3, <2>3, <2>5, <3>4 DEF next, list
  <2> QED
    BY <2>4, <2>5
<1>4. CASE flag.arg = "--onion-retries"
  <2>1. flag.given \in BOOLEAN /\ flag.number \in BOOLEAN /\ flag.n \in 0..Wrap - 1
    BY <1>4 DEF Flag
  <2>2. CASE flag.given
    <3>1. next = [cfg EXCEPT !.onionRetries = Unsigned(flag)]
      BY <1>4, <2>2 DEF ParseTorFlag
    <3>2. Unsigned(flag) = NumberOf(flag)
      BY <2>1, SameModulo DEF Unsigned, NumberOf
    <3>3. Unsigned(flag) \in Nat
      BY <2>1, <3>2, TorArgsAssumption DEF NumberOf
    <3> HIDE DEF next
    <3>4. /\ next \in Cfg /\ next.onionRetries = Unsigned(flag)
          /\ next.useProxyPool = cfg.useProxyPool /\ next.torHost = cfg.torHost
          /\ next.torPort = cfg.torPort /\ next.torProxies = cfg.torProxies
          /\ next.circuitRotateInterval = cfg.circuitRotateInterval
      BY <1>1, <3>1, <3>3 DEF Cfg
    <3> QED
      BY <1>4, <2>2, <3>2, <3>4 DEF next
  <2>3. CASE ~flag.given
    <3>1. next = cfg
      BY <1>4, <2>3 DEF ParseTorFlag
    <3> QED
      BY <1>4, <2>3, <3>1
  <2> QED
    BY <2>2, <2>3
<1>5. CASE flag.arg = "--circuit-rotate"
  <2>1. flag.given \in BOOLEAN /\ flag.number \in BOOLEAN /\ flag.n \in Int
    BY <1>5 DEF Flag
  <2>2. CASE flag.given
    <3>1. next = [cfg EXCEPT !.circuitRotateInterval = Signed(flag)]
      BY <1>5, <2>2 DEF ParseTorFlag
    <3>2. Signed(flag) \in Int /\ Signed(flag) = NumberOf(flag)
      BY <2>1 DEF Signed, NumberOf
    <3> HIDE DEF next
    <3>3. /\ next \in Cfg /\ next.circuitRotateInterval = Signed(flag)
          /\ next.useProxyPool = cfg.useProxyPool /\ next.onionRetries = cfg.onionRetries
          /\ next.torHost = cfg.torHost /\ next.torPort = cfg.torPort
          /\ next.torProxies = cfg.torProxies
      BY <1>1, <3>1, <3>2 DEF Cfg
    <3> QED
      BY <1>5, <2>2, <3>2, <3>3 DEF next
  <2>3. CASE ~flag.given
    <3>1. next = cfg
      BY <1>5, <2>3 DEF ParseTorFlag
    <3> QED
      BY <1>5, <2>3, <3>1
  <2> QED
    BY <2>2, <2>3
<1>6. flag.arg \in {"--tor-pool", "--tor-proxy", "--onion-retries", "--circuit-rotate"}
  BY DEF Flag
<1> HIDE DEF next
<1> QED
  BY <1>2, <1>3, <1>4, <1>5, <1>6

\* An option's value when the next flag has been read.
LEMMA NextNumber ==
    ASSUME NEW flags \in Seq(Flag), NEW k \in 1..Len(flags), NEW arg, NEW before, NEW after,
           LastNumber(before, flags, arg, k - 1),
           after = IF flags[k].arg = arg /\ flags[k].given THEN NumberOf(flags[k]) ELSE before
    PROVE  LastNumber(after, flags, arg, k)
<1> DEFINE R == NumbersOf(flags, arg)
<1>1. k \in Nat \ {0} /\ k \in DOMAIN flags /\ R \in SUBSET Nat
  BY LenProperties DEF NumbersOf
<1>2. k \in R <=> flags[k].arg = arg /\ flags[k].given
  BY <1>1 DEF NumbersOf
<1>3. \/ NoneOf(R, k - 1) /\ before = 0
      \/ \E i \in R : LastOf(R, k - 1, i) /\ before = NumberOf(flags[i])
  BY DEF LastNumber
<1>4. after = IF k \in R THEN NumberOf(flags[k]) ELSE before
  BY <1>2
<1> HIDE DEF R
<1>5. CASE k \in R
  <2>1. LastOf(R, k, k)
    BY <1>1, <1>5, LastOfNext
  <2> QED
    BY <1>4, <1>5, <2>1 DEF LastNumber, R
<1>6. CASE k \notin R
  <2>1. /\ NoneOf(R, k - 1) => NoneOf(R, k)
        /\ \A i \in R : LastOf(R, k - 1, i) => LastOf(R, k, i)
    BY <1>1, <1>6, LastOfNext
  <2> QED
    BY <1>3, <1>4, <1>6, <2>1 DEF LastNumber, R
<1> QED
  BY <1>5, <1>6

\* The next flag is a list, a number, the pool, or nothing to either.
LEMMA FlagStep ==
    ASSUME NEW flags \in Seq(Flag), NEW k \in 1..Len(flags), NEW cfg \in Cfg,
           GivenSoFar(cfg, flags, k - 1)
    PROVE  GivenSoFar(ParseTorFlag(cfg, flags[k]), flags, k)
<1> DEFINE flag == flags[k]
           next == ParseTorFlag(cfg, flag)
           L == ListsOf(flags)
<1>1. k \in Nat \ {0} /\ k \in DOMAIN flags /\ flag \in Flag
  BY LenProperties, ElementOfSeq
<1>2. L \in SUBSET Nat
  BY LenProperties DEF ListsOf
<1>3. k \in L <=> flag.arg = "--tor-proxy" /\ \E i \in DOMAIN flag.pieces : Good(flag.pieces[i])
  BY <1>1 DEF ListsOf
<1>4. /\ next.useProxyPool <=> cfg.useProxyPool \/ flag.arg = "--tor-pool"
      /\ IF flag.arg = "--tor-proxy" /\ \E i \in DOMAIN flag.pieces : Good(flag.pieces[i])
         THEN HasList(next, ParseProxyList(flag.pieces))
         ELSE /\ next.torHost = cfg.torHost /\ next.torPort = cfg.torPort
              /\ next.torProxies = cfg.torProxies
      /\ next.onionRetries = IF flag.arg = "--onion-retries" /\ flag.given
                             THEN NumberOf(flag) ELSE cfg.onionRetries
      /\ next.circuitRotateInterval = IF flag.arg = "--circuit-rotate" /\ flag.given
                                      THEN NumberOf(flag) ELSE cfg.circuitRotateInterval
  BY <1>1, FlagParsed
<1>5. IF k \in L THEN HasList(next, ParseProxyList(flag.pieces))
      ELSE /\ next.torHost = cfg.torHost /\ next.torPort = cfg.torPort
           /\ next.torProxies = cfg.torProxies
  BY <1>3, <1>4
<1>6. /\ cfg.useProxyPool <=> \E i \in 1..k - 1 : flags[i].arg = "--tor-pool"
      /\ \/ /\ NoneOf(L, k - 1)
            /\ cfg.torHost = Localhost /\ cfg.torPort = 9050 /\ cfg.torProxies = <<>>
         \/ \E i \in L : LastOf(L, k - 1, i) /\ HasList(cfg, ParseProxyList(flags[i].pieces))
      /\ LastNumber(cfg.onionRetries, flags, "--onion-retries", k - 1)
      /\ LastNumber(cfg.circuitRotateInterval, flags, "--circuit-rotate", k - 1)
  BY DEF GivenSoFar
<1> HIDE DEF next, L
<1>7. next.useProxyPool <=> \E i \in 1..k : flags[i].arg = "--tor-pool"
  <2>1. \A i : i \in 1..k <=> i \in 1..k - 1 \/ i = k
    BY <1>1
  <2> QED
    BY <1>4, <1>6, <2>1
<1>8. \/ /\ NoneOf(L, k)
         /\ next.torHost = Localhost /\ next.torPort = 9050 /\ next.torProxies = <<>>
      \/ \E i \in L : LastOf(L, k, i) /\ HasList(next, ParseProxyList(flags[i].pieces))
  <2>1. CASE k \in L
    <3>1. LastOf(L, k, k)
      BY <1>1, <1>2, <2>1, LastOfNext
    <3> QED
      BY <1>5, <2>1, <3>1
  <2>2. CASE k \notin L
    <3>1. /\ NoneOf(L, k - 1) => NoneOf(L, k)
          /\ \A i \in L : LastOf(L, k - 1, i) => LastOf(L, k, i)
      BY <1>1, <1>2, <2>2, LastOfNext
    <3>2. \A list : HasList(cfg, list) => HasList(next, list)
      BY <1>5, <2>2 DEF HasList
    <3> QED
      BY <1>5, <1>6, <2>2, <3>1, <3>2
  <2> QED
    BY <2>1, <2>2
<1>9. /\ LastNumber(next.onionRetries, flags, "--onion-retries", k)
      /\ LastNumber(next.circuitRotateInterval, flags, "--circuit-rotate", k)
  BY <1>4, <1>6, NextNumber
<1> QED
  BY <1>7, <1>8, <1>9 DEF GivenSoFar, next, L

\* The loop over the flags, one after the other.
LEMMA ArgsLoop ==
    ASSUME NEW flags \in Seq(Flag)
    PROVE  \E cfg \in [0..Len(flags) -> Cfg] :
              /\ cfg[0] = Defaults
              /\ \A i \in 1..Len(flags) : cfg[i] = ParseTorFlag(cfg[i - 1], flags[i])
              /\ ParseArgs(flags) = cfg[Len(flags)]
<1> DEFINE n == Len(flags)
           step == [x \in (1..n) \X Cfg |-> ParseTorFlag(x[2], flags[x[1]])]
           Body(g) == [i \in 0..n |-> IF i = 0 THEN Defaults ELSE ParseTorFlag(g[i - 1], flags[i])]
           cfg == CHOOSE g : g = Body(g)
<1>1. n \in Nat /\ \A i \in 1..n : flags[i] \in Flag /\ i - 1 \in 0..n
  BY LenProperties, ElementOfSeq
<1>2. Defaults \in Cfg
  <2>1. <<>> \in Seq(Piece) /\ Localhost \in Hosts
    BY EmptySeq DEF Hosts
  <2> QED
    BY <2>1 DEF Defaults, Cfg
<1>3. ASSUME NEW i \in 1..n, NEW c \in Cfg
      PROVE  ParseTorFlag(c, flags[i]) \in Cfg
  BY <1>1, FlagParsed
<1>4. ParseArgs(flags) = cfg[n]
  BY DEF ParseArgs
<1> HIDE DEF n
<1>5. step \in [(1..n) \X Cfg -> Cfg]
  BY <1>3
<1>6. \A i \in 1..n, c \in Cfg : step[<<i, c>>] = ParseTorFlag(c, flags[i])
  OBVIOUS
<1> HIDE DEF step
<1>7. PICK f \in [0..n -> Cfg] : f[0] = Defaults /\ \A i \in 1..n : f[i] = step[<<i, f[i - 1]>>]
  <2>1. n \in Nat /\ step \in Steps(n, Cfg)
    BY <1>1, <1>5 DEF Steps
  <2>2. \E f \in [0..n -> Cfg] : Runs(f, Defaults, n, step)
    BY <1>2, <2>1, Iterates
  <2> QED
    BY <2>2 DEF Runs
<1>8. f = Body(f)
  <2>1. ASSUME NEW k \in 0..n
        PROVE  f[k] = IF k = 0 THEN Defaults ELSE ParseTorFlag(f[k - 1], flags[k])
    <3>1. CASE k = 0
      BY <1>7, <3>1
    <3>2. CASE k # 0
      <4>1. k \in 1..n /\ k - 1 \in 0..n
        BY <1>1, <3>2
      <4>2. f[k - 1] \in Cfg
        BY <4>1
      <4>3. f[k] = ParseTorFlag(f[k - 1], flags[k])
        BY <1>6, <1>7, <4>1, <4>2
      <4> QED
        BY <3>2, <4>3
    <3> QED
      BY <3>1, <3>2
  <2> QED
    BY <2>1
<1>9. cfg = Body(cfg)
  <2>1. \E g : g = Body(g)
    BY <1>8
  <2> HIDE DEF Body
  <2> QED
    BY <2>1
<1> HIDE DEF cfg
<1>10. /\ DOMAIN cfg = 0..n
       /\ \A k \in 0..n : cfg[k] = IF k = 0 THEN Defaults ELSE ParseTorFlag(cfg[k - 1], flags[k])
  BY <1>9
<1>11. cfg[0] = Defaults /\ \A i \in 1..n : cfg[i] = ParseTorFlag(cfg[i - 1], flags[i])
  <2>1. 0 \in 0..n /\ \A i \in 1..n : i \in 0..n /\ i # 0
    BY <1>1
  <2> QED
    BY <1>10, <2>1
<1>12. \A k \in 0..n : cfg[k] \in Cfg
  <2> DEFINE S == {m \in Nat : m <= n => cfg[m] \in Cfg}
  <2>1. 0 \in S
    BY <1>2, <1>11
  <2>2. ASSUME NEW m \in S
        PROVE  m + 1 \in S
    <3> SUFFICES ASSUME m + 1 <= n
                 PROVE  cfg[m + 1] \in Cfg
      OBVIOUS
    <3>1. m + 1 \in 1..n /\ (m + 1) - 1 = m /\ cfg[m] \in Cfg
      BY <1>1
    <3>2. cfg[m + 1] = ParseTorFlag(cfg[m], flags[m + 1])
      BY <1>11, <3>1
    <3> QED
      BY <1>3, <3>1, <3>2
  <2>3. S = Nat
    <3>1. S \in SUBSET Nat
      OBVIOUS
    <3> HIDE DEF S
    <3> QED
      BY <2>1, <2>2, <3>1, AllNumbers
  <2>4. \A k \in 0..n : k \in S /\ k <= n
    BY <1>1, <2>3
  <2> QED
    BY <2>4
<1>13. cfg \in [0..n -> Cfg]
  <2>1. cfg = [k \in 0..n |-> cfg[k]]
    BY <1>9
  <2> QED
    BY <1>12, <2>1
<1> QED
  BY <1>4, <1>11, <1>13 DEF n

LEMMA ArgsGiven ==
    ASSUME NEW flags \in Seq(Flag)
    PROVE  ParseArgs(flags) \in Cfg /\ GivenSoFar(ParseArgs(flags), flags, Len(flags))
<1> DEFINE n == Len(flags)
<1>1. n \in Nat /\ DOMAIN flags = 1..n
  BY LenProperties
<1>2. PICK cfg \in [0..n -> Cfg] :
         /\ cfg[0] = Defaults
         /\ \A i \in 1..n : cfg[i] = ParseTorFlag(cfg[i - 1], flags[i])
         /\ ParseArgs(flags) = cfg[n]
  BY ArgsLoop
<1>3. GivenSoFar(Defaults, flags, 0)
  <2>1. NoneOf(ListsOf(flags), 0) /\ \A arg : NoneOf(NumbersOf(flags, arg), 0)
    BY <1>1 DEF NoneOf, ListsOf, NumbersOf
  <2> QED
    BY <2>1 DEF GivenSoFar, LastNumber, Defaults
<1>4. GivenSoFar(cfg[n], flags, n)
  <2> DEFINE S == {m \in Nat : m <= n => GivenSoFar(cfg[m], flags, m)}
  <2>1. 0 \in S
    BY <1>2, <1>3
  <2>2. ASSUME NEW m \in S
        PROVE  m + 1 \in S
    <3> SUFFICES ASSUME m + 1 <= n
                 PROVE  GivenSoFar(cfg[m + 1], flags, m + 1)
      OBVIOUS
    <3>1. m + 1 \in 1..n /\ (m + 1) - 1 = m /\ m \in 0..n /\ GivenSoFar(cfg[m], flags, m)
      BY <1>1
    <3>2. cfg[m] \in Cfg
      BY <3>1
    <3>3. GivenSoFar(ParseTorFlag(cfg[m], flags[m + 1]), flags, m + 1)
      BY <3>1, <3>2, FlagStep
    <3>4. cfg[m + 1] = ParseTorFlag(cfg[m], flags[m + 1])
      BY <1>2, <3>1
    <3> QED
      BY <3>3, <3>4
  <2>3. S = Nat
    <3>1. S \in SUBSET Nat
      OBVIOUS
    <3> HIDE DEF S
    <3> QED
      BY <2>1, <2>2, <3>1, AllNumbers
  <2> QED
    BY <1>1, <2>3
<1>5. cfg[n] \in Cfg
  BY <1>1
<1> QED
  BY <1>2, <1>4, <1>5

LEMMA LatestIs ==
    ASSUME NEW S \in SUBSET Nat, NEW i \in S, \A j \in S : j <= i
    PROVE  S # {} /\ Latest(S) = i
<1>1. \E k \in S : \A j \in S : j <= k
  OBVIOUS
<1>2. Latest(S) \in S /\ \A j \in S : j <= Latest(S)
  BY <1>1 DEF Latest
<1>3. Latest(S) <= i /\ i <= Latest(S) /\ Latest(S) \in Nat /\ i \in Nat
  BY <1>2
<1> QED
  BY <1>3

\* A list of endpoints is its first one and the rest.
LEMMA FirstAndRest ==
    ASSUME NEW list \in Seq(Piece), list # <<>>, WellFormed(list)
    PROVE  /\ Head(list) \in Piece /\ Tail(list) \in Seq(Piece)
           /\ list = <<Head(list)>> \o Tail(list) /\ WellFormed(Tail(list))
           /\ Head(list) = [host |-> Head(list).host, port |-> Head(list).port]
<1> DEFINE n == Len(list)
           h == Head(list)
           t == Tail(list)
           c == <<h>> \o t
<1>1. /\ h \in Piece /\ t \in Seq(Piece) /\ h = list[1]
      /\ Len(t) = n - 1 /\ \A i \in 1..n - 1 : t[i] = list[i + 1]
  BY HeadTailProperties
<1>2. n \in Nat \ {0} /\ DOMAIN list = 1..n /\ DOMAIN t = 1..n - 1
  BY <1>1, LenProperties, EmptySeq
<1>3. h = [host |-> h.host, port |-> h.port]
  BY <1>1 DEF Piece
<1>4. WellFormed(t)
  <2>1. \A i \in 1..n - 1 : i + 1 \in 1..n
    BY <1>2
  <2> HIDE DEF n, t
  <2> QED
    BY <1>1, <1>2, <2>1 DEF WellFormed
<1>5. /\ <<h>> \in Seq(Piece) /\ Len(<<h>>) = 1 /\ <<h>>[1] = h
  BY <1>1
<1> HIDE DEF n, h, t
<1>6. /\ c \in Seq(Piece) /\ Len(c) = 1 + (n - 1)
      /\ \A i \in 1..1 + (n - 1) : c[i] = IF i <= 1 THEN <<h>>[i] ELSE t[i - 1]
  BY <1>1, <1>5, ConcatProperties
<1> HIDE DEF c
<1>7. ASSUME NEW i \in 1..n
      PROVE  c[i] = list[i]
  <2>1. i \in 1..1 + (n - 1)
    BY <1>2
  <2>2. CASE i = 1
    BY <1>1, <1>5, <1>6, <2>1, <2>2
  <2>3. CASE i # 1
    <3>1. ~(i <= 1) /\ i - 1 \in 1..n - 1 /\ (i - 1) + 1 = i
      BY <1>2, <2>3
    <3> QED
      BY <1>1, <1>6, <2>1, <3>1
  <2> QED
    BY <2>2, <2>3
<1>8. Len(c) = n /\ c \in Seq(Piece)
  BY <1>2, <1>6
<1>9. c = list
  BY <1>2, <1>7, <1>8, SeqEqual DEF n
<1> QED
  BY <1>1, <1>3, <1>4, <1>9 DEF c, h, t

\* The configuration that the flags leave is what the command line asks for.
LEMMA OptionsRead ==
    ASSUME NEW flags \in Seq(Flag)
    PROVE  LET cfg == ParseArgs(flags) IN
           /\ cfg \in Cfg /\ EndpointsOf(cfg) = AskedFor(flags)
           /\ cfg.onionRetries = RetriesAskedFor(flags)
           /\ cfg.circuitRotateInterval = RotationAskedFor(flags)
           /\ cfg.useProxyPool <=> \E i \in DOMAIN flags : flags[i].arg = "--tor-pool"
<1> DEFINE cfg == ParseArgs(flags)
           n == Len(flags)
           L == ListsOf(flags)
           asked == AskedFor(flags)
<1>1. cfg \in Cfg /\ GivenSoFar(cfg, flags, n)
  BY ArgsGiven
<1>2. n \in Nat /\ DOMAIN flags = 1..n
  BY LenProperties
<1>3. L \in SUBSET (1..n) /\ \A arg : NumbersOf(flags, arg) \in SUBSET (1..n)
  BY <1>2 DEF ListsOf, NumbersOf
<1>4. \A S \in SUBSET (1..n) : \A i : LastOf(S, n, i) => S # {} /\ Latest(S) = i
  <2>1. ASSUME NEW S \in SUBSET (1..n), NEW i, LastOf(S, n, i)
        PROVE  S # {} /\ Latest(S) = i
    <3>1. S \in SUBSET Nat /\ i \in S /\ \A j \in S : j <= i
      BY <1>2, <2>1 DEF LastOf
    <3> QED
      BY <3>1, LatestIs
  <2> QED
    BY <2>1
<1>5. \A S \in SUBSET (1..n) : NoneOf(S, n) => S = {}
  BY <1>2 DEF NoneOf
<1>6. /\ cfg.useProxyPool <=> \E i \in 1..n : flags[i].arg = "--tor-pool"
      /\ \/ /\ NoneOf(L, n)
            /\ cfg.torHost = Localhost /\ cfg.torPort = 9050 /\ cfg.torProxies = <<>>
         \/ \E i \in L : LastOf(L, n, i) /\ HasList(cfg, ParseProxyList(flags[i].pieces))
      /\ LastNumber(cfg.onionRetries, flags, "--onion-retries", n)
      /\ LastNumber(cfg.circuitRotateInterval, flags, "--circuit-rotate", n)
  BY <1>1 DEF GivenSoFar
<1>7. \A i \in L : /\ flags[i].pieces \in Seq(Piece)
                   /\ \E k \in DOMAIN flags[i].pieces : Good(flags[i].pieces[k])
  <2>1. ASSUME NEW i \in L
        PROVE  flags[i].pieces \in Seq(Piece)
    <3>1. flags[i] \in Flag /\ flags[i].arg = "--tor-proxy"
      BY <1>2, <1>3, ElementOfSeq DEF ListsOf
    <3> QED
      BY <3>1 DEF Flag
  <2> QED
    BY <2>1 DEF ListsOf
<1> HIDE DEF cfg, n, L
<1>8. EndpointsOf(cfg) = asked
  <2>1. CASE NoneOf(L, n) /\ cfg.torHost = Localhost /\ cfg.torPort = 9050 /\ cfg.torProxies = <<>>
    <3>1. asked = <<[host |-> Localhost, port |-> 9050]>>
      BY <1>3, <1>5, <2>1 DEF AskedFor, L
    <3>2. <<>> \in Seq(Piece) /\ WellFormed(<<>>)
      BY EmptySeq DEF WellFormed
    <3>3. ParseProxyList(<<>>) = <<>>
      BY <3>2, ParsedAgain
    <3>4. ParseProxyList(cfg.torProxies) = <<>>
      BY <2>1, <3>3
    <3> DEFINE e == [host |-> Localhost, port |-> 9050]
    <3>5. e \in {e} /\ <<e>> \in Seq({e})
      OBVIOUS
    <3>6. <<e>> \o <<>> = <<e>>
      <4> HIDE DEF e
      <4> QED
        BY <3>5, ConcatEmptySeq
    <3>7. EndpointsOf(cfg) = <<e>> \o <<>>
      <4>1. [host |-> cfg.torHost, port |-> cfg.torPort] = e
        BY <2>1
      <4> HIDE DEF e
      <4> QED
        BY <3>4, <4>1, Zenon DEF EndpointsOf
    <3> HIDE DEF asked
    <3> QED
      BY <3>1, <3>6, <3>7
  <2>2. ASSUME NEW i \in L, LastOf(L, n, i), HasList(cfg, ParseProxyList(flags[i].pieces))
        PROVE  EndpointsOf(cfg) = asked
    <3> DEFINE list == ParseProxyList(flags[i].pieces)
    <3>1. L # {} /\ Latest(L) = i
      BY <1>3, <1>4, <2>2
    <3>2. asked = Listed(flags[i].pieces)
      BY <3>1 DEF AskedFor, Listed, L
    <3>3. asked = list
      BY <1>7, <2>2, <3>2, ListedIsParsed
    <3>4. list \in Seq(Piece) /\ WellFormed(list) /\ list # <<>>
      BY <1>7, <2>2, ParsedIsWellFormed
    <3> HIDE DEF list, asked
    <3>5. /\ Head(list) \in Piece /\ Tail(list) \in Seq(Piece) /\ list = <<Head(list)>> \o Tail(list)
          /\ WellFormed(Tail(list)) /\ Head(list) = [host |-> Head(list).host, port |-> Head(list).port]
      BY <3>4, FirstAndRest
    <3>6. cfg.torHost = Head(list).host /\ cfg.torPort = Head(list).port /\ cfg.torProxies = Tail(list)
      BY <2>2 DEF HasList, list
    <3>7. ParseProxyList(cfg.torProxies) = Tail(list)
      BY <3>5, <3>6, ParsedAgain
    <3> QED
      BY <3>3, <3>5, <3>6, <3>7 DEF EndpointsOf
  <2> QED
    BY <1>6, <2>1, <2>2
<1>9. ASSUME NEW arg, NEW value, LastNumber(value, flags, arg, n)
      PROVE  value = NumberAskedFor(flags, arg)
  <2> DEFINE R == NumbersOf(flags, arg)
  <2>1. CASE NoneOf(R, n) /\ value = 0
    BY <1>3, <1>5, <2>1 DEF NumberAskedFor
  <2>2. ASSUME NEW i \in R, LastOf(R, n, i), value = NumberOf(flags[i])
        PROVE  value = NumberAskedFor(flags, arg)
    <3>1. R # {} /\ Latest(R) = i
      BY <1>3, <1>4, <2>2
    <3> QED
      BY <2>2, <3>1 DEF NumberAskedFor, NumberOf
  <2> QED
    BY <1>9, <2>1, <2>2 DEF LastNumber
<1>10. cfg.useProxyPool <=> \E i \in DOMAIN flags : flags[i].arg = "--tor-pool"
  BY <1>2, <1>6
<1> HIDE DEF asked
<1>11. cfg.onionRetries = RetriesAskedFor(flags) /\ cfg.circuitRotateInterval = RotationAskedFor(flags)
  BY <1>6, <1>9 DEF RetriesAskedFor, RotationAskedFor
<1> QED
  BY <1>1, <1>8, <1>10, <1>11 DEF cfg, asked

\* A manager starts with the endpoints that the command line as a whole asks for,
\* whatever flags there are and however many: the first endpoint, which
\* parseTorFlag keeps apart from the others, and those that Engine prints and
\* parses again, make up the well-formed pieces of the last list with any.
THEOREM OptionsAsGiven ==
    ASSUME NEW flags \in Seq(Flag)
    PROVE  FlagsAgree(flags)
BY OptionsRead DEF FlagsAgree, ManagerEndpoints

----------------------------------------------------------------------------
(* The manager that a command line starts *)

\* Until addProxy or removeProxy is called, the entries are those of Config.
EntriesAsGiven ==
    changes = 0 => /\ DOMAIN eps = IF pooled THEN DOMAIN Config ELSE {1}
                   /\ \A i \in DOMAIN eps : eps[i].id = Config[i]

\* No other step changes which endpoint an entry is of.
LEMMA EntriesKept ==
    ASSUME TypeOK, [Next]_vars
    PROVE  \/ changes' = changes + 1
           \/ /\ changes' = changes /\ DOMAIN eps' = DOMAIN eps
              /\ \A i \in DOMAIN eps : eps'[i].id = eps[i].id
<1> DEFINE Kept == DOMAIN eps' = DOMAIN eps /\ \A i \in DOMAIN eps : eps'[i].id = eps[i].id
<1>1. ASSUME eps' = eps
      PROVE  Kept
  BY <1>1
<1>2. ASSUME NEW t \in Threads,
             (\E k \in {"onion", "clear"} : Start(t, k)) \/ Ask(t) \/ CurlInitFails(t) \/ Transfer(t)
      PROVE  changes' = changes /\ Kept
  <2>1. changes' = changes /\ eps' = eps
    BY <1>2 DEF Start, Ask, CurlInitFails, Transfer, pool
  <2> QED
    BY <1>1, <2>1
<1>3. ASSUME NEW t \in Threads, Select(t)
      PROVE  changes' = changes /\ Kept
  <2>1. changes' = changes /\ at[t] \in 0..MaxTime
    BY <1>3 DEF Select, TypeOK
  <2>2. \/ eps' = eps
        \/ eps # <<>> /\ \E alive \in BOOLEAN : SelectProxy(at[t], alive)
    BY <1>3 DEF Select, SelectProxy, pool
  <2>3. ASSUME NEW alive \in BOOLEAN, eps # <<>>, SelectProxy(at[t], alive)
        PROVE  Kept
    BY <2>1, <2>3, Selecting
  <2> HIDE DEF Kept
  <2> QED
    BY <1>1, <2>1, <2>2, <2>3
<1>4. ASSUME NEW t \in Threads, Report(t)
      PROVE  changes' = changes /\ Kept
  <2>1. changes' = changes
    BY <1>4 DEF Report
  <2>2. eps' = eps \/ (ep[t] \in Endpoints /\ (ReportSuccess(ep[t]) \/ ReportFailure(ep[t])))
    BY <1>4 DEF Report, TypeOK
  <2> QED
    BY <1>1, <2>1, <2>2, Storing
<1>5. ASSUME Probe
      PROVE  changes' = changes /\ Kept
  <2>1. changes' = changes
    BY <1>5 DEF Probe
  <2> QED
    BY <1>5, <2>1, Storing, SomeEndpoint
<1>6. ASSUME NEW e \in Endpoints, AddProxy(e) \/ RemoveProxy(e) \/ ProbeEndpoint(e)
      PROVE  changes' = changes + 1
  BY <1>6 DEF AddProxy, RemoveProxy, ProbeEndpoint
<1>7. ASSUME Tick \/ UNCHANGED vars
      PROVE  changes' = changes /\ Kept
  <2>1. changes' = changes /\ eps' = eps
    BY <1>7 DEF Tick, vars, pool
  <2> QED
    BY <1>1, <2>1
<1> HIDE DEF Kept
<1>8. changes' = changes + 1 \/ (changes' = changes /\ Kept)
  BY <1>2, <1>3, <1>4, <1>5, <1>6, <1>7 DEF Next, FetchStep
<1> QED
  BY <1>8 DEF Kept

\* What the constructor of the manager gets from the configuration of Given.
LEMMA ManagerGets ==
    LET cfg == [ParsedConfig EXCEPT !.useProxyPool = pooled]
    IN  pooled \in BOOLEAN =>
            ManagerEndpoints(cfg) = IF pooled THEN Config ELSE <<Config[1]>>
<1> SUFFICES ASSUME pooled \in BOOLEAN
             PROVE  ManagerEndpoints([ParsedConfig EXCEPT !.useProxyPool = pooled])
                       = IF pooled THEN Config ELSE <<Config[1]>>
  OBVIOUS
<1> DEFINE cfg == [ParsedConfig EXCEPT !.useProxyPool = pooled]
<1>1. ParsedConfig \in Cfg /\ EndpointsOf(ParsedConfig) = Config
  BY OptionsRead, TorOptionsAssumption DEF ParsedConfig
<1>2. /\ cfg.torHost = ParsedConfig.torHost /\ cfg.torPort = ParsedConfig.torPort
      /\ cfg.torProxies = ParsedConfig.torProxies /\ cfg.useProxyPool = pooled
  BY <1>1 DEF Cfg
<1> HIDE DEF cfg
<1>3. EndpointsOf(cfg) = Config
  BY <1>1, <1>2 DEF EndpointsOf
<1>4. Head(Config) = Config[1]
  BY TorPoolAssumption, HeadTailProperties
<1>5. ManagerEndpoints(cfg) = IF pooled THEN Config ELSE <<Config[1]>>
  BY <1>2, <1>3, <1>4 DEF ManagerEndpoints
<1> QED
  BY <1>5 DEF cfg

\* Whatever the command line is, either manager starts with the endpoints that it asks
\* for, retries and rotates as it asks, and keeps those endpoints, in their order, until
\* someone calls addProxy or removeProxy.
THEOREM StartsAsGiven == Spec => []ConfigAsGiven
<1>1. Init => EntriesAsGiven
  <2>1. ASSUME Init
        PROVE  EntriesAsGiven
    <3>1. \A e : Fresh(e).id = e /\ Unprobed(e).id = e
      BY DEF Fresh, Unprobed
    <3>2. CASE pooled
      <4>1. eps = [i \in DOMAIN Config |-> Fresh(Config[i])]
        BY <2>1, <3>2 DEF Init
      <4> QED
        BY <3>1, <3>2, <4>1 DEF EntriesAsGiven
    <3>3. CASE ~pooled
      <4>1. eps = <<Unprobed(Config[1])>>
        BY <2>1, <3>3, TorPoolAssumption, HeadTailProperties DEF Init
      <4>2. DOMAIN eps = {1} /\ eps[1] = Unprobed(Config[1])
        BY <4>1
      <4> QED
        BY <3>1, <3>3, <4>2 DEF EntriesAsGiven
    <3> QED
      BY <3>2, <3>3
  <2> QED
    BY <2>1
<1>2. TypeOK /\ EntriesAsGiven /\ [Next]_vars => EntriesAsGiven'
  <2>1. ASSUME TypeOK, EntriesAsGiven, [Next]_vars
        PROVE  EntriesAsGiven'
    <3>1. changes \in Nat
      BY <2>1, TorPoolAssumption DEF TypeOK
    <3>2. pooled' = pooled
      BY <2>1 DEF Next, vars
    <3>3. CASE changes' = changes + 1
      BY <3>1, <3>3 DEF EntriesAsGiven
    <3>4. CASE /\ changes' = changes /\ DOMAIN eps' = DOMAIN eps
               /\ \A i \in DOMAIN eps : eps'[i].id = eps[i].id
      BY <2>1, <3>2, <3>4 DEF EntriesAsGiven
    <3> QED
      BY <2>1, <3>3, <3>4, EntriesKept
  <2> QED
    BY <2>1
<1>3. TypeOK /\ EntriesAsGiven => ConfigAsGiven
  <2>1. ASSUME TypeOK, EntriesAsGiven, changes = 0
        PROVE  [i \in DOMAIN eps |-> eps[i].id]
                  = ManagerEndpoints([ParsedConfig EXCEPT !.useProxyPool = pooled])
    <3> DEFINE ids == [i \in DOMAIN eps |-> eps[i].id]
               given == ManagerEndpoints([ParsedConfig EXCEPT !.useProxyPool = pooled])
    <3>1. /\ DOMAIN eps = IF pooled THEN DOMAIN Config ELSE {1}
          /\ \A i \in DOMAIN eps : eps[i].id = Config[i]
      BY <2>1 DEF EntriesAsGiven
    <3>2. given = IF pooled THEN Config ELSE <<Config[1]>>
      BY <2>1, ManagerGets DEF TypeOK
    <3> HIDE DEF given
    <3>3. ASSUME pooled
          PROVE  ids = given
      <4>1. Config = [i \in DOMAIN Config |-> Config[i]]
        BY TorPoolAssumption
      <4>2. ids = [i \in DOMAIN Config |-> Config[i]]
        BY <3>1, <3>3
      <4>3. given = Config
        BY <3>2, <3>3
      <4> HIDE DEF ids
      <4> QED
        BY <4>1, <4>2, <4>3, Zenon
    <3>4. ASSUME ~pooled
          PROVE  ids = given
      <4>1. <<Config[1]>> = [i \in {1} |-> Config[1]]
        OBVIOUS
      <4>2. ids = [i \in {1} |-> Config[1]]
        BY <3>1, <3>4
      <4>3. given = <<Config[1]>>
        BY <3>2, <3>4
      <4> HIDE DEF ids
      <4> QED
        BY <4>1, <4>2, <4>3, Zenon
    <3> QED
      BY <3>3, <3>4 DEF given
  <2>2. /\ RotateInterval = ParsedConfig.circuitRotateInterval
        /\ OnionRetries = ParsedConfig.onionRetries
    BY OptionsRead, TorOptionsAssumption DEF ParsedConfig
  <2>3. AllLinesAgree
    BY OptionsAsGiven, TorOptionsAssumption DEF AllLinesAgree
  <2> QED
    BY <2>1, <2>2, <2>3 DEF ConfigAsGiven
<1> QED
  BY <1>1, <1>2, <1>3, Typing, PTL DEF Spec
=============================================================================
