---------------------------- MODULE SearchProofs ----------------------------
(***************************************************************************)
(* Proofs about Search, for any number of searching threads and of writes: *)
(* a search uses the index as InvertedIndex allows, finds exactly the      *)
(* matching documents when nobody writes meanwhile, and without a load     *)
(* reports no page that it did not score.  Then about Tokenizer, which     *)
(* makes the terms of a page and of a query, for every text: what it       *)
(* accepts as a code point, where it cuts, and that the tokens it makes    *)
(* are found again by themselves.                                          *)
(***************************************************************************)
EXTENDS Lexicon, IndexProofs

----------------------------------------------------------------------------
(* The inductive invariant *)

Places == {"idle", "average", "terms", "list", "lookup", "copy", "done", "undefined"}

STypes ==
    /\ spc \in [Searchers -> Places]
    /\ query \in [Searchers -> SUBSET Terms] /\ todo \in [Searchers -> SUBSET Terms]
    /\ count \in [Searchers -> Nat] /\ searches \in [Searchers -> Nat]
    /\ begun \in [Searchers -> Nat]
    /\ held \in [Searchers -> Terms \cup {NoTerm}] /\ ptr \in [Searchers -> Nat \cup {NoId}]
    /\ hits \in [Searchers -> SUBSET Nat] /\ left \in [Searchers -> SUBSET Nat]
    /\ results \in [Searchers -> SUBSET Doc] /\ scored \in [Searchers -> SUBSET Urls]
    /\ stale \in [Searchers -> BOOLEAN] /\ quiet \in [Searchers -> BOOLEAN]

\* Where a search is says what it holds: a pointer only where rank reads through
\* it, and as long as nobody wrote, one to something that is there.
PlaceOk(s) ==
    /\ todo[s] \subseteq query[s] /\ left[s] \subseteq hits[s]
    /\ held[s] \in Terms <=> spc[s] = "list"
    /\ ptr[s] \in Nat <=> spc[s] = "copy"
    /\ stale[s] => spc[s] \in {"list", "copy"}
    /\ spc[s] = "list" => held[s] \in query[s] \ todo[s]
    /\ spc[s] = "copy" => ptr[s] \in hits[s] \ left[s]
    /\ spc[s] \notin {"lookup", "copy", "undefined"} => left[s] = {}
    /\ spc[s] = "list" /\ ~stale[s] => index.postings[held[s]] # <<>>
    /\ spc[s] = "copy" /\ ~stale[s] => ptr[s] \in Ids

Occurs(id, t) == Title[index.docs[id].ver][t] + Text[index.docs[id].ver][t] > 0
MatchIds(q) == {id \in Ids : \E t \in q : Occurs(id, t)}

\* While nobody writes, the hits are those of the terms that were looked up, and
\* the results those of the hits.
QuietOk(s) ==
    quiet[s] =>
        /\ ~stale[s]
        /\ spc[s] = "average" => /\ count[s] = Cardinality(Ids) /\ todo[s] = query[s]
                                 /\ hits[s] = {} /\ results[s] = {}
        /\ spc[s] \in {"terms", "list"} =>
              /\ results[s] = {}
              /\ hits[s] = MatchIds(query[s] \ (todo[s] \cup {held[s]}))
        /\ spc[s] \in {"lookup", "copy"} =>
              /\ hits[s] = MatchIds(query[s])
              /\ results[s] = {index.docs[id] : id \in hits[s] \ (left[s] \cup {ptr[s]})}
        /\ spc[s] = "done" =>
              results[s] = {doc \in Range(index.docs) : Matches(doc, query[s])}

\* Without a load since it began, a hit keeps its URL as long as it is there.
ScoredOk(s) ==
    /\ begun[s] <= loads
    /\ begun[s] = loads =>
          /\ hits[s] \subseteq 1..(index.nextId - 1)
          /\ \A id \in hits[s] \cap Ids : index.docs[id].url \in scored[s]
          /\ \A doc \in results[s] : doc.url \in scored[s]

PlaceInv == \A s \in Searchers : PlaceOk(s)
QuietInv == \A s \in Searchers : QuietOk(s)
ScoredInv == \A s \in Searchers : ScoredOk(s)

SearchInv == STypes /\ PlaceInv /\ QuietInv /\ ScoredInv
SInv == IInv /\ SearchInv

LEMMA InitSearch == SInit => SInv
<1> SUFFICES ASSUME SInit
             PROVE  SInv
  OBVIOUS
<1> USE SearchAssumption DEF SInit
<1>1. IInv /\ loads = 0
  BY InitInv DEF Init
<1>2. STypes
  BY <1>1 DEF STypes, Places
<1>3. PlaceInv
  BY <1>2 DEF PlaceInv, PlaceOk
<1>4. QuietInv
  BY DEF QuietInv, QuietOk
<1>5. ScoredInv
  BY <1>1 DEF ScoredInv, ScoredOk
<1> QED
  BY <1>1, <1>2, <1>3, <1>4, <1>5 DEF SInv, SearchInv

----------------------------------------------------------------------------
(* What a search reads *)

\* The documents in the postings of a term are those in which it occurs.
LEMMA Listed ==
    ASSUME IInv, NEW t \in Terms
    PROVE  {p.docId : p \in ToSet(index.postings[t])} = MatchIds({t})
<1>1. \A p : p \in ToSet(index.postings[t]) <=> \E id \in Ids : IsPosting(p, id, index.docs[id].ver, t)
  BY DEF IInv, Exact, ListsHold, Ids
<1>2. ASSUME NEW id \in Ids
      PROVE  (\E p : IsPosting(p, id, index.docs[id].ver, t)) <=> Occurs(id, t)
  <2>1. index.docs[id].ver \in Versions
    BY PartsOf DEF IInv, Exact, Ids
  <2>2. t \in DOMAIN Freqs(index.docs[id].ver) <=> Occurs(id, t)
    BY <2>1, FreqsOf DEF Occurs
  <2> QED
    BY <2>2 DEF IsPosting
<1>3. \A p, id : IsPosting(p, id, index.docs[id].ver, t) => p.docId = id
  BY DEF IsPosting
<1> QED
  BY <1>1, <1>2, <1>3 DEF MatchIds

\* A term without postings occurs nowhere.
LEMMA Unlisted ==
    ASSUME IInv, NEW t \in Terms, index.postings[t] = <<>>
    PROVE  MatchIds({t}) = {}
<1>1. ToSet(<<>>) = {}
  BY DEF ToSet
<1> QED
  BY <1>1, Listed

\* An index without documents or without terms matches nothing.
LEMMA NothingToFind ==
    ASSUME IInv, Cardinality(Ids) = 0 \/ index.docs = <<>> \/ index.totalTerms = 0,
           NEW q \in SUBSET Terms
    PROVE  MatchIds(q) = {}
<1>1. Exact(index) /\ IsFiniteSet(Ids)
  BY IdsFinite DEF IInv, Ids
<1>2. CASE Cardinality(Ids) = 0 \/ index.docs = <<>>
  <2>1. Ids = {}
    BY <1>1, <1>2, FS_EmptySet DEF Ids
  <2> QED
    BY <2>1 DEF MatchIds
<1>3. CASE index.totalTerms = 0
  <2> SUFFICES ASSUME NEW id \in Ids, NEW t \in q, Occurs(id, t)
               PROVE  FALSE
    BY DEF MatchIds
  <2> DEFINE F == Freqs(index.docs[id].ver)
             lengths == index.docLengths
  <2>1. index.docs[id].ver \in Versions
    BY <1>1, PartsOf DEF Exact, Ids
  <2>2. /\ IsFiniteSet(DOMAIN F) /\ \A u \in DOMAIN F : F[u] \in Nat \ {0}
        /\ t \in DOMAIN F /\ Total(F) \in Nat
    BY <2>1, FreqsOf DEF Occurs
  <2>3. /\ DOMAIN lengths = Ids /\ lengths[id] = Total(F) /\ Total(lengths) = 0
        /\ \A k \in DOMAIN lengths : lengths[k] \in Nat
    BY <1>1, <1>3, PartsOf DEF Exact, IdsExact, Ids
  <2> HIDE DEF F, lengths
  <2>4. lengths[id] = 0
    BY <1>1, <2>3, TotalZero
  <2>5. F[t] = 0
    BY <2>2, <2>3, <2>4, TotalZero
  <2> QED
    BY <2>2, <2>5
<1> QED
  BY <1>2, <1>3

\* The documents of the matching ids are the matching documents.
LEMMA FoundAll ==
    ASSUME NEW q
    PROVE  {index.docs[id] : id \in MatchIds(q)} = {doc \in Range(index.docs) : Matches(doc, q)}
BY DEF MatchIds, Occurs, Matches, Range, Ids

----------------------------------------------------------------------------
(* Steps of a search *)

\* Nothing that a search has changes.
Same(s) ==
    /\ UNCHANGED ivars
    /\ spc'[s] = spc[s] /\ query'[s] = query[s] /\ count'[s] = count[s] /\ todo'[s] = todo[s]
    /\ held'[s] = held[s] /\ hits'[s] = hits[s] /\ left'[s] = left[s] /\ ptr'[s] = ptr[s]
    /\ results'[s] = results[s] /\ scored'[s] = scored[s] /\ stale'[s] = stale[s]
    /\ quiet'[s] = quiet[s] /\ begun'[s] = begun[s]

LEMMA SameOk ==
    ASSUME NEW s \in Searchers, Same(s), PlaceOk(s), QuietOk(s), ScoredOk(s)
    PROVE  PlaceOk(s)' /\ QuietOk(s)' /\ ScoredOk(s)'
<1>1. PlaceOk(s)'
  BY DEF Same, ivars, PlaceOk, Ids
<1>2. QuietOk(s)'
  <2>1. index' = index
    BY DEF Same, ivars
  <2>2. \A q : MatchIds(q)' = MatchIds(q)
    BY <2>1 DEF MatchIds, Ids, Occurs
  <2> QED
    BY <2>1, <2>2 DEF Same, QuietOk, Ids
<1>3. ScoredOk(s)'
  BY DEF Same, ivars, ScoredOk, Ids
<1> QED
  BY <1>1, <1>2, <1>3

\* A step of search s leaves the other searches alone.
LEMMA OthersSame ==
    ASSUME STypes, NEW s \in Searchers,
           SearchStep(s) \/ \E q \in SUBSET Terms : BeginSearch(s, q),
           NEW r \in Searchers, r # s
    PROVE  Same(r)
<1> USE DEF STypes, Same, SGo, ivars
<1>1. CASE \E q \in SUBSET Terms : BeginSearch(s, q)
  BY <1>1 DEF BeginSearch
<1>2. CASE ReadAverage(s)
  BY <1>2 DEF ReadAverage
<1>3. CASE ScoreList(s)
  BY <1>3 DEF ScoreList
<1>4. CASE AllScored(s)
  BY <1>4 DEF AllScored
<1>5. CASE CopyDocument(s)
  BY <1>5 DEF CopyDocument
<1>6. CASE AllCopied(s)
  BY <1>6 DEF AllCopied
<1>7. CASE Return(s)
  BY <1>7 DEF Return
<1>8. CASE \E t \in todo[s] : GetPostings(s, t)
  BY <1>8 DEF GetPostings
<1>9. CASE \E id \in left[s] : GetDocument(s, id)
  BY <1>9 DEF GetDocument
<1> QED
  BY <1>1, <1>2, <1>3, <1>4, <1>5, <1>6, <1>7, <1>8, <1>9 DEF SearchStep

\* What every step of search s has to keep.
Kept(s) == STypes /\ PlaceOk(s) /\ QuietOk(s) /\ ScoredOk(s)

LEMMA KeptOf ==
    ASSUME SInv, NEW s \in Searchers
    PROVE  Kept(s) /\ IInv /\ loads \in Nat /\ index.nextId \in Nat
BY PartsOf, InvertedIndexAssumption
   DEF SInv, SearchInv, PlaceInv, QuietInv, ScoredInv, Kept, IInv, Exact

\* The index is not written.
LEMMA Unwritten ==
    ASSUME UNCHANGED ivars
    PROVE  Ids' = Ids /\ index' = index /\ loads' = loads /\ \A q : MatchIds(q)' = MatchIds(q)
BY DEF ivars, MatchIds, Ids, Occurs

LEMMA BeginSearchKeeps ==
    ASSUME SInv, NEW s \in Searchers, NEW q \in SUBSET Terms, BeginSearch(s, q)
    PROVE  Kept(s)'
<1> USE SearchAssumption
<1>1. Kept(s) /\ loads \in Nat /\ IsFiniteSet(DOMAIN index.docs)
  BY KeptOf, IdsFinite DEF IInv
<1>2. Cardinality(DOMAIN index.docs) \in Nat
  BY <1>1, FS_CardinalityType
<1>3. UNCHANGED ivars /\ Ids' = Ids /\ index' = index /\ loads' = loads
  BY Unwritten DEF BeginSearch
<1>4. STypes'
  BY <1>1, <1>2, <1>3 DEF Kept, STypes, BeginSearch, SGo, Places
<1>5. /\ spc[s] = "idle" /\ spc'[s] = "average" /\ query'[s] = q /\ todo'[s] = q
      /\ count'[s] = Cardinality(Ids) /\ hits'[s] = {} /\ results'[s] = {} /\ begun'[s] = loads
      /\ held'[s] = held[s] /\ left'[s] = left[s] /\ ptr'[s] = ptr[s] /\ stale'[s] = stale[s]
  BY <1>1 DEF Kept, STypes, BeginSearch, SGo, Ids
<1>6. PlaceOk(s)'
  BY <1>1, <1>5 DEF Kept, PlaceOk
<1>7. QuietOk(s)'
  <2>1. ~stale'[s]
    BY <1>1, <1>5 DEF Kept, PlaceOk
  <2> QED
    BY <1>3, <1>5, <2>1 DEF QuietOk
<1>8. ScoredOk(s)'
  BY <1>1, <1>3, <1>5 DEF ScoredOk
<1> QED
  BY <1>4, <1>6, <1>7, <1>8 DEF Kept

LEMMA ReadAverageKeeps ==
    ASSUME SInv, NEW s \in Searchers, ReadAverage(s)
    PROVE  Kept(s)'
<1> USE SearchAssumption
<1>1. Kept(s) /\ IInv
  BY KeptOf
<1>2. UNCHANGED ivars /\ Ids' = Ids /\ index' = index /\ loads' = loads /\ \A q : MatchIds(q)' = MatchIds(q)
  BY Unwritten DEF ReadAverage
<1>3. STypes'
  BY <1>1 DEF Kept, STypes, ReadAverage, SGo, Places
<1> DEFINE stop == count[s] = 0 \/ index.docs = <<>> \/ index.totalTerms = 0
<1>4. /\ spc[s] = "average" /\ spc'[s] = (IF stop THEN "done" ELSE "terms")
      /\ UNCHANGED <<query, count, todo, held, hits, left, ptr, results, scored, stale, quiet, begun>>
  BY <1>1 DEF Kept, STypes, ReadAverage, SGo
<1>5. PlaceOk(s)'
  <2> HIDE DEF stop
  <2> QED
    BY <1>1, <1>2, <1>4 DEF Kept, PlaceOk
<1>6. QuietOk(s)'
  <2> SUFFICES ASSUME quiet[s]
               PROVE  /\ ~stale[s]
                      /\ stop => results[s] = {doc \in Range(index.docs) : Matches(doc, query[s])}
                      /\ ~stop => /\ results[s] = {}
                                  /\ hits[s] = MatchIds(query[s] \ (todo[s] \cup {held[s]}))
    BY <1>2, <1>4 DEF QuietOk
  <2>1. ~stale[s] /\ count[s] = Cardinality(Ids) /\ todo[s] = query[s] /\ hits[s] = {} /\ results[s] = {}
    BY <1>1, <1>4 DEF Kept, QuietOk
  <2>2. ASSUME stop
        PROVE  results[s] = {doc \in Range(index.docs) : Matches(doc, query[s])}
    <3>1. query[s] \in SUBSET Terms
      BY <1>1 DEF Kept, STypes
    <3>2. MatchIds(query[s]) = {}
      BY <1>1, <2>1, <2>2, <3>1, NothingToFind
    <3> HIDE DEF stop
    <3> QED
      BY <2>1, <3>2, FoundAll
  <2>3. MatchIds(query[s] \ (todo[s] \cup {held[s]})) = {}
    BY <2>1 DEF MatchIds
  <2> HIDE DEF stop
  <2> QED
    BY <2>1, <2>2, <2>3
<1>7. ScoredOk(s)'
  BY <1>1, <1>2, <1>4 DEF Kept, ScoredOk
<1> QED
  BY <1>3, <1>5, <1>6, <1>7 DEF Kept

LEMMA GetPostingsKeeps ==
    ASSUME SInv, NEW s \in Searchers, NEW t \in todo[s], GetPostings(s, t)
    PROVE  Kept(s)'
<1> USE SearchAssumption
<1>1. Kept(s) /\ IInv /\ t \in Terms /\ t \in query[s]
  BY KeptOf DEF Kept, STypes, PlaceOk
<1>2. UNCHANGED ivars /\ Ids' = Ids /\ index' = index /\ loads' = loads /\ \A q : MatchIds(q)' = MatchIds(q)
  BY Unwritten DEF GetPostings
<1>3. STypes'
  <2>1. spc' \in [Searchers -> Places] /\ held' \in [Searchers -> Terms \cup {NoTerm}]
    <3>1. CASE index.postings[t] = <<>>
      BY <1>1, <3>1 DEF Kept, STypes, GetPostings
    <3>2. CASE index.postings[t] # <<>>
      <4>1. spc' = [spc EXCEPT ![s] = "list"] /\ held' = [held EXCEPT ![s] = t]
        BY <3>2 DEF GetPostings, SGo
      <4>2. spc \in [Searchers -> Places] /\ held \in [Searchers -> Terms \cup {NoTerm}]
        BY <1>1 DEF Kept, STypes
      <4> QED
        BY <1>1, <4>1, <4>2 DEF Places
    <3> QED
      BY <3>1, <3>2
  <2>2. todo' \in [Searchers -> SUBSET Terms] /\ stale' \in [Searchers -> BOOLEAN]
    BY <1>1 DEF Kept, STypes, GetPostings
  <2> QED
    BY <1>1, <2>1, <2>2 DEF Kept, STypes, GetPostings
<1>4. /\ spc[s] = "terms" /\ todo'[s] = todo[s] \ {t} /\ ~stale'[s]
      /\ UNCHANGED <<query, count, hits, left, ptr, results, scored, quiet, begun>>
      /\ \/ index.postings[t] = <<>> /\ spc'[s] = "terms" /\ held'[s] = held[s]
         \/ index.postings[t] # <<>> /\ spc'[s] = "list" /\ held'[s] = t
  BY <1>1 DEF Kept, STypes, GetPostings, SGo
<1>5. PlaceOk(s)'
  BY <1>1, <1>2, <1>4 DEF Kept, PlaceOk
<1>6. QuietOk(s)'
  <2> SUFFICES ASSUME quiet[s]
               PROVE  /\ results[s] = {}
                      /\ hits[s] = MatchIds(query[s] \ (todo'[s] \cup {held'[s]}))
    BY <1>2, <1>4 DEF QuietOk
  <2>1. results[s] = {} /\ hits[s] = MatchIds(query[s] \ (todo[s] \cup {held[s]}))
    BY <1>1, <1>4 DEF Kept, QuietOk
  <2>2. held[s] \notin Terms
    BY <1>1, <1>4 DEF Kept, PlaceOk
  <2>3. CASE index.postings[t] = <<>> /\ held'[s] = held[s]
    <3>1. MatchIds({t}) = {}
      BY <1>1, <2>3, Unlisted
    <3>2. query[s] \ (todo'[s] \cup {held'[s]}) = (query[s] \ (todo[s] \cup {held[s]})) \cup {t}
      BY <1>1, <1>4, <2>2, <2>3
    <3> QED
      BY <2>1, <3>1, <3>2 DEF MatchIds
  <2>4. CASE held'[s] = t
    <3>1. query[s] \in SUBSET Terms
      BY <1>1 DEF Kept, STypes
    <3>2. query[s] \ (todo'[s] \cup {held'[s]}) = query[s] \ (todo[s] \cup {held[s]})
      BY <1>4, <2>2, <2>4, <3>1
    <3> QED
      BY <2>1, <3>2
  <2> QED
    BY <1>4, <2>1, <2>3, <2>4
<1>7. ScoredOk(s)'
  BY <1>1, <1>2, <1>4 DEF Kept, ScoredOk
<1> QED
  BY <1>3, <1>5, <1>6, <1>7 DEF Kept

LEMMA ScoreListKeeps ==
    ASSUME SInv, NEW s \in Searchers, ScoreList(s)
    PROVE  Kept(s)'
<1> USE SearchAssumption
<1> DEFINE t == held[s]
           ids == {p.docId : p \in ToSet(index.postings[t])}
           urls == {index.docs[id].url : id \in ids}
<1>1. Kept(s) /\ IInv /\ loads \in Nat
  BY KeptOf
<1>2. UNCHANGED ivars /\ Ids' = Ids /\ index' = index /\ loads' = loads /\ \A q : MatchIds(q)' = MatchIds(q)
  BY Unwritten DEF ScoreList
<1>3. t \in Terms /\ t \in query[s] \ todo[s] /\ spc[s] = "list"
  BY <1>1 DEF Kept, PlaceOk, ScoreList
<1>4. ids = MatchIds({t}) /\ ids \subseteq Ids /\ Ids \subseteq Nat /\ urls \subseteq Urls
  <2>1. ids = MatchIds({t})
    BY <1>1, <1>3, Listed
  <2>2. Ids \subseteq Nat /\ \A id \in Ids : index.docs[id].url \in Urls
    BY <1>1, PartsOf DEF IInv, Exact, Ids
  <2> HIDE DEF ids
  <2> QED
    BY <2>1, <2>2 DEF MatchIds
<1>5. \/ /\ stale[s] /\ spc' = [spc EXCEPT ![s] = "undefined"] /\ UNCHANGED <<hits, scored>>
      \/ /\ ~stale[s] /\ spc' = [spc EXCEPT ![s] = "terms"]
         /\ hits' = [hits EXCEPT ![s] = hits[s] \cup ids]
         /\ scored' = [scored EXCEPT ![s] = scored[s] \cup urls]
  BY DEF ScoreList, SGo, Accumulated
<1>6. /\ held' = [held EXCEPT ![s] = NoTerm] /\ stale' = [stale EXCEPT ![s] = FALSE]
      /\ UNCHANGED <<query, count, todo, left, ptr, results, searches, quiet, begun>>
  BY DEF ScoreList
<1> HIDE DEF ids, urls
<1>7. STypes'
  <2>1. /\ held' \in [Searchers -> Terms \cup {NoTerm}] /\ stale' \in [Searchers -> BOOLEAN]
        /\ spc' \in [Searchers -> Places]
    BY <1>1, <1>5, <1>6 DEF Kept, STypes, Places
  <2>2. hits' \in [Searchers -> SUBSET Nat] /\ scored' \in [Searchers -> SUBSET Urls]
    <3>1. hits[s] \cup ids \in SUBSET Nat /\ scored[s] \cup urls \in SUBSET Urls
      BY <1>1, <1>4 DEF Kept, STypes
    <3> QED
      BY <1>1, <1>5, <3>1 DEF Kept, STypes
  <2> QED
    BY <1>1, <1>6, <2>1, <2>2 DEF Kept, STypes
<1>8. /\ held'[s] = NoTerm /\ ~stale'[s]
      /\ \/ stale[s] /\ spc'[s] = "undefined" /\ hits'[s] = hits[s] /\ scored'[s] = scored[s]
         \/ /\ ~stale[s] /\ spc'[s] = "terms" /\ hits'[s] = hits[s] \cup ids
            /\ scored'[s] = scored[s] \cup urls
  BY <1>1, <1>5, <1>6 DEF Kept, STypes
<1>9. PlaceOk(s)'
  BY <1>1, <1>2, <1>3, <1>6, <1>8 DEF Kept, PlaceOk
<1>10. QuietOk(s)'
  <2> SUFFICES ASSUME quiet[s]
               PROVE  /\ spc'[s] = "terms" /\ results[s] = {}
                      /\ hits'[s] = MatchIds(query[s] \ (todo[s] \cup {held'[s]}))
    BY <1>2, <1>6, <1>8 DEF QuietOk
  <2>1. ~stale[s] /\ results[s] = {} /\ hits[s] = MatchIds(query[s] \ (todo[s] \cup {t}))
    BY <1>1, <1>3 DEF Kept, QuietOk
  <2>2. hits'[s] = hits[s] \cup ids /\ spc'[s] = "terms" /\ held'[s] = NoTerm
    BY <1>8, <2>1
  <2>3. query[s] \in SUBSET Terms
    BY <1>1 DEF Kept, STypes
  <2>4. query[s] \ (todo[s] \cup {NoTerm}) = (query[s] \ (todo[s] \cup {t})) \cup {t}
    BY <1>3, <2>3
  <2>5. MatchIds(query[s] \ (todo[s] \cup {NoTerm})) =
           MatchIds(query[s] \ (todo[s] \cup {t})) \cup MatchIds({t})
    BY <2>4 DEF MatchIds
  <2> QED
    BY <1>4, <2>1, <2>2, <2>5
<1>11. ScoredOk(s)'
  <2> SUFFICES ASSUME begun[s] = loads
               PROVE  /\ hits'[s] \subseteq 1..(index.nextId - 1)
                      /\ \A id \in hits'[s] \cap Ids : index.docs[id].url \in scored'[s]
                      /\ \A doc \in results[s] : doc.url \in scored'[s]
    BY <1>1, <1>2, <1>6 DEF Kept, ScoredOk
  <2>1. /\ hits[s] \subseteq 1..(index.nextId - 1)
        /\ \A id \in hits[s] \cap Ids : index.docs[id].url \in scored[s]
        /\ \A doc \in results[s] : doc.url \in scored[s]
    BY <1>1 DEF Kept, ScoredOk
  <2>2. ids \subseteq 1..(index.nextId - 1)
    <3>1. Ids \subseteq 1..(index.nextId - 1)
      BY <1>1 DEF IInv, Exact, IdsExact, Ids
    <3> QED
      BY <1>4, <3>1
  <2>3. \A id \in ids : index.docs[id].url \in urls
    BY DEF urls
  <2> QED
    BY <1>8, <2>1, <2>2, <2>3
<1> QED
  BY <1>7, <1>9, <1>10, <1>11 DEF Kept

LEMMA AllScoredKeeps ==
    ASSUME SInv, NEW s \in Searchers, AllScored(s)
    PROVE  Kept(s)'
<1> USE SearchAssumption
<1>1. Kept(s)
  BY KeptOf
<1>2. UNCHANGED ivars /\ Ids' = Ids /\ index' = index /\ loads' = loads /\ \A q : MatchIds(q)' = MatchIds(q)
  BY Unwritten DEF AllScored
<1>3. STypes'
  BY <1>1 DEF Kept, STypes, AllScored, SGo, Places
<1>4. /\ spc[s] = "terms" /\ todo[s] = {} /\ spc'[s] = "lookup" /\ left'[s] = hits[s]
      /\ UNCHANGED <<query, count, todo, held, hits, ptr, results, scored, stale, quiet, begun>>
  BY <1>1 DEF Kept, STypes, AllScored, SGo
<1>5. PlaceOk(s)'
  BY <1>1, <1>2, <1>4 DEF Kept, PlaceOk
<1>6. QuietOk(s)'
  <2> SUFFICES ASSUME quiet[s]
               PROVE  /\ ~stale[s] /\ hits[s] = MatchIds(query[s])
                      /\ results[s] = {index.docs[id] : id \in hits[s] \ (hits[s] \cup {ptr[s]})}
    BY <1>2, <1>4 DEF QuietOk
  <2>1. ~stale[s] /\ results[s] = {} /\ hits[s] = MatchIds(query[s] \ (todo[s] \cup {held[s]}))
    BY <1>1, <1>4 DEF Kept, QuietOk
  <2>2. held[s] \notin Terms /\ query[s] \in SUBSET Terms
    BY <1>1, <1>4 DEF Kept, PlaceOk, STypes
  <2>3. query[s] \ (todo[s] \cup {held[s]}) = query[s]
    BY <1>4, <2>2
  <2>4. hits[s] \ (hits[s] \cup {ptr[s]}) = {}
    OBVIOUS
  <2> QED
    BY <2>1, <2>3, <2>4
<1>7. ScoredOk(s)'
  BY <1>1, <1>2, <1>4 DEF Kept, ScoredOk
<1> QED
  BY <1>3, <1>5, <1>6, <1>7 DEF Kept

LEMMA GetDocumentKeeps ==
    ASSUME SInv, NEW s \in Searchers, NEW id \in left[s], GetDocument(s, id)
    PROVE  Kept(s)'
<1> USE SearchAssumption
<1>1. Kept(s) /\ id \in Nat /\ id \in hits[s]
  BY KeptOf DEF Kept, STypes, PlaceOk
<1>2. UNCHANGED ivars /\ Ids' = Ids /\ index' = index /\ loads' = loads /\ \A q : MatchIds(q)' = MatchIds(q)
  BY Unwritten DEF GetDocument
<1>3. \/ id \in Ids /\ spc' = [spc EXCEPT ![s] = "copy"] /\ ptr' = [ptr EXCEPT ![s] = id]
      \/ id \notin Ids /\ spc' = spc /\ ptr' = ptr
  BY DEF GetDocument, SGo, Found, Ids
<1>4. /\ left' = [left EXCEPT ![s] = left[s] \ {id}] /\ stale' = [stale EXCEPT ![s] = FALSE]
      /\ UNCHANGED <<query, count, todo, held, hits, results, searches, scored, quiet, begun>>
  BY DEF GetDocument
<1>5. STypes'
  <2>1. spc' \in [Searchers -> Places] /\ left' \in [Searchers -> SUBSET Nat]
        /\ stale' \in [Searchers -> BOOLEAN]
    BY <1>1, <1>3, <1>4 DEF Kept, STypes, Places
  <2>2. ptr' \in [Searchers -> Nat \cup {NoId}]
    BY <1>1, <1>3 DEF Kept, STypes
  <2> QED
    BY <1>1, <1>4, <2>1, <2>2 DEF Kept, STypes
<1>6. /\ spc[s] = "lookup" /\ left'[s] = left[s] \ {id} /\ ~stale'[s]
      /\ \/ id \in Ids /\ spc'[s] = "copy" /\ ptr'[s] = id
         \/ id \notin Ids /\ spc'[s] = "lookup" /\ ptr'[s] = ptr[s]
  BY <1>1, <1>3, <1>4 DEF Kept, STypes, GetDocument
<1>7. PlaceOk(s)'
  BY <1>1, <1>2, <1>4, <1>6 DEF Kept, PlaceOk
<1>8. QuietOk(s)'
  <2> SUFFICES ASSUME quiet[s]
               PROVE  /\ hits[s] = MatchIds(query[s])
                      /\ results[s] = {index.docs[k] : k \in hits[s] \ (left'[s] \cup {ptr'[s]})}
    BY <1>2, <1>4, <1>6 DEF QuietOk
  <2>1. /\ hits[s] = MatchIds(query[s])
        /\ results[s] = {index.docs[k] : k \in hits[s] \ (left[s] \cup {ptr[s]})}
    BY <1>1, <1>6 DEF Kept, QuietOk
  <2>2. ptr[s] \notin Nat /\ hits[s] \in SUBSET Nat
    BY <1>1, <1>6 DEF Kept, PlaceOk, STypes
  <2>3. id \in Ids
    BY <1>1, <2>1 DEF MatchIds
  <2>4. hits[s] \ (left'[s] \cup {ptr'[s]}) = hits[s] \ (left[s] \cup {ptr[s]})
    BY <1>6, <2>2, <2>3
  <2> QED
    BY <2>1, <2>4
<1>9. ScoredOk(s)'
  BY <1>1, <1>2, <1>4 DEF Kept, ScoredOk
<1> QED
  BY <1>5, <1>7, <1>8, <1>9 DEF Kept

LEMMA CopyDocumentKeeps ==
    ASSUME SInv, NEW s \in Searchers, CopyDocument(s)
    PROVE  Kept(s)'
<1> USE SearchAssumption
<1> DEFINE id == ptr[s]
<1>1. Kept(s) /\ IInv /\ spc[s] = "copy" /\ id \in Nat /\ id \in hits[s] \ left[s]
  BY KeptOf DEF Kept, PlaceOk, CopyDocument
<1>2. UNCHANGED ivars /\ Ids' = Ids /\ index' = index /\ loads' = loads /\ \A q : MatchIds(q)' = MatchIds(q)
  BY Unwritten DEF CopyDocument
<1>3. \/ stale[s] /\ spc' = [spc EXCEPT ![s] = "undefined"] /\ results' = results
      \/ /\ ~stale[s] /\ spc' = [spc EXCEPT ![s] = "lookup"]
         /\ results' = [results EXCEPT ![s] = results[s] \cup {index.docs[id]}]
  BY DEF CopyDocument, SGo
<1>4. /\ ptr' = [ptr EXCEPT ![s] = NoId] /\ stale' = [stale EXCEPT ![s] = FALSE]
      /\ UNCHANGED <<query, count, todo, held, hits, left, searches, scored, quiet, begun>>
  BY DEF CopyDocument
<1>5. ~stale[s] => id \in Ids /\ index.docs[id] \in Doc
  <2>1. \A k \in Ids : index.docs[k] \in Doc
    BY <1>1, PartsOf DEF IInv, Exact, Ids
  <2> QED
    BY <1>1, <2>1 DEF Kept, PlaceOk
<1>6. STypes'
  <2>1. spc' \in [Searchers -> Places] /\ stale' \in [Searchers -> BOOLEAN]
    BY <1>1, <1>3, <1>4 DEF Kept, STypes, Places
  <2>2. ptr' \in [Searchers -> Nat \cup {NoId}] /\ results' \in [Searchers -> SUBSET Doc]
    BY <1>1, <1>3, <1>4, <1>5 DEF Kept, STypes
  <2> QED
    BY <1>1, <1>4, <2>1, <2>2 DEF Kept, STypes
<1>7. /\ ptr'[s] = NoId /\ ~stale'[s]
      /\ \/ stale[s] /\ spc'[s] = "undefined" /\ results'[s] = results[s]
         \/ ~stale[s] /\ spc'[s] = "lookup" /\ results'[s] = results[s] \cup {index.docs[id]}
  BY <1>1, <1>3, <1>4 DEF Kept, STypes
<1>8. PlaceOk(s)'
  BY <1>1, <1>2, <1>4, <1>7 DEF Kept, PlaceOk
<1>9. QuietOk(s)'
  <2> SUFFICES ASSUME quiet[s]
               PROVE  /\ spc'[s] = "lookup" /\ hits[s] = MatchIds(query[s])
                      /\ results'[s] = {index.docs[k] : k \in hits[s] \ (left[s] \cup {NoId})}
    BY <1>2, <1>4, <1>7 DEF QuietOk
  <2>1. /\ ~stale[s] /\ hits[s] = MatchIds(query[s])
        /\ results[s] = {index.docs[k] : k \in hits[s] \ (left[s] \cup {id})}
    BY <1>1 DEF Kept, QuietOk
  <2>2. hits[s] \in SUBSET Nat /\ id \notin left[s]
    BY <1>1 DEF Kept, STypes
  <2>3. hits[s] \ (left[s] \cup {NoId}) = (hits[s] \ (left[s] \cup {id})) \cup {id}
    BY <1>1, <2>2
  <2> QED
    BY <1>7, <2>1, <2>3
<1>10. ScoredOk(s)'
  <2> SUFFICES ASSUME begun[s] = loads
               PROVE  \A doc \in results'[s] : doc.url \in scored[s]
    BY <1>1, <1>2, <1>4 DEF Kept, ScoredOk
  <2>1. /\ \A k \in hits[s] \cap Ids : index.docs[k].url \in scored[s]
        /\ \A doc \in results[s] : doc.url \in scored[s]
    BY <1>1 DEF Kept, ScoredOk
  <2> QED
    BY <1>1, <1>5, <1>7, <2>1
<1> QED
  BY <1>6, <1>8, <1>9, <1>10 DEF Kept

LEMMA AllCopiedKeeps ==
    ASSUME SInv, NEW s \in Searchers, AllCopied(s)
    PROVE  Kept(s)'
<1> USE SearchAssumption
<1>1. Kept(s)
  BY KeptOf
<1>2. UNCHANGED ivars /\ Ids' = Ids /\ index' = index /\ loads' = loads /\ \A q : MatchIds(q)' = MatchIds(q)
  BY Unwritten DEF AllCopied
<1>3. STypes'
  BY <1>1 DEF Kept, STypes, AllCopied, SGo, Places
<1>4. /\ spc[s] = "lookup" /\ left[s] = {} /\ spc'[s] = "done"
      /\ UNCHANGED <<query, count, todo, held, hits, left, ptr, results, scored, stale, quiet, begun>>
  BY <1>1 DEF Kept, STypes, AllCopied, SGo
<1>5. PlaceOk(s)'
  BY <1>1, <1>2, <1>4 DEF Kept, PlaceOk
<1>6. QuietOk(s)'
  <2> SUFFICES ASSUME quiet[s]
               PROVE  /\ ~stale[s]
                      /\ results[s] = {doc \in Range(index.docs) : Matches(doc, query[s])}
    BY <1>2, <1>4 DEF QuietOk
  <2>1. /\ ~stale[s] /\ hits[s] = MatchIds(query[s])
        /\ results[s] = {index.docs[k] : k \in hits[s] \ (left[s] \cup {ptr[s]})}
    BY <1>1, <1>4 DEF Kept, QuietOk
  <2>2. ptr[s] \notin Nat /\ hits[s] \in SUBSET Nat
    BY <1>1, <1>4 DEF Kept, PlaceOk, STypes
  <2>3. hits[s] \ (left[s] \cup {ptr[s]}) = hits[s]
    BY <1>4, <2>2
  <2> QED
    BY <2>1, <2>3, FoundAll
<1>7. ScoredOk(s)'
  BY <1>1, <1>2, <1>4 DEF Kept, ScoredOk
<1> QED
  BY <1>3, <1>5, <1>6, <1>7 DEF Kept

LEMMA ReturnKeeps ==
    ASSUME SInv, NEW s \in Searchers, Return(s)
    PROVE  Kept(s)'
<1> USE SearchAssumption
<1>1. Kept(s)
  BY KeptOf
<1>2. UNCHANGED ivars /\ Ids' = Ids /\ index' = index /\ loads' = loads /\ \A q : MatchIds(q)' = MatchIds(q)
  BY Unwritten DEF Return
<1>3. STypes'
  BY <1>1 DEF Kept, STypes, Return, SGo, Places
<1>4. /\ spc[s] = "done" /\ spc'[s] = "idle"
      /\ UNCHANGED <<query, count, todo, held, hits, left, ptr, results, scored, stale, quiet, begun>>
  BY <1>1 DEF Kept, STypes, Return, SGo
<1>5. PlaceOk(s)' /\ QuietOk(s)' /\ ScoredOk(s)'
  BY <1>1, <1>2, <1>4 DEF Kept, PlaceOk, QuietOk, ScoredOk
<1> QED
  BY <1>3, <1>5 DEF Kept

----------------------------------------------------------------------------
(* Steps of a writer *)

\* A writer that marks the pointers to what it touches, keeps the documents it
\* does not touch and, unless it loads, gives no id to another URL.
LEMMA WriteKeeps ==
    ASSUME SInv, IInv', UNCHANGED <<search, begun>>, NEW T, NEW I,
           stale' = [s \in Searchers |-> stale[s] \/ held[s] \in T \/ ptr[s] \in I],
           quiet' = [s \in Searchers |-> FALSE],
           \A t \in Terms : t \notin T => index'.postings[t] = index.postings[t],
           \A id \in Ids : id \notin I => id \in Ids',
           T \subseteq Terms, I \subseteq Nat,
           \/ loads' = loads + 1
           \/ /\ loads' = loads /\ index'.nextId >= index.nextId
              /\ \A id \in Ids' : id <= index.nextId - 1 =>
                    id \in Ids /\ index'.docs[id].url = index.docs[id].url
    PROVE  SearchInv'
<1> USE SearchAssumption
<1>1. /\ spc' = spc /\ query' = query /\ count' = count /\ todo' = todo /\ held' = held
      /\ hits' = hits /\ left' = left /\ ptr' = ptr /\ results' = results
      /\ searches' = searches /\ scored' = scored /\ begun' = begun
  BY DEF search
<1>2. STypes /\ PlaceInv /\ ScoredInv
  BY DEF SInv, SearchInv
<1>3. STypes'
  <2>1. stale' \in [Searchers -> BOOLEAN] /\ quiet' \in [Searchers -> BOOLEAN]
    OBVIOUS
  <2> QED
    BY <1>1, <1>2, <2>1 DEF STypes
<1>4. ASSUME NEW s \in Searchers
      PROVE  PlaceOk(s)'
  <2>1. PlaceOk(s) /\ (stale'[s] <=> stale[s] \/ held[s] \in T \/ ptr[s] \in I)
    BY <1>2 DEF PlaceInv
  <2>2. stale'[s] => spc[s] \in {"list", "copy"}
    BY <2>1 DEF PlaceOk
  <2>3. spc[s] = "list" /\ ~stale'[s] => index'.postings[held[s]] # <<>>
    BY <2>1 DEF PlaceOk
  <2>4. spc[s] = "copy" /\ ~stale'[s] => ptr[s] \in Ids'
    BY <2>1 DEF PlaceOk
  <2> QED
    BY <1>1, <2>1, <2>2, <2>3, <2>4 DEF PlaceOk
<1>5. ASSUME NEW s \in Searchers
      PROVE  QuietOk(s)'
  BY DEF QuietOk
<1>6. ASSUME NEW s \in Searchers
      PROVE  ScoredOk(s)'
  <2>1. ScoredOk(s) /\ loads \in Nat /\ begun[s] \in Nat
    BY <1>2, KeptOf DEF ScoredInv, STypes
  <2>2. CASE loads' = loads + 1
    BY <1>1, <2>1, <2>2 DEF ScoredOk
  <2>3. CASE /\ loads' = loads /\ index'.nextId >= index.nextId
             /\ \A id \in Ids' : id <= index.nextId - 1 =>
                   id \in Ids /\ index'.docs[id].url = index.docs[id].url
    <3> SUFFICES ASSUME begun[s] = loads
                 PROVE  /\ hits[s] \subseteq 1..(index'.nextId - 1)
                        /\ \A id \in hits[s] \cap Ids' : index'.docs[id].url \in scored[s]
                        /\ \A doc \in results[s] : doc.url \in scored[s]
      BY <1>1, <2>1, <2>3 DEF ScoredOk
    <3>1. /\ hits[s] \subseteq 1..(index.nextId - 1)
          /\ \A id \in hits[s] \cap Ids : index.docs[id].url \in scored[s]
          /\ \A doc \in results[s] : doc.url \in scored[s]
      BY <2>1 DEF ScoredOk
    <3>2. index.nextId \in Nat /\ index'.nextId \in Nat
      BY PartsOf DEF SInv, IInv, Exact
    <3>3. hits[s] \subseteq 1..(index'.nextId - 1)
      BY <2>3, <3>1, <3>2
    <3>4. \A id \in hits[s] : id <= index.nextId - 1
      BY <3>1, <3>2
    <3> QED
      BY <2>3, <3>1, <3>3, <3>4
  <2> QED
    BY <2>2, <2>3
<1> QED
  BY <1>3, <1>4, <1>5, <1>6 DEF SearchInv, PlaceInv, QuietInv, ScoredInv

\* addDocumentLocked touches the lists of the old and the new terms of the
\* document, and its record.
LEMMA AddTouchesAll ==
    ASSUME NEW x, Exact(x), NEW doc \in Doc, NEW old,
           old = IF IdFor(x, doc.url) \in DOMAIN x.docTerms
                 THEN DOMAIN x.docTerms[IdFor(x, doc.url)] ELSE {},
           NEW t \in Terms, t \notin old, t \notin DOMAIN Freqs(doc.ver)
    PROVE  Added(x, doc).postings[t] = x.postings[t]
<1> DEFINE id == IdFor(x, doc.url)
           b == Base(x, doc.url)
<1>1. Added(x, doc).postings = WithPostings(b.postings, id, Freqs(doc.ver))
  BY AddedFields
<1>2. Added(x, doc).postings[t] = b.postings[t]
  BY <1>1 DEF WithPostings
<1>3. b.postings[t] = x.postings[t]
  <2>1. CASE doc.url \in DOMAIN x.urlToId
    <3>1. id = x.urlToId[doc.url] /\ b = Unindexed(x, id) /\ x \in IndexRecord
      BY <2>1 DEF IdFor, Base, Exact
    <3>2. id \in DOMAIN x.docs /\ DOMAIN x.docTerms = DOMAIN x.docs
      BY <2>1, <3>1 DEF Exact, UrlsExact, IdsExact
    <3>3. t \notin DOMAIN x.docTerms[id]
      BY <3>2
    <3>4. b.postings = RemovePostings(x, id)
      BY <3>1 DEF Unindexed, IndexRecord
    <3> QED
      BY <3>3, <3>4 DEF RemovePostings
  <2>2. CASE doc.url \notin DOMAIN x.urlToId
    BY <2>2 DEF Base
  <2> QED
    BY <2>1, <2>2
<1> QED
  BY <1>2, <1>3

LEMMA AddKeeps ==
    ASSUME SInv, NEW doc \in Doc, AddDocument(doc), Disturbs(AddTouches(doc))
    PROVE  SearchInv'
<1> DEFINE id == IdFor(index, doc.url)
           old == IF id \in DOMAIN index.docTerms THEN DOMAIN index.docTerms[id] ELSE {}
           T == old \cup DOMAIN Freqs(doc.ver)
<1>1. Exact(index) /\ index' = Added(index, doc) /\ loads' = loads
  BY DEF SInv, IInv, AddDocument
<1>2. IInv'
  BY NextInv DEF SInv, Next
<1>3. /\ UNCHANGED <<search, begun>>
      /\ stale' = [s \in Searchers |-> stale[s] \/ held[s] \in T \/ ptr[s] \in {id}]
      /\ quiet' = [s \in Searchers |-> FALSE]
  BY DEF Disturbs, AddTouches
<1>4. \A t \in Terms : t \notin T => index'.postings[t] = index.postings[t]
  BY <1>1, AddTouchesAll
<1>5. doc.url \in Urls /\ doc.ver \in Versions
  BY DEF Doc
<1>6. /\ index'.docs = Put(index.docs, id, doc)
      /\ index'.nextId \in {index.nextId, index.nextId + 1}
      /\ index.nextId \in Nat /\ Ids \subseteq 1..(index.nextId - 1)
  BY <1>1, AddedExact, PartsOf DEF Exact, IdsExact, Ids
<1>7. /\ id \in Nat
      /\ doc.url \in DOMAIN index.urlToId => id \in Ids
      /\ doc.url \notin DOMAIN index.urlToId => id = index.nextId
  BY <1>1, <1>5, BaseHolds DEF Ids
<1>8. T \subseteq Terms
  <2>1. DOMAIN Freqs(doc.ver) \subseteq Terms
    BY <1>5, FreqsOf
  <2>2. \A k \in DOMAIN index.docTerms : DOMAIN index.docTerms[k] \subseteq Terms
    <3>1. \A k \in DOMAIN index.docTerms : index.docTerms[k] \in Partial(Terms, Nat)
      BY <1>1, PartsOf DEF Exact
    <3> QED
      BY <3>1, PartialFun
  <2> QED
    BY <2>1, <2>2
<1> HIDE DEF id, T
<1>9. Ids' = Ids \cup {id} /\ index'.docs[id] = doc /\ \A k \in Ids : k # id => index'.docs[k] = index.docs[k]
  <2>1. DOMAIN Put(index.docs, id, doc) = DOMAIN index.docs \cup {id}
    BY PutDomain
  <2>2. /\ Put(index.docs, id, doc)[id] = doc
        /\ \A k \in DOMAIN index.docs : k # id => Put(index.docs, id, doc)[k] = index.docs[k]
    BY PutOf
  <2> QED
    BY <1>6, <2>1, <2>2 DEF Ids
<1>10. \A k \in Ids' : k <= index.nextId - 1 => k \in Ids /\ index'.docs[k].url = index.docs[k].url
  <2> SUFFICES ASSUME NEW k \in Ids', k <= index.nextId - 1
               PROVE  k \in Ids /\ index'.docs[k].url = index.docs[k].url
    OBVIOUS
  <2>1. CASE k # id
    BY <1>9, <2>1
  <2>2. CASE k = id
    <3>1. id # index.nextId
      BY <1>6, <2>2
    <3>2. id \in Ids /\ id = index.urlToId[doc.url] /\ doc.url \in DOMAIN index.urlToId
      BY <1>7, <3>1 DEF id, IdFor
    <3>3. index.docs[id].url = doc.url
      BY <1>1, <3>2 DEF Exact, UrlsExact
    <3> QED
      BY <1>9, <2>2, <3>2, <3>3
  <2> QED
    BY <2>1, <2>2
<1>11. index'.nextId >= index.nextId /\ \A k \in Ids : k \in Ids'
  BY <1>6, <1>9
<1>12. {id} \subseteq Nat
  BY <1>7
<1> QED
  BY <1>1, <1>2, <1>3, <1>4, <1>8, <1>10, <1>11, <1>12, WriteKeeps

LEMMA RemoveKeeps ==
    ASSUME SInv, NEW id \in Ids, RemoveDocument(id), Disturbs(RemoveTouches(id))
    PROVE  SearchInv'
<1> DEFINE T == DOMAIN index.docTerms[id]
<1>1. Exact(index) /\ index' = Removed(index, id) /\ loads' = loads /\ id \in DOMAIN index.docs
  BY DEF SInv, IInv, RemoveDocument, Ids
<1>2. IInv'
  BY <1>1, NextInv DEF SInv, Next
<1>3. /\ UNCHANGED <<search, begun>>
      /\ stale' = [s \in Searchers |-> stale[s] \/ held[s] \in T \/ ptr[s] \in {id}]
      /\ quiet' = [s \in Searchers |-> FALSE]
  BY DEF Disturbs, RemoveTouches
<1>4. \A t \in Terms : t \notin T => index'.postings[t] = index.postings[t]
  <2>1. Unindexed(index, id) \in IndexRecord /\ index \in IndexRecord
    BY <1>1, UnindexedHolds DEF Holds, Exact
  <2>2. index'.postings = Unindexed(index, id).postings
    BY <1>1, <2>1 DEF Removed, IndexRecord
  <2>3. Unindexed(index, id).postings = RemovePostings(index, id)
    BY <2>1 DEF Unindexed, IndexRecord
  <2> QED
    BY <2>2, <2>3 DEF RemovePostings
<1>5. /\ index'.docs = Drop(index.docs, id) /\ index'.nextId = index.nextId
      /\ index.nextId \in Nat /\ Ids \subseteq Nat
  BY <1>1, RemovedExact, PartsOf DEF Exact, IdsExact, Ids
<1>6. T \subseteq Terms
  <2>1. index.docTerms[id] \in Partial(Terms, Nat)
    BY <1>1, PartsOf DEF Exact, IdsExact
  <2> QED
    BY <2>1, PartialFun
<1> HIDE DEF T
<1>7. Ids' = Ids \ {id} /\ \A k \in Ids : k # id => index'.docs[k] = index.docs[k]
  <2>1. DOMAIN Drop(index.docs, id) = DOMAIN index.docs \ {id}
    BY DropDomain
  <2>2. \A k \in DOMAIN index.docs : k # id => Drop(index.docs, id)[k] = index.docs[k]
    BY DropOf
  <2> QED
    BY <1>5, <2>1, <2>2 DEF Ids
<1>8. \A k \in Ids' : k \in Ids /\ index'.docs[k].url = index.docs[k].url
  BY <1>7
<1>9. index'.nextId >= index.nextId /\ (\A k \in Ids : k \notin {id} => k \in Ids') /\ {id} \subseteq Nat
  BY <1>5, <1>7
<1> QED
  BY <1>1, <1>2, <1>3, <1>4, <1>6, <1>8, <1>9, WriteKeeps

\* clear and replaceAll touch everything.
LEMMA LoadKeeps ==
    ASSUME SInv, ClearIndex \/ \E docs \in Corpora : ReplaceIndex(docs), Disturbs(AllTouched)
    PROVE  SearchInv'
<1>1. IInv' /\ loads' = loads + 1
  BY NextInv DEF SInv, Next, ClearIndex, ReplaceIndex
<1>2. /\ UNCHANGED <<search, begun>>
      /\ stale' = [s \in Searchers |-> stale[s] \/ held[s] \in Terms \/ ptr[s] \in Ids]
      /\ quiet' = [s \in Searchers |-> FALSE]
  BY DEF Disturbs, AllTouched, Ids
<1>3. Ids \subseteq Nat
  BY PartsOf DEF SInv, IInv, Exact, Ids
<1> QED
  BY <1>1, <1>2, <1>3, WriteKeeps

----------------------------------------------------------------------------
(* Every step *)

LEMMA NextSearch == SInv /\ [SNext]_svars => SInv'
<1> SUFFICES ASSUME SInv, [SNext]_svars
             PROVE  SInv'
  OBVIOUS
<1>1. ASSUME NEW s \in Searchers,
             SearchStep(s) \/ \E q \in SUBSET Terms : BeginSearch(s, q)
      PROVE  SInv'
  <2>1. Kept(s)'
    BY <1>1, BeginSearchKeeps, ReadAverageKeeps, GetPostingsKeeps, ScoreListKeeps, AllScoredKeeps,
       GetDocumentKeeps, CopyDocumentKeeps, AllCopiedKeeps, ReturnKeeps DEF SearchStep
  <2>2. ASSUME NEW r \in Searchers
        PROVE  PlaceOk(r)' /\ QuietOk(r)' /\ ScoredOk(r)'
    <3>1. CASE r = s
      BY <2>1, <3>1 DEF Kept
    <3>2. CASE r # s
      <4>1. STypes /\ PlaceOk(r) /\ QuietOk(r) /\ ScoredOk(r)
        BY DEF SInv, SearchInv, PlaceInv, QuietInv, ScoredInv
      <4>2. Same(r)
        BY <1>1, <3>2, <4>1, OthersSame
      <4> QED
        BY <4>1, <4>2, SameOk
    <3> QED
      BY <3>1, <3>2
  <2>3. UNCHANGED ivars
    BY <1>1 DEF SearchStep, BeginSearch, ReadAverage, GetPostings, ScoreList, AllScored,
                GetDocument, CopyDocument, AllCopied, Return
  <2>4. IInv'
    BY <2>3, NextInv DEF SInv
  <2> QED
    BY <2>1, <2>2, <2>4 DEF SInv, SearchInv, PlaceInv, QuietInv, ScoredInv, Kept
<1>2. CASE \E doc \in Doc : AddDocument(doc) /\ Disturbs(AddTouches(doc))
  BY <1>2, AddKeeps, NextInv DEF SInv, Next
<1>3. CASE \E id \in DOMAIN index.docs : RemoveDocument(id) /\ Disturbs(RemoveTouches(id))
  BY <1>3, RemoveKeeps, NextInv DEF SInv, Next, Ids
<1>4. CASE ClearIndex /\ Disturbs(AllTouched)
  BY <1>4, LoadKeeps, NextInv DEF SInv, Next
<1>5. CASE \E docs \in Corpora : ReplaceIndex(docs) /\ Disturbs(AllTouched)
  BY <1>5, LoadKeeps, NextInv DEF SInv, Next
<1>6. CASE UNCHANGED svars
  <2>1. UNCHANGED ivars
    BY <1>6 DEF svars
  <2>2. IInv'
    BY <2>1, NextInv DEF SInv
  <2>3. \A s \in Searchers : Same(s)
    BY <1>6, <2>1 DEF svars, search, Same
  <2>4. \A s \in Searchers : PlaceOk(s)' /\ QuietOk(s)' /\ ScoredOk(s)'
    BY <2>3, SameOk DEF SInv, SearchInv, PlaceInv, QuietInv, ScoredInv
  <2>5. STypes'
    BY <1>6 DEF svars, search, SInv, SearchInv, STypes
  <2> QED
    BY <2>2, <2>4, <2>5 DEF SInv, SearchInv, PlaceInv, QuietInv, ScoredInv
<1> QED
  BY <1>1, <1>2, <1>3, <1>4, <1>5, <1>6 DEF SNext

\* What searches do to the index is nothing, and writers write as before.
LEMMA StepIsWrite == [SNext]_svars => [Next]_ivars
<1> SUFFICES ASSUME [SNext]_svars
             PROVE  [Next]_ivars
  OBVIOUS
<1>1. CASE \E s \in Searchers : SearchStep(s) \/ \E q \in SUBSET Terms : BeginSearch(s, q)
  BY <1>1 DEF SearchStep, BeginSearch, ReadAverage, GetPostings, ScoreList, AllScored,
              GetDocument, CopyDocument, AllCopied, Return
<1>2. CASE UNCHANGED svars
  BY <1>2 DEF svars
<1> QED
  BY <1>1, <1>2 DEF SNext, Next

\* The index under search is the index: whatever holds of InvertedIndex, its
\* exactness and the corpus it implements, holds while threads search it.
THEOREM UnderSearch == SSpec => Spec
<1>1. SInit => Init
  BY DEF SInit
<1> QED
  BY <1>1, StepIsWrite, PTL DEF SSpec, Spec

\* Postings, URL map, lengths and total stay exact while threads search.
THEOREM ExactUnderSearch == SSpec => []IndexExact
BY UnderSearch, AlwaysExact, PTL

\* And the index implements the corpus.
THEOREM ImplementsUnderSearch == SSpec => ImplementsCorpus
BY UnderSearch, Implements, PTL

\* A search holds a pointer only where rank reads through it, and as long as
\* it is not stale, it is not null (BM25Ranker::rank).
THEOREM SearchTyping == SSpec => []STypeOK
<1>1. IInv => TypeOK
  BY PartsOf DEF IInv, TypeOK, Exact, IdsExact, UrlsExact, Ids
<1>2. SearchInv /\ TypeOK => STypeOK
  <2> SUFFICES ASSUME SearchInv, TypeOK, NEW s \in Searchers
               PROVE  /\ spc[s] \in Places
                      /\ query[s] \subseteq Terms /\ todo[s] \subseteq query[s]
                      /\ held[s] \in Terms <=> spc[s] = "list"
                      /\ ptr[s] \in Nat <=> spc[s] = "copy"
                      /\ spc[s] = "list" /\ ~stale[s] => index.postings[held[s]] # <<>>
                      /\ spc[s] = "copy" /\ ~stale[s] => ptr[s] \in DOMAIN index.docs
                      /\ left[s] \subseteq hits[s]
                      /\ results[s] \subseteq Doc
    BY DEF STypeOK, Places
  <2>1. PlaceOk(s) /\ STypes
    BY DEF SearchInv, PlaceInv
  <2> QED
    BY <2>1 DEF PlaceOk, STypes, Ids
<1> QED
  BY <1>1, <1>2, InitSearch, NextSearch, PTL DEF SSpec, SInv

\* A search during which nobody writes finds exactly the documents with one of
\* its terms, for any index and query (BM25Ranker::rank).
THEOREM QuietExact == SSpec => []QuietSearchExact
<1>1. SInv => QuietSearchExact
  BY DEF SInv, SearchInv, QuietInv, QuietOk, QuietSearchExact
<1> QED
  BY <1>1, InitSearch, NextSearch, PTL DEF SSpec

\* Without a load since it began, a search reports a URL only if it was scored:
\* ids are not given to other URLs (the nextId_ of addDocumentLocked).
THEOREM Scored == SSpec => []ResultsWereScored
<1>1. SInv => ResultsWereScored
  BY DEF SInv, SearchInv, ScoredInv, ScoredOk, ResultsWereScored
<1> QED
  BY <1>1, InitSearch, NextSearch, PTL DEF SSpec

----------------------------------------------------------------------------
(* The tokenizer: its code points *)

\* The code points that text can hold.
Character == {cp \in Nat : cp <= 1114111 /\ ~(55296 <= cp /\ cp <= 57343)}

\* Case folding is idempotent, and what it folds stays a token character, for
\* every code point (foldCase, isTokenCharacter).
THEOREM Folding == \A cp \in Nat : FoldedOnce(cp)
<1> SUFFICES ASSUME NEW cp \in Nat
             PROVE  FoldedOnce(cp)
  OBVIOUS
<1>1. FoldCase(FoldCase(cp)) = FoldCase(cp)
  BY SMT DEF FoldCase
<1>2. IsTokenCharacter(FoldCase(cp)) <=> IsTokenCharacter(cp)
  BY SMT DEF FoldCase, IsTokenCharacter, TokenRanges
<1> QED
  BY <1>1, <1>2 DEF FoldedOnce

LEMMA TokenIsCharacter ==
    ASSUME NEW cp \in Nat \cup {Invalid}, IsTokenCharacter(cp)
    PROVE  cp \in Character /\ FoldCase(cp) \in Character
BY SMT DEF IsTokenCharacter, TokenRanges, Character, FoldCase, Invalid


\* The code points that an encoding has room for.
Encodable == {cp \in Nat : cp < 2097152}

LEMMA SixBits == ASSUME NEW x \in Nat PROVE 128 + (x % 64) \in Continuation
BY SMT DEF Continuation

\* What an encoding is made of: a lead byte, and six bits in each other.
LEMMA EncodeIs ==
    ASSUME NEW cp \in Encodable
    PROVE  LET b == 128 + (cp % 64)
               c == 128 + ((cp \div 64) % 64)
               e == 128 + ((cp \div 4096) % 64) IN
           /\ b \in Continuation /\ c \in Continuation /\ e \in Continuation
           /\ cp < 128 => Encode(cp) = <<cp>>
           /\ 128 <= cp /\ cp < 2048 =>
                 /\ Encode(cp) = <<192 + cp \div 64, b>> /\ 192 + cp \div 64 \in 192..223
           /\ 2048 <= cp /\ cp < 65536 =>
                 /\ Encode(cp) = <<224 + cp \div 4096, c, b>> /\ 224 + cp \div 4096 \in 224..239
           /\ 65536 <= cp =>
                 /\ Encode(cp) = <<240 + cp \div 262144, e, c, b>>
                 /\ 240 + cp \div 262144 \in 240..247
<1>1. cp \in Nat /\ cp \div 64 \in Nat /\ cp \div 4096 \in Nat
  BY SMT DEF Encodable
<1>2. /\ 128 + (cp % 64) \in Continuation /\ 128 + ((cp \div 64) % 64) \in Continuation
      /\ 128 + ((cp \div 4096) % 64) \in Continuation
  BY <1>1, SixBits
<1>3. cp < 128 => Encode(cp) = <<cp>>
  BY SMT DEF Encode
<1>4. 128 <= cp /\ cp < 2048 =>
         /\ Encode(cp) = <<192 + cp \div 64, 128 + (cp % 64)>> /\ 192 + cp \div 64 \in 192..223
  BY <1>1, SMT DEF Encode
<1>5. 2048 <= cp /\ cp < 65536 =>
         /\ Encode(cp) = <<224 + cp \div 4096, 128 + ((cp \div 64) % 64), 128 + (cp % 64)>>
         /\ 224 + cp \div 4096 \in 224..239
  BY <1>1, SMT DEF Encode
<1>6. 65536 <= cp =>
         /\ Encode(cp) = <<240 + cp \div 262144, 128 + ((cp \div 4096) % 64),
                           128 + ((cp \div 64) % 64), 128 + (cp % 64)>>
         /\ 240 + cp \div 262144 \in 240..247
  BY <1>1, SMT DEF Encode, Encodable
<1> QED
  BY <1>2, <1>3, <1>4, <1>5, <1>6, SMT

LEMMA Encoded ==
    ASSUME NEW cp \in Encodable
    PROVE  /\ Encode(cp) \in Seq(Byte) /\ Len(Encode(cp)) \in 1..4
           /\ Encode(cp)[1] \in Byte \ Continuation
<1> DEFINE b == 128 + (cp % 64)
           c == 128 + ((cp \div 64) % 64)
           e == 128 + ((cp \div 4096) % 64)
<1>1. \A a \in 192..247 : a \in Byte \ Continuation
  BY SMT DEF Byte, Continuation
<1>2. \A a \in Continuation : a \in Byte
  BY SMT DEF Byte, Continuation
<1>3. \A a, w, x, y : /\ Len(<<a>>) = 1 /\ Len(<<a, w>>) = 2
                      /\ Len(<<a, w, x>>) = 3 /\ Len(<<a, w, x, y>>) = 4
  OBVIOUS
<1>4. \A a, w, x, y \in Byte : /\ <<a>> \in Seq(Byte) /\ <<a, w>> \in Seq(Byte)
                               /\ <<a, w, x>> \in Seq(Byte) /\ <<a, w, x, y>> \in Seq(Byte)
  OBVIOUS
<1>5. b \in Byte /\ c \in Byte /\ e \in Byte
  BY <1>2, EncodeIs
<1> HIDE DEF b, c, e
<1>6. CASE cp < 128
  <2>1. Encode(cp) = <<cp>> /\ cp \in Byte \ Continuation
    BY <1>6, SMT DEF Encode, Encodable, Byte, Continuation
  <2> QED
    BY <1>3, <1>4, <2>1
<1>7. CASE 128 <= cp /\ cp < 2048
  <2>1. PICK a : Encode(cp) = <<a, b>> /\ a \in 192..223
    BY <1>7, EncodeIs DEF b
  <2>2. a \in 192..247
    BY <2>1, SMT
  <2>3. a \in Byte /\ a \in Byte \ Continuation
    BY <1>1, <2>2
  <2>4. <<a, b>> \in Seq(Byte) /\ Len(<<a, b>>) = 2 /\ <<a, b>>[1] = a
    BY <1>3, <1>4, <1>5, <2>3
  <2> QED
    BY <2>1, <2>3, <2>4
<1>8. CASE 2048 <= cp /\ cp < 65536
  <2>1. PICK a : Encode(cp) = <<a, c, b>> /\ a \in 224..239
    BY <1>8, EncodeIs DEF b, c
  <2>2. a \in 192..247
    BY <2>1, SMT
  <2>3. a \in Byte /\ a \in Byte \ Continuation
    BY <1>1, <2>2
  <2>4. <<a, c, b>> \in Seq(Byte) /\ Len(<<a, c, b>>) = 3 /\ <<a, c, b>>[1] = a
    BY <1>3, <1>4, <1>5, <2>3
  <2> QED
    BY <2>1, <2>3, <2>4
<1>9. CASE 65536 <= cp
  <2>1. PICK a : Encode(cp) = <<a, e, c, b>> /\ a \in 240..247
    BY <1>9, EncodeIs DEF b, c, e
  <2>2. a \in 192..247
    BY <2>1, SMT
  <2>3. a \in Byte /\ a \in Byte \ Continuation
    BY <1>1, <2>2
  <2>4. <<a, e, c, b>> \in Seq(Byte) /\ Len(<<a, e, c, b>>) = 4 /\ <<a, e, c, b>>[1] = a
    BY <1>3, <1>4, <1>5, <2>3
  <2> QED
    BY <2>1, <2>3, <2>4
<1> QED
  BY <1>6, <1>7, <1>8, <1>9, SMT DEF Encodable

\* Are all the bytes there that the lead byte at i asks for?
Complete(text, i) ==
    LET n == Width(text[i])
    IN  /\ n > 0 /\ i + n - 1 <= Len(text)
        /\ \A k \in 1..n-1 : text[i + k] \in Continuation

Accepted(text, i) == Complete(text, i) /\ Canonical(Joined(text, i, Width(text[i])), Width(text[i]))

LEMMA DecodeIs ==
    ASSUME NEW text, NEW i
    PROVE  DecodeUtf8(text, i) =
              IF Accepted(text, i)
              THEN [cp |-> Joined(text, i, Width(text[i])), next |-> i + Width(text[i])]
              ELSE [cp |-> Invalid, next |-> i + 1]
BY Zenon DEF DecodeUtf8, Accepted, Complete

LEMMA Widths == ASSUME NEW b \in Byte PROVE Width(b) \in 0..4
BY SMT DEF Width, Byte

LEMMA LeadBits ==
    ASSUME NEW b \in Byte
    PROVE  b \in Nat /\ b % 32 \in Nat /\ b % 16 \in Nat /\ b % 8 \in Nat
BY SMT DEF Byte

LEMMA ShiftTyped == ASSUME NEW cp \in Nat, NEW b \in Byte PROVE Shift(cp, b) \in Nat
BY SMT DEF Shift, Byte

\* The bytes of a complete sequence, and the number they make.
LEMMA JoinedTyped ==
    ASSUME NEW text \in Seq(Byte), NEW i \in 1..Len(text), Complete(text, i)
    PROVE  Joined(text, i, Width(text[i])) \in Nat
<1> DEFINE n == Width(text[i])
<1>1. text[i] \in Byte /\ n \in 1..4
  BY Widths, ElementOfSeq, SMT DEF Complete
<1>2. \A k \in 1..n-1 : text[i + k] \in Byte
  BY SMT DEF Complete, Byte, Continuation
<1> HIDE DEF n
<1>3. /\ n >= 2 => text[i + 1] \in Byte
      /\ n >= 3 => text[i + 2] \in Byte
      /\ n >= 4 => text[i + 3] \in Byte
  BY <1>1, <1>2, SMT
<1>4. PICK a, b, c, e : /\ a = text[i] /\ b = text[i + 1] /\ c = text[i + 2] /\ e = text[i + 3]
  OBVIOUS
<1>5. /\ a \in Byte
      /\ n >= 2 => b \in Byte
      /\ n >= 3 => c \in Byte
      /\ n >= 4 => e \in Byte
  BY <1>1, <1>3, <1>4
<1>6. /\ n = 1 => Joined(text, i, n) = a
      /\ n = 2 => Joined(text, i, n) = Shift(a % 32, b)
      /\ n = 3 => Joined(text, i, n) = Shift(Shift(a % 16, b), c)
      /\ n = 4 => Joined(text, i, n) = Shift(Shift(Shift(a % 8, b), c), e)
  BY <1>4, SMT DEF Joined
<1>7. Joined(text, i, n) \in Nat
  <2> HIDE <1>2, <1>3, <1>4
  <2>1. a \in Nat /\ a % 32 \in Nat /\ a % 16 \in Nat /\ a % 8 \in Nat
    BY <1>5, LeadBits
  <2>2. CASE n = 1
    BY <1>6, <2>1, <2>2
  <2>3. CASE n = 2
    <3>0. b \in Byte
      BY <1>5, <2>3, SMT
    <3>1. Shift(a % 32, b) \in Nat
      BY <2>1, <3>0, ShiftTyped
    <3> QED
      BY <1>6, <2>3, <3>1
  <2>4. CASE n = 3
    <3>0. b \in Byte /\ c \in Byte
      BY <1>5, <2>4, SMT
    <3>1. Shift(a % 16, b) \in Nat /\ c \in Byte
      BY <2>1, <3>0, ShiftTyped
    <3>2. Shift(Shift(a % 16, b), c) \in Nat
      BY <3>1, ShiftTyped
    <3> QED
      BY <1>6, <2>4, <3>2
  <2>5. CASE n = 4
    <3>0. b \in Byte /\ c \in Byte /\ e \in Byte
      BY <1>5, <2>5, SMT
    <3>1. Shift(a % 8, b) \in Nat /\ c \in Byte /\ e \in Byte
      BY <2>1, <3>0, ShiftTyped
    <3>2. Shift(Shift(a % 8, b), c) \in Nat
      BY <3>1, ShiftTyped
    <3>3. Shift(Shift(Shift(a % 8, b), c), e) \in Nat
      BY <3>1, <3>2, ShiftTyped
    <3> QED
      BY <1>6, <2>5, <3>3
  <2> QED
    BY <1>1, <2>2, <2>3, <2>4, <2>5, SMT
<1> QED
  BY <1>7 DEF n

\* What is decoded is a character or nothing, and decoding moves on within the text.
LEMMA Decoded ==
    ASSUME NEW text \in Seq(Byte), NEW i \in 1..Len(text)
    PROVE  /\ DecodeUtf8(text, i).cp \in Character \cup {Invalid}
           /\ DecodeUtf8(text, i).next \in i + 1..Len(text) + 1
<1>1. CASE Accepted(text, i)
  <2> DEFINE n == Width(text[i])
             cp == Joined(text, i, n)
  <2>1. cp \in Nat /\ Canonical(cp, n) /\ n \in Nat /\ n > 0 /\ i + n - 1 <= Len(text)
    <3>1. text[i] \in Byte
      BY ElementOfSeq
    <3>2. n \in 0..4
      BY <3>1, Widths
    <3> QED
      BY <1>1, <3>2, JoinedTyped, SMT DEF Accepted, Complete
  <2>2. DecodeUtf8(text, i) = [cp |-> cp, next |-> i + n]
    BY <1>1, DecodeIs
  <2> HIDE DEF n, cp
  <2>3. cp \in Character
    BY <2>1, SMT DEF Canonical, Character
  <2>4. Len(text) \in Nat
    BY LenProperties
  <2> QED
    BY <2>1, <2>2, <2>3, <2>4, SMT
<1>2. CASE ~Accepted(text, i)
  <2>1. DecodeUtf8(text, i) = [cp |-> Invalid, next |-> i + 1]
    BY <1>2, DecodeIs
  <2> QED
    BY <2>1, LenProperties, SMT
<1> QED
  BY <1>1, <1>2

\* Decoding sees the bytes of a sequence and no others, wherever they are.
LEMMA SameDecoding ==
    ASSUME NEW s \in Seq(Byte), NEW t \in Seq(Byte), NEW i \in 1..Len(s), NEW j \in 1..Len(t),
           s[i] = t[j], Complete(s, i) <=> Complete(t, j),
           Complete(s, i) => \A k \in 1..Width(s[i]) - 1 : s[i + k] = t[j + k]
    PROVE  /\ DecodeUtf8(t, j).cp = DecodeUtf8(s, i).cp
           /\ DecodeUtf8(t, j).next = DecodeUtf8(s, i).next + (j - i)
<1> DEFINE n == Width(s[i])
<1>1. n = Width(t[j]) /\ n \in 0..4 /\ i \in Int /\ j \in Int
  <2>1. s[i] \in Byte
    BY ElementOfSeq
  <2> QED
    BY <2>1, Widths, SMT
<1>2. Complete(s, i) => Joined(s, i, n) = Joined(t, j, n)
  <2> SUFFICES ASSUME Complete(s, i)
               PROVE  Joined(s, i, n) = Joined(t, j, n)
    OBVIOUS
  <2>1. n > 0 /\ \A k \in 1..n - 1 : s[i + k] = t[j + k]
    BY DEF Complete
  <2> HIDE DEF n
  <2>2. /\ n >= 2 => s[i + 1] = t[j + 1]
        /\ n >= 3 => s[i + 2] = t[j + 2]
        /\ n >= 4 => s[i + 3] = t[j + 3]
    BY <1>1, <2>1, SMT
  <2>3. n = 1 \/ n = 2 \/ n = 3 \/ n = 4
    BY <1>1, <2>1, SMT
  <2> QED
    BY <2>2, <2>3, SMT DEF Joined
<1>3. Accepted(s, i) <=> Accepted(t, j)
  BY <1>1, <1>2 DEF Accepted
<1>4. CASE Accepted(s, i)
  <2>1. /\ DecodeUtf8(s, i) = [cp |-> Joined(s, i, n), next |-> i + n]
        /\ DecodeUtf8(t, j) = [cp |-> Joined(t, j, n), next |-> j + n]
    BY <1>1, <1>3, <1>4, DecodeIs
  <2>2. Joined(s, i, n) = Joined(t, j, n)
    BY <1>2, <1>4 DEF Accepted
  <2> HIDE DEF n
  <2> QED
    BY <1>1, <2>1, <2>2, SMT
<1>5. CASE ~Accepted(s, i)
  <2>1. /\ DecodeUtf8(s, i) = [cp |-> Invalid, next |-> i + 1]
        /\ DecodeUtf8(t, j) = [cp |-> Invalid, next |-> j + 1]
    BY <1>3, <1>5, DecodeIs
  <2> QED
    BY <1>1, <2>1, SMT
<1> QED
  BY <1>4, <1>5

\* What follows a text, unless it is a continuation byte, does not change how the
\* text is decoded.
LEMMA DecodeBefore ==
    ASSUME NEW x \in Seq(Byte), NEW z \in Seq(Byte), NEW i \in 1..Len(x),
           z = <<>> \/ z[1] \notin Continuation
    PROVE  /\ DecodeUtf8(x \o z, i).cp = DecodeUtf8(x, i).cp
           /\ DecodeUtf8(x \o z, i).next = DecodeUtf8(x, i).next
<1> DEFINE t == x \o z
           m == Len(x)
           n == Width(x[i])
<1>1. /\ t \in Seq(Byte) /\ Len(t) = m + Len(z) /\ m \in Nat /\ Len(z) \in Nat
      /\ \A k \in 1..m + Len(z) : t[k] = IF k <= m THEN x[k] ELSE z[k - m]
  BY ConcatProperties, LenProperties
<1>2. z # <<>> => Len(z) >= 1
  BY EmptySeq
<1>3. n \in 0..4
  BY Widths, ElementOfSeq
<1> HIDE DEF t, m
<1>4. /\ i \in 1..m /\ i \in 1..Len(t) /\ i \in Int /\ x[i] = t[i]
      /\ \A k \in 1..m : t[k] = x[k]
  BY <1>1 DEF m
<1>5. Complete(x, i) => \A k \in 1..n - 1 : x[i + k] = t[i + k]
  <2> SUFFICES ASSUME Complete(x, i), NEW k \in 1..n - 1
               PROVE  x[i + k] = t[i + k]
    OBVIOUS
  <2>1. i + n - 1 <= m
    BY DEF Complete, m
  <2> HIDE DEF n
  <2>2. i + k \in 1..m
    BY <1>1, <1>3, <1>4, <2>1, SMT
  <2> QED
    BY <1>4, <2>2
<1>6. Complete(x, i) => Complete(t, i)
  <2> SUFFICES ASSUME Complete(x, i)
               PROVE  Complete(t, i)
    OBVIOUS
  <2>1. n > 0 /\ i + n - 1 <= m /\ \A k \in 1..n - 1 : x[i + k] \in Continuation
    BY DEF Complete, m
  <2>2. n = Width(t[i]) /\ \A k \in 1..n - 1 : t[i + k] \in Continuation
    BY <1>4, <1>5, <2>1
  <2> HIDE DEF n
  <2>3. i + n - 1 <= Len(t)
    BY <1>1, <1>3, <1>4, <2>1, SMT
  <2> QED
    BY <2>1, <2>2, <2>3 DEF Complete
<1>7. Complete(t, i) => Complete(x, i)
  <2> SUFFICES ASSUME Complete(t, i)
               PROVE  Complete(x, i)
    OBVIOUS
  <2>1. n > 0 /\ i + n - 1 <= Len(t) /\ \A k \in 1..n - 1 : t[i + k] \in Continuation
    BY <1>4 DEF Complete
  <2> HIDE DEF n
  <2>2. i + n - 1 <= m
    <3> SUFFICES ASSUME ~(i + n - 1 <= m)
                 PROVE  FALSE
      OBVIOUS
    <3>1. Len(z) >= 1
      BY <1>1, <1>3, <1>4, <2>1, SMT
    <3>2. t[m + 1] = z[1] /\ z # <<>>
      <4>1. m + 1 \in 1..m + Len(z) /\ ~(m + 1 <= m) /\ (m + 1) - m = 1
        BY <1>1, <3>1, SMT
      <4>2. t[m + 1] = z[(m + 1) - m]
        BY <1>1, <4>1
      <4> QED
        BY <3>1, <4>1, <4>2, EmptySeq, SMT
    <3>3. (m + 1) - i \in 1..n - 1 /\ i + ((m + 1) - i) = m + 1
      BY <1>1, <1>3, <1>4, SMT
    <3>4. t[i + ((m + 1) - i)] \in Continuation
      BY <2>1, <3>3
    <3> QED
      BY <3>2, <3>3, <3>4
  <2>3. \A k \in 1..n - 1 : x[i + k] \in Continuation
    <3> SUFFICES ASSUME NEW k \in 1..n - 1
                 PROVE  x[i + k] \in Continuation
      OBVIOUS
    <3>1. i + k \in 1..m
      BY <1>1, <1>3, <1>4, <2>2, SMT
    <3> QED
      BY <1>4, <2>1, <3>1
  <2> QED
    BY <2>1, <2>2, <2>3 DEF Complete, n, m
<1> QED
  <2>1. /\ DecodeUtf8(t, i).cp = DecodeUtf8(x, i).cp
        /\ DecodeUtf8(t, i).next = DecodeUtf8(x, i).next + (i - i)
    BY <1>1, <1>4, <1>5, <1>6, <1>7, SameDecoding
  <2>2. DecodeUtf8(x, i).next \in Int
    BY Decoded, LenProperties, SMT
  <2>3. DecodeUtf8(x, i).next + (i - i) = DecodeUtf8(x, i).next
    BY <1>4, <2>2, SMT
  <2> QED
    BY <2>1, <2>3 DEF t

\* Text is decoded alike wherever it stands.
LEMMA DecodeAfter ==
    ASSUME NEW p \in Seq(Byte), NEW y \in Seq(Byte), NEW j \in 1..Len(y)
    PROVE  /\ DecodeUtf8(p \o y, Len(p) + j).cp = DecodeUtf8(y, j).cp
           /\ DecodeUtf8(p \o y, Len(p) + j).next = Len(p) + DecodeUtf8(y, j).next
<1> DEFINE t == p \o y
           m == Len(p)
           n == Width(y[j])
           i == m + j
<1>1. /\ t \in Seq(Byte) /\ Len(t) = m + Len(y) /\ m \in Nat /\ Len(y) \in Nat
      /\ \A k \in 1..m + Len(y) : t[k] = IF k <= m THEN p[k] ELSE y[k - m]
  BY ConcatProperties, LenProperties
<1>2. n \in 0..4
  BY Widths, ElementOfSeq
<1> HIDE DEF t, m
<1>3. \A k \in 1..Len(y) : t[m + k] = y[k]
  <2> SUFFICES ASSUME NEW k \in 1..Len(y)
               PROVE  t[m + k] = y[k]
    OBVIOUS
  <2>1. m + k \in 1..m + Len(y) /\ ~(m + k <= m) /\ (m + k) - m = k
    BY <1>1, SMT
  <2> QED
    BY <1>1, <2>1
<1>4. /\ j \in Int /\ i \in Int /\ i \in 1..Len(t) /\ y[j] = t[i] /\ i - j = m
  BY <1>1, <1>3, SMT
<1>5. \A k \in Int : 1 <= j + k /\ j + k <= Len(y) => t[i + k] = y[j + k]
  <2> SUFFICES ASSUME NEW k \in Int, 1 <= j + k, j + k <= Len(y)
               PROVE  t[i + k] = y[j + k]
    OBVIOUS
  <2>1. j + k \in 1..Len(y) /\ i + k = m + (j + k)
    BY <1>1, <1>4, SMT
  <2> QED
    BY <1>3, <2>1
<1> HIDE DEF i
<1>6. Complete(y, j) <=> Complete(t, i)
  <2>1. n = Width(t[i])
    BY <1>4
  <2> HIDE DEF n
  <2>2. i + n - 1 <= Len(t) <=> j + n - 1 <= Len(y)
    BY <1>1, <1>2, <1>4, SMT
  <2>3. j + n - 1 <= Len(y) => \A k \in 1..n - 1 : t[i + k] = y[j + k]
    <3> SUFFICES ASSUME j + n - 1 <= Len(y), NEW k \in 1..n - 1
                 PROVE  t[i + k] = y[j + k]
      OBVIOUS
    <3>1. k \in Int /\ 1 <= j + k /\ j + k <= Len(y)
      BY <1>1, <1>2, <1>4, SMT
    <3> QED
      BY <1>5, <3>1
  <2>4. Complete(y, j) <=> n > 0 /\ j + n - 1 <= Len(y) /\ \A k \in 1..n - 1 : y[j + k] \in Continuation
    BY DEF Complete, n
  <2>5. Complete(t, i) <=> n > 0 /\ i + n - 1 <= Len(t) /\ \A k \in 1..n - 1 : t[i + k] \in Continuation
    BY <2>1 DEF Complete
  <2> QED
    BY <2>2, <2>3, <2>4, <2>5
<1>7. Complete(y, j) => \A k \in 1..n - 1 : y[j + k] = t[i + k]
  <2> SUFFICES ASSUME Complete(y, j), NEW k \in 1..n - 1
               PROVE  y[j + k] = t[i + k]
    OBVIOUS
  <2>1. j + n - 1 <= Len(y)
    BY DEF Complete
  <2> HIDE DEF n
  <2>2. k \in Int /\ 1 <= j + k /\ j + k <= Len(y)
    BY <1>1, <1>2, <1>4, <2>1, SMT
  <2> QED
    BY <1>5, <2>2
<1> QED
  <2>1. /\ DecodeUtf8(t, i).cp = DecodeUtf8(y, j).cp
        /\ DecodeUtf8(t, i).next = DecodeUtf8(y, j).next + (i - j)
    BY <1>1, <1>4, <1>6, <1>7, SameDecoding
  <2>2. DecodeUtf8(y, j).next \in Int
    BY Decoded, LenProperties, SMT
  <2>3. DecodeUtf8(y, j).next + (i - j) = m + DecodeUtf8(y, j).next
    BY <1>1, <1>4, <2>2, SMT
  <2> QED
    BY <2>1, <2>3 DEF t, m, i

----------------------------------------------------------------------------
(* Encoding and decoding *)

\* The number that lead bits and continuation bytes make, and back.
LEMMA TwoBytes ==
    ASSUME NEW cp \in Nat, 128 <= cp, cp < 2048
    PROVE  /\ 192 + cp \div 64 \in 192..223
           /\ Shift((192 + cp \div 64) % 32, 128 + (cp % 64)) = cp
BY SMT DEF Shift

LEMMA ThreeBytes ==
    ASSUME NEW cp \in Nat, 2048 <= cp, cp < 65536
    PROVE  /\ 224 + cp \div 4096 \in 224..239
           /\ Shift(Shift((224 + cp \div 4096) % 16, 128 + ((cp \div 64) % 64)), 128 + (cp % 64)) = cp
BY SMT DEF Shift

LEMMA FourBytes ==
    ASSUME NEW cp \in Nat, 65536 <= cp, cp < 2097152
    PROVE  /\ 240 + cp \div 262144 \in 240..247
           /\ Shift(Shift(Shift((240 + cp \div 262144) % 8, 128 + ((cp \div 4096) % 64)),
                          128 + ((cp \div 64) % 64)), 128 + (cp % 64)) = cp
BY SMT DEF Shift

LEMMA TwoBytesBack ==
    ASSUME NEW a \in 192..223, NEW b \in Continuation, NEW cp, cp = Shift(a % 32, b), cp >= 128
    PROVE  cp < 2048 /\ a = 192 + cp \div 64 /\ b = 128 + (cp % 64)
BY SMT DEF Shift, Continuation

LEMMA ThreeBytesBack ==
    ASSUME NEW a \in 224..239, NEW b \in Continuation, NEW c \in Continuation,
           NEW cp, cp = Shift(Shift(a % 16, b), c), cp >= 2048
    PROVE  /\ cp < 65536
           /\ a = 224 + cp \div 4096 /\ b = 128 + ((cp \div 64) % 64) /\ c = 128 + (cp % 64)
BY SMT DEF Shift, Continuation

\* One shift keeps both what was there and the six bits that it adds.
LEMMA ShiftBack ==
    ASSUME NEW r \in Nat, NEW b \in Continuation
    PROVE  /\ Shift(r, b) \in Nat
           /\ Shift(r, b) \div 64 = r /\ 128 + (Shift(r, b) % 64) = b
BY SMT DEF Shift, Continuation

LEMMA SixtyFourths ==
    ASSUME NEW x \in Nat
    PROVE  (x \div 64) \div 64 = x \div 4096 /\ (x \div 4096) \div 64 = x \div 262144
<1>1. (x \div 64) \div 64 = x \div 4096
  BY SMT
<1>2. (x \div 4096) \div 64 = x \div 262144
  BY SMT
<1> QED
  BY <1>1, <1>2

LEMMA FourBytesBack ==
    ASSUME NEW a \in 240..247, NEW b \in Continuation, NEW c \in Continuation, NEW e \in Continuation,
           NEW cp, cp = Shift(Shift(Shift(a % 8, b), c), e), cp >= 65536
    PROVE  /\ a = 240 + cp \div 262144 /\ b = 128 + ((cp \div 4096) % 64)
           /\ c = 128 + ((cp \div 64) % 64) /\ e = 128 + (cp % 64)
<1>1. a % 8 \in Nat /\ a = 240 + (a % 8)
  BY SMT
<1>2. PICK r0, r1, r2 : r0 = a % 8 /\ r1 = Shift(r0, b) /\ r2 = Shift(r1, c)
  OBVIOUS
<1>3. cp = Shift(r2, e) /\ r0 \in Nat /\ a = 240 + r0
  BY <1>1, <1>2
<1>4. r1 \in Nat /\ r1 \div 64 = r0 /\ 128 + (r1 % 64) = b
  BY <1>2, <1>3, ShiftBack
<1>5. r2 \in Nat /\ r2 \div 64 = r1 /\ 128 + (r2 % 64) = c
  BY <1>2, <1>4, ShiftBack
<1>6. cp \in Nat /\ cp \div 64 = r2 /\ 128 + (cp % 64) = e
  <2>1. r2 \in Nat
    BY <1>5
  <2>2. /\ Shift(r2, e) \in Nat
        /\ Shift(r2, e) \div 64 = r2 /\ 128 + (Shift(r2, e) % 64) = e
    BY <2>1, ShiftBack
  <2> QED
    BY <1>3, <2>2
<1>7. cp \div 4096 = r1
  <2>1. (cp \div 64) \div 64 = cp \div 4096
    BY <1>6, SixtyFourths
  <2>2. (cp \div 64) \div 64 = r1
    BY <1>5, <1>6
  <2> QED
    BY <2>1, <2>2
<1>8. cp \div 262144 = r0
  <2>1. (cp \div 4096) \div 64 = cp \div 262144
    BY <1>6, SixtyFourths
  <2>2. (cp \div 4096) \div 64 = r0
    BY <1>4, <1>7
  <2> QED
    BY <2>1, <2>2
<1> QED
  BY <1>3, <1>4, <1>5, <1>6, <1>7, <1>8

\* The same, for the encoding itself.
Lead3 == 224..239
Lead4 == 240..247

LEMMA TwoBytesEncoded ==
    ASSUME NEW a \in 192..223, NEW b \in Continuation, Shift(a % 32, b) >= 128
    PROVE  Encode(Shift(a % 32, b)) = <<a, b>>
<1>1. PICK cp : cp = Shift(a % 32, b)
  OBVIOUS
<1>2. cp \in Nat /\ cp >= 128
  BY <1>1, SMT DEF Shift, Continuation
<1>3. cp < 2048 /\ a = 192 + cp \div 64 /\ b = 128 + (cp % 64)
  BY <1>1, <1>2, TwoBytesBack
<1>4. Encode(cp) = <<192 + cp \div 64, 128 + (cp % 64)>>
  BY <1>2, <1>3, SMT DEF Encode
<1> QED
  BY <1>1, <1>3, <1>4

LEMMA ThreeBytesEncoded ==
    ASSUME NEW a \in Lead3, NEW b \in Continuation, NEW c \in Continuation,
           Shift(Shift(a % 16, b), c) >= 2048
    PROVE  Encode(Shift(Shift(a % 16, b), c)) = <<a, b, c>>
<1>1. PICK cp : cp = Shift(Shift(a % 16, b), c)
  OBVIOUS
<1>0. a \in 224..239
  BY DEF Lead3
<1>2. cp \in Nat /\ cp >= 2048
  BY <1>0, <1>1, SMT DEF Shift, Continuation
<1>3. /\ cp < 65536 /\ a = 224 + cp \div 4096
      /\ b = 128 + ((cp \div 64) % 64) /\ c = 128 + (cp % 64)
  BY <1>0, <1>1, <1>2, ThreeBytesBack
<1>4. Encode(cp) = <<224 + cp \div 4096, 128 + ((cp \div 64) % 64), 128 + (cp % 64)>>
  BY <1>2, <1>3, SMT DEF Encode
<1> HIDE DEF Lead3
<1>5. PICK u, v, w : u = 224 + cp \div 4096 /\ v = 128 + ((cp \div 64) % 64) /\ w = 128 + (cp % 64)
  OBVIOUS
<1>6. Encode(cp) = <<u, v, w>> /\ a = u /\ b = v /\ c = w
  BY <1>3, <1>4, <1>5
<1> QED
  BY <1>1, <1>6

LEMMA FourBytesEncoded ==
    ASSUME NEW a \in Lead4, NEW b \in Continuation, NEW c \in Continuation, NEW e \in Continuation,
           Shift(Shift(Shift(a % 8, b), c), e) >= 65536
    PROVE  Encode(Shift(Shift(Shift(a % 8, b), c), e)) = <<a, b, c, e>>
<1>1. PICK cp : cp = Shift(Shift(Shift(a % 8, b), c), e)
  OBVIOUS
<1>0. a \in 240..247
  BY DEF Lead4
<1>2. cp \in Nat /\ cp >= 65536
  BY <1>0, <1>1, SMT DEF Shift, Continuation
<1>3. /\ a = 240 + cp \div 262144 /\ b = 128 + ((cp \div 4096) % 64)
      /\ c = 128 + ((cp \div 64) % 64) /\ e = 128 + (cp % 64)
  BY <1>0, <1>1, <1>2, FourBytesBack
<1>4. Encode(cp) = <<240 + cp \div 262144, 128 + ((cp \div 4096) % 64),
                     128 + ((cp \div 64) % 64), 128 + (cp % 64)>>
  BY <1>2, SMT DEF Encode
<1>5. Encode(cp) = <<a, b, c, e>>
  BY ONLY <1>3, <1>4, SMT
<1> QED
  BY ONLY <1>1, <1>5

\* An encoding is complete, and its bytes make the code point again.
LEMMA Reread ==
    ASSUME NEW cp \in Encodable
    PROVE  LET s == Encode(cp)
               n == Len(s) IN
           Complete(s, 1) /\ Width(s[1]) = n /\ n \in 1..4 /\ Joined(s, 1, n) = cp /\ cp >= First[n]
<1> DEFINE s == Encode(cp)
           b == 128 + (cp % 64)
           c == 128 + ((cp \div 64) % 64)
           e == 128 + ((cp \div 4096) % 64)
           Good(n) == /\ Complete(s, 1) /\ Width(s[1]) = n /\ Len(s) = n
                      /\ Joined(s, 1, n) = cp /\ cp >= First[n]
<1>1. b \in Continuation /\ c \in Continuation /\ e \in Continuation /\ cp \in Nat
  BY EncodeIs, SMT DEF Encodable
<1>2. First[1] = 0 /\ First[2] = 128 /\ First[3] = 2048 /\ First[4] = 65536
  BY SMT DEF First
<1>3. CASE cp < 128
  <2>1. s = <<cp>>
    BY <1>3, EncodeIs
  <2>2. Len(s) = 1 /\ s[1] = cp
    BY <2>1
  <2> HIDE DEF s
  <2>3. Width(s[1]) = 1
    BY <1>3, <2>2, SMT DEF Width
  <2>4. Complete(s, 1)
    BY <2>2, <2>3, SMT DEF Complete
  <2>5. Joined(s, 1, 1) = cp
    BY <2>2, SMT DEF Joined
  <2>6. Good(1)
    BY <1>1, <1>2, <2>2, <2>3, <2>4, <2>5, SMT
  <2> QED
    BY <2>6 DEF s
<1>4. CASE 128 <= cp /\ cp < 2048
  <2> DEFINE a == 192 + cp \div 64
  <2>1. s = <<a, b>> /\ a \in 192..223 /\ Shift(a % 32, b) = cp
    BY <1>1, <1>4, EncodeIs, TwoBytes, SMT
  <2> HIDE DEF a, b
  <2>2. Len(s) = 2 /\ s[1] = a /\ s[2] = b
    BY <2>1
  <2> HIDE DEF s
  <2>3. Width(s[1]) = 2
    BY <2>1, <2>2, SMT DEF Width
  <2>4. \A k \in 1..2 - 1 : s[1 + k] \in Continuation
    BY <1>1, <2>2, SMT
  <2>5. Complete(s, 1)
    BY <2>2, <2>3, <2>4, SMT DEF Complete
  <2>6. Joined(s, 1, 2) = cp
    BY <2>1, <2>2, SMT DEF Joined
  <2>7. Good(2)
    BY <1>4, <1>2, <2>2, <2>3, <2>5, <2>6, SMT
  <2> QED
    BY <2>7 DEF s
<1>5. CASE 2048 <= cp /\ cp < 65536
  <2> DEFINE a == 224 + cp \div 4096
  <2>1. s = <<a, c, b>> /\ a \in 224..239 /\ Shift(Shift(a % 16, c), b) = cp
    BY <1>1, <1>5, EncodeIs, ThreeBytes, SMT
  <2> HIDE DEF a, b, c
  <2>2. Len(s) = 3 /\ s[1] = a /\ s[2] = c /\ s[3] = b
    BY <2>1
  <2> HIDE DEF s
  <2>3. Width(s[1]) = 3
    BY <2>1, <2>2, SMT DEF Width
  <2>4. \A k \in 1..3 - 1 : s[1 + k] \in Continuation
    <3>1. \A k \in 1..3 - 1 : 1 + k = 2 \/ 1 + k = 3
      BY SMT
    <3> QED
      BY <1>1, <2>2, <3>1
  <2>5. Complete(s, 1)
    BY <2>2, <2>3, <2>4, SMT DEF Complete
  <2>6. Joined(s, 1, 3) = cp
    BY <2>1, <2>2, SMT DEF Joined
  <2>7. Good(3)
    BY <1>5, <1>2, <2>2, <2>3, <2>5, <2>6, SMT
  <2> QED
    BY <2>7 DEF s
<1>6. CASE 65536 <= cp
  <2> DEFINE a == 240 + cp \div 262144
  <2>0. cp < 2097152
    BY SMT DEF Encodable
  <2>1. s = <<a, e, c, b>> /\ a \in 240..247 /\ Shift(Shift(Shift(a % 8, e), c), b) = cp
    BY <1>1, <1>6, <2>0, EncodeIs, FourBytes, SMT
  <2> HIDE DEF a, b, c, e
  <2>2. Len(s) = 4 /\ s[1] = a /\ s[2] = e /\ s[3] = c /\ s[4] = b
    BY <2>1
  <2> HIDE DEF s
  <2>3. Width(s[1]) = 4
    BY <2>1, <2>2, SMT DEF Width
  <2>4. \A k \in 1..4 - 1 : s[1 + k] \in Continuation
    <3>1. \A k \in 1..4 - 1 : 1 + k = 2 \/ 1 + k = 3 \/ 1 + k = 4
      BY SMT
    <3> QED
      BY <1>1, <2>2, <3>1
  <2>5. Complete(s, 1)
    BY <2>2, <2>3, <2>4, SMT DEF Complete
  <2>6. Joined(s, 1, 4) = cp
    BY <2>1, <2>2, SMT DEF Joined
  <2>7. Good(4)
    BY <1>6, <1>2, <2>2, <2>3, <2>5, <2>6, SMT
  <2> QED
    BY <2>7 DEF s
<1> QED
  BY <1>1, <1>3, <1>4, <1>5, <1>6, SMT

\* What four bytes have room for is read back as it was encoded, but for surrogate
\* halves and what is above the last code point, which are rejected at their first
\* byte (appendCodepoint, decodeUtf8).
THEOREM EncodingsRead == \A cp \in Encodable : ReadBack(cp)
<1> SUFFICES ASSUME NEW cp \in Encodable
             PROVE  ReadBack(cp)
  OBVIOUS
<1> DEFINE s == Encode(cp)
           n == Len(s)
<1>1. Complete(s, 1) /\ Width(s[1]) = n /\ n \in 1..4 /\ Joined(s, 1, n) = cp /\ cp >= First[n]
  BY Reread
<1>2. cp \in Nat
  BY SMT DEF Encodable
<1> HIDE DEF s
<1>3. Accepted(s, 1) <=> ~(cp \in 55296..57343 \/ cp > 1114111)
  <2>1. Accepted(s, 1) <=> Canonical(cp, n)
    BY <1>1 DEF Accepted
  <2>2. Canonical(cp, n) <=> ~(cp \in 55296..57343 \/ cp > 1114111)
    BY <1>1, <1>2, SMT DEF Canonical
  <2> QED
    BY <2>1, <2>2
<1>4. DecodeUtf8(s, 1) = IF Accepted(s, 1) THEN [cp |-> Joined(s, 1, n), next |-> 1 + n]
                         ELSE [cp |-> Invalid, next |-> 1 + 1]
  BY <1>1, DecodeIs
<1>5. DecodeUtf8(s, 1) = IF cp \in 55296..57343 \/ cp > 1114111
                         THEN [cp |-> Invalid, next |-> 2] ELSE [cp |-> cp, next |-> n + 1]
  <2>1. 1 + 1 = 2 /\ 1 + n = n + 1
    BY <1>1, SMT
  <2> QED
    BY <1>1, <1>3, <1>4, <2>1, SMT
<1> QED
  BY <1>5, SMT DEF ReadBack, s

\* The bytes of a text from i on, when there are n of them.
LEMMA BytesFrom ==
    ASSUME NEW text \in Seq(Byte), NEW i \in 1..Len(text), NEW n \in 1..4, i + n - 1 <= Len(text)
    PROVE  /\ SubSeq(text, i, i + n - 1) \in Seq(Byte) /\ Len(SubSeq(text, i, i + n - 1)) = n
           /\ \A k \in 1..n : SubSeq(text, i, i + n - 1)[k] = text[i + k - 1]
           /\ \A k \in 0..n - 1 : text[i + k] \in Byte
<1>1. Len(text) \in Nat /\ \A k \in 1..Len(text) : text[k] \in Byte
  BY LenProperties, ElementOfSeq
<1>2. i \in Int /\ i + n - 1 \in Int /\ i <= i + n - 1 /\ i + n - 1 - i + 1 = n
  BY <1>1, SMT
<1>3. \A k \in i..i + n - 1 : text[k] \in Byte
  <2>1. \A k \in i..i + n - 1 : k \in 1..Len(text)
    BY <1>1, SMT
  <2> QED
    BY <1>1, <2>1
<1>4. \A k \in 0..n - 1 : i + k \in i..i + n - 1
  BY <1>1, SMT
<1>5. \A k \in 0..n - 1 : text[i + k] \in Byte
  BY <1>3, <1>4
<1>6. PICK j : j = i + n - 1
  OBVIOUS
<1>7. i \in Int /\ j \in Int /\ i <= j /\ j - i + 1 = n
  BY <1>2, <1>6
<1>8. \A k \in i..j : text[k] \in Byte
  BY <1>3, <1>6
<1>9. /\ SubSeq(text, i, j) \in Seq(Byte)
      /\ Len(SubSeq(text, i, j)) = IF i <= j THEN j - i + 1 ELSE 0
      /\ \A k \in 1..j - i + 1 : SubSeq(text, i, j)[k] = text[i + k - 1]
  BY <1>7, <1>8, SubSeqProperties
<1>10. /\ SubSeq(text, i, j) \in Seq(Byte) /\ Len(SubSeq(text, i, j)) = n
       /\ \A k \in 1..n : SubSeq(text, i, j)[k] = text[i + k - 1]
  BY <1>7, <1>9
<1> QED
  BY <1>5, <1>6, <1>10

\* A sequence of bytes is told by its length and its bytes.
LEMMA Spelled ==
    ASSUME NEW s \in Seq(Byte)
    PROVE  /\ Len(s) = 1 => s = <<s[1]>>
           /\ Len(s) = 2 => s = <<s[1], s[2]>>
           /\ Len(s) = 3 => s = <<s[1], s[2], s[3]>>
           /\ Len(s) = 4 => s = <<s[1], s[2], s[3], s[4]>>
<1>1. s \in [1..Len(s) -> Byte]
  BY LenProperties
<1>2. Len(s) = 1 => s = <<s[1]>>
  BY <1>1, SMT
<1>3. Len(s) = 2 => s = <<s[1], s[2]>>
  BY <1>1, SMT
<1>4. Len(s) = 3 => s = <<s[1], s[2], s[3]>>
  BY <1>1, SMT
<1>5. Len(s) = 4 => s = <<s[1], s[2], s[3], s[4]>>
  BY <1>1, SMT
<1> QED
  BY <1>2, <1>3, <1>4, <1>5

LEMMA LeadRange ==
    ASSUME NEW b \in Byte
    PROVE  /\ Width(b) = 1 => b < 128
           /\ Width(b) = 2 => b \in 192..223
           /\ Width(b) = 3 => b \in 224..239
           /\ Width(b) = 4 => b \in 240..247
BY SMT DEF Width, Byte

\* What decodeUtf8 accepts, anywhere in any text, is the shortest encoding of the
\* character that it returns, and all of it (decodeUtf8, appendCodepoint).
THEOREM DecodingExact == \A text \in Seq(Byte) : \A i \in 1..Len(text) : ShortestOnly(text, i)
<1> SUFFICES ASSUME NEW text \in Seq(Byte), NEW i \in 1..Len(text), Accepted(text, i)
             PROVE  ShortestOnly(text, i)
  <2>1. ASSUME NEW text \in Seq(Byte), NEW i \in 1..Len(text), ~Accepted(text, i)
        PROVE  ShortestOnly(text, i)
    BY <2>1, DecodeIs DEF ShortestOnly
  <2> QED
    BY <2>1
<1> DEFINE n == Width(text[i])
           s == SubSeq(text, i, i + n - 1)
           cp == Joined(text, i, n)
<1>1. text[i] \in Byte /\ n \in 1..4 /\ i + n - 1 <= Len(text)
  <2>1. text[i] \in Byte
    BY ElementOfSeq
  <2>2. n \in 0..4 /\ n > 0 /\ i + n - 1 <= Len(text)
    BY <2>1, Widths DEF Accepted, Complete
  <2> QED
    BY <2>1, <2>2, SMT
<1>2. DecodeUtf8(text, i) = [cp |-> cp, next |-> i + n]
  BY DecodeIs
<1>3. Canonical(cp, n) /\ \A k \in 1..n - 1 : text[i + k] \in Continuation
  BY DEF Accepted, Complete
<1>4. cp \in Nat
  BY JoinedTyped DEF Accepted
<1>5. (i + n) - 1 = i + n - 1 /\ i \in Int
  BY <1>1, LenProperties, SMT
<1>6. s \in Seq(Byte) /\ Len(s) = n /\ \A k \in 1..n : s[k] = text[i + k - 1]
  BY <1>1, BytesFrom
<1>7. /\ n = 1 => cp = text[i]
      /\ n = 2 => cp = Shift(text[i] % 32, text[i + 1])
      /\ n = 3 => cp = Shift(Shift(text[i] % 16, text[i + 1]), text[i + 2])
      /\ n = 4 => cp = Shift(Shift(Shift(text[i] % 8, text[i + 1]), text[i + 2]), text[i + 3])
  BY SMT DEF Joined
<1>8. /\ n = 1 => text[i] < 128
      /\ n = 2 => text[i] \in 192..223
      /\ n = 3 => text[i] \in 224..239
      /\ n = 4 => text[i] \in 240..247
  BY <1>1, LeadRange
<1> HIDE DEF n, s, cp
<1>9. cp >= First[n] /\ cp \in Encodable
  BY <1>1, <1>3, <1>4, SMT DEF Canonical, Encodable
<1>10. /\ s[1] = text[i]
       /\ n >= 2 => s[2] = text[i + 1] /\ s[2] \in Continuation
       /\ n >= 3 => s[3] = text[i + 2] /\ s[3] \in Continuation
       /\ n >= 4 => s[4] = text[i + 3] /\ s[4] \in Continuation
  <2>1. ASSUME NEW k \in 0..3, n >= k + 1
        PROVE  s[k + 1] = text[i + k] /\ (k >= 1 => text[i + k] \in Continuation)
    <3>1. k + 1 \in 1..n /\ i + (k + 1) - 1 = i + k /\ (k >= 1 => k \in 1..n - 1)
      BY <1>1, <1>5, <2>1, SMT
    <3> QED
      BY <1>3, <1>6, <3>1
  <2>2. 0 \in 0..3 /\ 0 + 1 = 1 /\ i + 0 = i /\ n >= 0 + 1
    BY <1>1, <1>5, SMT
  <2>3. s[1] = text[i]
    <3>1. s[0 + 1] = text[i + 0]
      BY <2>1, <2>2
    <3> QED
      BY <2>2, <3>1
  <2>4. n >= 2 => s[1 + 1] = text[i + 1] /\ text[i + 1] \in Continuation
    BY <2>1, SMT
  <2>5. n >= 3 => s[2 + 1] = text[i + 2] /\ text[i + 2] \in Continuation
    BY <2>1, SMT
  <2>6. n >= 4 => s[3 + 1] = text[i + 3] /\ text[i + 3] \in Continuation
    BY <2>1, SMT
  <2>7. 1 + 1 = 2 /\ 2 + 1 = 3 /\ 3 + 1 = 4
    BY SMT
  <2> QED
    BY <2>3, <2>4, <2>5, <2>6, <2>7
<1>11. Encode(cp) = s
  <2>1. CASE n = 1
    <3>1. cp < 128 /\ s = <<cp>>
      BY <1>6, <1>7, <1>8, <1>10, <2>1, Spelled
    <3> QED
      BY <1>9, <3>1, EncodeIs
  <2>2. CASE n = 2
    <3>1. PICK a, b : a = s[1] /\ b = s[2] /\ s = <<a, b>>
      BY <1>6, <2>2, Spelled
    <3>2. a \in 192..223 /\ b \in Continuation /\ cp = Shift(a % 32, b)
      BY <1>7, <1>8, <1>10, <2>2, <3>1, SMT
    <3>3. cp >= 128
      BY <1>9, <2>2, SMT DEF First
    <3> QED
      BY <3>1, <3>2, <3>3, TwoBytesEncoded
  <2>3. CASE n = 3
    <3>1. PICK a, b, c : a = s[1] /\ b = s[2] /\ c = s[3] /\ s = <<a, b, c>>
      BY <1>6, <2>3, Spelled
    <3>2. /\ a \in 224..239 /\ b \in Continuation /\ c \in Continuation
          /\ cp = Shift(Shift(a % 16, b), c)
      BY <1>7, <1>8, <1>10, <2>3, <3>1, SMT
    <3>3. cp >= 2048
      BY <1>9, <2>3, SMT DEF First
    <3>4. Shift(Shift(a % 16, b), c) >= 2048
      BY <3>2, <3>3
    <3>5. Encode(Shift(Shift(a % 16, b), c)) = <<a, b, c>>
      <4>1. a \in Lead3
        BY <3>2 DEF Lead3
      <4> QED
        BY ONLY <3>2, <3>4, <4>1, ThreeBytesEncoded
    <3>6. Encode(cp) = Encode(Shift(Shift(a % 16, b), c))
      BY ONLY <3>2
    <3> QED
      BY ONLY <3>1, <3>5, <3>6
  <2>4. CASE n = 4
    <3>1. PICK a, b, c, e : /\ a = s[1] /\ b = s[2] /\ c = s[3] /\ e = s[4]
                            /\ s = <<a, b, c, e>>
      BY <1>6, <2>4, Spelled
    <3>2. /\ a \in 240..247 /\ b \in Continuation /\ c \in Continuation /\ e \in Continuation
          /\ cp = Shift(Shift(Shift(a % 8, b), c), e)
      BY <1>7, <1>8, <1>10, <2>4, <3>1, SMT
    <3>3. cp >= 65536
      BY <1>9, <2>4, SMT DEF First
    <3>4. Shift(Shift(Shift(a % 8, b), c), e) >= 65536
      BY <3>2, <3>3, SMT
    <3>5. Encode(Shift(Shift(Shift(a % 8, b), c), e)) = <<a, b, c, e>>
      <4>1. a \in Lead4
        BY <3>2 DEF Lead4
      <4> QED
        BY ONLY <3>2, <3>4, <4>1, FourBytesEncoded
    <3>6. Encode(cp) = Encode(Shift(Shift(Shift(a % 8, b), c), e))
      BY ONLY <3>2
    <3> QED
      BY ONLY <3>1, <3>5, <3>6
  <2> QED
    BY <1>1, <2>1, <2>2, <2>3, <2>4, SMT
<1> QED
  BY <1>2, <1>5, <1>11 DEF ShortestOnly, s

----------------------------------------------------------------------------
(* The loop of tokenize *)

Start == [i |-> 1, current |-> <<>>, tokens |-> <<>>]
Scan(text) == [i : 1..Len(text) + 1, current : Seq(Byte), tokens : Seq(Seq(Byte))]

LEMMA FlushTyped ==
    ASSUME NEW current \in Seq(Byte)
    PROVE  Flush(current) \in Seq(Seq(Byte))
BY DEF Flush

\* One turn, while the end of the text is not reached.
LEMMA TurnIs ==
    ASSUME NEW text \in Seq(Byte), NEW st \in Scan(text), st.i <= Len(text)
    PROVE  LET d == DecodeUtf8(text, st.i) IN
           /\ st.i \in 1..Len(text)
           /\ IsTokenCharacter(d.cp) =>
                 /\ d.cp \in Character /\ FoldCase(d.cp) \in Character
                 /\ Turn(text, st) = [i |-> d.next, tokens |-> st.tokens,
                                      current |-> st.current \o Encode(FoldCase(d.cp))]
           /\ ~IsTokenCharacter(d.cp) =>
                 Turn(text, st) = [i |-> d.next, current |-> <<>>,
                                   tokens |-> st.tokens \o Flush(st.current)]
           /\ Turn(text, st) \in Scan(text) /\ Turn(text, st).i = d.next /\ d.next > st.i
<1> DEFINE d == DecodeUtf8(text, st.i)
           c == st.current
           ts == st.tokens
           e == Encode(FoldCase(d.cp))
<1>1. Len(text) \in Nat /\ st.i \in 1..Len(text) + 1 /\ c \in Seq(Byte) /\ ts \in Seq(Seq(Byte))
  BY LenProperties DEF Scan
<1>2. st.i \in 1..Len(text)
  BY <1>1, SMT
<1>3. d.cp \in Character \cup {Invalid} /\ d.next \in st.i + 1..Len(text) + 1
  BY <1>2, Decoded
<1>4. d.next \in 1..Len(text) + 1 /\ d.next > st.i
  BY <1>1, <1>3, SMT
<1>6. ~(st.i > Len(text))
  BY <1>1, SMT
<1>7. CASE IsTokenCharacter(d.cp)
  <2>1. d.cp \in Character /\ FoldCase(d.cp) \in Character
    <3>1. d.cp \in Nat \cup {Invalid}
      BY <1>3 DEF Character
    <3> QED
      BY <1>7, <3>1, TokenIsCharacter
  <2>2. e \in Seq(Byte)
    <3>1. FoldCase(d.cp) \in Encodable
      BY <2>1, SMT DEF Character, Encodable
    <3> QED
      BY <3>1, Encoded
  <2>5. Turn(text, st) = [i |-> d.next, tokens |-> ts, current |-> c \o e]
    BY <1>6, <1>7, Zenon DEF Turn
  <2>4. c \o e \in Seq(Byte)
    BY <1>1, <2>2, ConcatProperties
  <2> HIDE DEF d, e, c, ts
  <2>6. Turn(text, st) \in Scan(text) /\ Turn(text, st).i = d.next
    BY <1>1, <1>4, <2>4, <2>5 DEF Scan
  <2> QED
    BY <1>2, <1>4, <1>7, <2>1, <2>5, <2>6 DEF d, e, c, ts
<1>8. CASE ~IsTokenCharacter(d.cp)
  <2>1. Turn(text, st) = [i |-> d.next, current |-> <<>>, tokens |-> ts \o Flush(c)]
    BY <1>6, <1>8, Zenon DEF Turn
  <2>2. ts \o Flush(c) \in Seq(Seq(Byte)) /\ <<>> \in Seq(Byte)
    BY <1>1, FlushTyped, ConcatProperties, EmptySeq
  <2> HIDE DEF d, c, ts
  <2>3. Turn(text, st) \in Scan(text) /\ Turn(text, st).i = d.next
    BY <1>4, <2>1, <2>2 DEF Scan
  <2> QED
    BY <1>2, <1>4, <1>8, <2>1, <2>3 DEF d, c, ts
<1> QED
  BY <1>7, <1>8

\* After the end of the text nothing changes.
LEMMA TurnStays ==
    ASSUME NEW text, NEW st, st.i > Len(text)
    PROVE  Turn(text, st) = st
BY DEF Turn

LEMMA TurnTyped ==
    ASSUME NEW text \in Seq(Byte), NEW st \in Scan(text)
    PROVE  Turn(text, st) \in Scan(text)
<1>1. st.i \in 1..Len(text) + 1 /\ Len(text) \in Nat
  BY LenProperties DEF Scan
<1>2. CASE st.i <= Len(text)
  BY <1>2, TurnIs
<1>3. CASE st.i > Len(text)
  BY <1>3, TurnStays
<1> QED
  BY <1>1, <1>2, <1>3, SMT

\* The states of the loop, one after each turn.
Scanning(text, turns) ==
    /\ turns \in [0..Len(text) -> Scan(text)]
    /\ turns[0] = Start
    /\ \A k \in 1..Len(text) : turns[k] = Turn(text, turns[k - 1])

LEMMA TurnLoop ==
    ASSUME NEW text \in Seq(Byte)
    PROVE  \E turns : /\ Scanning(text, turns)
                      /\ Tokenize(text) = turns[Len(text)].tokens \o Flush(turns[Len(text)].current)
<1> DEFINE T == Scan(text)
           n == Len(text)
           step == [x \in (1..n) \X T |-> Turn(text, x[2])]
           Body(g) == [k \in 0..n |-> IF k = 0 THEN [i |-> 1, current |-> <<>>, tokens |-> <<>>]
                                      ELSE Turn(text, g[k - 1])]
           turns == CHOOSE g : g = Body(g)
<1>1. n \in Nat /\ \A k \in 1..n : k - 1 \in 0..n
  BY LenProperties
<1>2. Start \in T
  BY <1>1, EmptySeq DEF Start, Scan
<1>3. ASSUME NEW k \in 1..n, NEW st \in T
      PROVE  Turn(text, st) \in T
  BY TurnTyped
<1> HIDE DEF T, n
<1>4. step \in [(1..n) \X T -> T]
  BY <1>3
<1>5. \A k \in 1..n, st \in T : step[<<k, st>>] = Turn(text, st)
  OBVIOUS
<1> HIDE DEF step
<1>6. PICK f \in [0..n -> T] : f[0] = Start /\ \A k \in 1..n : f[k] = step[<<k, f[k - 1]>>]
  <2>1. n \in Nat /\ step \in Steps(n, T)
    BY <1>1, <1>4 DEF Steps
  <2>2. \E f \in [0..n -> T] : Runs(f, Start, n, step)
    BY <1>2, <2>1, Iterates
  <2> QED
    BY <2>2 DEF Runs
<1>7. f = Body(f)
  <2>1. ASSUME NEW k \in 0..n
        PROVE  f[k] = IF k = 0 THEN Start ELSE Turn(text, f[k - 1])
    <3>1. CASE k = 0
      BY <1>6, <3>1
    <3>2. CASE k # 0
      <4>1. k \in 1..n /\ k - 1 \in 0..n
        BY <1>1, <3>2
      <4>2. f[k - 1] \in T
        BY <4>1
      <4>3. f[k] = Turn(text, f[k - 1])
        BY <1>5, <1>6, <4>1, <4>2
      <4> QED
        BY <3>2, <4>3
    <3> QED
      BY <3>1, <3>2
  <2> QED
    BY <2>1 DEF Start
<1>8. turns = Body(turns)
  <2>1. \E g : g = Body(g)
    BY <1>7
  <2> HIDE DEF Body
  <2> QED
    BY <2>1
<1>9. Tokenize(text) = turns[n].tokens \o Flush(turns[n].current)
  BY DEF Tokenize, n
<1> HIDE DEF turns
<1>10. /\ DOMAIN turns = 0..n
       /\ \A k \in 0..n : turns[k] = IF k = 0 THEN Start ELSE Turn(text, turns[k - 1])
  BY <1>8 DEF Start
<1>11. turns[0] = Start /\ \A k \in 1..n : turns[k] = Turn(text, turns[k - 1])
  <2>1. 0 \in 0..n /\ \A k \in 1..n : k \in 0..n /\ k # 0
    BY <1>1
  <2> QED
    BY <1>10, <2>1
<1>12. \A k \in 0..n : turns[k] \in T
  <2> DEFINE S == {m \in Nat : m <= n => turns[m] \in T}
  <2>1. 0 \in S
    BY <1>2, <1>11
  <2>2. ASSUME NEW m \in S
        PROVE  m + 1 \in S
    <3> SUFFICES ASSUME m + 1 <= n
                 PROVE  turns[m + 1] \in T
      OBVIOUS
    <3>1. m \in Nat /\ m <= n /\ m + 1 \in 1..n /\ (m + 1) - 1 = m
      BY <1>1
    <3>2. turns[m] \in T
      BY <3>1
    <3>3. turns[m + 1] = Turn(text, turns[m])
      BY <1>11, <3>1
    <3> QED
      BY <1>3, <3>1, <3>2, <3>3
  <2>3. S \in SUBSET Nat
    OBVIOUS
  <2> HIDE DEF S
  <2>4. S = Nat
    BY <2>1, <2>2, <2>3, AllNumbers
  <2> QED
    BY <1>1, <2>4 DEF S
<1>13. turns \in [0..n -> T]
  <2>1. DOMAIN turns = 0..n
    BY <1>10
  <2>2. turns = [k \in 0..n |-> turns[k]]
    <3>1. \E g : turns = [k \in 0..n |-> g[k]]
      BY <1>8
    <3> QED
      BY <3>1
  <2> QED
    BY <1>12, <2>2
<1> QED
  BY <1>9, <1>11, <1>13 DEF Scanning, T, n

\* A turn of the loop, from its states.
LEMMA ScanStep ==
    ASSUME NEW text \in Seq(Byte), NEW T, Scanning(text, T), NEW k \in Nat, k + 1 <= Len(text)
    PROVE  /\ T[k] \in Scan(text) /\ T[k + 1] \in Scan(text)
           /\ T[k + 1] = Turn(text, T[k])
<1>1. /\ Len(text) \in Nat
      /\ k \in 0..Len(text) /\ k + 1 \in 0..Len(text) /\ k + 1 \in 1..Len(text) /\ (k + 1) - 1 = k
  BY LenProperties, SMT
<1>2. T[k + 1] = Turn(text, T[(k + 1) - 1])
  BY <1>1 DEF Scanning
<1> QED
  BY <1>1, <1>2 DEF Scanning

\* Each turn moves on: after as many turns as there are bytes the end is reached.
LEMMA ScanEnds ==
    ASSUME NEW text \in Seq(Byte), NEW T, Scanning(text, T)
    PROVE  /\ T[Len(text)] \in Scan(text) /\ T[Len(text)].i = Len(text) + 1
           /\ Len(text) \in Nat
<1> DEFINE n == Len(text)
           S == {k \in Nat : k <= n => T[k].i >= k + 1}
<1>1. n \in Nat
  BY LenProperties
<1>2. 0 \in S
  BY SMT DEF Scanning, Start
<1>3. ASSUME NEW k \in S
      PROVE  k + 1 \in S
  <2> SUFFICES ASSUME k + 1 <= n
               PROVE  T[k + 1].i >= (k + 1) + 1
    OBVIOUS
  <2>1. k \in Nat /\ T[k].i >= k + 1
    BY <1>1
  <2>2. T[k] \in Scan(text) /\ T[k + 1] \in Scan(text) /\ T[k + 1] = Turn(text, T[k])
    BY <2>1, ScanStep
  <2>3. T[k].i \in 1..n + 1 /\ T[k + 1].i \in 1..n + 1
    BY <2>2 DEF Scan
  <2>4. CASE T[k].i <= n
    <3>1. T[k + 1].i > T[k].i
      BY <2>2, <2>4, TurnIs
    <3> QED
      BY <1>1, <2>1, <2>3, <3>1, SMT
  <2>5. CASE T[k].i > n
    <3>1. T[k + 1] = T[k]
      BY <2>2, <2>5, TurnStays
    <3> QED
      BY <1>1, <2>1, <2>3, <2>5, <3>1, SMT
  <2> QED
    BY <1>1, <2>3, <2>4, <2>5, SMT
<1>4. S \in SUBSET Nat
  OBVIOUS
<1> HIDE DEF S
<1>5. n \in S
  BY <1>1, <1>2, <1>3, <1>4, AllNumbers
<1>6. T[n].i >= n + 1
  BY <1>1, <1>5 DEF S
<1>7. T[n] \in Scan(text)
  BY <1>1 DEF Scanning
<1>8. T[n].i \in 1..n + 1
  BY <1>7 DEF Scan
<1> QED
  BY <1>1, <1>6, <1>7, <1>8, SMT

\* What is reached at the end stays.
LEMMA ScanStays ==
    ASSUME NEW text \in Seq(Byte), NEW T, Scanning(text, T),
           NEW m \in Nat, m <= Len(text), T[m].i > Len(text)
    PROVE  T[Len(text)] = T[m]
<1> DEFINE n == Len(text)
           S == {k \in Nat : m + k <= n => T[m + k] = T[m]}
<1>1. n \in Nat
  BY LenProperties
<1>2. 0 \in S
  <2>1. m + 0 = m
    OBVIOUS
  <2> QED
    BY <2>1
<1>3. ASSUME NEW k \in S
      PROVE  k + 1 \in S
  <2> SUFFICES ASSUME m + (k + 1) <= n
               PROVE  T[m + (k + 1)] = T[m]
    OBVIOUS
  <2>1. k \in Nat /\ m + k \in Nat /\ m + k <= n /\ (m + k) + 1 <= n /\ (m + k) + 1 = m + (k + 1)
    BY <1>1
  <2>2. T[m + k] = T[m]
    BY <2>1
  <2>3. T[(m + k) + 1] = Turn(text, T[m + k])
    BY <2>1, ScanStep
  <2>4. Turn(text, T[m]) = T[m]
    BY TurnStays
  <2> QED
    BY <2>1, <2>2, <2>3, <2>4
<1>4. S \in SUBSET Nat
  OBVIOUS
<1> HIDE DEF S
<1>5. S = Nat
  BY <1>2, <1>3, <1>4, AllNumbers
<1>6. n - m \in Nat /\ m + (n - m) = n
  BY <1>1
<1>7. n - m \in S
  BY <1>5, <1>6
<1>8. m + (n - m) <= n => T[m + (n - m)] = T[m]
  BY <1>7 DEF S
<1> QED
  BY <1>1, <1>6, <1>8

\* The loop over a text goes through the states of the loop over what it begins
\* with, when the rest does not begin with a continuation byte.
LEMMA ScanBefore ==
    ASSUME NEW x \in Seq(Byte), NEW z \in Seq(Byte), z = <<>> \/ z[1] \notin Continuation,
           NEW X, Scanning(x, X), NEW T, Scanning(x \o z, T)
    PROVE  \E m \in 0..Len(x) : T[m] = X[Len(x)]
<1> DEFINE t == x \o z
           n == Len(x)
           S == {k \in Nat : k <= n => \E m \in 0..k : T[m] = X[k]}
<1>1. n \in Nat /\ t \in Seq(Byte) /\ Len(t) \in Nat /\ n <= Len(t)
  <2>1. Len(z) \in Nat /\ n \in Nat
    BY LenProperties
  <2>2. t \in Seq(Byte) /\ Len(t) = n + Len(z)
    BY ConcatProperties
  <2> QED
    BY <2>1, <2>2, SMT
<1>2. 0 \in S
  <2>1. 0 \in 0..0 /\ T[0] = X[0]
    BY DEF Scanning
  <2> QED
    BY <2>1
<1>3. ASSUME NEW k \in S
      PROVE  k + 1 \in S
  <2> SUFFICES ASSUME k + 1 <= n
               PROVE  \E m \in 0..k + 1 : T[m] = X[k + 1]
    OBVIOUS
  <2>1. k \in Nat /\ k <= n
    BY <1>1
  <2>2. PICK m \in 0..k : T[m] = X[k]
    BY <2>1
  <2>3. m \in Nat /\ m + 1 <= n /\ m + 1 <= Len(t) /\ m \in 0..k + 1 /\ m + 1 \in 0..k + 1
    BY <1>1, <2>1
  <2>4. X[k] \in Scan(x) /\ X[k + 1] = Turn(x, X[k])
    BY <2>1, ScanStep
  <2>5. T[m] \in Scan(t) /\ T[m + 1] = Turn(t, T[m])
    BY <1>1, <2>3, ScanStep
  <2>6. X[k].i \in 1..n + 1
    BY <2>4 DEF Scan
  <2>7. CASE X[k].i > n
    <3>1. X[k + 1] = T[m]
      BY <2>2, <2>4, <2>7, TurnStays
    <3> QED
      BY <2>3, <3>1
  <2>8. CASE X[k].i <= n
    <3>1. X[k].i \in 1..n
      BY <1>1, <2>6, <2>8
    <3>2. /\ DecodeUtf8(t, X[k].i).cp = DecodeUtf8(x, X[k].i).cp
          /\ DecodeUtf8(t, X[k].i).next = DecodeUtf8(x, X[k].i).next
      BY <3>1, DecodeBefore
    <3>3. X[k].i <= Len(t)
      BY <1>1, <2>6, <2>8
    <3>4. Turn(t, T[m]) = Turn(x, X[k])
      <4>1. PICK a : a = X[k]
        OBVIOUS
      <4>2. a \in Scan(x) /\ a \in Scan(t) /\ a.i <= n /\ a.i <= Len(t)
        BY <2>2, <2>4, <2>5, <2>8, <3>3, <4>1
      <4>3. /\ DecodeUtf8(t, a.i).cp = DecodeUtf8(x, a.i).cp
            /\ DecodeUtf8(t, a.i).next = DecodeUtf8(x, a.i).next
        BY <3>2, <4>1
      <4>4. Turn(t, a) = Turn(x, a)
        <5> HIDE DEF t, n
        <5> DEFINE d == DecodeUtf8(x, a.i)
        <5>1. CASE IsTokenCharacter(d.cp)
          <6>1. Turn(x, a) = [i |-> d.next, tokens |-> a.tokens,
                              current |-> a.current \o Encode(FoldCase(d.cp))]
            BY <4>2, <5>1, TurnIs DEF n
          <6>2. Turn(t, a) = [i |-> d.next, tokens |-> a.tokens,
                              current |-> a.current \o Encode(FoldCase(d.cp))]
            BY <1>1, <4>2, <4>3, <5>1, TurnIs
          <6> QED
            BY <6>1, <6>2
        <5>2. CASE ~IsTokenCharacter(d.cp)
          <6>1. Turn(x, a) = [i |-> d.next, current |-> <<>>,
                              tokens |-> a.tokens \o Flush(a.current)]
            BY <4>2, <5>2, TurnIs DEF n
          <6>2. Turn(t, a) = [i |-> d.next, current |-> <<>>,
                              tokens |-> a.tokens \o Flush(a.current)]
            BY <1>1, <4>2, <4>3, <5>2, TurnIs
          <6> QED
            BY <6>1, <6>2
        <5> QED
          BY <5>1, <5>2
      <4> QED
        BY <2>2, <4>1, <4>4
    <3> QED
      BY <2>3, <2>4, <2>5, <3>4
  <2> QED
    BY <1>1, <2>6, <2>7, <2>8, SMT
<1>4. S \in SUBSET Nat
  OBVIOUS
<1> HIDE DEF S
<1>5. n \in S
  BY <1>1, <1>2, <1>3, <1>4, AllNumbers
<1>6. n <= n => \E m \in 0..n : T[m] = X[n]
  BY <1>5 DEF S
<1> QED
  BY <1>1, <1>6

\* Lists of tokens may be joined in any order.
LEMMA Regroup ==
    ASSUME NEW q \in Seq(Seq(Byte)), NEW r \in Seq(Seq(Byte)), NEW f \in Seq(Seq(Byte))
    PROVE  (q \o r) \o f = q \o (r \o f)
BY ConcatAssociative, SMTT(30)

\* Kept apart, as the provers take an equation with a concatenation apart.
IsConcat(q, r, s) == q = r \o s

\* From a place where no token is open, the loop does what it does for the rest alone.
LEMMA ScanAfter ==
    ASSUME NEW p \in Seq(Byte), NEW y \in Seq(Byte), NEW Y, Scanning(y, Y),
           NEW T, Scanning(p \o y, T), NEW m \in Nat, m <= Len(p),
           T[m].i = Len(p) + 1, T[m].current = <<>>
    PROVE  /\ IsConcat(T[Len(p \o y)].tokens, T[m].tokens, Y[Len(y)].tokens)
           /\ T[Len(p \o y)].current = Y[Len(y)].current
<1>0. PICK t : t = p \o y
  OBVIOUS
<1> DEFINE l == Len(p)
           n == Len(y)
           ts == T[m].tokens
           Shifted(a, b) == /\ a.i = l + b.i /\ a.current = b.current
                            /\ a.tokens = ts \o b.tokens
           S == {k \in Nat : k <= n => Shifted(T[m + k], Y[k])}
<1>1. /\ n \in Nat /\ l \in Nat /\ m \in Nat /\ m <= l
      /\ t \in Seq(Byte) /\ Len(t) = l + n
  <2>1. n \in Nat /\ l \in Nat
    BY LenProperties
  <2>2. t \in Seq(Byte) /\ Len(t) = l + n
    BY <1>0, ConcatProperties
  <2> QED
    BY <2>1, <2>2
<1>2. T[m] \in Scan(t)
  <2>1. m \in 0..Len(t)
    BY <1>1
  <2> QED
    BY <1>0, <2>1 DEF Scanning
<1>3. ts \in Seq(Seq(Byte))
  BY <1>2 DEF Scan
<1>4. 0 \in S
  <2>1. m + 0 = m /\ Y[0].i = 1 /\ Y[0].current = <<>> /\ Y[0].tokens = <<>>
    BY <1>1 DEF Scanning, Start
  <2>2. ts \o <<>> = ts
    BY <1>3, ConcatEmptySeq
  <2> HIDE DEF ts
  <2>3. Shifted(T[m], Y[0])
    BY <2>1, <2>2 DEF ts
  <2> QED
    BY <2>1, <2>3
<1>5. ASSUME NEW k \in S
      PROVE  k + 1 \in S
  <2> SUFFICES ASSUME k + 1 <= n
               PROVE  Shifted(T[m + (k + 1)], Y[k + 1])
    <3> HIDE DEF Shifted, ts
    <3> QED
      OBVIOUS
  <2>1. k \in Nat /\ k <= n /\ m + k \in Nat /\ (m + k) + 1 <= Len(t) /\ (m + k) + 1 = m + (k + 1)
    BY <1>1
  <2>2. Shifted(T[m + k], Y[k])
    BY <2>1
  <2>3. Y[k] \in Scan(y) /\ Y[k + 1] = Turn(y, Y[k])
    BY <2>1, ScanStep
  <2>4. T[m + k] \in Scan(t) /\ T[(m + k) + 1] = Turn(t, T[m + k])
    BY <1>0, <1>1, <2>1, ScanStep
  <2>5. PICK a, b : a = T[m + k] /\ b = Y[k]
    OBVIOUS
  <2>6. a \in Scan(t) /\ b \in Scan(y) /\ Shifted(a, b)
    BY <2>2, <2>3, <2>4, <2>5
  <2>7. b.i \in 1..n + 1 /\ b.tokens \in Seq(Seq(Byte)) /\ b.current \in Seq(Byte)
    BY <2>6 DEF Scan
  <2> HIDE DEF ts, l, n, S
  <2>8. Shifted(Turn(t, a), Turn(y, b))
    <3>1. CASE b.i > n
      <4>1. a.i > Len(t)
        BY <1>1, <2>6, <2>7, <3>1
      <4>2. Turn(t, a) = a
        BY <4>1, TurnStays
      <4>3. Turn(y, b) = b
        BY <3>1, TurnStays DEF n
      <4> QED
        BY <2>6, <4>2, <4>3
    <3>2. CASE b.i <= n
      <4>1. b.i \in 1..n /\ a.i <= Len(t)
        BY <1>1, <2>6, <2>7, <3>2
      <4>0. PICK d, d2 : d = DecodeUtf8(y, b.i) /\ d2 = DecodeUtf8(t, a.i)
        OBVIOUS
      <4>2. d2.cp = d.cp /\ d2.next = l + d.next
        <5>1. a.i = l + b.i
          BY <2>6
        <5> QED
          BY <1>0, <4>0, <4>1, <5>1, DecodeAfter DEF l, n
      <4>3. CASE IsTokenCharacter(d.cp)
        <5>1. Turn(y, b) = [i |-> d.next, tokens |-> b.tokens,
                            current |-> b.current \o Encode(FoldCase(d.cp))]
          BY <2>6, <3>2, <4>0, <4>3, TurnIs DEF n
        <5>2. Turn(t, a) = [i |-> d2.next, tokens |-> a.tokens,
                            current |-> a.current \o Encode(FoldCase(d2.cp))]
          BY <1>1, <2>6, <4>0, <4>1, <4>2, <4>3, TurnIs
        <5>3. PICK u, v : u = Turn(t, a) /\ v = Turn(y, b)
          OBVIOUS
        <5>4. v.i = d.next /\ v.tokens = b.tokens /\ v.current = b.current \o Encode(FoldCase(d.cp))
          <6>1. v = [i |-> d.next, tokens |-> b.tokens,
                     current |-> b.current \o Encode(FoldCase(d.cp))]
            BY <5>1, <5>3
          <6> QED
            BY <6>1, Zenon
        <5>5. u.i = d2.next /\ u.tokens = a.tokens /\ u.current = a.current \o Encode(FoldCase(d2.cp))
          <6>1. u = [i |-> d2.next, tokens |-> a.tokens,
                     current |-> a.current \o Encode(FoldCase(d2.cp))]
            BY <5>2, <5>3
          <6> QED
            BY <6>1, Zenon
        <5>6. Shifted(u, v)
          BY <2>6, <4>2, <5>4, <5>5
        <5> QED
          BY <5>3, <5>6
      <4>4. CASE ~IsTokenCharacter(d.cp)
        <5>1. Turn(y, b) = [i |-> d.next, tokens |-> b.tokens \o Flush(b.current), current |-> <<>>]
          BY <2>6, <3>2, <4>0, <4>4, TurnIs DEF n
        <5>2. Turn(t, a) = [i |-> d2.next, tokens |-> a.tokens \o Flush(a.current), current |-> <<>>]
          <6>1. t \in Seq(Byte) /\ a \in Scan(t) /\ a.i <= Len(t)
            BY <1>1, <2>6, <4>1
          <6>2. ~IsTokenCharacter(DecodeUtf8(t, a.i).cp)
            BY <4>0, <4>2, <4>4
          <6> QED
            BY <4>0, <6>1, <6>2, TurnIs
        <5>3. PICK f : f = Flush(b.current)
          OBVIOUS
        <5>4. f \in Seq(Seq(Byte))
          BY <2>7, <5>3, FlushTyped
        <5>5. (ts \o b.tokens) \o f = ts \o (b.tokens \o f)
          BY <1>3, <2>7, <5>4, Regroup
        <5>6. PICK u, v : u = Turn(t, a) /\ v = Turn(y, b)
          OBVIOUS
        <5>7. v.i = d.next /\ v.tokens = b.tokens \o f /\ v.current = <<>>
          <6>1. v = [i |-> d.next, tokens |-> b.tokens \o f, current |-> <<>>]
            BY <5>1, <5>3, <5>6
          <6> QED
            BY <6>1, Zenon
        <5>8. a.current = b.current
          BY <2>6
        <5>9. u.i = d2.next /\ u.tokens = a.tokens \o f /\ u.current = <<>>
          <6>1. u = [i |-> d2.next, tokens |-> a.tokens \o f, current |-> <<>>]
            BY <5>2, <5>3, <5>6, <5>8
          <6> QED
            BY <6>1, Zenon
        <5>10. a.tokens = ts \o b.tokens
          BY <2>6
        <5>11. u.tokens = ts \o v.tokens
          BY <5>5, <5>7, <5>9, <5>10
        <5>12. Shifted(u, v)
          BY <4>2, <5>7, <5>9, <5>11
        <5> QED
          BY <5>6, <5>12
      <4> QED
        BY <4>3, <4>4
    <3> QED
      BY <1>1, <2>7, <3>1, <3>2, SMT
  <2>9. T[m + (k + 1)] = Turn(t, a) /\ Y[k + 1] = Turn(y, b)
    BY <2>1, <2>3, <2>4, <2>5
  <2> QED
    BY <2>8, <2>9
<1>6. S \in SUBSET Nat
  OBVIOUS
<1> HIDE DEF S, Shifted
<1>7. n \in S
  BY <1>1, <1>4, <1>5, <1>6, AllNumbers
<1>8. Shifted(T[m + n], Y[n])
  BY <1>1, <1>7 DEF S
<1>9. Y[n].i = n + 1
  BY ScanEnds
<1>10. m + n \in Nat /\ m + n <= Len(t) /\ T[m + n].i > Len(t)
  BY <1>1, <1>8, <1>9 DEF Shifted
<1>11. T[Len(t)] = T[m + n]
  BY <1>0, <1>1, <1>10, ScanStays
<1> QED
  BY <1>0, <1>8, <1>11 DEF Shifted, IsConcat

\* The tokens of a text are what any run of the loop over it ends with.
LEMMA TokenizeIs ==
    ASSUME NEW text \in Seq(Byte), NEW T, Scanning(text, T)
    PROVE  Tokenize(text) = T[Len(text)].tokens \o Flush(T[Len(text)].current)
<1>1. PICK X : /\ Scanning(text, X)
               /\ Tokenize(text) = X[Len(text)].tokens \o Flush(X[Len(text)].current)
  BY TurnLoop
<1>2. text \o <<>> = text /\ <<>> \in Seq(Byte)
  BY ConcatEmptySeq, EmptySeq
<1>3. PICK z : z = <<>>
  OBVIOUS
<1>4. PICK m \in 0..Len(text) : T[m] = X[Len(text)]
  <2>1. z \in Seq(Byte) /\ Scanning(text \o z, T)
    BY <1>2, <1>3
  <2> QED
    <3>1. Scanning(text, X)
      BY <1>1
    <3>2. z = <<>> \/ z[1] \notin Continuation
      BY <1>3
    <3>3. Scanning(text \o z, T)
      BY <2>1
    <3> QED
      BY <2>1, <3>1, <3>2, <3>3, ScanBefore
<1>5. X[Len(text)].i = Len(text) + 1 /\ Len(text) \in Nat
  BY <1>1, ScanEnds
<1>6. m \in Nat /\ m <= Len(text) /\ T[m].i > Len(text)
  BY <1>4, <1>5
<1>7. T[Len(text)] = T[m]
  BY <1>6, ScanStays
<1> QED
  BY <1>1, <1>4, <1>7

\* A space is decoded alone and belongs to no token.
LEMMA SpaceSeparates ==
    ASSUME NEW text \in Seq(Byte), NEW i \in 1..Len(text), text[i] = 32
    PROVE  DecodeUtf8(text, i).next = i + 1 /\ ~IsTokenCharacter(DecodeUtf8(text, i).cp)
<1>1. Len(text) \in Nat /\ i \in Nat /\ i <= Len(text)
  BY LenProperties
<1>2. Width(text[i]) = 1
  BY DEF Width
<1>3. Joined(text, i, 1) = 32
  BY DEF Joined
<1>4. DecodeUtf8(text, i) = [cp |-> 32, next |-> i + 1] \/ DecodeUtf8(text, i) = [cp |-> Invalid, next |-> i + 1]
  BY <1>2, <1>3, DecodeIs
<1>5. ~IsTokenCharacter(32) /\ ~IsTokenCharacter(Invalid)
  BY SMT DEF IsTokenCharacter, TokenRanges, Invalid
<1>6. CASE DecodeUtf8(text, i) = [cp |-> 32, next |-> i + 1]
  BY <1>5, <1>6
<1>7. CASE DecodeUtf8(text, i) = [cp |-> Invalid, next |-> i + 1]
  BY <1>5, <1>7
<1> QED
  BY <1>4, <1>6, <1>7

\* What stands before a space and what stands after it are cut as if each stood alone.
LEMMA CutAtSpace ==
    ASSUME NEW x \in Seq(Byte), NEW y \in Seq(Byte)
    PROVE  Tokenize(x \o <<32>> \o y) = Tokenize(x) \o Tokenize(y)
<1> DEFINE p == x \o <<32>>
           z == <<32>> \o y
           t == p \o y
           n == Len(x)
<1>1. <<32>> \in Seq(Byte) /\ Len(<<32>>) = 1 /\ <<32>>[1] = 32
  BY DEF Byte
<1>2. p \in Seq(Byte) /\ Len(p) = n + 1 /\ z \in Seq(Byte) /\ n \in Nat /\ Len(y) \in Nat
  BY <1>1, ConcatProperties, LenProperties
<1>3. t \in Seq(Byte) /\ Len(t) = n + 1 + Len(y) /\ t = x \o z
  BY <1>1, <1>2, ConcatProperties, ConcatAssociative
<1>4. z[1] = 32 /\ p[n + 1] = 32
  <2>1. \A i \in 1..1 + Len(y) : z[i] = IF i <= 1 THEN <<32>>[i] ELSE y[i - 1]
    BY <1>1, ConcatProperties
  <2>2. \A i \in 1..n + 1 : p[i] = IF i <= n THEN x[i] ELSE <<32>>[i - n]
    BY <1>1, ConcatProperties
  <2> HIDE DEF z, p
  <2>3. z[1] = 32
    BY <1>1, <1>2, <2>1
  <2>4. p[n + 1] = 32
    <3>1. n + 1 \in 1..n + 1 /\ ~(n + 1 <= n) /\ (n + 1) - n = 1
      BY <1>2
    <3> QED
      BY <1>1, <2>2, <3>1
  <2> QED
    BY <2>3, <2>4
<1>5. t[n + 1] = 32
  <2>1. \A i \in 1..Len(p) + Len(y) : t[i] = IF i <= Len(p) THEN p[i] ELSE y[i - Len(p)]
    BY <1>2, ConcatProperties
  <2>2. n + 1 \in 1..Len(p) + Len(y) /\ n + 1 <= Len(p)
    BY <1>2
  <2> HIDE DEF t, p
  <2> QED
    BY <1>4, <2>1, <2>2
<1>6. PICK X : Scanning(x, X)
  BY TurnLoop
<1>7. PICK Y : Scanning(y, Y)
  BY TurnLoop
<1>8. PICK T : Scanning(t, T)
  BY <1>3, TurnLoop
<1>9. PICK m \in 0..n : T[m] = X[n]
  <2>1. 32 \notin Continuation
    BY DEF Continuation
  <2>2. Scanning(x \o z, T)
    BY <1>3, <1>8
  <2> HIDE DEF z
  <2> QED
    BY <1>2, <1>4, <1>6, <2>1, <2>2, ScanBefore
<1> HIDE DEF t, z
<1>10. X[n] \in Scan(x) /\ X[n].i = n + 1
  BY <1>6, ScanEnds
<1>11. m \in Nat /\ m + 1 <= Len(t) /\ n + 1 <= Len(t) /\ n + 1 \in 1..Len(t) /\ m + 1 \in 0..Len(p)
  BY <1>2, <1>3
<1>12. T[m] \in Scan(t) /\ T[m + 1] = Turn(t, T[m])
  BY <1>3, <1>8, <1>11, ScanStep
<1>13. PICK a, ts, c : a = X[n] /\ ts = a.tokens /\ c = a.current
  OBVIOUS
<1>14. a.i = n + 1 /\ a \in Scan(t) /\ ts \in Seq(Seq(Byte)) /\ c \in Seq(Byte)
  BY <1>9, <1>10, <1>12, <1>13 DEF Scan
<1>15. T[m + 1] = [i |-> n + 2, current |-> <<>>, tokens |-> ts \o Flush(c)]
  <2>1. a.i <= Len(t)
    BY <1>11, <1>14
  <2>2. DecodeUtf8(t, a.i).next = (n + 1) + 1 /\ ~IsTokenCharacter(DecodeUtf8(t, a.i).cp)
    BY <1>3, <1>5, <1>11, <1>14, SpaceSeparates
  <2>3. (n + 1) + 1 = n + 2
    BY <1>2
  <2>4. PICK d : d = DecodeUtf8(t, a.i)
    OBVIOUS
  <2>5. Turn(t, a) = [i |-> d.next, current |-> <<>>, tokens |-> a.tokens \o Flush(a.current)]
    BY <1>3, <1>14, <2>1, <2>2, <2>4, TurnIs
  <2>6. Turn(t, a) = [i |-> (n + 1) + 1, current |-> <<>>, tokens |-> ts \o Flush(c)]
    BY <1>13, <2>2, <2>4, <2>5
  <2> QED
    BY <1>9, <1>12, <1>13, <2>3, <2>6
<1>16. PICK f, g : f = ts \o Flush(c) /\ g = T[m + 1]
  OBVIOUS
<1>17. f = Tokenize(x) /\ f \in Seq(Seq(Byte))
  <2>1. Tokenize(x) = X[n].tokens \o Flush(X[n].current)
    BY <1>6, TokenizeIs
  <2>2. Flush(c) \in Seq(Seq(Byte))
    BY <1>14, FlushTyped
  <2> QED
    BY <1>13, <1>14, <1>16, <2>1, <2>2, ConcatProperties
<1>18. g.i = n + 2 /\ g.current = <<>> /\ g.tokens = f
  <2>1. g = [i |-> n + 2, current |-> <<>>, tokens |-> f]
    BY <1>15, <1>16
  <2> QED
    BY <2>1, Zenon
<1>19. /\ T[Len(t)].tokens = f \o Y[Len(y)].tokens
       /\ T[Len(t)].current = Y[Len(y)].current
  <2>1. T[m + 1].i = Len(p) + 1 /\ T[m + 1].current = <<>> /\ T[m + 1].tokens = f
    <3>1. n + 2 = Len(p) + 1
      BY <1>2
    <3> QED
      BY <1>16, <1>18, <3>1
  <2> HIDE DEF p
  <2> QED
    <3>1. PICK j : j = m + 1
      OBVIOUS
    <3>2. j \in 0..Len(p) /\ T[j].i = Len(p) + 1 /\ T[j].current = <<>> /\ T[j].tokens = f
      BY <1>11, <2>1, <3>1
    <3>3. p \in Seq(Byte)
      BY <1>2
    <3>4. j \in Nat /\ j <= Len(p)
      BY <1>2, <3>2
    <3>5. Scanning(p \o y, T)
      BY <1>8 DEF t
    <3>6. T[j].i = Len(p) + 1 /\ T[j].current = <<>>
      BY <3>2
    <3>7. /\ IsConcat(T[Len(p \o y)].tokens, T[j].tokens, Y[Len(y)].tokens)
          /\ T[Len(p \o y)].current = Y[Len(y)].current
      BY <1>7, <3>3, <3>4, <3>5, <3>6, ScanAfter
    <3> QED
      BY <3>2, <3>7, Zenon DEF IsConcat, t
<1>20. Tokenize(y) = Y[Len(y)].tokens \o Flush(Y[Len(y)].current)
  BY <1>7, TokenizeIs
<1>21. Tokenize(t) = (f \o Y[Len(y)].tokens) \o Flush(Y[Len(y)].current)
  <2>1. Tokenize(t) = T[Len(t)].tokens \o Flush(T[Len(t)].current)
    BY <1>3, <1>8, TokenizeIs
  <2> QED
    BY <1>19, <2>1
<1>22. PICK b, h : b = Y[Len(y)].tokens /\ h = Flush(Y[Len(y)].current)
  OBVIOUS
<1>23. b \in Seq(Seq(Byte)) /\ h \in Seq(Seq(Byte))
  <2>1. Y[Len(y)] \in Scan(y)
    BY <1>7, ScanEnds
  <2>2. Y[Len(y)].tokens \in Seq(Seq(Byte)) /\ Y[Len(y)].current \in Seq(Byte)
    BY <2>1 DEF Scan
  <2> QED
    BY <1>22, <2>2, FlushTyped
<1>24. Tokenize(t) = f \o (b \o h)
  BY <1>17, <1>21, <1>22, <1>23, Regroup
<1>25. Tokenize(t) = Tokenize(x) \o Tokenize(y)
  BY <1>17, <1>20, <1>22, <1>24
<1> QED
  BY <1>25 DEF t

\* A loop over w that reads it as one token, without end.
Whole(w) ==
    /\ w \in Seq(Byte)
    /\ \E W : Scanning(w, W) /\ W[Len(w)].current = w /\ W[Len(w)].tokens = <<>>

LEMMA NothingWhole == Whole(<<>>)
<1>1. PICK w : w = <<>>
  OBVIOUS
<1>2. w \in Seq(Byte) /\ Len(w) = 0
  BY <1>1, EmptySeq
<1>3. PICK W : Scanning(w, W)
  BY <1>2, TurnLoop
<1>4. W[0].current = <<>> /\ W[0].tokens = <<>>
  BY <1>3 DEF Scanning, Start
<1> QED
  BY <1>1, <1>2, <1>3, <1>4 DEF Whole

\* One more folded token character is read as one more part of the token.
LEMMA WholeGrows ==
    ASSUME NEW w, Whole(w), NEW cp \in Character, IsTokenCharacter(cp), FoldCase(cp) = cp
    PROVE  Whole(w \o Encode(cp)) /\ w \o Encode(cp) # <<>>
<1>1. PICK W : Scanning(w, W) /\ W[Len(w)].current = w /\ W[Len(w)].tokens = <<>>
  BY DEF Whole
<1>2. w \in Seq(Byte) /\ Len(w) \in Nat
  BY LenProperties DEF Whole
<1>3. PICK e : e = Encode(cp)
  OBVIOUS
<1>4. cp \in Encodable
  BY SMT DEF Character, Encodable
<1>5. e \in Seq(Byte) /\ Len(e) \in 1..4 /\ e[1] \notin Continuation
  BY <1>3, <1>4, Encoded
<1>6. PICK t : t = w \o e
  OBVIOUS
<1>7. t \in Seq(Byte) /\ Len(t) = Len(w) + Len(e)
  BY <1>2, <1>5, <1>6, ConcatProperties
<1>8. PICK T : Scanning(t, T)
  BY <1>7, TurnLoop
<1>9. PICK m \in 0..Len(w) : T[m] = W[Len(w)]
  <2>1. Scanning(w, W)
    BY <1>1
  <2>2. Scanning(w \o e, T)
    BY <1>6, <1>8
  <2> QED
    BY <1>2, <1>5, <2>1, <2>2, ScanBefore
<1>10. m \in Nat /\ m + 1 <= Len(t) /\ m + 1 \in Nat /\ Len(w) + 1 <= Len(t)
  BY <1>2, <1>5, <1>7, <1>9
<1>11. T[m] \in Scan(t) /\ T[m + 1] = Turn(t, T[m])
  BY <1>7, <1>8, <1>10, ScanStep
<1>12. PICK a : a = T[m]
  OBVIOUS
<1>13. W[Len(w)].i = Len(w) + 1
  BY <1>1, <1>2, ScanEnds
<1>14. a \in Scan(t) /\ a.i = Len(w) + 1 /\ a.current = w /\ a.tokens = <<>> /\ a.i <= Len(t)
  BY <1>1, <1>9, <1>10, <1>11, <1>12, <1>13
<1>15. PICK d : d = DecodeUtf8(t, a.i)
  OBVIOUS
<1>16. d.cp = cp /\ d.next = Len(w) + (Len(e) + 1)
  <2>1. DecodeUtf8(e, 1) = [cp |-> cp, next |-> Len(e) + 1]
    <3>1. ReadBack(cp)
      BY <1>4, EncodingsRead
    <3>2. ~(cp \in 55296..57343 \/ cp > 1114111)
      BY SMT DEF Character
    <3> QED
      BY <1>3, <3>1, <3>2, SMT DEF ReadBack
  <2>2. 1 \in 1..Len(e)
    BY <1>5
  <2>3. /\ DecodeUtf8(w \o e, Len(w) + 1).cp = DecodeUtf8(e, 1).cp
        /\ DecodeUtf8(w \o e, Len(w) + 1).next = Len(w) + DecodeUtf8(e, 1).next
    BY <1>2, <1>5, <2>2, DecodeAfter
  <2> QED
    BY <1>6, <1>14, <1>15, <2>1, <2>3
<1>17. Turn(t, a) = [i |-> d.next, tokens |-> a.tokens, current |-> a.current \o Encode(FoldCase(d.cp))]
  BY <1>7, <1>14, <1>15, <1>16, TurnIs
<1>18. PICK u : u = T[m + 1]
  OBVIOUS
<1>19. u = [i |-> Len(w) + (Len(e) + 1), tokens |-> <<>>, current |-> t]
  BY <1>3, <1>6, <1>11, <1>12, <1>14, <1>16, <1>17, <1>18
<1>20. u.i = Len(w) + (Len(e) + 1) /\ u.tokens = <<>> /\ u.current = t
  BY <1>19, Zenon
<1>21. T[Len(t)] = T[m + 1]
  <2>1. T[m + 1].i > Len(t)
    BY <1>2, <1>5, <1>7, <1>18, <1>20
  <2> QED
    BY <1>7, <1>8, <1>10, <2>1, ScanStays
<1>22. Whole(t)
  BY <1>7, <1>8, <1>18, <1>20, <1>21 DEF Whole
<1>23. t # <<>>
  BY <1>2, <1>5, <1>7
<1> QED
  BY <1>3, <1>6, <1>22, <1>23

\* The tokens that are found again by themselves.
Findable == {w \in Seq(Byte) : Whole(w) /\ w # <<>>}

LEMMA WholeFindsItself == ASSUME NEW w \in Findable PROVE FindsItself(w)
<1>1. w \in Seq(Byte) /\ w # <<>> /\ Whole(w)
  BY DEF Findable
<1>2. PICK W : Scanning(w, W) /\ W[Len(w)].current = w /\ W[Len(w)].tokens = <<>>
  BY <1>1 DEF Whole
<1>3. Tokenize(w) = W[Len(w)].tokens \o Flush(W[Len(w)].current)
  BY <1>1, <1>2, TokenizeIs
<1>4. Flush(w) = <<w>>
  BY <1>1 DEF Flush
<1>5. <<w>> \in Seq(Seq(Byte))
  BY <1>1
<1>6. <<>> \o <<w>> = <<w>>
  BY <1>5, ConcatEmptySeq
<1> QED
  BY <1>2, <1>3, <1>4, <1>6 DEF FindsItself

\* While a text is cut, the token that is open and those that are closed are such.
LEMMA ScanFindable ==
    ASSUME NEW text \in Seq(Byte), NEW T, Scanning(text, T)
    PROVE  /\ Whole(T[Len(text)].current) /\ T[Len(text)].tokens \in Seq(Findable)
<1> DEFINE n == Len(text)
           Good(st) == Whole(st.current) /\ st.tokens \in Seq(Findable)
           S == {k \in Nat : k <= n => Good(T[k])}
<1>1. n \in Nat
  BY LenProperties
<1>2. 0 \in S
  <2>1. T[0].current = <<>> /\ T[0].tokens = <<>>
    BY DEF Scanning, Start
  <2>2. Good(T[0])
    BY <2>1, NothingWhole
  <2> QED
    BY <2>2
<1>3. ASSUME NEW k \in S
      PROVE  k + 1 \in S
  <2> SUFFICES ASSUME k + 1 <= n
               PROVE  Good(T[k + 1])
    <3> HIDE DEF Good
    <3> QED
      OBVIOUS
  <2>1. k \in Nat /\ k <= n
    BY <1>1
  <2>2. T[k] \in Scan(text) /\ T[k + 1] = Turn(text, T[k])
    BY <2>1, ScanStep
  <2>3. PICK a, u : a = T[k] /\ u = T[k + 1]
    OBVIOUS
  <2>4. a \in Scan(text) /\ u = Turn(text, a) /\ a.i \in 1..n + 1
    BY <2>2, <2>3 DEF Scan
  <2>5. Whole(a.current) /\ a.tokens \in Seq(Findable)
    BY <2>1, <2>3
  <2> HIDE DEF S, n
  <2>6. CASE a.i > n
    <3>1. u = a
      BY <2>4, <2>6, TurnStays DEF n
    <3> QED
      BY <2>3, <2>5, <3>1
  <2>7. CASE a.i <= n
    <3>1. PICK d : d = DecodeUtf8(text, a.i)
      OBVIOUS
    <3>2. CASE IsTokenCharacter(d.cp)
      <4>1. PICK cp : cp = FoldCase(d.cp)
        OBVIOUS
      <4>2. /\ d.cp \in Character /\ cp \in Character
            /\ u = [i |-> d.next, tokens |-> a.tokens, current |-> a.current \o Encode(cp)]
        BY <2>4, <2>7, <3>1, <3>2, <4>1, TurnIs DEF n
      <4>3. IsTokenCharacter(cp) /\ FoldCase(cp) = cp
        <5>1. d.cp \in Nat
          BY <4>2 DEF Character
        <5>2. FoldedOnce(d.cp)
          BY <5>1, Folding
        <5> QED
          BY <3>2, <4>1, <5>2 DEF FoldedOnce
      <4>4. u.tokens = a.tokens /\ u.current = a.current \o Encode(cp)
        BY <4>2, Zenon
      <4>5. Whole(a.current \o Encode(cp))
        BY <2>5, <4>2, <4>3, WholeGrows
      <4> QED
        BY <2>3, <2>5, <4>4, <4>5
    <3>3. CASE ~IsTokenCharacter(d.cp)
      <4>1. u = [i |-> d.next, current |-> <<>>, tokens |-> a.tokens \o Flush(a.current)]
        BY <2>4, <2>7, <3>1, <3>3, TurnIs DEF n
      <4>2. u.tokens = a.tokens \o Flush(a.current) /\ u.current = <<>>
        BY <4>1, Zenon
      <4>3. Flush(a.current) \in Seq(Findable)
        <5>1. CASE a.current = <<>>
          BY <5>1 DEF Flush
        <5>2. CASE a.current # <<>>
          <6>1. a.current \in Findable
            BY <2>5, <5>2 DEF Findable, Whole
          <6> QED
            BY <5>2, <6>1 DEF Flush
        <5> QED
          BY <5>1, <5>2
      <4>4. a.tokens \o Flush(a.current) \in Seq(Findable)
        BY <2>5, <4>3, ConcatProperties
      <4> QED
        BY <2>3, <4>2, <4>4, NothingWhole
    <3> QED
      BY <3>2, <3>3
  <2> QED
    BY <1>1, <2>4, <2>6, <2>7, SMT
<1>4. S \in SUBSET Nat
  OBVIOUS
<1> HIDE DEF S, Good
<1>5. n \in S
  BY <1>1, <1>2, <1>3, <1>4, AllNumbers
<1>6. Good(T[n])
  BY <1>1, <1>5 DEF S
<1> QED
  BY <1>6 DEF Good

\* Each token of a text, searched for, is one token again and the same one: what the
\* index holds under a token is what a search for that token looks up (tokenize).
THEOREM TokensFindThemselves == \A text \in Seq(Byte) : \A w \in TokensOf(text) : FindsItself(w)
<1> SUFFICES ASSUME NEW text \in Seq(Byte), NEW w \in TokensOf(text)
             PROVE  FindsItself(w)
  OBVIOUS
<1>1. PICK T : Scanning(text, T)
  BY TurnLoop
<1>2. PICK c, ts : c = T[Len(text)].current /\ ts = T[Len(text)].tokens
  OBVIOUS
<1>3. Whole(c) /\ ts \in Seq(Findable)
  BY <1>1, <1>2, ScanFindable
<1>4. Flush(c) \in Seq(Findable)
  <2>1. CASE c = <<>>
    BY <2>1 DEF Flush
  <2>2. CASE c # <<>>
    <3>1. c \in Findable
      BY <1>3, <2>2 DEF Findable, Whole
    <3> QED
      BY <2>2, <3>1 DEF Flush
  <2> QED
    BY <2>1, <2>2
<1>5. PICK all : all = Tokenize(text)
  OBVIOUS
<1>6. all = ts \o Flush(c)
  BY <1>1, <1>2, <1>5, TokenizeIs
<1>7. all \in Seq(Findable)
  <2>1. ts \o Flush(c) \in Seq(Findable)
    BY <1>3, <1>4, ConcatProperties
  <2> QED
    BY <1>6, <2>1
<1>8. PICK i \in DOMAIN all : w = all[i]
  BY <1>5 DEF TokensOf, ToSet
<1>9. w \in Findable
  BY <1>7, <1>8
<1> QED
  BY <1>9, WholeFindsItself

\* The two sides of a byte of a text.
LEMMA Sides ==
    ASSUME NEW text \in Seq(Byte), NEW i \in 1..Len(text), text[i] = 32
    PROVE  LET x == SubSeq(text, 1, i - 1)
               y == SubSeq(text, i + 1, Len(text)) IN
           x \in Seq(Byte) /\ y \in Seq(Byte) /\ text = x \o <<32>> \o y
<1>1. Len(text) \in Nat /\ i \in Nat /\ i >= 1 /\ i <= Len(text)
  BY LenProperties
<1>2. \A k \in 1..Len(text) : text[k] \in Byte
  BY LenProperties, ElementOfSeq
<1>3. PICK n, a : n = Len(text) /\ a = i - 1
  OBVIOUS
<1>4. n \in Nat /\ a \in Nat /\ i = a + 1 /\ a + 1 <= n
  BY <1>1, <1>3
<1>5. PICK x, y : x = SubSeq(text, 1, a) /\ y = SubSeq(text, i + 1, n)
  OBVIOUS
<1>6. x \in Seq(Byte) /\ Len(x) = a /\ \A k \in 1..a : x[k] = text[k]
  <2>1. \A k \in 1..a : text[k] \in Byte
    BY <1>2, <1>3, <1>4
  <2>2. /\ SubSeq(text, 1, a) \in Seq(Byte)
        /\ Len(SubSeq(text, 1, a)) = IF 1 <= a THEN a - 1 + 1 ELSE 0
        /\ \A k \in 1..a - 1 + 1 : SubSeq(text, 1, a)[k] = text[1 + k - 1]
    BY <1>4, <2>1, SubSeqProperties
  <2> QED
    BY <1>4, <1>5, <2>2
<1>7. y \in Seq(Byte) /\ Len(y) = n - i /\ \A k \in 1..n - i : y[k] = text[i + k]
  <2>1. \A k \in i + 1..n : text[k] \in Byte
    BY <1>1, <1>2, <1>3
  <2>2. /\ SubSeq(text, i + 1, n) \in Seq(Byte)
        /\ Len(SubSeq(text, i + 1, n)) = IF i + 1 <= n THEN n - (i + 1) + 1 ELSE 0
        /\ \A k \in 1..n - (i + 1) + 1 : SubSeq(text, i + 1, n)[k] = text[(i + 1) + k - 1]
    BY <1>1, <1>4, <2>1, SubSeqProperties
  <2>3. n - (i + 1) + 1 = n - i /\ \A k \in 1..n - i : (i + 1) + k - 1 = i + k
    BY <1>1, <1>4
  <2> QED
    BY <1>1, <1>4, <1>5, <2>2, <2>3
<1>8. PICK p : p = x \o <<32>>
  OBVIOUS
<1>9. <<32>> \in Seq(Byte) /\ Len(<<32>>) = 1 /\ <<32>>[1] = 32
  BY DEF Byte
<1>10. /\ p \in Seq(Byte) /\ Len(p) = a + 1
       /\ \A k \in 1..a + 1 : p[k] = IF k <= a THEN x[k] ELSE <<32>>[k - a]
  BY <1>6, <1>8, <1>9, ConcatProperties
<1>11. \A k \in 1..i : p[k] = text[k]
  <2> SUFFICES ASSUME NEW k \in 1..i
               PROVE  p[k] = text[k]
    OBVIOUS
  <2>1. k \in 1..a + 1
    BY <1>4
  <2>2. p[k] = IF k <= a THEN x[k] ELSE <<32>>[k - a]
    BY <1>10, <2>1
  <2>3. CASE k <= a
    BY <1>4, <1>6, <2>1, <2>2, <2>3
  <2>4. CASE ~(k <= a)
    <3>1. k = i /\ k - a = 1
      BY <1>4, <2>1, <2>4
    <3> QED
      BY <1>9, <2>2, <2>4, <3>1
  <2> QED
    BY <2>3, <2>4
<1>12. PICK t : t = p \o y
  OBVIOUS
<1>13. /\ t \in Seq(Byte) /\ Len(t) = (a + 1) + (n - i)
       /\ \A k \in 1..(a + 1) + (n - i) : t[k] = IF k <= a + 1 THEN p[k] ELSE y[k - (a + 1)]
  BY <1>7, <1>10, <1>12, ConcatProperties
<1>14. (a + 1) + (n - i) = n
  BY <1>4
<1>15. \A k \in 1..n : t[k] = text[k]
  <2> SUFFICES ASSUME NEW k \in 1..n
               PROVE  t[k] = text[k]
    OBVIOUS
  <2>1. t[k] = IF k <= i THEN p[k] ELSE y[k - i]
    BY <1>4, <1>13, <1>14
  <2>2. CASE k <= i
    BY <1>11, <2>1, <2>2
  <2>3. CASE ~(k <= i)
    <3>1. k - i \in 1..n - i /\ i + (k - i) = k
      BY <1>1, <1>4, <2>3
    <3> QED
      BY <1>7, <2>1, <2>3, <3>1
  <2> QED
    BY <2>2, <2>3
<1>16. t = text
  BY <1>3, <1>13, <1>14, <1>15, SeqEqual
<1> QED
  BY <1>3, <1>5, <1>6, <1>7, <1>8, <1>12, <1>16

\* What stands before a space and what stands after it are cut as if each stood
\* alone, however malformed they are (tokenize, decodeUtf8).
THEOREM Separation == \A text \in Seq(Byte) : \A i \in DOMAIN text : Separated(text, i)
<1> SUFFICES ASSUME NEW text \in Seq(Byte), NEW i \in DOMAIN text, text[i] = 32
             PROVE  Tokenize(text) = Tokenize(SubSeq(text, 1, i - 1))
                                     \o Tokenize(SubSeq(text, i + 1, Len(text)))
  BY DEF Separated
<1>1. i \in 1..Len(text)
  BY LenProperties
<1>2. PICK x, y : x = SubSeq(text, 1, i - 1) /\ y = SubSeq(text, i + 1, Len(text))
  OBVIOUS
<1>3. x \in Seq(Byte) /\ y \in Seq(Byte) /\ text = x \o <<32>> \o y
  BY <1>1, <1>2, Sides
<1>4. Tokenize(x \o <<32>> \o y) = Tokenize(x) \o Tokenize(y)
  BY <1>3, CutAtSpace
<1> QED
  BY <1>2, <1>3, <1>4

----------------------------------------------------------------------------
(* Searching for a text *)

LEMMA TokenizeTyped ==
    ASSUME NEW text \in Seq(Byte)
    PROVE  Tokenize(text) \in Seq(Seq(Byte))
<1>1. PICK T : Scanning(text, T)
  BY TurnLoop
<1>2. T[Len(text)] \in Scan(text)
  BY <1>1, ScanEnds
<1>3. PICK c, ts : c = T[Len(text)].current /\ ts = T[Len(text)].tokens
  OBVIOUS
<1>4. c \in Seq(Byte) /\ ts \in Seq(Seq(Byte))
  BY <1>2, <1>3 DEF Scan
<1>5. ts \o Flush(c) \in Seq(Seq(Byte))
  BY <1>4, FlushTyped, ConcatProperties
<1> QED
  BY <1>1, <1>3, <1>5, TokenizeIs

\* What is assumed of a version.
LEMMA Lexical ==
    ASSUME NEW v \in Versions
    PROVE  /\ TitleBytes[v] \in Seq(Byte) /\ TextBytes[v] \in Seq(Byte)
           /\ Says(v) \subseteq {Spelling[t] : t \in Terms}
           /\ \A t \in Terms : /\ Title[v][t] = Occurrences(t, TitleBytes[v])
                               /\ Text[v][t] = Occurrences(t, TextBytes[v])
<1>1. TitleBytes[v] \in Seq(Byte) /\ TextBytes[v] \in Seq(Byte)
  BY LexiconAssumption, SMT
<1>2. Says(v) \subseteq {Spelling[t] : t \in Terms}
  BY LexiconAssumption, SMT
<1>3. \A t \in Terms : /\ Title[v][t] = Occurrences(t, TitleBytes[v])
                       /\ Text[v][t] = Occurrences(t, TextBytes[v])
  BY LexiconAssumption, SMT
<1> QED
  BY <1>1, <1>2, <1>3

\* A term occurs where it is one of the tokens.
LEMMA OccursWhereSaid ==
    ASSUME NEW text \in Seq(Byte), NEW t
    PROVE  /\ Occurrences(t, text) \in Nat
           /\ Occurrences(t, text) > 0 <=> Spelling[t] \in TokensOf(text)
<1>1. PICK tokens : tokens = Tokenize(text)
  OBVIOUS
<1>2. tokens \in Seq(Seq(Byte))
  BY <1>1, TokenizeTyped
<1>3. DOMAIN tokens = 1..Len(tokens) /\ Len(tokens) \in Nat
  BY <1>2, LenProperties
<1>4. PICK at : at = {i \in DOMAIN tokens : tokens[i] = Spelling[t]}
  OBVIOUS
<1>5. IsFiniteSet(at)
  <2>1. IsFiniteSet(1..Len(tokens))
    BY <1>3, FS_Interval
  <2> QED
    BY <1>3, <1>4, <2>1, FS_Subset
<1>6. Cardinality(at) \in Nat /\ (Cardinality(at) = 0 <=> at = {})
  BY <1>5, FS_CardinalityType, FS_EmptySet
<1>7. Occurrences(t, text) = Cardinality(at)
  BY <1>1, <1>4 DEF Occurrences
<1>8. Spelling[t] \in TokensOf(text) <=> \E i \in DOMAIN tokens : tokens[i] = Spelling[t]
  BY <1>1 DEF TokensOf, ToSet
<1>9. at # {} <=> \E i \in DOMAIN tokens : tokens[i] = Spelling[t]
  BY <1>4
<1> QED
  BY <1>6, <1>7, <1>8, <1>9

\* What matches the terms of a query is what has one of its tokens.
LEMMA MatchesAsTyped ==
    ASSUME NEW doc \in Doc, NEW q \in Queries
    PROVE  Matches(doc, QueryTerms(q)) <=> TokensOf(q) \cap Says(doc.ver) # {}
<1>1. PICK v : v = doc.ver
  OBVIOUS
<1>2. v \in Versions
  BY <1>1 DEF Doc
<1>3. TitleBytes[v] \in Seq(Byte) /\ TextBytes[v] \in Seq(Byte)
  BY <1>2, Lexical
<1>4. ASSUME NEW t \in Terms
      PROVE  Title[v][t] + Text[v][t] > 0 <=> Spelling[t] \in Says(v)
  <2>1. Title[v][t] = Occurrences(t, TitleBytes[v]) /\ Text[v][t] = Occurrences(t, TextBytes[v])
    BY <1>2, Lexical
  <2>2. /\ Title[v][t] \in Nat
        /\ Title[v][t] > 0 <=> Spelling[t] \in TokensOf(TitleBytes[v])
    BY <1>3, <2>1, OccursWhereSaid
  <2>3. /\ Text[v][t] \in Nat
        /\ Text[v][t] > 0 <=> Spelling[t] \in TokensOf(TextBytes[v])
    BY <1>3, <2>1, OccursWhereSaid
  <2>4. Title[v][t] + Text[v][t] > 0 <=> Title[v][t] > 0 \/ Text[v][t] > 0
    BY <2>2, <2>3
  <2> QED
    BY <2>2, <2>3, <2>4 DEF Says
<1>5. Says(v) \subseteq {Spelling[t] : t \in Terms}
  BY <1>2, Lexical
<1>6. Matches(doc, QueryTerms(q)) <=> \E t \in QueryTerms(q) : Title[v][t] + Text[v][t] > 0
  BY <1>1 DEF Matches
<1>7. Matches(doc, QueryTerms(q)) <=>
         \E t \in Terms : Spelling[t] \in TokensOf(q) /\ Spelling[t] \in Says(v)
  BY <1>4, <1>6 DEF QueryTerms
<1>8. TokensOf(q) \cap Says(v) # {} <=>
         \E t \in Terms : Spelling[t] \in TokensOf(q) /\ Spelling[t] \in Says(v)
  BY <1>5
<1> QED
  BY <1>1, <1>7, <1>8

\* A search for a text that nobody writes during finds exactly the pages that have
\* a token in common with it, for any texts, index and number of searching threads
\* (Engine::search, BM25Ranker::rank, InvertedIndex::indexText, tokenize).
THEOREM FoundByText == SSpec => []FoundAsTyped
<1>1. QuietSearchExact /\ STypeOK => FoundAsTyped
  <2> SUFFICES ASSUME QuietSearchExact, STypeOK, NEW s \in Searchers, NEW q \in Queries,
                      spc[s] = "done", quiet[s], query[s] = QueryTerms(q)
               PROVE  results[s] = {doc \in Range(index.docs) :
                                       TokensOf(q) \cap Says(doc.ver) # {}}
    BY DEF FoundAsTyped
  <2>1. results[s] = {doc \in Range(index.docs) : Matches(doc, QueryTerms(q))}
    BY DEF QuietSearchExact
  <2>2. index.docs \in [Ids -> Doc]
    BY DEF STypeOK, TypeOK
  <2>3. Range(index.docs) \subseteq Doc
    BY <2>2 DEF Range
  <2>4. \A doc \in Range(index.docs) :
           Matches(doc, QueryTerms(q)) <=> TokensOf(q) \cap Says(doc.ver) # {}
    BY <2>3, MatchesAsTyped
  <2> QED
    BY <2>1, <2>4
<1> QED
  BY <1>1, QuietExact, SearchTyping, PTL

\* Tokens of pages and queries are told apart by what they spell, for any pages, texts
\* and code points: all that is accepted is exact, and each token finds itself (tokenize).
THEOREM TextsAreSound == SSpec => []TokenizerSound
<1>1. ASSUME NEW text \in Texts
      PROVE  CutExactly(text) /\ \A w \in TokensOf(text) : FindsItself(w)
  <2>1. text \in Seq(Byte)
    BY LexiconAssumption, SMT
  <2>2. DOMAIN text = 1..Len(text)
    BY <2>1, LenProperties
  <2>3. \A i \in DOMAIN text : ShortestOnly(text, i)
    BY <2>1, <2>2, DecodingExact
  <2>4. \A i \in DOMAIN text : Separated(text, i)
    BY <2>1, Separation
  <2> QED
    BY <2>1, <2>3, <2>4, TokensFindThemselves DEF CutExactly
<1>2. ASSUME NEW cp \in CodePoints
      PROVE  ReadBack(cp) /\ FoldedOnce(cp)
  <2>1. cp \in Nat /\ cp \in Encodable
    BY LexiconAssumption, SMT DEF Encodable
  <2> QED
    BY <2>1, EncodingsRead, Folding
<1>3. ASSUME NEW v \in Versions, NEW w \in Says(v)
      PROVE  FindsItself(w)
  <2>1. TitleBytes[v] \in Seq(Byte) /\ TextBytes[v] \in Seq(Byte)
    BY Lexical
  <2>2. w \in TokensOf(TitleBytes[v]) \/ w \in TokensOf(TextBytes[v])
    BY DEF Says
  <2> QED
    BY <2>1, <2>2, TokensFindThemselves
<1>4. STypeOK => TokenizerSound
  <2> SUFFICES ASSUME STypeOK
               PROVE  \A doc \in Range(index.docs) : doc.ver \in Searchable
    BY <1>1, <1>2 DEF TokenizerSound, TextsExact, CodePointsExact
  <2>1. index.docs \in [Ids -> Doc]
    BY DEF STypeOK, TypeOK
  <2>2. \A doc \in Range(index.docs) : doc.ver \in Versions
    BY <2>1 DEF Range, Doc
  <2> QED
    BY <1>3, <2>2 DEF Searchable
<1> QED
  BY <1>4, SearchTyping, PTL
=============================================================================
