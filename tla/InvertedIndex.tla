--------------------------- MODULE InvertedIndex ---------------------------
(***************************************************************************)
(* InvertedIndex (src/inverted_index.cpp): postings, documents and the     *)
(* bookkeeping that lets a document be replaced or removed.                *)
(*                                                                         *)
(* Every writing method holds mtx_ throughout and is one step.  Tokenized  *)
(* text is abstracted to how often each term occurs.  A map entry with an  *)
(* empty value and a missing one are not told apart where the code does    *)
(* not: postings of a term, docTerms_ of a document without terms.         *)
(***************************************************************************)
EXTENDS Integers, Sequences, FiniteSets, SequencesExt

CONSTANTS
    Urls, Terms,
    Versions,   \* contents that a page may have
    Title,      \* occurrences of each term in the title of a version
    Text,       \* and in its snippet and content together
    Corpora,    \* sequences of documents that a snapshot may hold
    MaxWrites,  \* bound: calls of addDocument and removeDocument
    MaxLoads    \* bound: calls of replaceAll and clear

Doc == [url : Urls, ver : Versions]

ASSUME InvertedIndexAssumption ==
    /\ Title \in [Versions -> [Terms -> Nat]] /\ Text \in [Versions -> [Terms -> Nat]]
    /\ \A v \in Versions : IsFiniteSet({t \in Terms : Title[v][t] + Text[v][t] > 0})
    /\ Corpora \subseteq Seq(Doc)
    /\ MaxWrites \in Nat /\ MaxLoads \in Nat

VARIABLES
    index,   \* the fields of the object, as a record
    writes, loads

ivars == <<index, writes, loads>>

Empty == [postings   |-> [t \in Terms |-> <<>>],
          urlToId    |-> <<>>,
          docs       |-> <<>>,
          docTerms   |-> <<>>,
          docLengths |-> <<>>,
          nextId     |-> 1,
          totalTerms |-> 0]

Put(f, k, v) == [x \in DOMAIN f \cup {k} |-> IF x = k THEN v ELSE f[x]]
Drop(f, k) == Restrict(f, DOMAIN f \ {k})

\* The sum of the values of f, which are natural numbers.
Total(f) == Cardinality(UNION {{x} \X (1..f[x]) : x \in DOMAIN f})

----------------------------------------------------------------------------
(* The pieces of addDocumentLocked, on an index x *)

\* Weighted term frequencies of a version: title 3x, text 1x.
Freqs(v) ==
    LET total == [t \in Terms |-> Title[v][t] + Text[v][t] + 2 * Title[v][t]]
    IN  Restrict(total, {t \in Terms : total[t] > 0})

\* Mutant: the old postings of the document stay.
KeepsPostings(x, id) == x.postings

\* The erase-remove idiom on the postings of a term.
Others(list, id) ==
    LET kept[n \in 0..Len(list)] ==
            IF n = 0 THEN <<>>
            ELSE IF list[n].docId = id THEN kept[n - 1] ELSE Append(kept[n - 1], list[n])
    IN  kept[Len(list)]

RemovePostings(x, id) ==
    [t \in Terms |->
        IF t \in DOMAIN x.docTerms[id] THEN Others(x.postings[t], id) ELSE x.postings[t]]

\* Un-indexes the terms of document id.
Unindexed(x, id) ==
    [x EXCEPT !.postings = RemovePostings(x, id),
              !.totalTerms = @ - x.docLengths[id],
              !.docLengths = Drop(@, id),
              !.docTerms = Drop(@, id)]

\* Mutant: the id of a removed document is used again.
SmallestFreeId(x, u) ==
    IF u \in DOMAIN x.urlToId THEN x.urlToId[u] ELSE Min(1..x.nextId \ DOMAIN x.docs)

\* The id that a document with URL u gets.
IdFor(x, u) == IF u \in DOMAIN x.urlToId THEN x.urlToId[u] ELSE x.nextId

\* The index after addDocumentLocked(doc).
Added(x, doc) ==
    LET id == IdFor(x, doc.url)
        known == doc.url \in DOMAIN x.urlToId
        base == IF known THEN Unindexed(x, x.urlToId[doc.url]) ELSE x
        freqs == Freqs(doc.ver)
    IN  [postings   |-> [t \in Terms |->
                            IF t \in DOMAIN freqs
                            THEN Append(base.postings[t], [docId |-> id, termFreq |-> freqs[t]])
                            ELSE base.postings[t]],
         urlToId    |-> Put(base.urlToId, doc.url, id),
         docs       |-> Put(base.docs, id, doc),
         docTerms   |-> Put(base.docTerms, id, freqs),
         docLengths |-> Put(base.docLengths, id, Total(freqs)),
         nextId     |-> IF known THEN base.nextId ELSE base.nextId + 1,
         totalTerms |-> base.totalTerms + Total(freqs)]

\* The index after removeDocument(id).
Removed(x, id) ==
    [Unindexed(x, id) EXCEPT !.urlToId = Drop(@, x.docs[id].url),
                             !.docs = Drop(@, id)]

\* The loop of replaceAll over the documents.
AddedAll(x, docs) ==
    LET upTo[n \in 0..Len(docs)] == IF n = 0 THEN x ELSE Added(upTo[n - 1], docs[n])
    IN  upTo[Len(docs)]

\* Mutant: replaceAll adds to what is there.
AddAll(docs) == AddedAll(index, docs)

\* The index after replaceAll(docs).
Rebuilt(docs) == AddedAll(Empty, docs)

----------------------------------------------------------------------------
(* The methods *)

AddDocument(doc) ==
    /\ writes < MaxWrites
    /\ index' = Added(index, doc)
    /\ writes' = writes + 1
    /\ UNCHANGED loads

\* With an unknown id, removeDocument does nothing.
RemoveDocument(id) ==
    /\ writes < MaxWrites
    /\ id \in DOMAIN index.docs
    /\ index' = Removed(index, id)
    /\ writes' = writes + 1
    /\ UNCHANGED loads

ClearIndex ==
    /\ loads < MaxLoads
    /\ index' = Empty
    /\ loads' = loads + 1
    /\ UNCHANGED writes

ReplaceIndex(docs) ==
    /\ loads < MaxLoads
    /\ index' = Rebuilt(docs)
    /\ loads' = loads + 1
    /\ UNCHANGED writes

Init == index = Empty /\ writes = 0 /\ loads = 0

Next ==
    \/ \E doc \in Doc : AddDocument(doc)
    \/ \E id \in DOMAIN index.docs : RemoveDocument(id)
    \/ ClearIndex
    \/ \E docs \in Corpora : ReplaceIndex(docs)

Spec == Init /\ [][Next]_ivars

----------------------------------------------------------------------------
(* Properties *)

Ids == DOMAIN index.docs

\* The values the fields range over; every id was assigned, none is assigned
\* twice, and the unsigned total never wraps below zero.
TypeOK ==
    /\ Ids \subseteq 1..(index.nextId - 1)
    /\ index.docs \in [Ids -> Doc]
    /\ DOMAIN index.docTerms = Ids /\ DOMAIN index.docLengths = Ids
    /\ DOMAIN index.urlToId \subseteq Urls
    /\ index.totalTerms \in Nat
    /\ writes \in 0..MaxWrites /\ loads \in 0..MaxLoads

\* The URL map and the document store are inverse to one another, so that a
\* page crawled again replaces itself and nothing else.
UrlsInverse ==
    /\ \A id \in Ids : /\ index.docs[id].url \in DOMAIN index.urlToId
                       /\ index.urlToId[index.docs[id].url] = id
    /\ \A u \in DOMAIN index.urlToId : index.urlToId[u] \in Ids

\* However documents came and went, the postings of a term are those a fresh
\* computation from the stored documents gives, each once, with titles 3x.
PostingsExact ==
    \A t \in Terms :
        LET list == index.postings[t] IN
        /\ \A i, j \in DOMAIN list : list[i].docId = list[j].docId => i = j
        /\ ToSet(list) =
              {[docId |-> id, termFreq |-> 3 * Title[index.docs[id].ver][t]
                                           + Text[index.docs[id].ver][t]] :
                  id \in {k \in Ids : Title[index.docs[k].ver][t]
                                      + Text[index.docs[k].ver][t] > 0}}

\* The postings of a document, each with its term.
PostingsOf(id) == UNION {{t} \X {p \in ToSet(index.postings[t]) : p.docId = id} : t \in Terms}

\* averageDocLength and docLength, on which BM25 scores rest, agree with the
\* postings after any sequence of replacements and removals.
LengthsExact ==
    /\ \A id \in Ids : index.docLengths[id] = Total([e \in PostingsOf(id) |-> e[2].termFreq])
    /\ index.totalTerms = Total(index.docLengths)

\* Replacing and removing undo exactly what indexing a document did, in all the
\* maps and the total, after any sequence of additions, removals and loads.
IndexExact == UrlsInverse /\ PostingsExact /\ LengthsExact

Contract == INSTANCE CorpusContract WITH
    corpus <- [u \in DOMAIN index.urlToId |-> index.docs[index.urlToId[u]].ver]

\* The index implements the corpus it promises: one document per URL, the one
\* added last, replaced as a whole by replaceAll.
ImplementsCorpus == Contract!CSpec
=============================================================================
