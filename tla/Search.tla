------------------------------- MODULE Search -------------------------------
(***************************************************************************)
(* BM25Ranker::rank (src/bm25.cpp) run by searching threads (Engine::search*)
(* from the console and the web server) while crawler workers and loads    *)
(* write to the index.                                                     *)
(*                                                                         *)
(* rank takes the lock of the index once per call it makes, so each call   *)
(* is a step.  postings() and document() return pointers into the index    *)
(* that rank reads after the lock is released: when a writer has touched   *)
(* what a pointer refers to, reading it is undefined, and the search ends  *)
(* in the state "undefined".  Scores are left out, with docLength: which   *)
(* documents are found does not depend on them; sorting and the limit come *)
(* after the last shared access.                                           *)
(***************************************************************************)
EXTENDS InvertedIndex

CONSTANTS
    Searchers,
    MaxSearches,  \* bound: searches per thread
    NoTerm, NoId

ASSUME SearchAssumption == MaxSearches \in Nat /\ NoTerm \notin Terms /\ NoId \notin Nat

VARIABLES
    spc,       \* where each search is
    query,     \* its terms, without duplicates
    count,     \* N
    todo,      \* terms still to be looked up
    held,      \* the term whose postings it holds a pointer to
    hits,      \* keys of accum: document ids
    left,      \* ids still to be looked up
    ptr,       \* the id whose document it holds a pointer to
    results,   \* documents found
    stale,     \* has a writer touched what the pointer refers to?
    searches,
    quiet,     \* history: no write since the search began
    begun,     \* history: loads when the search began
    scored     \* history: the URLs of hits when their postings were read

search == <<spc, query, count, todo, held, hits, left, ptr, results, searches, scored>>
svars == <<ivars, search, stale, quiet, begun>>

SGo(s, label) == spc' = [spc EXCEPT ![s] = label]

----------------------------------------------------------------------------
(* BM25Ranker::rank *)

\* An empty query returns at once; documentCount().
BeginSearch(s, q) ==
    /\ spc[s] = "idle" /\ searches[s] < MaxSearches /\ q # {}
    /\ query' = [query EXCEPT ![s] = q]
    /\ todo' = [todo EXCEPT ![s] = q]
    /\ count' = [count EXCEPT ![s] = Cardinality(DOMAIN index.docs)]
    /\ hits' = [hits EXCEPT ![s] = {}]
    /\ scored' = [scored EXCEPT ![s] = {}]
    /\ results' = [results EXCEPT ![s] = {}]
    /\ quiet' = [quiet EXCEPT ![s] = TRUE]
    /\ begun' = [begun EXCEPT ![s] = loads]
    /\ searches' = [searches EXCEPT ![s] = @ + 1]
    /\ SGo(s, "average")
    /\ UNCHANGED <<ivars, held, left, ptr, stale>>

\* averageDocLength(); with no documents or no terms there is nothing to find.
ReadAverage(s) ==
    /\ spc[s] = "average"
    /\ SGo(s, IF count[s] = 0 \/ index.docs = <<>> \/ index.totalTerms = 0 THEN "done" ELSE "terms")
    /\ UNCHANGED <<ivars, query, count, todo, held, hits, left, ptr, results, searches,
                   scored, stale, quiet, begun>>

\* postings(t): a pointer to the list, or nullptr.
GetPostings(s, t) ==
    /\ spc[s] = "terms" /\ t \in todo[s]
    /\ todo' = [todo EXCEPT ![s] = @ \ {t}]
    /\ IF index.postings[t] = <<>> THEN UNCHANGED <<spc, held>>
       ELSE SGo(s, "list") /\ held' = [held EXCEPT ![s] = t]
    /\ stale' = [stale EXCEPT ![s] = FALSE]
    /\ UNCHANGED <<ivars, query, count, hits, left, ptr, results, searches, scored, quiet, begun>>

\* Mutant: the hits of a term replace those of the terms before it.
LastTermOnly(s, ids) == ids

\* accum has an entry for every document with one of the terms.
Accumulated(s, ids) == hits[s] \cup ids

\* The loop over the list, which reads it through the pointer.
ScoreList(s) ==
    /\ spc[s] = "list"
    /\ IF stale[s]
       THEN SGo(s, "undefined") /\ UNCHANGED <<hits, scored>>
       ELSE LET ids == {p.docId : p \in ToSet(index.postings[held[s]])} IN
            /\ hits' = [hits EXCEPT ![s] = Accumulated(s, ids)]
            /\ scored' = [scored EXCEPT ![s] = @ \cup {index.docs[id].url : id \in ids}]
            /\ SGo(s, "terms")
    /\ held' = [held EXCEPT ![s] = NoTerm]
    /\ stale' = [stale EXCEPT ![s] = FALSE]
    /\ UNCHANGED <<ivars, query, count, todo, left, ptr, results, searches, quiet, begun>>

AllScored(s) ==
    /\ spc[s] = "terms" /\ todo[s] = {}
    /\ left' = [left EXCEPT ![s] = hits[s]]
    /\ SGo(s, "lookup")
    /\ UNCHANGED <<ivars, query, count, todo, held, hits, ptr, results, searches, scored,
                   stale, quiet, begun>>

\* Mutant: document(id) is not tested for nullptr.
AssumeFound(id) == TRUE

Found(id) == id \in DOMAIN index.docs

\* document(id): a pointer to the document, or nullptr when it is gone.
GetDocument(s, id) ==
    /\ spc[s] = "lookup" /\ id \in left[s]
    /\ left' = [left EXCEPT ![s] = @ \ {id}]
    /\ IF Found(id)
       THEN SGo(s, "copy") /\ ptr' = [ptr EXCEPT ![s] = id]
       ELSE UNCHANGED <<spc, ptr>>
    /\ stale' = [stale EXCEPT ![s] = FALSE]
    /\ UNCHANGED <<ivars, query, count, todo, held, hits, results, searches, scored, quiet, begun>>

\* The document is copied through the pointer.
CopyDocument(s) ==
    /\ spc[s] = "copy"
    /\ IF stale[s]
       THEN SGo(s, "undefined") /\ UNCHANGED results
       ELSE /\ results' = [results EXCEPT ![s] = @ \cup {index.docs[ptr[s]]}]
            /\ SGo(s, "lookup")
    /\ ptr' = [ptr EXCEPT ![s] = NoId]
    /\ stale' = [stale EXCEPT ![s] = FALSE]
    /\ UNCHANGED <<ivars, query, count, todo, held, hits, left, searches, scored, quiet, begun>>

AllCopied(s) ==
    /\ spc[s] = "lookup" /\ left[s] = {}
    /\ SGo(s, "done")
    /\ UNCHANGED <<ivars, query, count, todo, held, hits, left, ptr, results, searches,
                   scored, stale, quiet, begun>>

\* The results are with the caller.
Return(s) ==
    /\ spc[s] = "done"
    /\ SGo(s, "idle")
    /\ UNCHANGED <<ivars, query, count, todo, held, hits, left, ptr, results, searches,
                   scored, stale, quiet, begun>>

----------------------------------------------------------------------------
(* Writers *)

\* The terms whose lists and the documents whose records a writer touches.
AddTouches(doc) ==
    LET id == IdFor(index, doc.url)
        old == IF id \in DOMAIN index.docTerms THEN DOMAIN index.docTerms[id] ELSE {}
    IN  [terms |-> old \cup DOMAIN Freqs(doc.ver), ids |-> {id}]

RemoveTouches(id) == [terms |-> DOMAIN index.docTerms[id], ids |-> {id}]

AllTouched == [terms |-> Terms, ids |-> DOMAIN index.docs]

Disturbs(touched) ==
    /\ stale' = [s \in Searchers |-> stale[s] \/ held[s] \in touched.terms
                                              \/ ptr[s] \in touched.ids]
    /\ quiet' = [s \in Searchers |-> FALSE]
    /\ UNCHANGED <<search, begun>>

SInit ==
    /\ Init
    /\ spc = [s \in Searchers |-> "idle"]
    /\ query = [s \in Searchers |-> {}] /\ todo = [s \in Searchers |-> {}]
    /\ count = [s \in Searchers |-> 0]
    /\ held = [s \in Searchers |-> NoTerm] /\ ptr = [s \in Searchers |-> NoId]
    /\ hits = [s \in Searchers |-> {}] /\ left = [s \in Searchers |-> {}]
    /\ results = [s \in Searchers |-> {}] /\ scored = [s \in Searchers |-> {}]
    /\ stale = [s \in Searchers |-> FALSE] /\ quiet = [s \in Searchers |-> FALSE]
    /\ searches = [s \in Searchers |-> 0] /\ begun = [s \in Searchers |-> 0]

SearchStep(s) ==
    \/ ReadAverage(s) \/ ScoreList(s) \/ AllScored(s) \/ CopyDocument(s) \/ AllCopied(s)
    \/ Return(s)
    \/ \E t \in todo[s] : GetPostings(s, t)
    \/ \E id \in left[s] : GetDocument(s, id)

SNext ==
    \/ \E s \in Searchers : SearchStep(s) \/ \E q \in SUBSET Terms : BeginSearch(s, q)
    \/ \E doc \in Doc : AddDocument(doc) /\ Disturbs(AddTouches(doc))
    \/ \E id \in DOMAIN index.docs : RemoveDocument(id) /\ Disturbs(RemoveTouches(id))
    \/ ClearIndex /\ Disturbs(AllTouched)
    \/ \E docs \in Corpora : ReplaceIndex(docs) /\ Disturbs(AllTouched)

SSpec == SInit /\ [][SNext]_svars

----------------------------------------------------------------------------
(* Properties *)

Matches(doc, q) == \E t \in q : Title[doc.ver][t] + Text[doc.ver][t] > 0

\* The values each variable of the index and of a search ranges over; a pointer is held only
\* where rank reads through it, and is not null.
STypeOK ==
    /\ TypeOK
    /\ \A s \in Searchers :
           /\ spc[s] \in {"idle", "average", "terms", "list", "lookup", "copy", "done", "undefined"}
           /\ query[s] \subseteq Terms /\ todo[s] \subseteq query[s]
           /\ held[s] \in Terms <=> spc[s] = "list"
           /\ ptr[s] \in Nat <=> spc[s] = "copy"
           /\ spc[s] = "list" /\ ~stale[s] => index.postings[held[s]] # <<>>
           /\ spc[s] = "copy" /\ ~stale[s] => ptr[s] \in DOMAIN index.docs
           /\ left[s] \subseteq hits[s]
           /\ results[s] \subseteq Doc

\* A search during which nobody writes finds exactly the documents that hold
\* one of its terms.
QuietSearchExact ==
    \A s \in Searchers :
        spc[s] = "done" /\ quiet[s] =>
            results[s] = {doc \in Range(index.docs) : Matches(doc, query[s])}

\* Without a load in between, ids are not reused: a search reports a URL only
\* if it held one of the terms when the postings were read.
ResultsWereScored ==
    \A s \in Searchers :
        begun[s] = loads => \A doc \in results[s] : doc.url \in scored[s]

\* No search reads memory that a writer has touched: the index is
\* "thread-safe" (include/shadowse/inverted_index.hpp).
NeverUndefined == \A s \in Searchers : spc[s] # "undefined"
=============================================================================
