--------------------------- MODULE CorpusContract ---------------------------
(***************************************************************************)
(* What the inverted index promises: a corpus with at most one document    *)
(* per URL, the one added last (include/shadowse/inverted_index.hpp).      *)
(***************************************************************************)
EXTENDS Naturals

CONSTANTS Urls, Versions, Corpora

VARIABLE corpus  \* the version held for each URL in the corpus

Put(u, v) ==
    corpus' = [x \in DOMAIN corpus \cup {u} |-> IF x = u THEN v ELSE corpus[x]]

Delete(u) == u \in DOMAIN corpus /\ corpus' = [x \in DOMAIN corpus \ {u} |-> corpus[x]]

Clear == corpus' = [x \in {} |-> CHOOSE v \in Versions : TRUE]

\* All of docs at once; of two documents with one URL the later counts.
Replace(docs) ==
    /\ DOMAIN corpus' = {docs[i].url : i \in DOMAIN docs}
    /\ \A i \in DOMAIN docs :
          (\A j \in DOMAIN docs : docs[j].url = docs[i].url => j <= i)
             => corpus'[docs[i].url] = docs[i].ver

CInit == corpus = [x \in {} |-> CHOOSE v \in Versions : TRUE]

CNext ==
    \/ \E u \in Urls : Delete(u) \/ \E v \in Versions : Put(u, v)
    \/ Clear
    \/ \E docs \in Corpora : Replace(docs)

CSpec == CInit /\ [][CNext]_corpus
=============================================================================
