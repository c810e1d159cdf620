------------------------------ MODULE Lexicon ------------------------------
(***************************************************************************)
(* Search over the texts themselves: the terms of the index are tokens,    *)
(* counted by InvertedIndex::indexText in what a page says, and those of a *)
(* search are the tokens of the text that Engine::search is given.         *)
(***************************************************************************)
EXTENDS Search, Tokenizer

CONSTANTS
    Spelling,               \* the token that each term stands for
    TitleBytes, TextBytes,  \* what each version says
    Queries,                \* texts that may be searched for
    Texts,                  \* any texts, well formed or not
    CodePoints              \* numbers that four bytes can encode

TokensOf(text) == ToSet(Tokenize(text))

\* indexText: how often a term occurs.
Occurrences(t, text) ==
    Cardinality({i \in DOMAIN Tokenize(text) : Tokenize(text)[i] = Spelling[t]})

\* The tokens of a version.
Says(v) == TokensOf(TitleBytes[v]) \cup TokensOf(TextBytes[v])

\* Terms are the tokens of the pages, each counted where it occurs.
ASSUME LexiconAssumption ==
    /\ TitleBytes \in [Versions -> Seq(Byte)] /\ TextBytes \in [Versions -> Seq(Byte)]
    /\ Queries \subseteq Seq(Byte) /\ Texts \subseteq Seq(Byte)
    /\ CodePoints \subseteq {cp \in Nat : cp < \h200000}
    /\ \A v \in Versions :
          /\ Says(v) \subseteq {Spelling[t] : t \in Terms}
          /\ \A t \in Terms : /\ Title[v][t] = Occurrences(t, TitleBytes[v])
                              /\ Text[v][t] = Occurrences(t, TextBytes[v])

\* Mutant: a query is one token.
FirstToken(q) == {t \in Terms : Tokenize(q) # <<>> /\ Spelling[t] = Tokenize(q)[1]}

\* Engine::search: the terms of a query.  A token that no page has ever had finds nothing.
QueryTerms(q) == {t \in Terms : Spelling[t] \in TokensOf(q)}

TextsExact == \A text \in Texts : CutExactly(text) /\ \A w \in TokensOf(text) : FindsItself(w)
CodePointsExact == \A cp \in CodePoints : ReadBack(cp) /\ FoldedOnce(cp)
Searchable == {v \in Versions : \A w \in Says(v) : FindsItself(w)}

\* Whatever they are made of, texts are cut exactly, and each token of a page or of
\* another text, typed as a query, is that token and no other (tokenize).
TokenizerSound ==
    /\ TextsExact /\ CodePointsExact
    /\ \A doc \in Range(index.docs) : doc.ver \in Searchable

\* Left alone, the search for a text finds exactly the pages that have a token in
\* common with it, whatever bytes the two are written with (Engine::search, indexText).
FoundAsTyped ==
    \A s \in Searchers, q \in Queries :
        spc[s] = "done" /\ quiet[s] /\ query[s] = QueryTerms(q) =>
            results[s] = {doc \in Range(index.docs) : TokensOf(q) \cap Says(doc.ver) # {}}
=============================================================================
