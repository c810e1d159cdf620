------------------------------ MODULE MCSearch ------------------------------
(* Instances of Lexicon, and of Search, InvertedIndex and Tokenizer within it, and of *)
(* Gateway, for TLC. *)
EXTENDS Lexicon, Gateway, TLC

CONSTANTS u1, u2, u3, t1, t2, short, long, blank

\* A version with a term in its title only, one with both terms in its text
\* and one of them in its title, and one without any term.
SomeTitles == (short :> (t1 :> 1 @@ t2 :> 0)) @@ (long :> (t1 :> 0 @@ t2 :> 1))
              @@ (blank :> (t1 :> 0 @@ t2 :> 0))
SomeTexts == (short :> (t1 :> 0 @@ t2 :> 0)) @@ (long :> (t1 :> 2 @@ t2 :> 1))
             @@ (blank :> (t1 :> 0 @@ t2 :> 0))

\* An empty snapshot, one in another order than the crawl's, and one in which
\* a URL occurs twice.
SomeCorpora ==
    {<<>>,
     <<[url |-> u2, ver |-> short], [url |-> u1, ver |-> long]>>,
     <<[url |-> u1, ver |-> short], [url |-> u2, ver |-> blank], [url |-> u1, ver |-> long]>>}

----------------------------------------------------------------------------
(* What the pages of the instance say, as bytes: "AB"; a title "É" and a text *)
(* "ab", a truncated "É", "aB-é"; a lone continuation byte.                   *)
SomeSpelling == (t1 :> <<97, 98>>) @@ (t2 :> <<\hC3, \hA9>>)
SomeTitleBytes == (short :> <<65, 66>>) @@ (long :> <<\hC3, \h89>>) @@ (blank :> <<>>)
SomeTextBytes == (short :> <<>>) @@ (blank :> <<\hA9>>)
                 @@ (long :> <<97, 98, \hC3, 32, 97, 66, 45, \hC3, \hA9>>)

\* "É aB", "Ab" and a token of no page, and "é" after a lead byte that it ends.
SomeQueries ==
    {<<\hC3, \h89, 32, 97, 66>>, <<65, 98, 46, 97>>, <<\hE2, \hC3, \hA9>>}

\* The bytes at which decodeUtf8 decides, and texts of up to four of them.
EdgeBytes == {32, 65, \h7F, \h80, \h8F, \h9F, \hA0, \hBF, \hC1, \hC3, \hE0, \hED, \hF0, \hF4, \hF8}
EdgeTexts == UNION {[1..n -> EdgeBytes] : n \in 1..4}
EdgeCodePoints == (0..\h250) \cup (\h37E..\h452)
                  \cup UNION {{x - 1, x} : x \in {\h800, \hD800, \hE000, \h10000, \h110000}}

----------------------------------------------------------------------------
(* The gateway's answer to a search. *)
Digits == {"0", "1", "2", "3", "4", "5", "6", "7", "8", "9"}
SomeNumbers == Digits \cup {"2.5", "0.1234567", "0.123457"}
SixDigits == [n \in SomeNumbers |-> IF n = "0.1234567" THEN "0.123457" ELSE n]

Letters == {"a", Quote, Backslash, "newline", "bell"}
Strings == UNION {[1..n -> Letters] : n \in 0..2}
Scalars == {Null, Bool(TRUE), Bool(FALSE), Number("1")} \cup {String(x) : x \in Strings}
Flat == {Array(a) : a \in UNION {[1..n -> Scalars] : n \in 0..2}}
        \cup {Object(<<<<k, v>>>>) : k \in Strings, v \in Scalars} \cup {Object(<<>>)}
Nested == {Array(<<x, y>>) : x \in {Array(<<>>), Object(<<>>)}, y \in Flat}
          \cup {Object(<<<<<<"a">>, x>>, <<<<Quote>>, Null>>>>) : x \in Flat}

\* What is printed is read back, compact or pretty, but neither a text without
\* its end nor one with something after it.
RoundTrips(v) ==
    LET text == Dump(v) IN
    /\ Parse(text).ok /\ Parse(text).value = v
    /\ Parse(DumpValue(v, TRUE, 0)).ok /\ Parse(DumpValue(v, TRUE, 0)).value = v
    /\ ~Parse(Append(text, "]")).ok
    /\ v.type \in {"array", "object", "string"} => ~Parse(Front(text)).ok

\* Whatever a text means, printing it changes that at most once, by rounding.
Tokens == {"{", "}", "[", "]", ":", ",", Quote, Backslash, "u", "lo", "0.1234567", "true", " "}
Stable(text) ==
    LET v == Parse(text).value IN
    Parse(text).ok => Parse(Dump(v)).ok /\ Dump(Parse(Dump(v)).value) = Dump(v)

JsonExact ==
    /\ \A v \in Scalars \cup Flat \cup Nested : RoundTrips(v)
    /\ \A n \in 0..4 : \A text \in [1..n -> Tokens] : Stable(text)

Hit == [title |-> <<"a", Quote>>, url |-> <<"http://", "a">>, snippet |-> <<"newline">>,
        score |-> "2.5", onion |-> TRUE]

\* A search with n hits answers with a list of n, or null for none, under the
\* query that was run; POST and GET answer alike.
AnswersHits ==
    {n \in 0..Cardinality(Doc) : \A q \in Strings :
        LET found == [i \in 1..n |-> Hit]
            answer == SearchAnswer(q, found)
            v == Parse(answer.body).value
        IN  /\ answer.status = 200 /\ Parse(answer.body).ok
            /\ Find(v, <<"query">>) = String(IF q = <<>> THEN q ELSE <<Head(q)>>)
            /\ Find(v, <<"count">>) = Number(ToString(n))
            /\ IF n = 0 THEN Find(v, <<"results">>) = Null
               ELSE Len(Find(v, <<"results">>).array) = n
            /\ answer = PostSearch(Dump(Object(<<<<<<"q">>, String(q)>>>>)), found)}

\* Whatever is posted to /crawl, the answer is JSON: an error just when the body is no
\* object or its URL is blank.
Bodies == UNION {[1..n -> Tokens] : n \in 0..3} \cup {Dump(v) : v \in Scalars}
          \cup {Dump(Object(<<<<<<k>>, v>>>>)) : k \in {"url", "q"}, v \in Scalars}
AnswersAnything ==
    \A text \in Bodies :
        LET answer == PostCrawl(text, TRUE)
        IN  /\ Parse(answer.body).ok
            /\ answer.status = 400 <=>
                  ~ReadsObject(text) \/ NormalizeUrl(Posted(text, "url")) = <<>>
            /\ Find(Parse(answer.body).value, <<"error">>) # Null <=> answer.status = 400

\* /status tells as many documents as there are, in fields with names of their own.
StatusTells ==
    {n \in 0..Cardinality(Doc) : \A b \in BOOLEAN :
        LET engine == [documents |-> ToString(n), terms |-> "1", average |-> "2.5",
                       crawled |-> "2", pending |-> "0", busy |-> b,
                       fetcher |-> <<"a">>, tor |-> <<"up">>]
            answer == StatusAnswer(engine)
            v == Parse(answer.body).value
        IN  /\ answer.status = 200 /\ Parse(answer.body).ok
            /\ Find(v, <<"documents">>) = Number(ToString(n))
            /\ Find(v, <<"crawler_running">>) = Bool(b)
            /\ Find(v, <<"fetcher">>) = String(<<"a">>)
            /\ Cardinality({v.object[i][1] : i \in DOMAIN v.object}) = Len(v.object)}

\* The gateway answers every search with a text that its client can read back:
\* the query that was run and as many hits as were found; what dumpValue prints
\* and what Parser accepts are inverse to one another (src/json.cpp), and each of
\* the handlers answers each request (JsonGateway::setupHandlers).
GatewayAnswers ==
    /\ \A s \in Searchers : Cardinality(results[s]) \in AnswersHits
    /\ Cardinality(DOMAIN index.docs) \in StatusTells
    /\ JsonExact /\ AnswersAnything
=============================================================================
