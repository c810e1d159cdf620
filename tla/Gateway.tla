------------------------------ MODULE Gateway ------------------------------
(***************************************************************************)
(* The request handlers of JsonGateway (src/gateway.cpp) as functions from *)
(* a request and what the engine answers to a response [status, body].     *)
(***************************************************************************)
EXTENDS Json, TLC

CONSTANT MaxQueryLength   \* Options::maxQueryLength, in letters

\* v[key] = value, for keys that are new.
Fields(pairs) == Object([i \in DOMAIN pairs |-> <<<<pairs[i][1]>>, pairs[i][2]>>])

Respond(status, v) == [status |-> status, body |-> Dump(v)]
JsonError(msg) == Respond(400, Fields(<<<<"error", String(msg)>>>>))

\* searchJson: an array comes into being with its first element.
SearchJson(asked, found) ==
    LET item(r) == Fields(<<<<"title", String(r.title)>>, <<"url", String(r.url)>>,
                            <<"snippet", String(r.snippet)>>, <<"score", Number(r.score)>>,
                            <<"source", String(IF r.onion THEN <<"onion">> ELSE <<"clearweb">>)>>>>)
    IN  Fields(<<<<"query", String(asked)>>,
                 <<"count", Number(ToString(Len(found)))>>,
                 <<"results", IF found = <<>> THEN Null
                              ELSE Array([i \in DOMAIN found |-> item(found[i])])>>>>)

Cut(q) == SubSeq(q, 1, IF Len(q) < MaxQueryLength THEN Len(q) ELSE MaxQueryLength)

\* engine_.search(Cut(q)) found these.
SearchAnswer(q, found) == Respond(200, SearchJson(Cut(q), found))

\* normalizeUrl: trimmed, and with a scheme.
NormalizeUrl(raw) ==
    LET solid == {i \in DOMAIN raw : raw[i] \notin Blank}
        first == CHOOSE i \in solid : \A j \in solid : i <= j
        last == CHOOSE i \in solid : \A j \in solid : j <= i
        url == SubSeq(raw, first, last)
    IN  IF solid = {} THEN <<>>
        ELSE IF Head(url) \in {"http://", "https://"} THEN url ELSE <<"http://">> \o url

\* handleCrawl, when engine_.crawl of a valid URL answers so.
CrawlAnswer(raw, enqueued) ==
    IF NormalizeUrl(raw) = <<>> THEN JsonError(<<"a valid url is required">>)
    ELSE Respond(200, Fields(<<<<"url", String(NormalizeUrl(raw))>>,
                               <<"enqueued", Bool(enqueued)>>>>))

\* statusJson: counters of the engine, and what the last probe of Tor said.
StatusAnswer(engine) ==
    Respond(200, Fields(<<<<"documents", Number(engine.documents)>>, <<"terms", Number(engine.terms)>>,
                          <<"average_doc_length", Number(engine.average)>>,
                          <<"crawled_pages", Number(engine.crawled)>>,
                          <<"pending_crawls", Number(engine.pending)>>,
                          <<"crawler_running", Bool(engine.busy)>>,
                          <<"fetcher", String(engine.fetcher)>>, <<"tor", String(engine.tor)>>>>))

\* A POST needs a JSON object ...
ReadsObject(body) == Parse(body).ok /\ Parse(body).value.type = "object"
BodyError == JsonError(<<"invalid JSON body">>)

\* ... and a field of it that is missing or no string is empty.
Posted(body, key) == AsString(Find(Parse(body).value, <<key>>))

PostSearch(body, found) ==
    IF ReadsObject(body) THEN SearchAnswer(Posted(body, "q"), found) ELSE BodyError
PostCrawl(body, enqueued) ==
    IF ReadsObject(body) THEN CrawlAnswer(Posted(body, "url"), enqueued) ELSE BodyError
=============================================================================
