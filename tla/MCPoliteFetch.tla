--------------------------- MODULE MCPoliteFetch ---------------------------
(* Instances of RobotsFiles for TLC. *)
EXTENDS RobotsFiles, TLC

CONSTANTS host, httpHost, httpsHost, u1, u2, u3, u4, u5

SomeLetters == {"s", "e", "x", "*", "/", "a", "b"}
UA == <<"s", "e">>
Says(key, value) == [key |-> key, value |-> value]

\* One host over http and https: one domain and two origins.  The policy of
\* the first forbids its pages, the second has no rules and more pages than there
\* are workers.
OneHost == [u \in Urls |-> host]
TwoOrigins == [u \in Urls |-> IF u \in {u1, u2} THEN httpHost ELSE httpsHost]
ForbidsBoth == (httpHost :> {u1, u2}) @@ (httpsHost :> {})

\* A host that forbids everything.
OneOrigin == [u \in Urls |-> httpHost]
ForbidsAll == httpHost :> Urls

\* The robots.txt of the first origin, in which the groups of other robots, the
\* order of the lines and the shorter Allow must not matter; one of other robots'
\* groups; and one that forbids everything.
Pages == <<Says("user-agent", <<"x">>), Says("disallow", <<"/">>),
           Says("user-agent", <<"*">>), Says("disallow", <<"/", "a">>),
           Says("disallow", <<"/", "b">>), Says("allow", <<"/">>)>>
Others == <<Says("disallow", <<"/">>), Says("user-agent", <<"x">>), Says("disallow", <<"/">>)>>
Everything == <<Says("user-agent", <<"*">>), Says("disallow", <<"/">>)>>
TwoFiles == (httpHost :> Pages) @@ (httpsHost :> Others)
OneFile == httpHost :> Everything

SomePaths == [u \in Urls |-> CASE u = u1 -> <<"/", "a">>
                               [] u = u2 -> <<"/", "b", "a">>
                               [] OTHER -> <<"/">>]

AnyLine ==
    {Says("user-agent", agent) : agent \in {<<"*">>, <<"e">>, <<"x">>}}
    \cup {Says(key, value) : key \in {"allow", "disallow"},
                             value \in {<<>>, <<"/">>, <<"/", "a">>}}
    \cup {Says("sitemap", <<"x">>)}

FourLines == UNION {[1..n -> AnyLine] : n \in 0..4}
ThreePaths == {<<"/">>, <<"/", "a">>, <<"/", "b">>}
=============================================================================
