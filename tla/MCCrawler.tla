----------------------------- MODULE MCCrawler -----------------------------
(* Instances of Crawler for TLC. *)
EXTENDS Crawler, TLC

CONSTANTS home, about, news, blog

\* home links to itself between two other pages, as site navigation does.
\* home and blog compete for the last page under a cap of three, and with a
\* depth limit of one about's link is too deep.
MCLinks ==
    (home :> <<about, home, news>>) @@ (about :> <<news>>) @@
    (news :> <<>>) @@ (blog :> <<news>>)

\* news collides with home and about together: a Bloom false positive.
MCBloomBits ==
    (home :> {1, 2}) @@ (about :> {3, 4}) @@ (news :> {2, 3}) @@ (blog :> {1, 5})

MCPriorities == {-1, 1}
DefaultPriority == {-1}
=============================================================================
