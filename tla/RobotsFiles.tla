---------------------------- MODULE RobotsFiles ----------------------------
(***************************************************************************)
(* The robots.txt cache over the files themselves: what a domain forbids   *)
(* is what its file says, and what the cache stores is what parseBody and  *)
(* allowed make of the file (RobotsRules).                                 *)
(***************************************************************************)
EXTENDS PoliteFetch, RobotsRules

CONSTANTS
    Alphabet,       \* letters of agents and paths
    FileOf,         \* the robots.txt of each origin
    PathOf,         \* RobotsTxt::pathOf of each page
    Files, Paths    \* other files and paths

Line(Letters) == [key : STRING, value : Seq(Letters)]

\* A policy is what the file as a whole does not permit.
ASSUME RobotsFilesAssumption ==
    /\ FileOf \in [Origins -> Seq(Line(Alphabet))] /\ PathOf \in [Urls -> Seq(Alphabet)]
    /\ Files \subseteq Seq(Line(Alphabet)) /\ Paths \subseteq Seq(Alphabet)
    /\ \A x \in Origins : Policy[x] = {u \in Urls : ~Permits(FileOf[x], PathOf[u])}

\* The pages that allowed refuses once parseBody has read the file.
Refused(x) == {u \in Urls : ~AllowedBy(ParseBody(FileOf[x]), PathOf[u])}

FilesReadRight == \A file \in Files, path \in Paths : ReadRight(file, path)

\* The rules a domain has stored are the policy of its file: what parseBody keeps
\* of a file and allowed decides from it is what the file as a whole says, for
\* other files too (RobotsTxt::parseBody, RobotsTxt::allowed).
RobotsFollowed ==
    /\ \A x \in Origins : rules[x] # {} => rules[x] = Refused(x)
    /\ FilesReadRight
=============================================================================
