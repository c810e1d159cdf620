---------------------------- MODULE MCWebServer ----------------------------
(* Instances of WebServer for TLC. *)
EXTENDS WebServer

\* A search and a request for a page that does not exist.
SomeRequests ==
    {[get |-> TRUE, dots |-> FALSE, root |-> TRUE, query |-> "some"],
     [get |-> TRUE, dots |-> FALSE, root |-> FALSE, query |-> "none"]}
=============================================================================
