--------------------------- MODULE CrawlContract ---------------------------
(***************************************************************************)
(* What the crawler promises its clients, with no queue, thread or lock: a *)
(* bounded set of accepted URLs, each completed once, and a stop() that    *)
(* refuses new work and ends when all accepted work is completed           *)
(* (include/shadowse/crawler.hpp: enqueue, stop).                          *)
(***************************************************************************)
EXTENDS Integers, FiniteSets

CONSTANTS URLs, MaxPages

VARIABLES
    accepted,  \* URLs for which enqueue has returned true
    done,      \* URLs whose processing has ended
    closed,    \* stop() has been called
    drained    \* the stop() that joins the workers has returned

avars == <<accepted, done, closed, drained>>

AInit ==
    /\ accepted = {} /\ done = {}
    /\ closed = FALSE /\ drained = FALSE

Admit(u) ==
    /\ ~closed
    /\ u \notin accepted
    /\ Cardinality(accepted) < MaxPages
    /\ accepted' = accepted \cup {u}
    /\ UNCHANGED <<done, closed, drained>>

Complete(u) ==
    /\ u \in accepted \ done
    /\ done' = done \cup {u}
    /\ UNCHANGED <<accepted, closed, drained>>

Close ==
    /\ ~closed
    /\ closed' = TRUE
    /\ UNCHANGED <<accepted, done, drained>>

Drain ==
    /\ closed /\ ~drained
    /\ done = accepted
    /\ drained' = TRUE
    /\ UNCHANGED <<accepted, done, closed>>

ANext ==
    \/ \E u \in URLs : Admit(u) \/ Complete(u)
    \/ Close
    \/ Drain

ASafety == AInit /\ [][ANext]_avars

\* Accepted work is completed and a stop() returns.
AFairness ==
    /\ \A u \in URLs : WF_avars(Complete(u))
    /\ WF_avars(Drain)

ASpec == ASafety /\ AFairness
=============================================================================
