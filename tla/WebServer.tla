----------------------------- MODULE WebServer -----------------------------
(***************************************************************************)
(* WebServer (src/web_server.cpp): the owner that starts and stops it, the *)
(* accept loop on its own thread, and one detached thread per connection.  *)
(*                                                                         *)
(* listenFd_ is a plain int that stop() writes while the accept loop reads *)
(* it: the loop may see either value, and neither is a listening socket by *)
(* then.  A request is abstracted to what serveRequest tells apart, and a  *)
(* page to its status; bytes are counted in chunks of one recv.  Sending   *)
(* does not block: a page fits the socket buffers.                         *)
(***************************************************************************)
EXTENDS Integers, FiniteSets

CONSTANTS
    Clients,      \* connections that may be made
    Requests,     \* what a complete request may ask
    MaxConns,     \* Options::maxConns
    MaxChunks,    \* Options::maxRequestBytes, in chunks
    MaxGlitches,  \* bound: accept calls that fail with the socket open
    NoClient, NoRequest

Request == [get : BOOLEAN, dots : BOOLEAN, root : BOOLEAN, query : {"none", "empty", "some"}]

ASSUME WebServerAssumption ==
    /\ MaxConns \in Nat /\ MaxChunks \in Nat \ {0} /\ MaxGlitches \in Nat
    /\ Requests \subseteq Request /\ NoRequest \notin Requests
    /\ NoClient \notin Clients

VARIABLES
    owner,     \* where the thread that owns the server is
    running,   \* running_
    listenFd,  \* listenFd_ is a descriptor (TRUE) or -1
    socket,    \* the listening socket in the kernel
    serve,     \* where the accept loop is
    client,    \* the connection that the accept loop holds
    active,    \* active_
    conn,      \* where each connection is
    got,       \* chunks received on it
    request,   \* its request, once the header is complete
    answer,    \* the status sent on it
    glitches

vars == <<owner, running, listenFd, socket, serve, client, active, conn, got, request, answer, glitches>>
loop == <<serve, client, active, glitches>>
conns == <<conn, got, request, answer>>
life == <<owner, running, listenFd, socket>>

ConnGo(c, label) == conn' = [conn EXCEPT ![c] = label]

----------------------------------------------------------------------------
(* start, runAsync and stop, called by the owner *)

\* socket, bind and listen; on an error the descriptor is closed again.
Start ==
    /\ owner = "new"
    /\ \/ /\ owner' = "started"
          /\ running' = TRUE /\ listenFd' = TRUE /\ socket' = "open"
       \/ /\ owner' = "failed"
          /\ UNCHANGED <<running, listenFd, socket>>
    /\ UNCHANGED <<loop, conns>>

RunAsync ==
    /\ owner = "started"
    /\ owner' = "serving"
    /\ serve' = "test"
    /\ UNCHANGED <<running, listenFd, socket, client, active, glitches, conns>>

\* Mutant: stop() leaves running_ set.
KeepsRunning ==
    /\ owner \in {"started", "serving", "failed"}
    /\ owner' = IF listenFd THEN "close" ELSE "join"
    /\ UNCHANGED <<running, listenFd, socket, loop, conns>>

\* stop(): running_.store(false); the destructor calls it too.
StopFlag ==
    /\ owner \in {"started", "serving", "failed"}
    /\ owner' = IF listenFd THEN "close" ELSE "join"
    /\ running' = FALSE
    /\ UNCHANGED <<listenFd, socket, loop, conns>>

\* Connections nobody has accepted are reset with their listening socket.
ResetBacklog == conn' = [c \in Clients |-> IF conn[c] = "backlog" THEN "reset" ELSE conn[c]]

\* shutdown, which wakes an accept that is waiting, and close.
StopClose ==
    /\ owner = "close"
    /\ owner' = "forget"
    /\ socket' = "shut"
    /\ ResetBacklog
    /\ UNCHANGED <<running, listenFd, loop, got, request, answer>>

\* listenFd_ = -1.
StopForget ==
    /\ owner = "forget"
    /\ owner' = "join"
    /\ listenFd' = FALSE
    /\ UNCHANGED <<running, socket, loop, conns>>

\* Mutant: stop() returns without waiting for the accept loop.
JoinAtOnce ==
    /\ owner = "join"
    /\ owner' = "stopped"
    /\ UNCHANGED <<running, listenFd, socket, loop, conns>>

\* join, unless runAsync has not been called.
StopJoin ==
    /\ owner = "join" /\ serve \in {"none", "exited"}
    /\ owner' = "stopped"
    /\ UNCHANGED <<running, listenFd, socket, loop, conns>>

----------------------------------------------------------------------------
(* runForever *)

\* while (running_.load())
TestRunning ==
    /\ serve = "test"
    /\ serve' = IF running THEN "accept" ELSE "exited"
    /\ UNCHANGED <<life, client, active, glitches, conns>>

\* accept(listenFd_) begins: it fails at once when the socket is gone.
EnterAccept ==
    /\ serve = "accept"
    /\ serve' = IF listenFd /\ socket = "open" THEN "waiting" ELSE "error"
    /\ UNCHANGED <<life, client, active, glitches, conns>>

Accepted(c) ==
    /\ serve = "waiting" /\ conn[c] = "backlog"
    /\ serve' = "check"
    /\ client' = c
    /\ ConnGo(c, "accepted")
    /\ UNCHANGED <<life, active, glitches, got, request, answer>>

WokenByShutdown ==
    /\ serve = "waiting" /\ socket = "shut"
    /\ serve' = "error"
    /\ UNCHANGED <<life, client, active, glitches, conns>>

\* EINTR, ECONNABORTED, EMFILE...
AcceptGlitch ==
    /\ serve = "waiting" /\ glitches < MaxGlitches
    /\ glitches' = glitches + 1
    /\ serve' \in {"test", "error"}
    /\ UNCHANGED <<life, client, active, conns>>

\* Mutant: an error of accept ends the loop.
ErrorEnds ==
    /\ serve = "error"
    /\ serve' = "exited"
    /\ UNCHANGED <<life, client, active, glitches, conns>>

\* After an error: break when stopped, continue otherwise.
AcceptError ==
    /\ serve = "error"
    /\ serve' = IF running THEN "test" ELSE "exited"
    /\ UNCHANGED <<life, client, active, glitches, conns>>

\* Mutant: one connection too many.
OneMore == active > MaxConns

Full == active >= MaxConns

\* Mutant: a refused connection is not closed.
RefuseUnclosed ==
    /\ serve = "check"
    /\ serve' = IF Full THEN "test" ELSE "spawn"
    /\ client' = IF Full THEN NoClient ELSE client
    /\ UNCHANGED <<life, active, glitches, conns>>

\* The cap is tested: 503 and close, or on to a thread.
CheckCap ==
    /\ serve = "check"
    /\ IF Full
       THEN /\ serve' = "test" /\ client' = NoClient
            /\ ConnGo(client, "refused")
       ELSE /\ serve' = "spawn"
            /\ UNCHANGED <<client, conn>>
    /\ UNCHANGED <<life, active, glitches, got, request, answer>>

\* active_.fetch_add(1) and a detached thread.
Spawn ==
    /\ serve = "spawn"
    /\ serve' = "test" /\ client' = NoClient
    /\ active' = active + 1
    /\ ConnGo(client, "reading")
    /\ UNCHANGED <<life, glitches, got, request, answer>>

----------------------------------------------------------------------------
(* The thread of a connection *)

\* while (buf.size() < opts_.maxRequestBytes)
BelowLimit(n) == n < MaxChunks

\* recv returns a chunk; the loop ends with the header or with the limit.
Receive(c) ==
    /\ conn[c] = "reading"
    /\ got' = [got EXCEPT ![c] = @ + 1]
    /\ \/ \E r \in Requests : /\ request' = [request EXCEPT ![c] = r]
                              /\ ConnGo(c, "serving")
       \/ /\ ConnGo(c, IF BelowLimit(got[c] + 1) THEN "reading" ELSE "handled")
          /\ UNCHANGED request
    /\ UNCHANGED <<life, loop, answer>>

\* recv times out or finds the connection closed: no answer.
ReceiveNothing(c) ==
    /\ conn[c] = "reading"
    /\ ConnGo(c, "handled")
    /\ UNCHANGED <<life, loop, got, request, answer>>

\* What serveRequest sends: errors, the search page, or results.
Status(r) ==
    IF ~r.get THEN "405"
    ELSE IF r.dots THEN "400"
    ELSE IF ~r.root THEN "404"
    ELSE IF r.query = "some" THEN "results" ELSE "page"

ServeRequest(c) ==
    /\ conn[c] = "serving"
    /\ answer' = [answer EXCEPT ![c] = Status(request[c])]
    /\ ConnGo(c, "handled")
    /\ UNCHANGED <<life, loop, got, request>>

CloseClient(c) ==
    /\ conn[c] = "handled"
    /\ ConnGo(c, "release")
    /\ UNCHANGED <<life, loop, got, request, answer>>

\* active_.fetch_sub(1), and the thread ends with its locals.
Release(c) ==
    /\ conn[c] = "release"
    /\ active' = active - 1
    /\ ConnGo(c, "closed")
    /\ got' = [got EXCEPT ![c] = 0]
    /\ request' = [request EXCEPT ![c] = NoRequest]
    /\ answer' = [answer EXCEPT ![c] = "none"]
    /\ UNCHANGED <<life, serve, client, glitches>>

----------------------------------------------------------------------------
(* Clients *)

Connect(c) ==
    /\ conn[c] = "out" /\ socket = "open"
    /\ ConnGo(c, "backlog")
    /\ UNCHANGED <<life, loop, got, request, answer>>

Init ==
    /\ owner = "new" /\ running = FALSE /\ listenFd = FALSE /\ socket = "none"
    /\ serve = "none" /\ client = NoClient /\ active = 0 /\ glitches = 0
    /\ conn = [c \in Clients |-> "out"]
    /\ got = [c \in Clients |-> 0]
    /\ request = [c \in Clients |-> NoRequest]
    /\ answer = [c \in Clients |-> "none"]

StopStep == StopClose \/ StopForget \/ StopJoin

LoopStep ==
    \/ TestRunning \/ EnterAccept \/ WokenByShutdown \/ AcceptError
    \/ CheckCap \/ Spawn
    \/ \E c \in Clients : Accepted(c)

HandlerStep(c) ==
    \/ Receive(c) \/ ReceiveNothing(c) \/ ServeRequest(c) \/ CloseClient(c) \/ Release(c)

Next ==
    \/ Start \/ RunAsync \/ StopFlag \/ StopStep
    \/ LoopStep \/ AcceptGlitch
    \/ \E c \in Clients : HandlerStep(c) \/ Connect(c)

Spec == Init /\ [][Next]_vars

\* Threads run; recv ends within its timeout.  Nobody has to connect or to
\* call start or stop, but a stop() goes on and a started server is run.
FairSpec ==
    /\ Spec
    /\ WF_vars(RunAsync) /\ WF_vars(StopStep) /\ WF_vars(LoopStep)
    /\ \A c \in Clients : WF_vars(HandlerStep(c))
----------------------------------------------------------------------------
(* Properties *)

Handled == {c \in Clients : conn[c] \in {"reading", "serving", "handled", "release"}}

\* The values each variable ranges over.
TypeOK ==
    /\ owner \in {"new", "started", "failed", "serving", "close", "forget", "join", "stopped"}
    /\ running \in BOOLEAN /\ listenFd \in BOOLEAN
    /\ socket \in {"none", "open", "shut"}
    /\ serve \in {"none", "test", "accept", "waiting", "error", "check", "spawn", "exited"}
    /\ client \in Clients \cup {NoClient}
    /\ active \in Nat /\ glitches \in 0..MaxGlitches
    /\ conn \in [Clients -> {"out", "backlog", "accepted", "reading", "serving", "handled",
                             "release", "closed", "refused", "reset"}]
    /\ got \in [Clients -> 0..MaxChunks]
    /\ request \in [Clients -> Requests \cup {NoRequest}]
    /\ answer \in [Clients -> {"none", "405", "400", "404", "page", "results"}]

\* active_ counts the connection threads exactly, so that no slot is lost or
\* given back twice, and there are never more of them than maxConns.
SlotsExact == active = Cardinality(Handled) /\ active <= MaxConns

\* Every connection is in one hand: the backlog's, the accept loop's or a
\* thread's.  The loop leaves none behind when it ends, and the listening
\* socket is open exactly as long as listenFd_ leads to it or stop() closes it.
NothingLeaked ==
    /\ \A c \in Clients : conn[c] = "accepted" <=> client = c
    /\ client # NoClient <=> serve \in {"check", "spawn"}
    /\ socket = "open" => listenFd
    /\ owner = "stopped" => ~listenFd /\ socket # "open" /\ \A c \in Clients : conn[c] # "backlog"

\* Once stop() has returned no connection is accepted and no thread started.
QuietAfterStop ==
    [][owner = "stopped" => UNCHANGED <<serve, client>> /\ active' <= active]_vars

\* A connection is served or refused, or reset by a stop(); nobody waits
\* for ever in the backlog, whatever accept returns in between.
ConnectionsEnd == \A c \in Clients : conn[c] = "backlog" ~> conn[c] \in {"closed", "refused", "reset"}

\* stop() returns: the accept loop is woken wherever it is.
StopReturns == owner = "close" ~> owner = "stopped"
=============================================================================
