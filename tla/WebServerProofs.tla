-------------------------- MODULE WebServerProofs --------------------------
(***************************************************************************)
(* Proofs about WebServer, for any number of connections, every cap and    *)
(* every limit: type correctness, that active_ counts the connection       *)
(* threads exactly, that each connection is in one hand, and that nothing  *)
(* moves on once stop() has returned but the threads that were left.       *)
(***************************************************************************)
EXTENDS WebServer, FiniteSetTheorems, TLAPS

\* What makes SlotsExact inductive: the accept loop alone raises active_, and
\* goes on to a thread only when it has found a free slot.
SlotsInv ==
    /\ IsFiniteSet(Handled)
    /\ SlotsExact
    /\ serve = "spawn" => active < MaxConns

\* What the type of got rests on: chunks are received by threads only, and a
\* thread that goes on reading is below the limit.
BelowInv ==
    \A c \in Clients :
        /\ conn[c] \notin {"reading", "serving", "handled", "release"} => got[c] = 0
        /\ conn[c] = "reading" => got[c] < MaxChunks

\* What makes NothingLeaked inductive: which step of its owner the server is at
\* tells whether there is a listening socket, and only a listening socket has a
\* backlog.  The accept loop does not exist before runAsync and has been joined
\* when stop() has returned.
LifeInv ==
    /\ NothingLeaked
    /\ listenFd <=> owner \in {"started", "serving", "close", "forget"}
    /\ socket = "open" <=> owner \in {"started", "serving", "close"}
    /\ \A c \in Clients : conn[c] = "backlog" => socket = "open"
    /\ owner \in {"new", "started", "failed"} => serve = "none"
    /\ owner = "stopped" => serve \in {"none", "exited"}

Inv == TypeOK /\ BelowInv /\ SlotsInv /\ LifeInv

----------------------------------------------------------------------------
(* Types *)

\* Every step keeps the types: a thread receives at most MaxChunks chunks, and
\* active_ is lowered only by a thread that it counts.
LEMMA TypeStep ==
    ASSUME Inv, [Next]_vars
    PROVE  TypeOK' /\ BelowInv'
<1> USE WebServerAssumption
<1> USE DEF Inv, TypeOK, BelowInv
<1>1. CASE Start
  BY <1>1 DEF Start, loop, conns
<1>2. CASE RunAsync
  BY <1>2 DEF RunAsync, conns
<1>3. CASE StopFlag
  BY <1>3 DEF StopFlag, loop, conns
<1>4. CASE StopClose
  BY <1>4 DEF StopClose, ResetBacklog, loop
<1>5. CASE StopForget
  BY <1>5 DEF StopForget, loop, conns
<1>6. CASE StopJoin
  BY <1>6 DEF StopJoin, loop, conns
<1>7. CASE TestRunning \/ EnterAccept \/ WokenByShutdown \/ AcceptError \/ AcceptGlitch
  BY <1>7 DEF TestRunning, EnterAccept, WokenByShutdown, AcceptError, AcceptGlitch, life, conns
<1>8. ASSUME NEW c \in Clients, Accepted(c)
      PROVE  TypeOK' /\ BelowInv'
  BY <1>8 DEF Accepted, ConnGo, life
<1>9. CASE CheckCap
  <2>1. client \in Clients /\ conn[client] = "accepted"
    BY <1>9 DEF CheckCap, LifeInv, NothingLeaked
  <2> QED
    BY <1>9, <2>1 DEF CheckCap, ConnGo, life
<1>10. CASE Spawn
  <2>1. client \in Clients /\ got[client] = 0
    BY <1>10 DEF Spawn, LifeInv, NothingLeaked
  <2> QED
    BY <1>10, <2>1 DEF Spawn, ConnGo, life
<1>11. ASSUME NEW c \in Clients, Receive(c)
       PROVE  TypeOK' /\ BelowInv'
  BY <1>11 DEF Receive, BelowLimit, ConnGo, life, loop
<1>12. ASSUME NEW c \in Clients, ReceiveNothing(c) \/ CloseClient(c) \/ Connect(c)
       PROVE  TypeOK' /\ BelowInv'
  BY <1>12 DEF ReceiveNothing, CloseClient, Connect, ConnGo, life, loop
<1>13. ASSUME NEW c \in Clients, ServeRequest(c)
       PROVE  TypeOK' /\ BelowInv'
  BY <1>13 DEF ServeRequest, Status, ConnGo, life, loop
<1>14. ASSUME NEW c \in Clients, Release(c)
       PROVE  TypeOK' /\ BelowInv'
  <2>1. c \in Handled /\ Handled # {}
    BY <1>14 DEF Release, Handled
  <2>2. active # 0
    BY <2>1, FS_EmptySet DEF SlotsInv, SlotsExact
  <2> QED
    BY <1>14, <2>2 DEF Release, ConnGo, life
<1>15. CASE UNCHANGED vars
  BY <1>15 DEF vars
<1> QED
  BY <1>1, <1>2, <1>3, <1>4, <1>5, <1>6, <1>7, <1>8, <1>9, <1>10, <1>11, <1>12, <1>13, <1>14, <1>15
  DEF Next, StopStep, LoopStep, HandlerStep

----------------------------------------------------------------------------
(* Slots *)

\* A step that starts no thread and ends none leaves the slots as they are.
LEMMA SameSlots ==
    ASSUME Inv, Handled' = Handled, active' = active, serve' # "spawn"
    PROVE  SlotsInv'
BY DEF Inv, SlotsInv, SlotsExact

\* active_ follows the threads: the accept loop raises it for one more of them
\* below the cap, and each thread lowers it once.
LEMMA SlotsStep ==
    ASSUME Inv, [Next]_vars
    PROVE  SlotsInv'
<1> USE WebServerAssumption
<1>1. ASSUME UNCHANGED <<conn, active>>, serve' = serve
      PROVE  SlotsInv'
  BY <1>1 DEF Inv, SlotsInv, SlotsExact, Handled
<1>2. CASE Start \/ StopFlag \/ StopForget \/ StopJoin
  BY <1>1, <1>2 DEF Start, StopFlag, StopForget, StopJoin, loop, conns
<1>3. CASE RunAsync
  BY <1>3, SameSlots DEF RunAsync, conns, Handled
<1>4. CASE StopClose
  <2>1. Handled' = Handled
    BY <1>4 DEF StopClose, ResetBacklog, Handled, Inv, TypeOK
  <2> QED
    BY <1>4, <2>1 DEF StopClose, loop, Inv, SlotsInv, SlotsExact
<1>5. CASE TestRunning \/ EnterAccept \/ WokenByShutdown \/ AcceptError \/ AcceptGlitch
  BY <1>5, SameSlots
  DEF TestRunning, EnterAccept, WokenByShutdown, AcceptError, AcceptGlitch, life, conns, Handled
<1>6. ASSUME NEW c \in Clients, Accepted(c)
      PROVE  SlotsInv'
  <2>1. Handled' = Handled
    BY <1>6 DEF Accepted, ConnGo, Handled, Inv, TypeOK
  <2> QED
    BY <1>6, <2>1, SameSlots DEF Accepted
<1>7. CASE CheckCap
  <2>1. client \in Clients /\ conn[client] = "accepted"
    BY <1>7 DEF CheckCap, Inv, LifeInv, NothingLeaked, TypeOK
  <2>2. Handled' = Handled /\ active' = active
    BY <1>7, <2>1 DEF CheckCap, ConnGo, Handled, Inv, TypeOK
  <2>3. serve' = "spawn" => active < MaxConns
    BY <1>7 DEF CheckCap, Full, Inv, TypeOK
  <2> QED
    BY <2>2, <2>3 DEF Inv, SlotsInv, SlotsExact
<1>8. CASE Spawn
  <2>1. client \in Clients /\ conn[client] = "accepted"
    BY <1>8 DEF Spawn, Inv, LifeInv, NothingLeaked, TypeOK
  <2>2. Handled' = Handled \cup {client} /\ client \notin Handled
    BY <1>8, <2>1 DEF Spawn, ConnGo, Handled, Inv, TypeOK
  <2>3. active < MaxConns /\ active' = active + 1 /\ serve' = "test"
    BY <1>8 DEF Spawn, Inv, SlotsInv
  <2> QED
    BY <2>2, <2>3, FS_AddElement DEF Inv, SlotsInv, SlotsExact, TypeOK
<1>9. ASSUME NEW c \in Clients,
             Receive(c) \/ ReceiveNothing(c) \/ ServeRequest(c) \/ CloseClient(c) \/ Connect(c)
      PROVE  SlotsInv'
  <2>1. Handled' = Handled
    BY <1>9 DEF Receive, ReceiveNothing, ServeRequest, CloseClient, Connect, ConnGo, Handled,
                Inv, TypeOK
  <2>2. active' = active /\ serve' = serve
    BY <1>9 DEF Receive, ReceiveNothing, ServeRequest, CloseClient, Connect, loop
  <2> QED
    BY <2>1, <2>2 DEF Inv, SlotsInv, SlotsExact
<1>10. ASSUME NEW c \in Clients, Release(c)
       PROVE  SlotsInv'
  <2>1. Handled' = Handled \ {c} /\ c \in Handled
    BY <1>10 DEF Release, ConnGo, Handled, Inv, TypeOK
  <2>2. active' = active - 1 /\ serve' = serve
    BY <1>10 DEF Release
  <2> QED
    BY <2>1, <2>2, FS_RemoveElement DEF Inv, SlotsInv, SlotsExact, TypeOK
<1>11. CASE UNCHANGED vars
  BY <1>1, <1>11 DEF vars
<1> QED
  BY <1>2, <1>3, <1>4, <1>5, <1>6, <1>7, <1>8, <1>9, <1>10, <1>11
  DEF Next, StopStep, LoopStep, HandlerStep

----------------------------------------------------------------------------
(* The life of the server and of a connection *)

\* A connection passes from hand to hand, and stop() takes the listening socket
\* and its backlog away before it returns.
LEMMA LifeStep ==
    ASSUME Inv, [Next]_vars
    PROVE  LifeInv'
<1> USE WebServerAssumption
<1> USE DEF Inv, TypeOK, LifeInv, NothingLeaked
<1>1. CASE Start
  BY <1>1 DEF Start, loop, conns
<1>2. CASE RunAsync
  BY <1>2 DEF RunAsync, conns
<1>3. CASE StopFlag
  BY <1>3 DEF StopFlag, loop, conns
<1>4. CASE StopClose
  BY <1>4 DEF StopClose, ResetBacklog, loop
<1>5. CASE StopForget
  BY <1>5 DEF StopForget, loop, conns
<1>6. CASE StopJoin
  BY <1>6 DEF StopJoin, loop, conns
<1>7. CASE TestRunning \/ EnterAccept \/ WokenByShutdown \/ AcceptError \/ AcceptGlitch
  BY <1>7 DEF TestRunning, EnterAccept, WokenByShutdown, AcceptError, AcceptGlitch, life, conns
<1>8. ASSUME NEW c \in Clients, Accepted(c)
      PROVE  LifeInv'
  BY <1>8 DEF Accepted, ConnGo, life
<1>9. CASE CheckCap
  BY <1>9 DEF CheckCap, ConnGo, life
<1>10. CASE Spawn
  BY <1>10 DEF Spawn, ConnGo, life
<1>11. ASSUME NEW c \in Clients, HandlerStep(c)
       PROVE  LifeInv'
  <2>1. UNCHANGED <<life, serve, client>>
    BY <1>11 DEF HandlerStep, Receive, ReceiveNothing, ServeRequest, CloseClient, Release, loop
  <2>2. /\ \A x \in Clients : conn'[x] = "accepted" <=> conn[x] = "accepted"
        /\ \A x \in Clients : conn'[x] = "backlog" <=> conn[x] = "backlog"
    BY <1>11 DEF HandlerStep, Receive, ReceiveNothing, ServeRequest, CloseClient, Release, ConnGo
  <2> QED
    BY <2>1, <2>2 DEF life
<1>12. ASSUME NEW c \in Clients, Connect(c)
       PROVE  LifeInv'
  BY <1>12 DEF Connect, ConnGo, life, loop
<1>13. CASE UNCHANGED vars
  BY <1>13 DEF vars
<1> QED
  BY <1>1, <1>2, <1>3, <1>4, <1>5, <1>6, <1>7, <1>8, <1>9, <1>10, <1>11, <1>12, <1>13
  DEF Next, StopStep, LoopStep

----------------------------------------------------------------------------
(* The theorems *)

LEMMA InvInit == Init => Inv
<1> SUFFICES ASSUME Init PROVE Inv
  OBVIOUS
<1>1. TypeOK /\ BelowInv
  <2>1. got \in [Clients -> 0..MaxChunks]
    BY WebServerAssumption DEF Init
  <2>2. active \in Nat /\ glitches \in 0..MaxGlitches
    BY WebServerAssumption DEF Init
  <2>3. BelowInv
    BY WebServerAssumption DEF Init, BelowInv
  <2>4. conn \in [Clients -> {"out", "backlog", "accepted", "reading", "serving", "handled",
                             "release", "closed", "refused", "reset"}]
    BY DEF Init
  <2> QED
    BY <2>1, <2>2, <2>3, <2>4 DEF Init, TypeOK
<1>2. LifeInv
  BY WebServerAssumption DEF Init, LifeInv, NothingLeaked
<1>3. Handled = {}
  BY DEF Init, Handled
<1>4. SlotsInv
  BY <1>3, FS_EmptySet, WebServerAssumption DEF Init, SlotsInv, SlotsExact
<1> QED
  BY <1>1, <1>2, <1>4 DEF Inv

\* The invariant of the server, on which the theorems rest.
LEMMA InvAlways == Spec => []Inv
<1>1. Inv /\ [Next]_vars => Inv'
  BY TypeStep, SlotsStep, LifeStep DEF Inv
<1> QED
  BY <1>1, InvInit, PTL DEF Spec

\* Type correctness: no thread reads past the limit (maxRequestBytes), and
\* active_ never drops below zero.
THEOREM Typing == Spec => []TypeOK
<1>1. Inv => TypeOK
  BY DEF Inv
<1> QED
  BY <1>1, InvAlways, PTL

\* active_ is the number of connection threads, and at most maxConns
\* (runForever and the threads it detaches).
THEOREM Slots == Spec => []SlotsExact
<1>1. Inv => SlotsExact
  BY DEF Inv, SlotsInv
<1> QED
  BY <1>1, InvAlways, PTL

\* Every connection is in one hand and no socket outlives stop().
THEOREM NoLeak == Spec => []NothingLeaked
<1>1. Inv => NothingLeaked
  BY DEF Inv, LifeInv
<1> QED
  BY <1>1, InvAlways, PTL

\* After stop() has returned the accept loop does not move and no thread starts.
THEOREM QuietAfterReturn == Spec => QuietAfterStop
<1>1. Inv /\ [Next]_vars => [owner = "stopped" => UNCHANGED <<serve, client>> /\ active' <= active]_vars
  <2> SUFFICES ASSUME Inv, Next, owner = "stopped"
               PROVE  UNCHANGED <<serve, client>> /\ active' <= active
    BY DEF vars
  <2>1. serve \in {"none", "exited"} /\ active \in Nat
    BY DEF Inv, LifeInv, TypeOK
  <2>2. CASE \E c \in Clients : HandlerStep(c) \/ Connect(c)
    BY <2>1, <2>2 DEF HandlerStep, Receive, ReceiveNothing, ServeRequest, CloseClient, Release,
                      Connect, loop
  <2> QED
    BY <2>1, <2>2
    DEF Next, StopStep, LoopStep, Start, RunAsync, StopFlag, StopClose, StopForget, StopJoin,
        TestRunning, EnterAccept, WokenByShutdown, AcceptError, AcceptGlitch, CheckCap, Spawn,
        Accepted
<1> QED
  BY <1>1, InvAlways, PTL DEF Spec, QuietAfterStop
=============================================================================
