------------------------------ MODULE Console ------------------------------
(***************************************************************************)
(* The interactive program (main.cpp) around Snapshot: start-up with its   *)
(* spinner thread, crawls whose reports go to the activity log, the admin  *)
(* dashboard (admin.cpp) on the live engine, exit, and a new start.        *)
(*                                                                         *)
(* The pages a worker fetches are Crawler's subject; here a crawl is what  *)
(* main, the log and the dashboard see of it.  The accept loop of          *)
(* AdminServer works like that of WebServer.  A dashboard request only     *)
(* reads, so one at a time is modelled.  One that outlives the admin       *)
(* command uses a destroyed AdminServer: it may still get through, or      *)
(* bring the process down, which Crash does.  Commands that change nothing *)
(* (search, status, help) are left out.                                    *)
(***************************************************************************)
EXTENDS Snapshot

CONSTANTS
    Pages,        \* the documents that can be crawled
    WorkerCount,  \* Config::crawlerWorkers
    LogCapacity,  \* ActivityLog::cap_
    NoCount

ASSUME ConsoleAssumption ==
    /\ Pages \in SUBSET Docs
    /\ WorkerCount \in Nat \ {0} /\ LogCapacity \in Nat \ {0}
    /\ NoCount \notin Nat

VARIABLES
    main,     \* where the main thread is
    probing,  \* the flag that runSpinner knows as `done'
    spinner,  \* the spinner thread
    crawl,    \* what has become of each page
    log,      \* the activity log
    shown     \* the crawled pages a dashboard request has read, or NoCount

startup == <<main, probing, spinner>>
work == <<crawl, log>>
cvars == <<vars, startup, work, shown>>

Busy == {d \in Pages : crawl[d] \in {"fetched", "reported"}}
Pending == Busy \cup {d \in Pages : crawl[d] = "queued"}
Crawled == {d \in Pages : crawl[d] = "done"}

\* The memory of a process that has ended, as the next one will find its own.
Reset ==
    /\ probing' = TRUE /\ spinner' = "spinning"
    /\ crawl' = [d \in Pages |-> "new"] /\ log' = <<>> /\ shown' = NoCount

----------------------------------------------------------------------------
(* Start-up *)

\* while (!done.load()): as long as the flag is down the spinner goes on.
SpinnerSeesFlag ==
    /\ main # "ended" /\ spinner = "spinning" /\ probing
    /\ spinner' = "ended"
    /\ UNCHANGED <<vars, main, probing, work, shown>>

\* The engine is built, or its constructor throws; probing.store(false).
BuildEngine ==
    /\ main = "build"
    /\ main' \in {"join", "joinFatal"}
    /\ probing' = FALSE
    /\ UNCHANGED <<vars, spinner, work, shown>>

\* spinner.join(), then the demo data and the prompt, or the end.
JoinSpinner ==
    /\ spinner = "ended"
    /\ \/ /\ main = "join" /\ main' = "loop"
          /\ UNCHANGED <<vars, probing, spinner, work, shown>>
       \/ /\ main = "joinFatal" /\ main' = "ended"
          /\ Reset
          /\ UNCHANGED vars

----------------------------------------------------------------------------
(* Commands *)

AtPrompt == main = "loop" /\ console = "prompt"

\* save, load, save-state, load-state: Snapshot's steps of the main thread.
SnapshotCommand ==
    /\ main = "loop"
    /\ \/ \E c \in Commands : BeginSave(c[1], c[2]) \/ Load(c[1], c[2])
       \/ OpenFile \/ OpenFails \/ WriteField \/ WriteFails \/ CloseFile
    /\ UNCHANGED <<startup, work, shown>>

\* crawl: a page that was crawled before is a duplicate, in the index or not.
CrawlCommand(d) ==
    /\ AtPrompt
    /\ crawl[d] = "new"
    /\ crawl' = [crawl EXCEPT ![d] = "queued"]
    /\ UNCHANGED <<vars, startup, log, shown>>

\* admin, when the port is free: start and runAsync.
AdminCommand ==
    /\ AtPrompt
    /\ main' = "admin"
    /\ UNCHANGED <<vars, probing, spinner, work, shown>>

\* The local shared_ptr goes, and with it the server: ~AdminServer stops it.
AdminEnds ==
    /\ main = "admin"
    /\ main' = "loop"
    /\ shown' = NoCount
    /\ UNCHANGED <<vars, probing, spinner, work>>

\* exit, quit, or the end of the input: Engine::shutdown.
ExitCommand ==
    /\ AtPrompt
    /\ main' = "drain"
    /\ UNCHANGED <<vars, probing, spinner, work, shown>>

\* The crawler has drained its queue and joined its workers; main returns.
Drained ==
    /\ main = "drain" /\ Pending = {}
    /\ main' = "ended"
    /\ index' = Demo
    /\ Reset
    /\ UNCHANGED <<disk, console, job, todo, good, reading, saves, begun, last>>

\* The program is started again.
Restart ==
    /\ main = "ended"
    /\ main' = "build"
    /\ UNCHANGED <<vars, probing, spinner, work, shown>>

Dies == Crash /\ Reset /\ main' = "build"

----------------------------------------------------------------------------
(* Crawler workers and their callbacks *)

\* A worker indexes a page anew, replaces it, or fails to fetch it.
ProcessPage(d) ==
    /\ crawl[d] = "queued" /\ Cardinality(Busy) < WorkerCount
    /\ IndexDocument(d) \/ UNCHANGED vars
    /\ crawl' = [crawl EXCEPT ![d] = "fetched"]
    /\ UNCHANGED <<startup, log, shown>>

\* Mutant: the oldest event goes one too early.
TrimmedEarly(events) ==
    SubSeq(events, IF Len(events) >= LogCapacity THEN 2 ELSE 1, Len(events))

\* while (events_.size() > cap_) events_.pop_front()
Trimmed(events) ==
    SubSeq(events, IF Len(events) > LogCapacity THEN 2 ELSE 1, Len(events))

\* The callback onDoc_ or onErr_: an event for the log.
Report(d) ==
    /\ crawl[d] = "fetched"
    /\ log' = Trimmed(Append(log, d))
    /\ crawl' = [crawl EXCEPT ![d] = "reported"]
    /\ UNCHANGED <<vars, startup, shown>>

\* A link to a page nobody has seen; a stopped crawler refuses it.
FollowLink(d) ==
    /\ \E p \in Pages : crawl[p] = "reported"
    /\ main # "drain" /\ crawl[d] = "new"
    /\ crawl' = [crawl EXCEPT ![d] = "queued"]
    /\ UNCHANGED <<vars, startup, log, shown>>

\* --pending_, ++crawled_
Count(d) ==
    /\ crawl[d] = "reported"
    /\ crawl' = [crawl EXCEPT ![d] = "done"]
    /\ UNCHANGED <<vars, startup, log, shown>>

----------------------------------------------------------------------------
(* A request for the dashboard *)

\* accept and a thread of its own; with the right token the page is rendered,
\* from engine_.crawledPages() ...
ReadCrawled ==
    /\ main = "admin" /\ shown = NoCount
    /\ shown' = Cardinality(Crawled)
    /\ UNCHANGED <<vars, startup, work>>

\* ... and, under another lock, log_.recent().
ReadLog ==
    /\ shown # NoCount
    /\ shown' = NoCount
    /\ UNCHANGED <<vars, startup, work>>

----------------------------------------------------------------------------
CInit ==
    /\ Init
    /\ main = "build" /\ probing = TRUE /\ spinner = "spinning"
    /\ crawl = [d \in Pages |-> "new"] /\ log = <<>> /\ shown = NoCount

\* Snapshot's other program.
ServerStep ==
    /\ StartServer \/ ReadField \/ \E pw \in Passwords : EndOfFile(pw)
    /\ UNCHANGED <<startup, work, shown>>

MainStep == BuildEngine \/ JoinSpinner \/ AdminEnds \/ Drained

WorkerStep(d) == ProcessPage(d) \/ Report(d) \/ Count(d)

Undisturbed ==
    \/ MainStep \/ SpinnerSeesFlag
    \/ SnapshotCommand \/ AdminCommand \/ ExitCommand \/ Restart
    \/ \E d \in Pages : CrawlCommand(d) \/ FollowLink(d) \/ WorkerStep(d)
    \/ ReadCrawled \/ ReadLog
    \/ ServerStep

CNext == Undisturbed \/ Dies

CSpec == CInit /\ [][CNext]_cvars

\* Nobody kills the program, and its threads run: the probe of the constructor
\* times out, fetches end.
CFairSpec ==
    /\ CInit /\ [][Undisturbed]_cvars
    /\ WF_cvars(MainStep) /\ WF_cvars(SpinnerSeesFlag)
    /\ \A d \in Pages : WF_cvars(WorkerStep(d))
----------------------------------------------------------------------------
(* Properties *)

\* The values each variable ranges over.  Commands run one at a time, after the
\* spinner has been joined, and the program ends with no crawl pending.
CTypeOK ==
    /\ TypeOK
    /\ main \in {"build", "join", "joinFatal", "loop", "admin", "drain", "ended"}
    /\ probing \in BOOLEAN /\ spinner \in {"spinning", "ended"}
    /\ crawl \in [Pages -> {"new", "queued", "fetched", "reported", "done"}]
    /\ Cardinality(Busy) <= WorkerCount
    /\ log \in Seq(Pages) /\ Len(log) <= LogCapacity
    /\ shown \in Nat \cup {NoCount}
    /\ shown # NoCount => main = "admin"
    /\ main # "loop" => console = "prompt"
    /\ main \in {"loop", "admin", "drain"} => spinner = "ended"
    /\ main = "ended" => Pending = {}

\* The dashboard reads the number of crawled pages and the activity log under
\* different locks while workers report and count pages: it lists an event for
\* every page it counts, as many as the log can hold.
DashboardCovers ==
    [][ReadLog => Len(log) >= shown \/ Len(log) = LogCapacity]_cvars

\* The spinner runs "until done is set" (main.cpp, runSpinner): start-up comes
\* to the prompt, or to its error message, however the threads are scheduled.
StartupEnds == main = "build" ~> main \in {"loop", "ended"}
=============================================================================
