------------------------------ MODULE TorPool ------------------------------
(***************************************************************************)
(* PooledTorProxyManager (src/tor_proxy_pool.cpp) and the threads that use *)
(* it through CurlFetcher::fetch (src/fetcher.cpp): round-robin selection, *)
(* failover with a cooldown, lazy re-probes, circuit rotation, retries.    *)
(* Without --tor-pool they use DefaultTorProxyManager                      *)
(* (src/tor_proxy_manager.cpp), whose one endpoint is eps[1] and whose up_ *)
(* is the health of that endpoint.                                         *)
(*                                                                         *)
(* Each method of a manager holds mtx_ throughout and is one step, lazy    *)
(* probe included; a fetch is a step per call it makes, and the pool reads *)
(* the clock before it takes the lock.  Whether a Tor daemon answers a     *)
(* probe, and how a transfer ends, may be different every time.  The       *)
(* summary that probe() computes for the status display is left out.       *)
(***************************************************************************)
EXTENDS Integers, Sequences, FiniteSets

CONSTANTS
    Endpoints,       \* host:port pairs
    Config,          \* Options::proxies, in order, as Engine assembles it
    Threads,         \* crawler workers that fetch
    Cooldown,        \* Options::failureCooldown, in ticks
    RotateInterval,  \* Options::circuitRotateInterval, 0 for never
    OnionRetries,    \* Options::onionRetries
    None,            \* TorEndpoint::none()
    MaxTime,         \* bound: ticks of the clock
    MaxFetches,      \* bound: fetches per thread
    MaxChanges       \* bound: calls of addProxy, removeProxy, probeEndpoint

ASSUME TorPoolAssumption ==
    /\ Config \in Seq(Endpoints) \ {<<>>}
    /\ None \notin Endpoints
    /\ {Cooldown, RotateInterval, OnionRetries, MaxTime, MaxFetches, MaxChanges}
          \subseteq Nat

VARIABLES
    pooled,      \* Engine::Config::useProxyPool
    eps,         \* eps_: endpoint, health and cooldown clock, in order
    rr,          \* rr_
    lastRotate,  \* lastRotate_
    now,         \* steady_clock
    fpc,         \* where each fetch is
    kind,        \* "onion" or "clear", per fetch
    tries,       \* maxTries, computed once per fetch
    attempt,     \* the loop counter
    at,          \* the clock value selectProxy read before taking the lock
    ep,          \* the endpoint of the attempt
    verdict,     \* how the transfer went
    fetches,     \* fetches begun, per thread
    changes,     \* calls of addProxy, removeProxy and probeEndpoint made
    suspect,     \* history: endpoints that failed and have not answered since
    forgiven,    \* history: those of them that a rotation declared healthy since
    calm,        \* history: no failure, rotation or list change so far
    picks        \* history: how often each endpoint was handed out while calm

pool == <<eps, rr, lastRotate>>
fetch == <<kind, tries, attempt, at, ep, verdict, fetches>>
history == <<suspect, forgiven, picks, calm>>
vars == <<pooled, pool, now, fpc, fetch, changes, history>>

Entry == [id : Endpoints, healthy : BOOLEAN, lastProbe : Int]
Fresh(e) == [id |-> e, healthy |-> TRUE, lastProbe |-> -Cooldown]

\* The entry that reportSuccess and reportFailure find: the first match.
First(e) == {i \in DOMAIN eps : /\ eps[i].id = e
                                /\ \A j \in DOMAIN eps : eps[j].id = e => i <= j}

\* The element of a set of positions that has k others before it.
Nth(S, k) == CHOOSE i \in S : Cardinality({j \in S : j < i}) = k

Healthy == {i \in DOMAIN eps : eps[i].healthy}

(* What the history records. *)
NoPicks == [e \in Endpoints |-> 0]
CalmIf(c) == calm' = c /\ picks' = IF c THEN picks ELSE NoPicks
Answered(S) == suspect' = suspect \ S /\ forgiven' = forgiven \ S

----------------------------------------------------------------------------
(* PooledTorProxyManager::selectProxy, called at clock value t *)

RotationDue(t) == RotateInterval > 0 /\ t - lastRotate >= RotateInterval

\* Circuit rotation declares every endpoint healthy.
Rotated(t) ==
    IF RotationDue(t) THEN [i \in DOMAIN eps |-> [eps[i] EXCEPT !.healthy = TRUE]]
    ELSE eps

Cursor(t) == IF RotationDue(t) THEN (rr + 1) % Len(eps) ELSE rr

\* Mutant: a failed endpoint is a candidate at once.
NoCooldown(t) == DOMAIN eps

\* Healthy entries, or failed ones whose cooldown has expired.
Candidates(t) ==
    {i \in DOMAIN eps : \/ Rotated(t)[i].healthy
                        \/ t - Rotated(t)[i].lastProbe >= Cooldown}

\* The candidate that the cursor selects.
Picked(t) == Nth(Candidates(t), Cursor(t) % Cardinality(Candidates(t)))

\* Mutant: the cursor stays where it is.
StuckCursor(t) == Cursor(t)

NextCursor(t) == Cursor(t) + 1

\* Does selectProxy have to probe the endpoint it picked?
Reprobes(t) == Candidates(t) # {} /\ ~Rotated(t)[Picked(t)].healthy

\* Mutant: an endpoint past its cooldown is handed out without a probe.
HandOutUnprobed(t, alive) ==
    IF Candidates(t) = {} THEN None ELSE Rotated(t)[Picked(t)].id

\* The answer of selectProxy when a probe it makes is answered iff alive.
Answer(t, alive) ==
    IF Candidates(t) = {} \/ (Reprobes(t) /\ ~alive) THEN None
    ELSE Rotated(t)[Picked(t)].id

\* What selectProxy leaves behind; with no endpoints it returns at once.
SelectProxy(t, alive) ==
    IF eps = <<>> THEN UNCHANGED <<pool, history>>
    ELSE
    /\ lastRotate' = IF RotationDue(t) THEN t ELSE lastRotate
    /\ rr' = IF Candidates(t) = {} THEN Cursor(t) ELSE NextCursor(t)
    /\ eps' = IF ~Reprobes(t) THEN Rotated(t)
              ELSE [Rotated(t) EXCEPT ![Picked(t)].healthy = alive,
                                      ![Picked(t)].lastProbe = t]
    /\ LET answered == IF Reprobes(t) /\ alive THEN {eps[Picked(t)].id} ELSE {}
           rotated == IF RotationDue(t) THEN suspect ELSE forgiven
       IN  suspect' = suspect \ answered /\ forgiven' = rotated \ answered
    /\ calm' = (calm /\ ~RotationDue(t))
    /\ picks' = [e \in Endpoints |->
                    IF ~calm' THEN 0
                    ELSE IF e = Answer(t, alive) THEN picks[e] + 1 ELSE picks[e]]

----------------------------------------------------------------------------
(* DefaultTorProxyManager *)

\* up_ is false until a probe has been answered.
Unprobed(e) == [Fresh(e) EXCEPT !.healthy = FALSE]

\* selectProxy: the proxy only when the last probe was Up.
OnlyProxy == IF Healthy = {} THEN None ELSE eps[1].id

----------------------------------------------------------------------------
(* CurlFetcher::fetch *)

\* Additional attempts, from the health of the pool when the fetch begins.
MaxRetries(k) ==
    IF k = "onion" THEN OnionRetries
    ELSE IF pooled /\ Healthy # {} THEN Cardinality(Healthy) - 1 ELSE 0

Start(t, k) ==
    /\ fpc[t] = "idle" /\ fetches[t] < MaxFetches
    /\ fpc' = [fpc EXCEPT ![t] = "ask"]
    /\ kind' = [kind EXCEPT ![t] = k]
    /\ tries' = [tries EXCEPT ![t] = 1 + MaxRetries(k)]
    /\ attempt' = [attempt EXCEPT ![t] = 0]
    /\ fetches' = [fetches EXCEPT ![t] = @ + 1]
    /\ UNCHANGED <<pool, now, at, ep, verdict, changes, history>>

\* selectProxy of the pool reads the clock, then waits for the lock.
Ask(t) ==
    /\ fpc[t] = "ask"
    /\ at' = [at EXCEPT ![t] = IF pooled THEN now ELSE 0]
    /\ fpc' = [fpc EXCEPT ![t] = "select"]
    /\ UNCHANGED <<pool, now, kind, tries, attempt, ep,
                   verdict, fetches, changes, history>>

\* Mutant: an onion request without a proxy goes out directly.
GoDirect(t, e) == "transfer"

\* fetch returns: its locals go out of scope.
Return(t) ==
    /\ kind' = [kind EXCEPT ![t] = "clear"]
    /\ tries' = [tries EXCEPT ![t] = 0]
    /\ attempt' = [attempt EXCEPT ![t] = 0]

\* An onion request without a proxy ends here.
AfterSelect(t, e) == IF kind[t] = "onion" /\ e = None THEN "idle" ELSE "transfer"

Select(t) ==
    /\ fpc[t] = "select"
    /\ \/ /\ pooled
          /\ \E alive \in (IF Reprobes(at[t]) THEN BOOLEAN ELSE {TRUE}) :
                /\ SelectProxy(at[t], alive)
                /\ ep' = [ep EXCEPT ![t] = Answer(at[t], alive)]
       \/ /\ ~pooled
          /\ ep' = [ep EXCEPT ![t] = OnlyProxy]
          /\ UNCHANGED <<pool, history>>
    /\ fpc' = [fpc EXCEPT ![t] = AfterSelect(t, ep'[t])]
    /\ IF fpc'[t] = "idle" THEN Return(t) ELSE UNCHANGED <<kind, tries, attempt>>
    /\ at' = [at EXCEPT ![t] = 0]
    /\ UNCHANGED <<now, verdict, fetches, changes>>

\* How a transfer may end; anything at or above 400 is "http".
Verdicts == {"ok", "http", "transient", "other"}

\* curl_easy_init fails: the fetch returns and nothing is reported.
CurlInitFails(t) ==
    /\ fpc[t] = "transfer"
    /\ fpc' = [fpc EXCEPT ![t] = "idle"]
    /\ ep' = [ep EXCEPT ![t] = None]
    /\ Return(t)
    /\ UNCHANGED <<pool, now, at, verdict, fetches, changes, history>>

Transfer(t) ==
    /\ fpc[t] = "transfer"
    /\ \E v \in Verdicts : verdict' = [verdict EXCEPT ![t] = v]
    /\ fpc' = [fpc EXCEPT ![t] = "report"]
    /\ UNCHANGED <<pool, now, kind, tries, attempt, at, ep, fetches, changes, history>>

\* Mutant: the number of attempts is not checked.
RetryForever(t) ==
    \/ verdict[t] = "transient"
    \/ verdict[t] = "other" /\ kind[t] = "onion"

\* The loop goes round again: a retryable failure with attempts left.
Retries(t) ==
    /\ \/ verdict[t] = "transient"
       \/ verdict[t] = "other" /\ kind[t] = "onion"
    /\ attempt[t] + 1 < tries[t]

NextAttempt(t) == attempt[t] + 1

ReportSuccess(e) ==
    /\ eps' = [i \in DOMAIN eps |->
                  IF i \in First(e) THEN [eps[i] EXCEPT !.healthy = TRUE] ELSE eps[i]]
    /\ Answered({e})
    /\ UNCHANGED <<calm, picks>>

ReportFailure(e) ==
    /\ eps' = [i \in DOMAIN eps |->
                  IF i \in First(e)
                  THEN [eps[i] EXCEPT !.healthy = FALSE, !.lastProbe = now]
                  ELSE eps[i]]
    /\ suspect' = suspect \cup {e} /\ forgiven' = forgiven \ {e}
    /\ CalmIf(FALSE)

\* The outcome is reported, then the loop goes on or the fetch returns.  The
\* default manager counts failures, "but routing is unchanged".
Report(t) ==
    /\ fpc[t] = "report"
    /\ IF ep[t] = None \/ ~pooled THEN UNCHANGED <<eps, history>>
       ELSE IF verdict[t] = "ok" THEN ReportSuccess(ep[t])
       ELSE ReportFailure(ep[t])
    /\ IF Retries(t)
       THEN /\ attempt' = [attempt EXCEPT ![t] = NextAttempt(t)]
            /\ fpc' = [fpc EXCEPT ![t] = "ask"]
            /\ UNCHANGED <<kind, tries>>
       ELSE fpc' = [fpc EXCEPT ![t] = "idle"] /\ Return(t)
    /\ ep' = [ep EXCEPT ![t] = None]
    /\ verdict' = [verdict EXCEPT ![t] = "none"]
    /\ UNCHANGED <<rr, lastRotate, now, at, fetches, changes>>

----------------------------------------------------------------------------
(* probe, of either manager; addProxy, removeProxy and probeEndpoint of the *)
(* pool.  No program calls the last three.                                  *)

\* probe(): every endpoint is probed and its health stored.  The default manager
\* probes its only endpoint without the lock; the answer counts when it is stored.
Probe ==
    /\ \E alive \in SUBSET {eps[i].id : i \in DOMAIN eps} :
          /\ eps' = [i \in DOMAIN eps |-> [eps[i] EXCEPT !.healthy = eps[i].id \in alive,
                                                         !.lastProbe = now]]
          /\ Answered(alive)
          /\ CalmIf(calm /\ \A i \in DOMAIN eps : eps[i].id \in alive)
    /\ UNCHANGED <<rr, lastRotate, now, fpc, fetch, changes>>

AddProxy(e) ==
    /\ pooled /\ changes < MaxChanges
    /\ First(e) = {}
    /\ eps' = Append(eps, Fresh(e))
    /\ changes' = changes + 1
    /\ Answered({e})
    /\ CalmIf(FALSE)
    /\ UNCHANGED <<rr, lastRotate, now, fpc, fetch>>

\* The entries that are not e's, in their order.
Without(e) ==
    LET kept == {i \in DOMAIN eps : eps[i].id # e}
    IN  [k \in 1..Cardinality(kept) |-> eps[Nth(kept, k - 1)]]

RemoveProxy(e) ==
    /\ pooled /\ changes < MaxChanges
    /\ First(e) # {}
    /\ eps' = Without(e)
    /\ changes' = changes + 1
    /\ CalmIf(FALSE)
    /\ UNCHANGED <<rr, lastRotate, now, fpc, fetch, suspect, forgiven>>

\* probeEndpoint(): the probe is made before the lock is taken, so its answer
\* may be older than a failure reported meanwhile; it counts when it is stored.
ProbeEndpoint(e) ==
    /\ pooled /\ changes < MaxChanges
    /\ \E alive \in BOOLEAN :
          /\ eps' = [i \in DOMAIN eps |->
                        IF eps[i].id = e
                        THEN [eps[i] EXCEPT !.healthy = alive, !.lastProbe = now]
                        ELSE eps[i]]
          /\ Answered(IF alive THEN {e} ELSE {})
          /\ CalmIf(calm /\ (alive \/ First(e) = {}))
    /\ changes' = changes + 1
    /\ UNCHANGED <<rr, lastRotate, now, fpc, fetch>>

----------------------------------------------------------------------------
(* The environment *)

Tick ==
    /\ now < MaxTime
    /\ now' = now + 1
    /\ UNCHANGED <<pool, fpc, fetch, changes, history>>

Init ==
    /\ pooled \in BOOLEAN
    /\ eps = IF pooled THEN [i \in DOMAIN Config |-> Fresh(Config[i])]
             ELSE <<Unprobed(Head(Config))>>
    /\ rr = 0 /\ lastRotate = 0 /\ now = 0
    /\ fpc = [t \in Threads |-> "idle"]
    /\ kind = [t \in Threads |-> "clear"]
    /\ tries = [t \in Threads |-> 0] /\ attempt = [t \in Threads |-> 0]
    /\ at = [t \in Threads |-> 0] /\ ep = [t \in Threads |-> None]
    /\ verdict = [t \in Threads |-> "none"]
    /\ fetches = [t \in Threads |-> 0] /\ changes = 0
    /\ suspect = {} /\ forgiven = {} /\ picks = NoPicks /\ calm = TRUE

FetchStep(t) == Ask(t) \/ Select(t) \/ CurlInitFails(t) \/ Transfer(t) \/ Report(t)

Next ==
    /\ \/ \E t \in Threads : FetchStep(t) \/ \E k \in {"onion", "clear"} : Start(t, k)
       \/ Probe
       \/ \E e \in Endpoints : AddProxy(e) \/ RemoveProxy(e) \/ ProbeEndpoint(e)
       \/ Tick
    /\ UNCHANGED pooled

Spec == Init /\ [][Next]_vars

----------------------------------------------------------------------------
(* Properties *)

\* The values each variable ranges over.
TypeOK ==
    /\ pooled \in BOOLEAN /\ eps \in Seq(Entry)
    /\ rr \in Nat /\ lastRotate \in 0..MaxTime /\ now \in 0..MaxTime
    /\ forgiven \subseteq suspect /\ suspect \subseteq Endpoints
    /\ fpc \in [Threads -> {"idle", "ask", "select", "transfer", "report"}]
    /\ kind \in [Threads -> {"onion", "clear"}]
    /\ tries \in [Threads -> Nat] /\ attempt \in [Threads -> Nat]
    /\ \A t \in Threads : fpc[t] # "idle" => attempt[t] < tries[t]
    /\ at \in [Threads -> 0..MaxTime]
    /\ ep \in [Threads -> Endpoints \cup {None}]
    /\ verdict \in [Threads -> {"none", "ok", "http", "transient", "other"}]
    /\ fetches \in [Threads -> 0..MaxFetches] /\ changes \in 0..MaxChanges
    /\ picks \in [Endpoints -> Nat] /\ calm \in BOOLEAN

\* An .onion request is never on the wire without a SOCKS5 proxy, whatever
\* other threads did to the pool between the selection and the transfer.
OnionOnlyThroughProxy ==
    \A t \in Threads :
        fpc[t] \in {"transfer", "report"} /\ kind[t] = "onion" => ep[t] # None

Selected(t) == fpc[t] = "select" /\ fpc'[t] # "select"

\* selectProxy hands out an endpoint after a reported failure only when the
\* endpoint has answered since, by a later success or to a probe, or when a
\* rotation has declared it healthy ("The failed endpoint must no longer be
\* selected", tests/test_tor_pool.cpp).
FailedStaysOut ==
    [][\A t \in Threads : Selected(t) => ep'[t] \notin suspect' \ forgiven']_vars

\* After a rotation too a failed endpoint has to answer first: rotation is to
\* "reset health so the next selection re-probes" (src/tor_proxy_pool.cpp:56).
RotationReprobes ==
    [][\A t \in Threads : Selected(t) => ep'[t] \notin suspect']_vars

\* While nothing has failed or rotated, requests of all threads together are
\* spread evenly over the configured endpoints.
LoadBalanced ==
    calm => \A i, j \in DOMAIN Config : picks[Config[i]] - picks[Config[j]] <= 1

\* Though selectProxy works with a clock value read before it had the lock,
\* neither an endpoint's cooldown nor the rotation clock ever moves back.
ClocksMonotone ==
    [][/\ lastRotate' >= lastRotate
       /\ changes' = changes =>
             \A i \in DOMAIN eps : eps'[i].lastProbe >= eps[i].lastProbe]_vars
=============================================================================
