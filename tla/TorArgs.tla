------------------------------ MODULE TorArgs ------------------------------
(***************************************************************************)
(* How the Tor options of the command line become the endpoints that a     *)
(* proxy manager starts with: parseTorFlag and parseProxyList              *)
(* (src/tor_proxy_manager.cpp), then Engine's constructor (src/engine.cpp).*)
(* A piece of a list is a [host, port] pair; port 0 stands for a piece     *)
(* without a colon or with one that is no number.                          *)
(***************************************************************************)
EXTENDS Integers, Sequences, SequencesExt

CONSTANT Wrap   \* std::size_t counts modulo Wrap

ASSUME TorArgsAssumption == Wrap \in Nat \ {0}

Localhost == "127.0.0.1"

(* parseProxyList: malformed pieces are skipped and an empty host is local. *)
Good(piece) == piece.port >= 1 /\ piece.port <= 65535
Local(piece) == IF piece.host = "" THEN [piece EXCEPT !.host = Localhost] ELSE piece

ParseProxyList(pieces) ==
    LET out[i \in 0..Len(pieces)] ==
            IF i = 0 THEN <<>>
            ELSE IF Good(pieces[i]) THEN Append(out[i - 1], Local(pieces[i])) ELSE out[i - 1]
    IN  out[Len(pieces)]

\* Engine::Config, of which the first endpoint has fields of its own.
Defaults == [torHost |-> Localhost, torPort |-> 9050, torProxies |-> <<>>,
             useProxyPool |-> FALSE, onionRetries |-> 0, circuitRotateInterval |-> 0]

\* Mutant: the endpoints of earlier lists stay.
KeepsExtra(cfg, list) ==
    IF list = <<>> THEN cfg
    ELSE [cfg EXCEPT !.torHost = Head(list).host, !.torPort = Head(list).port,
                     !.torProxies = @ \o Tail(list)]

\* --tor-proxy, unless none of its pieces is an endpoint.
WithProxies(cfg, list) ==
    IF list = <<>> THEN cfg
    ELSE [cfg EXCEPT !.torHost = Head(list).host, !.torPort = Head(list).port,
                     !.torProxies = Tail(list)]

\* std::stoul wraps a negative number; text that is no number counts as 0.
Unsigned(value) == IF value.number THEN value.n % Wrap ELSE 0
Signed(value) == IF value.number THEN value.n ELSE 0

ParseTorFlag(cfg, flag) ==
    CASE flag.arg = "--tor-pool" -> [cfg EXCEPT !.useProxyPool = TRUE]
      [] flag.arg = "--tor-proxy" -> WithProxies(cfg, ParseProxyList(flag.pieces))
      [] flag.arg = "--onion-retries" /\ flag.given -> [cfg EXCEPT !.onionRetries = Unsigned(flag)]
      [] flag.arg = "--circuit-rotate" /\ flag.given ->
           [cfg EXCEPT !.circuitRotateInterval = Signed(flag)]
      [] OTHER -> cfg

\* The loop over argv.
ParseArgs(flags) ==
    LET cfg[i \in 0..Len(flags)] ==
            IF i = 0 THEN Defaults ELSE ParseTorFlag(cfg[i - 1], flags[i])
    IN  cfg[Len(flags)]

(* Engine::Engine: the extra endpoints, printed as host:port, are parsed again. *)
EndpointsOf(cfg) ==
    <<[host |-> cfg.torHost, port |-> cfg.torPort]>> \o ParseProxyList(cfg.torProxies)

\* The manager without a pool keeps the first endpoint only.
ManagerEndpoints(cfg) ==
    IF cfg.useProxyPool THEN EndpointsOf(cfg) ELSE <<Head(EndpointsOf(cfg))>>

----------------------------------------------------------------------------
(* What the whole command line asks for. *)

Latest(S) == CHOOSE i \in S : \A j \in S : j <= i
\* The flags that name an endpoint, and those that give a number.
ListsOf(flags) ==
    {i \in DOMAIN flags :
        flags[i].arg = "--tor-proxy" /\ \E k \in DOMAIN flags[i].pieces : Good(flags[i].pieces[k])}
NumbersOf(flags, arg) == {i \in DOMAIN flags : flags[i].arg = arg /\ flags[i].given}

\* The well-formed endpoints of the last list with any, in order.
AskedFor(flags) ==
    IF ListsOf(flags) = {} THEN <<[host |-> Localhost, port |-> 9050]>>
    ELSE LET pieces == flags[Latest(ListsOf(flags))].pieces
             nth(k) == CHOOSE i \in DOMAIN pieces :
                          Good(pieces[i]) /\ Cardinality({j \in 1..i : Good(pieces[j])}) = k
         IN  [k \in 1..Cardinality({i \in DOMAIN pieces : Good(pieces[i])}) |-> Local(pieces[nth(k)])]

\* The last number given to an option, 0 for one that is none.
NumberAskedFor(flags, arg) ==
    LET given == NumbersOf(flags, arg) IN
    IF given = {} \/ ~flags[Latest(given)].number THEN 0 ELSE flags[Latest(given)].n

RetriesAskedFor(flags) == NumberAskedFor(flags, "--onion-retries")
RotationAskedFor(flags) == NumberAskedFor(flags, "--circuit-rotate")

\* parseTorFlag, flag by flag, and the command line as a whole agree.
FlagsAgree(flags) ==
    LET cfg == ParseArgs(flags)
        asked == AskedFor(flags)
    IN  /\ ManagerEndpoints(cfg) =
              IF \E i \in DOMAIN flags : flags[i].arg = "--tor-pool" THEN asked ELSE <<Head(asked)>>
        /\ cfg.onionRetries = RetriesAskedFor(flags)
        /\ cfg.circuitRotateInterval = RotationAskedFor(flags)
=============================================================================
