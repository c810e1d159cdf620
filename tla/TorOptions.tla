----------------------------- MODULE TorOptions -----------------------------
(***************************************************************************)
(* The proxy manager as a program starts it: TorPool with the endpoints,   *)
(* retries and rotation that a command line asks for, which reach it flag  *)
(* by flag, through Engine::Config and Engine's constructor (TorArgs).     *)
(***************************************************************************)
EXTENDS TorPool, TorArgs

CONSTANTS
    Given,         \* the command line of the program
    CommandLines   \* other command lines

\* Hosts are strings (the provers do not know it of Localhost).
Hosts == STRING \cup {Localhost}
Piece == [host : Hosts, port : Nat]

\* A flag of the command line.  Numbers of retries are those an unsigned integer
\* holds: stoul refuses larger ones, and wraps negative ones, which nobody means.
Flag ==
    [arg : {"--tor-pool"}]
    \cup [arg : {"--tor-proxy"}, pieces : Seq(Piece)]
    \cup [arg : {"--onion-retries"}, given : BOOLEAN, number : BOOLEAN, n : 0..Wrap - 1]
    \cup [arg : {"--circuit-rotate"}, given : BOOLEAN, number : BOOLEAN, n : Int]

\* The constants of TorPool are what the command line as a whole asks for (an interval
\* below 0, which TorPool leaves out, never rotates, like 0).
ASSUME TorOptionsAssumption ==
    /\ Given \in Seq(Flag) /\ CommandLines \subseteq Seq(Flag)
    /\ Config = AskedFor(Given)
    /\ OnionRetries = RetriesAskedFor(Given)
    /\ RotateInterval = RotationAskedFor(Given)

ParsedConfig == ParseArgs(Given)
AllLinesAgree == \A flags \in CommandLines : FlagsAgree(flags)

\* A manager starts with the endpoints of the command line, the pool with all of them
\* and the default one with the first: the well-formed pieces
\* of the last list that has any, in order and each once, else the default, though
\* parseTorFlag keeps the first one apart from the others and Engine prints and
\* parses those again (parseTorFlag, parseProxyList, Engine::Engine).
ConfigAsGiven ==
    /\ changes = 0 => [i \in DOMAIN eps |-> eps[i].id] =
          ManagerEndpoints([ParsedConfig EXCEPT !.useProxyPool = pooled])
    /\ RotateInterval = ParsedConfig.circuitRotateInterval
    /\ OnionRetries = ParsedConfig.onionRetries
    /\ AllLinesAgree
=============================================================================
