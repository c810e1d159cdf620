----------------------------- MODULE MCTorPool -----------------------------
(* Instances of TorOptions for TLC. *)
EXTENDS TorOptions

Tor1 == [host |-> "127.0.0.1", port |-> 9050]
Tor2 == [host |-> "10.0.0.1", port |-> 9051]
BothProxies == {Tor1, Tor2}
TwoProxies == <<Tor1, Tor2>>

Part(host, port) == [host |-> host, port |-> port]
List(pieces) == [arg |-> "--tor-proxy", pieces |-> pieces]
Option(name, given, number, n) == [arg |-> name, given |-> given, number |-> number, n |-> n]

\* The command line of the instances: a malformed list, one that is replaced,
\* and one with a local endpoint, a bad port and a remote endpoint.
Rotating(n) ==
    <<List(<<Part("a", 1), Part("b", 2)>>), [arg |-> "--tor-pool"],
      Option("--onion-retries", TRUE, TRUE, 1), Option("--circuit-rotate", TRUE, TRUE, n),
      List(<<Part("", 9050), Part("a", 65536), Part("10.0.0.1", 9051)>>),
      List(<<Part("a", 0)>>), Option("--onion-retries", FALSE, FALSE, 0)>>
RotateEvery1 == Rotating(1)
RotateEvery2 == Rotating(2)

\* Lists of up to two pieces, good and bad, and the other options.
Parts == [host : {"", "a"}, port : {0, 1, 65535, 65536}]
AnyFlag ==
    {List(pieces) : pieces \in UNION {[1..n -> Parts] : n \in 0..2}}
    \cup {[arg |-> "--tor-pool"], Option("--onion-retries", TRUE, TRUE, 3),
          Option("--onion-retries", TRUE, FALSE, 0), Option("--onion-retries", FALSE, FALSE, 0),
          Option("--circuit-rotate", TRUE, TRUE, -1), Option("--circuit-rotate", TRUE, FALSE, 0)}
ShortLines == UNION {[1..n -> AnyFlag] : n \in 0..2}
=============================================================================
