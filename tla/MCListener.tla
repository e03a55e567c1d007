----------------------------- MODULE MCListener -----------------------------
(***************************************************************************)
(* Instances of Listener for TLC.                                          *)
(***************************************************************************)
EXTENDS Listener

CONSTANTS owner, adder

MCStrings == {"", "web", "ssh", "host", "gw", "long", "lon",
              "v255", "v256"}

MCStrBytes ==
  [s \in MCStrings |->
     CASE s = "" -> 0 [] s = "long" -> 300 [] s = "lon" -> 44
       [] s = "v255" -> 255 [] s = "v256" -> 256 [] OTHER -> 3]

MCClip ==
  [s \in MCStrings |->
     CASE s = "long" -> "lon" [] s = "v256" -> "" [] OTHER -> s]

\* A service of this host, two that run elsewhere, with an IPv6 text that just
\* fits its length byte and one that just does not, one the library refuses.
Web == [name |-> "web", host |-> "", ipv6 |-> "", addr |-> 0,
        port |-> 80, proto |-> ProtocolTCP]
Ssh == [name |-> "ssh", host |-> "gw", ipv6 |-> "v255", addr |-> 9,
        port |-> 22, proto |-> ProtocolUDP]
Far == [Ssh EXCEPT !.ipv6 = "v256"]
NoPort == [Web EXCEPT !.port = 0]

Ask(proto, filter) == [proto |-> proto, filter |-> filter]

Wildcard   == BroadcastMessage(<<Ask(ProtocolAll, "")>>)
TwoQueries == BroadcastMessage(<<Ask(ProtocolTCP, "web"), Ask(ProtocolAll, "")>>)
LongFilter == BroadcastMessage(<<Ask(ProtocolAll, "long"),
                                 Ask(ProtocolAll, "web")>>)
NoQueries  == BroadcastMessage(<<>>)
AReply     == ResponseMessage(<<Ssh>>, 1)
Cut        == [Wildcard EXCEPT !.size = 7]

\* Two networks this host has an address on, and a requester beyond the /24
\* boundary of a larger one.
TwoNetworks == [s \in {"near", "other"} |-> IF s = "near" THEN {1} ELSE {2}]
OneNetwork  == [s \in {"near"} |-> {1}]
Beyond      == [s \in {"wide"} |-> {0}]

SomeOffered == {Web, Ssh, Far, NoPort}
OneOffered == {Web}
RepliesMessages == {Wildcard, TwoQueries, AReply}
RequestMessages == {LongFilter, NoQueries, Cut}

=============================================================================
