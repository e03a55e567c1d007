---------------------------- MODULE LocalAddress -----------------------------
(***************************************************************************)
(* The address helpers of src/nyansd.cpp: ipv4_stringToUint,               *)
(* ipv4_uintToString and remoteToLocalIP.                                  *)
(*                                                                         *)
(* A text is the sequence of its parts between the dots; a part is the     *)
(* number std::stoul reads at its start, or NoNumber.  An address is the   *)
(* sequence of its four octets.                                            *)
(***************************************************************************)
EXTENDS Integers, Sequences, FiniteSetsExt

CONSTANTS
  NoNumber,   \* a part that std::stoul refuses with an exception
  NotFound    \* the verdict false of remoteToLocalIP, the exception of stoul

\* Slip: the search begins one part late.
PartAfter(text, i) == text[(i % Len(text)) + 1]

\* Part number i of the four that are converted: after the last dot the search
\* position wraps round to the start of the text (npos + 1 = 0).
PartAt(text, i) == text[((i - 1) % Len(text)) + 1]

\* The cast to uint8_t.
Octet(n) == n % 256

StringToUint(text) ==
  IF \E i \in 1..4 : PartAt(text, i) = NoNumber THEN NotFound
  ELSE [i \in 1..4 |-> Octet(PartAt(text, i))]

\* The four octets in decimal, in the order they have in memory.
UintToString(address) == [i \in 1..4 |-> address[i]]

\* "a.b.c.", the text of an address up to its last dot.
Network(address) == SubSeq(address, 1, 3)

-----------------------------------------------------------------------------
\* remoteToLocalIP.  interfaces is the sequence of the interfaces in the order
\* of their numbers, each with its addresses: IPv4 ones, or IPv6 for the rest.
\* The requester is an IPv4 one, as the socket of the listener is.

IPv6 == <<>>

OnNetwork(interface, requester) ==
  \E j \in DOMAIN interface : /\ interface[j] # IPv6
                              /\ Network(interface[j]) = Network(requester)

Facing(interfaces, requester) ==
  {i \in DOMAIN interfaces : OnNetwork(interfaces[i], requester)}

\* "Find first IPv4 address on this network interface."
FirstIPv4(interface) ==
  interface[Min({j \in DOMAIN interface : interface[j] # IPv6})]

\* Slip: the first interface that has an address at all.
RemoteToAnyIP(interfaces, requester) ==
  LET up == {i \in DOMAIN interfaces :
                \E j \in DOMAIN interfaces[i] : interfaces[i][j] # IPv6}
  IN  IF up = {} THEN NotFound ELSE FirstIPv4(interfaces[Min(up)])

RemoteToLocalIP(interfaces, requester) ==
  LET facing == Facing(interfaces, requester)
  IN  IF facing = {} THEN NotFound
      ELSE FirstIPv4(interfaces[Min(facing)])

-----------------------------------------------------------------------------
\* Properties of single inputs.

WellFormed(text) ==
  Len(text) = 4 /\ \A i \in 1..4 : text[i] # NoNumber /\ text[i] < 256

\* An address that is given in full comes back as the same text; whatever else
\* is let through (too few parts, too many, too large) comes back as another.
TextComesBack(text) ==
  StringToUint(text) # NotFound =>
     (UintToString(StringToUint(text)) = text <=> WellFormed(text))

OneNetwork(interface) ==
  \A j, k \in DOMAIN interface :
     interface[j] # IPv6 /\ interface[k] # IPv6
       => Network(interface[j]) = Network(interface[k])

\* A requester is told an address whenever an interface of the host is on its
\* network, and then an IPv4 one of such an interface, never one it cannot
\* reach.  It is on the requester's own network unless the interface has
\* addresses of several.
AnswersOnOwnNetwork(interfaces, requester) ==
  LET a      == RemoteToLocalIP(interfaces, requester)
      facing == Facing(interfaces, requester)
  IN  IF facing = {} THEN a = NotFound
      ELSE \E i \in facing :
             /\ \E j \in DOMAIN interfaces[i] : interfaces[i][j] = a
             /\ a # IPv6
             /\ OneNetwork(interfaces[i]) => Network(a) = Network(requester)

==============================================================================
