------------------------------- MODULE Client -------------------------------
(***************************************************************************)
(* The client side of the NyanSD library, NyanSD::sendQuery in             *)
(* src/nyansd.cpp, with the loop of client/nyansd_client.cpp that drops    *)
(* duplicates from what it returns.                                        *)
(*                                                                         *)
(* sendQuery walks the network interfaces one after the other.  On each it *)
(* broadcasts, collects datagrams until none has come for Wait ticks (500  *)
(* ms), and closes the socket.  Only then are the datagrams of all         *)
(* interfaces parsed.  The network delays, reorders, duplicates and loses  *)
(* replies: a reply still under way when its socket is closed is lost.     *)
(***************************************************************************)
EXTENDS Wire, FiniteSets

CONSTANTS
  QueryCounts,   \* lengths of the queries vector a caller may pass
  Interfaces,    \* number of network interfaces
  WithIPv4,      \* those that have an IPv4 address
  Responders,    \* responders on the networks
  Reach,         \* Reach[i]: responders that hear a broadcast on interface i
  Replies,       \* Replies[r]: what the responder r sends back
  SocketError,   \* a pending error that receiveBytes throws
  Wait,          \* ticks in 500 ms
  MaxDuplicates, MaxErrors   \* bounds of the checked instance

ASSUME ClientAssumption ==
  /\ QueryCounts \subseteq Nat
  /\ Interfaces \in Nat /\ WithIPv4 \subseteq 1..Interfaces
  /\ Reach \in [1..Interfaces -> SUBSET Responders]
  /\ Replies \in [Responders -> Seq(Message)]
  /\ \A r \in Responders : \A m \in Range(Replies[r]) : m.items \in Seq(Record)
  /\ Wait \in Nat \ {0} /\ MaxDuplicates \in Nat /\ MaxErrors \in Nat

\* One copy of the nth reply of a responder to the broadcast on an interface.
Datagram == [via : 1..Interfaces, from : Responders, n : Nat, copy : Nat]

ASSUME SocketErrorAssumption == SocketError \notin Datagram

VARIABLES
  cpc,        \* control state of the caller
  asked,      \* queries.size()
  iface,      \* the interface being walked
  flight,     \* replies under way to the open socket
  inbox,      \* receive buffer of the open socket
  silence,    \* ticks since select was entered
  buffers,    \* datagrams collected
  pi,         \* next buffer to parse
  responses,  \* records returned to the caller
  verdict,    \* what sendQuery returned
  uniques,    \* responses without duplicates
  ui,         \* next response to compare
  errors,     \* history: socket errors so far
  copies,     \* history: duplicates the network has made
  skipped,    \* history: interfaces nothing was sent on
  late        \* history: replies that found their socket closed

faults  == <<errors, copies>>
network == <<flight, inbox, silence, faults>>
results == <<responses, verdict, pi>>
unique  == <<uniques, ui>>
vars == <<cpc, asked, iface, network, buffers, results, unique, skipped, late>>

Reply(d) == Replies[d.from][d.n]

Init ==
  /\ cpc = "idle" /\ asked = 0 /\ iface = 1
  /\ flight = {} /\ inbox = <<>> /\ silence = 0 /\ errors = 0 /\ copies = 0
  /\ buffers = <<>> /\ pi = 1 /\ responses = <<>> /\ verdict = FALSE
  /\ uniques = <<>> /\ ui = 1
  /\ skipped = {} /\ late = {}

-----------------------------------------------------------------------------
\* The call: too many queries and none at all are refused.
SendQuery(n) ==
  /\ cpc = "idle"
  /\ asked' = n
  /\ cpc' = IF n \in 1..255 THEN "walk" ELSE "filter"
  /\ UNCHANGED <<iface, network, buffers, results, unique, skipped, late>>

-----------------------------------------------------------------------------
\* The loop over the interfaces.

\* Slip: an interface without an IPv4 address is used all the same.
CanAlwaysBroadcast(i) == TRUE

CanBroadcast(i) == i \in WithIPv4

Broadcasting ==
  /\ cpc = "walk" /\ iface <= Interfaces
  /\ CanBroadcast(iface)
  /\ cpc' = "listen"
  /\ flight' = UNION {[via : {iface}, from : {r}, n : DOMAIN Replies[r],
                       copy : {1}] : r \in Reach[iface]}
  /\ silence' = 0
  /\ UNCHANGED <<asked, iface, inbox, faults, buffers, results, unique,
                 skipped, late>>

\* Slip: break where the code has continue.
SkipTheRest ==
  /\ cpc = "walk" /\ iface <= Interfaces
  /\ iface' = Interfaces + 1
  /\ skipped' = skipped \cup {iface}
  /\ UNCHANGED <<cpc, asked, network, buffers, results, unique, late>>

\* No IPv4 address, or sendTo threw: on to the next interface.
SkipInterface ==
  /\ cpc = "walk" /\ iface <= Interfaces
  /\ iface' = iface + 1
  /\ skipped' = skipped \cup {iface}
  /\ UNCHANGED <<cpc, asked, network, buffers, results, unique, late>>

\* Slip: an error leaves the loop as it was.
ReceiveStuck ==
  /\ cpc = "listen" /\ inbox # <<>>
  /\ silence' = 0
  /\ \/ /\ Head(inbox) # SocketError
        /\ inbox' = Tail(inbox)
        /\ buffers' = Append(buffers, Head(inbox))
     \/ Head(inbox) = SocketError /\ UNCHANGED <<inbox, buffers>>
  /\ UNCHANGED <<cpc, asked, iface, flight, faults, results, unique, skipped,
                 late>>

\* select returned the socket.  A datagram is kept, an exception is reported
\* and dropped; either way select waits another 500 ms.
Receive ==
  /\ cpc = "listen" /\ inbox # <<>>
  /\ inbox' = Tail(inbox)
  /\ silence' = 0
  /\ buffers' = IF Head(inbox) = SocketError THEN buffers
                ELSE Append(buffers, Head(inbox))
  /\ UNCHANGED <<cpc, asked, iface, flight, faults, results, unique, skipped,
                 late>>

\* select timed out.
CloseSocket ==
  /\ cpc = "listen" /\ inbox = <<>> /\ silence = Wait
  /\ cpc' = "walk" /\ iface' = iface + 1
  /\ late' = late \cup flight
  /\ flight' = {}
  /\ UNCHANGED <<asked, inbox, silence, faults, buffers, results, unique,
                 skipped>>

AllWalked ==
  /\ cpc = "walk" /\ iface > Interfaces
  /\ cpc' = "parse"
  /\ UNCHANGED <<asked, iface, network, buffers, results, unique, skipped,
                 late>>

-----------------------------------------------------------------------------
\* The loop over the buffers.

\* Slip: a reply that cannot be read is passed over.
ParseBufferLeniently ==
  /\ cpc = "parse" /\ pi \in DOMAIN buffers
  /\ \E o \in ParseReply(Reply(buffers[pi])) : responses' = responses \o o.recs
  /\ pi' = pi + 1
  /\ UNCHANGED <<cpc, asked, iface, network, buffers, verdict, unique,
                 skipped, late>>

\* The first buffer that cannot be read ends the call: what has been parsed
\* stays in responses, what comes after it does not get there.
ParseBuffer ==
  /\ cpc = "parse" /\ pi \in DOMAIN buffers
  /\ \E o \in ParseReply(Reply(buffers[pi])) :
        /\ responses' = responses \o o.recs
        /\ \/ o.ok /\ pi' = pi + 1 /\ UNCHANGED cpc
           \/ ~o.ok /\ cpc' = "filter" /\ UNCHANGED pi
  /\ UNCHANGED <<asked, iface, network, buffers, verdict, unique, skipped,
                 late>>

AllParsed ==
  /\ cpc = "parse" /\ pi \notin DOMAIN buffers
  /\ cpc' = "filter" /\ verdict' = TRUE
  /\ UNCHANGED <<asked, iface, network, buffers, responses, pi, unique,
                 skipped, late>>

-----------------------------------------------------------------------------
\* main of the client, which looks at responses and not at the verdict.

\* Slip: one of the six fields is forgotten.
SameButForPort(u, rm) == [u EXCEPT !.port = 0] = [rm EXCEPT !.port = 0]

Same(u, rm) == u = rm

IsDuplicate(rm) == \E j \in DOMAIN uniques : Same(uniques[j], rm)

Filter ==
  /\ cpc = "filter" /\ ui \in DOMAIN responses
  /\ uniques' = IF IsDuplicate(responses[ui]) THEN uniques
                ELSE Append(uniques, responses[ui])
  /\ ui' = ui + 1
  /\ UNCHANGED <<cpc, asked, iface, network, buffers, results, skipped, late>>

AllFiltered ==
  /\ cpc = "filter" /\ ui \notin DOMAIN responses
  /\ cpc' = "done"
  /\ UNCHANGED <<asked, iface, network, buffers, results, unique, skipped,
                 late>>

-----------------------------------------------------------------------------
\* The network and the clock.

\* Datagrams of one socket arrive in any order.
Arrive ==
  /\ cpc = "listen"
  /\ \E d \in flight : inbox' = Append(inbox, d) /\ flight' = flight \ {d}
  /\ UNCHANGED <<cpc, asked, iface, silence, faults, buffers, results, unique,
                 skipped, late>>

Duplicate ==
  /\ cpc = "listen" /\ copies < MaxDuplicates
  /\ copies' = copies + 1
  /\ \E d \in flight : flight' = flight \cup {[d EXCEPT !.copy = copies' + 1]}
  /\ UNCHANGED <<cpc, asked, iface, inbox, silence, errors, buffers, results,
                 unique, skipped, late>>

\* An error is pending on the socket, e.g. from an ICMP message.
Fault ==
  /\ cpc = "listen" /\ errors < MaxErrors
  /\ inbox' = Append(inbox, SocketError)
  /\ errors' = errors + 1
  /\ UNCHANGED <<cpc, asked, iface, flight, silence, copies, buffers, results,
                 unique, skipped, late>>

Tick ==
  /\ cpc = "listen" /\ inbox = <<>> /\ silence < Wait
  /\ silence' = silence + 1
  /\ UNCHANGED <<cpc, asked, iface, flight, inbox, faults, buffers, results,
                 unique, skipped, late>>

\* The caller has printed what it got and ends.
Finished == cpc = "done" /\ UNCHANGED vars

CallerNext ==
  \/ Broadcasting \/ SkipInterface \/ Receive \/ CloseSocket \/ AllWalked
  \/ ParseBuffer \/ AllParsed \/ Filter \/ AllFiltered

Next ==
  \/ \E n \in QueryCounts : SendQuery(n)
  \/ CallerNext
  \/ Arrive \/ Duplicate \/ Fault \/ Tick
  \/ Finished

Spec == Init /\ [][Next]_vars

\* The caller runs when it can, and time passes.  No reply has to arrive.
FairSpec == Spec /\ WF_vars(CallerNext) /\ WF_vars(Tick)

-----------------------------------------------------------------------------
\* Properties.

\* Every variable has its type, and a socket is open only on an interface
\* that has an IPv4 address.
TypeOK ==
  /\ cpc \in {"idle", "walk", "listen", "parse", "filter", "done"}
  /\ asked \in Nat /\ iface \in 1..Interfaces + 1
  /\ flight \subseteq Datagram /\ inbox \in Seq(Datagram \cup {SocketError})
  /\ silence \in 0..Wait /\ errors \in Nat /\ copies \in Nat
  /\ buffers \in Seq(Datagram) /\ pi \in 1..Len(buffers) + 1
  /\ responses \in Seq(Record \cup {Garbage}) /\ verdict \in BOOLEAN
  /\ uniques \in Seq(Record \cup {Garbage}) /\ ui \in 1..Len(responses) + 1
  /\ skipped \subseteq 1..Interfaces /\ late \subseteq Datagram
  /\ cpc = "listen" => iface \in WithIPv4
  /\ cpc # "listen" => flight = {} /\ inbox = <<>>

\* Replies that reach the client are read completely and in the order they
\* came, and the verdict tells whether all of them were.
Promise == INSTANCE Discovery WITH
  Replies <- UNION {Range(Replies[r]) : r \in Responders},
  heard   <- [k \in DOMAIN buffers |-> Reply(buffers[k])],
  read    <- pi - 1,
  found   <- responses,
  outcome <- IF cpc \notin {"filter", "done"} THEN "pending"
             ELSE IF verdict THEN "all"
             ELSE IF asked \in 1..255 THEN "some" ELSE "refused"

KeepsPromise == Promise!Spec

\* Services offered where the broadcast went out.
Reached == UNION {Reach[i] : i \in WithIPv4 \ skipped}
Offers  == UNION {Range(m.items) :
                    m \in UNION {Range(Replies[r]) : r \in Reached}}
Printed == Range(uniques)

\* Every responder composes its replies as the code of the responder does, of
\* records whose IPv6 texts do not outgrow their length byte.
ProperReplies == \A r \in Responders : \A m \in Range(Replies[r]) : ProperReply(m)

Readable == \A r \in Reached : \A m \in Range(Replies[r]) :
              m.size <= BufferSize

\* On networks that lose and delay nothing, the caller learns of every service
\* behind every interface its broadcast went out on, and of no other; replies
\* that come twice, out of order or between errors make no difference.
CompleteWhenQuiet ==
  cpc = "done" /\ asked \in 1..255 /\ late = {} /\ Readable
     => verdict /\ Printed = Offers

\* Dropping duplicates drops nothing else: two services that differ in any
\* field are both printed, each of them once.
UniquesComplete ==
  cpc = "done" =>
    /\ Printed = Range(responses)
    /\ Len(uniques) = Cardinality(Printed)

\* However replies and errors fall between the time-outs, the call returns.
CallReturns == cpc = "walk" ~> cpc = "done"

=============================================================================
