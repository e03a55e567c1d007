---------------------------- MODULE ClientProofs ----------------------------
(***************************************************************************)
(* Theorems about Client, for any interfaces, responders and replies, and  *)
(* any loss, delay, reordering and duplication on the way.                 *)
(***************************************************************************)
EXTENDS Client, WireProofs, SequenceTheorems, FiniteSetTheorems, TLAPS

-----------------------------------------------------------------------------
\* Types.  What is under way, received or kept was sent by some responder.
Known == {d \in Datagram : d.n \in DOMAIN Replies[d.from]}

Sent ==
  /\ flight \subseteq Known
  /\ inbox \in Seq(Known \cup {SocketError})
  /\ buffers \in Seq(Known)

ClientInv == TypeOK /\ Sent

LEMMA KnownReply ==
  ASSUME NEW d \in Known
  PROVE  Reply(d) \in Message /\ Reply(d).items \in Seq(Record)
<1>1. /\ d.from \in Responders /\ d.n \in DOMAIN Replies[d.from]
      /\ Replies[d.from] \in Seq(Message)
  BY ClientAssumption DEF Known, Datagram
<1>2. Reply(d) \in Range(Replies[d.from])
  BY <1>1 DEF Reply, Range
<1>3. Reply(d) \in Message
  BY <1>1, ElementOfSeq, LenProperties DEF Reply
<1> QED
  BY <1>1, <1>2, <1>3, ClientAssumption

LEMMA CopyIsKnown ==
  ASSUME NEW d \in Known, NEW c \in Nat
  PROVE  [d EXCEPT !.copy = c] \in Known
<1> DEFINE e == [d EXCEPT !.copy = c]
<1>1. SUFFICES e \in Known
  OBVIOUS
<1>2. d \in Datagram /\ d.n \in DOMAIN Replies[d.from]
  BY DEF Known
<1>3. e \in Datagram
  BY <1>2 DEF Datagram
<1>4. e.n = d.n /\ e.from = d.from
  BY <1>2 DEF Datagram
<1> HIDE DEF e
<1> QED
  BY <1>2, <1>3, <1>4 DEF Known

LEMMA ClientStart == ASSUME Init PROVE ClientInv
<1>1. <<>> \in Seq(Datagram) /\ <<>> \in Seq(Known)
      /\ <<>> \in Seq(Datagram \cup {SocketError})
      /\ <<>> \in Seq(Known \cup {SocketError})
      /\ <<>> \in Seq(Record \cup {Garbage}) /\ Len(<<>>) = 0
  BY EmptySeq
<1>2. 1 \in 1..Interfaces + 1 /\ 0 \in 0..Wait /\ 1 \in 1..0 + 1
  BY ClientAssumption
<1>3. TypeOK
  BY <1>1, <1>2 DEF Init, TypeOK
<1> QED
  BY <1>1, <1>3 DEF Init, ClientInv, Sent

LEMMA CallStep ==
  ASSUME ClientInv, NEW n \in QueryCounts, SendQuery(n)
  PROVE  ClientInv'
BY ClientAssumption
   DEF SendQuery, ClientInv, TypeOK, Sent, network, faults, results, unique

LEMMA WalkStep ==
  ASSUME ClientInv, Broadcasting \/ SkipInterface \/ CloseSocket \/ AllWalked
  PROVE  ClientInv'
<1> USE DEF ClientInv, TypeOK, Sent, network, faults, results, unique
<1>1. CASE Broadcasting
  <2>1. flight' \subseteq Known
    <3>1. iface \in 1..Interfaces /\ Reach[iface] \subseteq Responders
      BY <1>1, ClientAssumption DEF Broadcasting, CanBroadcast
    <3>2. ASSUME NEW r \in Reach[iface]
          PROVE  [via : {iface}, from : {r}, n : DOMAIN Replies[r],
                  copy : {1}] \subseteq Known
      <4>1. Replies[r] \in Seq(Message)
        BY <3>1, ClientAssumption
      <4>2. DOMAIN Replies[r] \subseteq Nat
        BY <4>1, LenProperties
      <4> QED
        BY <3>1, <4>2 DEF Known, Datagram
    <3> QED
      BY <1>1, <3>2 DEF Broadcasting
  <2>2. Known \subseteq Datagram /\ iface' \in WithIPv4
    BY <1>1 DEF Broadcasting, CanBroadcast, Known
  <2> QED
    BY <1>1, <2>1, <2>2, ClientAssumption DEF Broadcasting
<1>2. CASE SkipInterface
  BY <1>2, ClientAssumption DEF SkipInterface
<1>3. CASE CloseSocket
  BY <1>3, ClientAssumption DEF CloseSocket
<1>4. CASE AllWalked
  BY <1>4, ClientAssumption DEF AllWalked
<1> QED
  BY <1>1, <1>2, <1>3, <1>4

LEMMA ReceiveStep ==
  ASSUME ClientInv, Receive
  PROVE  ClientInv'
<1> USE DEF ClientInv, TypeOK, Sent, network, faults, results, unique
<1>1. /\ Head(inbox) \in Known \cup {SocketError}
      /\ Tail(inbox) \in Seq(Known \cup {SocketError})
      /\ Tail(inbox) \in Seq(Datagram \cup {SocketError})
  BY HeadTailProperties DEF Receive
<1>2. ASSUME Head(inbox) # SocketError
      PROVE  /\ Append(buffers, Head(inbox)) \in Seq(Known)
             /\ Append(buffers, Head(inbox)) \in Seq(Datagram)
             /\ Len(Append(buffers, Head(inbox))) = Len(buffers) + 1
  BY <1>1, <1>2, AppendProperties DEF Known
<1>3. /\ buffers' \in Seq(Known) /\ buffers' \in Seq(Datagram)
      /\ pi \in 1..Len(buffers') + 1
  BY <1>2, LenProperties DEF Receive
<1> QED
  BY <1>1, <1>3, ClientAssumption DEF Receive

LEMMA ParseStep ==
  ASSUME ClientInv, ParseBuffer \/ AllParsed
  PROVE  ClientInv'
<1> USE DEF ClientInv, TypeOK, Sent, network, faults, results, unique
<1>1. CASE ParseBuffer
  <2>1. pi \in 1..Len(buffers) /\ buffers[pi] \in Known
    BY <1>1, LenProperties, ElementOfSeq DEF ParseBuffer
  <2>2. PICK o \in ParseReply(Reply(buffers[pi])) :
          /\ responses' = responses \o o.recs
          /\ \/ o.ok /\ pi' = pi + 1 /\ UNCHANGED cpc
             \/ ~o.ok /\ cpc' = "filter" /\ UNCHANGED pi
    BY <1>1 DEF ParseBuffer
  <2>3. o.recs \in Seq(Record \cup {Garbage})
    BY <2>1, KnownReply, ParsedAreRecords
  <2>4. /\ responses' \in Seq(Record \cup {Garbage})
        /\ Len(responses') = Len(responses) + Len(o.recs)
        /\ Len(o.recs) \in Nat /\ Len(responses) \in Nat
    BY <2>2, <2>3, ConcatProperties, LenProperties
  <2>5. ui' \in 1..Len(responses') + 1 /\ pi' \in 1..Len(buffers') + 1
    BY <1>1, <2>1, <2>2, <2>4 DEF ParseBuffer
  <2>6. cpc' \in {"parse", "filter"}
    BY <1>1, <2>2 DEF ParseBuffer
  <2> QED
    BY <1>1, <2>4, <2>5, <2>6 DEF ParseBuffer
<1>2. CASE AllParsed
  BY <1>2 DEF AllParsed
<1> QED
  BY <1>1, <1>2

LEMMA FilterStep ==
  ASSUME ClientInv, Filter \/ AllFiltered
  PROVE  ClientInv'
<1> USE DEF ClientInv, TypeOK, Sent, network, faults, results, unique
<1>1. CASE Filter
  <2>1. ui \in 1..Len(responses) /\ responses[ui] \in Record \cup {Garbage}
    BY <1>1, LenProperties, ElementOfSeq DEF Filter
  <2>2. uniques' \in Seq(Record \cup {Garbage})
    BY <1>1, <2>1, AppendProperties DEF Filter
  <2>3. ui' \in 1..Len(responses') + 1
    BY <1>1, <2>1, LenProperties DEF Filter
  <2> QED
    BY <1>1, <2>2, <2>3 DEF Filter
<1>2. CASE AllFiltered
  BY <1>2 DEF AllFiltered
<1> QED
  BY <1>1, <1>2

LEMMA NetworkStep ==
  ASSUME ClientInv, Arrive \/ Duplicate \/ Fault \/ Tick
  PROVE  ClientInv'
<1> USE DEF ClientInv, TypeOK, Sent, network, faults, results, unique
<1>1. CASE Arrive
  <2>1. PICK d \in flight : inbox' = Append(inbox, d) /\ flight' = flight \ {d}
    BY <1>1 DEF Arrive
  <2>2. /\ inbox' \in Seq(Known \cup {SocketError})
        /\ inbox' \in Seq(Datagram \cup {SocketError})
    BY <2>1, AppendProperties
  <2> QED
    BY <1>1, <2>1, <2>2 DEF Arrive
<1>2. CASE Duplicate
  <2>1. PICK d \in flight : flight' = flight \cup {[d EXCEPT !.copy = copies' + 1]}
    BY <1>2 DEF Duplicate
  <2>2. copies' \in Nat /\ copies' + 1 \in Nat /\ d \in Known
    BY <1>2, SMTT(30) DEF Duplicate
  <2>3. [d EXCEPT !.copy = copies' + 1] \in Known
    BY <2>2, CopyIsKnown, Zenon
  <2>4. Known \subseteq Datagram
    BY DEF Known
  <2> QED
    BY <1>2, <2>1, <2>2, <2>3, <2>4 DEF Duplicate
<1>3. CASE Fault
  <2>1. /\ inbox' \in Seq(Known \cup {SocketError})
        /\ inbox' \in Seq(Datagram \cup {SocketError})
    BY <1>3, AppendProperties DEF Fault
  <2> QED
    BY <1>3, <2>1 DEF Fault
<1>4. CASE Tick
  BY <1>4, ClientAssumption DEF Tick
<1> QED
  BY <1>1, <1>2, <1>3, <1>4

LEMMA ClientStep == ASSUME ClientInv, [Next]_vars PROVE ClientInv'
<1>1. CASE Next
  BY <1>1, CallStep, WalkStep, ReceiveStep, ParseStep, FilterStep, NetworkStep
     DEF Next, CallerNext, Finished, vars, ClientInv, TypeOK, Sent, network,
         faults, results, unique
<1>2. CASE UNCHANGED vars
  BY <1>2 DEF vars, ClientInv, TypeOK, Sent, network, faults, results, unique
<1> QED
  BY <1>1, <1>2

LEMMA ClientAlways == Spec => []ClientInv
BY ClientStart, ClientStep, PTL DEF Spec

\* Every variable of the client has its type whatever the network does, and a
\* socket is open only on an interface that has an IPv4 address.
THEOREM ClientTyped == Spec => []TypeOK
<1>1. ClientInv => TypeOK
  BY DEF ClientInv
<1> QED
  BY <1>1, ClientAlways, PTL

-----------------------------------------------------------------------------
\* Dropping duplicates.  What has been compared is in uniques, what is in
\* uniques has been compared, and nothing is there twice.
Compared ==
  /\ \A i \in 1..ui - 1 : \E j \in 1..Len(uniques) : uniques[j] = responses[i]
  /\ \A j \in 1..Len(uniques) : \E i \in 1..ui - 1 : uniques[j] = responses[i]
  /\ \A j, k \in 1..Len(uniques) : uniques[j] = uniques[k] => j = k

FilterInv ==
  /\ Compared
  /\ cpc \in {"idle", "walk", "listen", "parse"} => uniques = <<>> /\ ui = 1
  /\ cpc = "done" => ui = Len(responses) + 1

LEMMA FilterOne ==
  ASSUME ClientInv, FilterInv, Filter
  PROVE  FilterInv'
<1> DEFINE rm == responses[ui]
           n  == Len(uniques)
<1>1. ui \in 1..Len(responses) /\ n \in Nat /\ ui' = ui + 1
      /\ rm \in Record \cup {Garbage} /\ uniques \in Seq(Record \cup {Garbage})
  BY LenProperties, ElementOfSeq DEF ClientInv, TypeOK, Filter
<1>2. Compared'
  <2>1. CASE IsDuplicate(rm)
    <3>1. uniques' = uniques /\ responses' = responses
      BY <2>1 DEF Filter, results
    <3>2. \E j \in 1..n : uniques[j] = rm
      BY <1>1, <2>1, LenProperties DEF IsDuplicate, Same
    <3> QED
      BY <1>1, <3>1, <3>2 DEF FilterInv, Compared
  <2>2. CASE ~IsDuplicate(rm)
    <3>1. uniques' = Append(uniques, rm) /\ responses' = responses
      BY <2>2 DEF Filter, results
    <3>2. /\ Len(uniques') = n + 1 /\ uniques'[n + 1] = rm
          /\ \A j \in 1..n : uniques'[j] = uniques[j]
      BY <1>1, <3>1, AppendProperties
    <3>3. \A j \in 1..n : uniques[j] # rm
      BY <1>1, <2>2, LenProperties DEF IsDuplicate, Same
    <3> HIDE DEF rm, n
    <3>4. Compared!1'
      <4>1. SUFFICES ASSUME NEW i \in 1..ui
                     PROVE  \E j \in 1..n + 1 : uniques'[j] = responses[i]
        BY <1>1, <3>1, <3>2
      <4>2. CASE i = ui
        BY <1>1, <3>2, <4>2 DEF rm
      <4>3. CASE i # ui
        <5>1. i \in 1..ui - 1
          BY <1>1, <4>3
        <5>2. PICK j \in 1..n : uniques[j] = responses[i]
          BY <5>1 DEF FilterInv, Compared, n
        <5> QED
          BY <1>1, <3>2, <5>2
      <4> QED
        BY <4>2, <4>3
    <3>5. Compared!2'
      <4>1. SUFFICES ASSUME NEW j \in 1..n + 1
                     PROVE  \E i \in 1..ui : uniques'[j] = responses[i]
        BY <1>1, <3>1, <3>2
      <4>2. CASE j = n + 1
        BY <1>1, <3>2, <4>2 DEF rm
      <4>3. CASE j # n + 1
        <5>1. j \in 1..n
          BY <1>1, <4>3
        <5>2. PICK i \in 1..ui - 1 : uniques[j] = responses[i]
          BY <5>1 DEF FilterInv, Compared, n
        <5> QED
          BY <1>1, <3>2, <5>1, <5>2
      <4> QED
        BY <4>2, <4>3
    <3>6. Compared!3'
      <4>1. SUFFICES ASSUME NEW j \in 1..n + 1, NEW k \in 1..n + 1,
                            uniques'[j] = uniques'[k]
                     PROVE  j = k
        BY <3>2
      <4>2. \A a, b \in 1..n : uniques[a] = uniques[b] => a = b
        BY DEF FilterInv, Compared, n
      <4> QED
        BY <1>1, <3>2, <3>3, <4>1, <4>2
    <3> QED
      BY <3>4, <3>5, <3>6 DEF Compared
  <2> QED
    BY <2>1, <2>2
<1> QED
  BY <1>2 DEF Filter, FilterInv

LEMMA FilterStart == ASSUME Init PROVE FilterInv
<1>1. Len(uniques) = 0 /\ ui = 1
  BY EmptySeq DEF Init
<1> QED
  BY <1>1 DEF Init, FilterInv, Compared

LEMMA FilterKept ==
  ASSUME ClientInv, FilterInv, [Next]_vars
  PROVE  FilterInv'
<1>1. CASE Filter
  BY <1>1, FilterOne
<1>2. CASE ParseBuffer
  <2>1. uniques' = <<>> /\ ui' = 1 /\ Len(<<>>) = 0
    BY <1>2, EmptySeq DEF ParseBuffer, FilterInv, unique
  <2>2. cpc' # "done"
    BY <1>2 DEF ParseBuffer
  <2> QED
    BY <2>1, <2>2 DEF FilterInv, Compared
<1>3. CASE AllFiltered
  <2>1. ui \in 1..Len(responses) + 1 /\ Len(responses) \in Nat
        /\ ui \notin 1..Len(responses)
    BY <1>3, LenProperties DEF AllFiltered, ClientInv, TypeOK
  <2>2. ui = Len(responses) + 1
    BY <2>1
  <2> QED
    BY <1>3, <2>2 DEF AllFiltered, FilterInv, Compared, results, unique
<1>4. ASSUME /\ UNCHANGED <<responses, unique>>
             /\ \/ UNCHANGED cpc
                \/ cpc \in {"idle", "walk", "listen", "parse"} /\ cpc' # "done"
      PROVE  FilterInv'
  BY <1>4 DEF FilterInv, Compared, unique
<1>5. ASSUME NEW n \in QueryCounts, SendQuery(n) PROVE FilterInv'
  BY <1>4, <1>5 DEF SendQuery, results
<1>6. CASE Broadcasting
  BY <1>4, <1>6 DEF Broadcasting, results
<1>7. CASE SkipInterface
  BY <1>4, <1>7 DEF SkipInterface, results
<1>8. CASE Receive
  BY <1>4, <1>8 DEF Receive, results
<1>9. CASE CloseSocket
  BY <1>4, <1>9 DEF CloseSocket, results
<1>10. CASE AllWalked
  BY <1>4, <1>10 DEF AllWalked, results
<1>11. CASE AllParsed
  BY <1>4, <1>11 DEF AllParsed
<1>12. CASE Arrive
  BY <1>4, <1>12 DEF Arrive, results
<1>13. CASE Duplicate
  BY <1>4, <1>13 DEF Duplicate, results
<1>14. CASE Fault
  BY <1>4, <1>14 DEF Fault, results
<1>15. CASE Tick
  BY <1>4, <1>15 DEF Tick, results
<1>16. CASE Finished \/ UNCHANGED vars
  BY <1>4, <1>16 DEF Finished, vars, results
<1> QED
  BY <1>1, <1>2, <1>3, <1>5, <1>6, <1>7, <1>8, <1>9, <1>10, <1>11, <1>12,
     <1>13, <1>14, <1>15, <1>16 DEF Next, CallerNext

LEMMA UniquesAtTheEnd == ASSUME ClientInv, FilterInv PROVE UniquesComplete
<1>1. SUFFICES ASSUME cpc = "done"
               PROVE  /\ Printed = Range(responses)
                      /\ Len(uniques) = Cardinality(Printed)
  BY DEF UniquesComplete
<1> DEFINE n == Len(uniques)
<1>2. /\ n \in Nat /\ DOMAIN uniques = 1..n /\ uniques \in [1..n -> Range(uniques)]
      /\ Len(responses) \in Nat /\ DOMAIN responses = 1..ui - 1
  BY <1>1, LenProperties DEF ClientInv, TypeOK, FilterInv, Range
<1>3. Printed = Range(responses)
  <2>1. Printed = {uniques[j] : j \in 1..n}
    BY <1>2 DEF Printed, Range
  <2>2. Range(responses) = {responses[i] : i \in 1..ui - 1}
    BY <1>2 DEF Range
  <2> QED
    BY <2>1, <2>2 DEF FilterInv, Compared
<1>4. uniques \in Bijection(1..n, Printed)
  BY <1>2 DEF FilterInv, Compared, Printed, Range, Bijection, Injection,
              IsInjective, Surjection
<1>5. IsFiniteSet(1..n) /\ Cardinality(1..n) = n
  <2> HIDE DEF n
  <2>1. 1 \in Int /\ n \in Int /\ n >= 0
    BY <1>2
  <2>2. IsFiniteSet(1..n) /\ Cardinality(1..n) = IF 1 > n THEN 0 ELSE n - 1 + 1
    BY <2>1, FS_Interval
  <2> QED
    BY <2>1, <2>2
<1>6. Cardinality(Printed) = Cardinality(1..n)
  BY <1>4, <1>5, FS_Bijection DEF ExistsBijection
<1> QED
  BY <1>3, <1>5, <1>6

\* Whatever the responders send, dropping duplicates drops nothing else, and
\* no service is printed twice.
THEOREM NoServiceDropped == Spec => []UniquesComplete
<1>1. Spec => []FilterInv
  BY FilterStart, FilterKept, ClientAlways, PTL DEF Spec
<1> QED
  BY <1>1, ClientAlways, UniquesAtTheEnd, PTL

-----------------------------------------------------------------------------
\* What the caller is told.

\* The values the caller's promise speaks of.
HeardOf(b) == [k \in DOMAIN b |-> Reply(b[k])]
Heard == HeardOf(buffers)
Possible == UNION {Range(Replies[r]) : r \in Responders}
Told == IF cpc \notin {"filter", "done"} THEN "pending"
        ELSE IF verdict THEN "all"
        ELSE IF asked \in 1..255 THEN "some" ELSE "refused"

LEMMA PromiseMapped ==
  /\ Promise!vars = <<Heard, pi - 1, responses, Told>>
  /\ Promise!Init <=> Heard = <<>> /\ pi - 1 = 0 /\ responses = <<>>
                      /\ Told = "pending"
  /\ Promise!Refuse <=> /\ Told = "pending" /\ Heard = <<>>
                        /\ Told' = "refused"
                        /\ UNCHANGED <<Heard, pi - 1, responses>>
  /\ Promise!Hear <=> /\ Told = "pending" /\ pi - 1 = 0
                      /\ \E m \in Possible : Heard' = Append(Heard, m)
                      /\ UNCHANGED <<pi - 1, responses, Told>>
  /\ Promise!Read <=> /\ Told = "pending" /\ pi - 1 < Len(Heard)
                      /\ Heard[pi - 1 + 1].size <= BufferSize
                      /\ (pi - 1)' = pi - 1 + 1
                      /\ responses' = responses \o Heard[pi - 1 + 1].items
                      /\ UNCHANGED <<Heard, Told>>
  /\ Promise!ReturnAll <=> /\ Told = "pending" /\ pi - 1 = Len(Heard)
                           /\ Told' = "all"
                           /\ UNCHANGED <<Heard, pi - 1, responses>>
  /\ Promise!ReturnSome <=> /\ Told = "pending" /\ pi - 1 < Len(Heard)
                            /\ ~(Heard[pi - 1 + 1].size <= BufferSize)
                            /\ Told' = "some"
                            /\ UNCHANGED <<Heard, pi - 1, responses>>
BY DEF Promise!vars, Promise!Init, Promise!Refuse, Promise!Hear, Promise!Read,
       Promise!ReturnAll, Promise!ReturnSome, Promise!Readable, Heard, HeardOf,
       Possible, Told, Promise!BufferSize, BufferSize

LEMMA Unmoved ==
  ASSUME UNCHANGED <<buffers, pi, responses, Told>>
  PROVE  UNCHANGED Promise!vars
BY DEF Promise!vars, Heard, HeardOf, Told

\* How far the call has got.
Phases ==
  /\ cpc = "idle" => buffers = <<>>
  /\ cpc \in {"idle", "walk", "listen"} => pi = 1
  /\ cpc \in {"idle", "walk", "listen", "parse"} => ~verdict
  /\ cpc \in {"walk", "listen", "parse"} => asked \in 1..255

LEMMA PhasesKept == Spec => []Phases
<1> USE DEF Phases
<1>1. Init => Phases
  BY DEF Init
<1>2. ASSUME Phases, [Next]_vars PROVE Phases'
  <2> USE <1>2
  <2> USE DEF network, faults, results, unique
  <2>1. ASSUME NEW n \in QueryCounts, SendQuery(n) PROVE Phases'
    BY <2>1 DEF SendQuery
  <2>2. CASE Broadcasting \/ SkipInterface \/ Receive \/ CloseSocket \/ AllWalked
    BY <2>2 DEF Broadcasting, SkipInterface, Receive, CloseSocket, AllWalked
  <2>3. CASE ParseBuffer \/ AllParsed
    BY <2>3 DEF ParseBuffer, AllParsed
  <2>4. CASE Filter \/ AllFiltered
    BY <2>4 DEF Filter, AllFiltered
  <2>5. CASE Arrive
    BY <2>5 DEF Arrive
  <2>6. CASE Duplicate
    BY <2>6 DEF Duplicate
  <2>7. CASE Fault \/ Tick
    BY <2>7 DEF Fault, Tick
  <2>8. CASE Finished \/ UNCHANGED vars
    BY <2>8 DEF Finished, vars
  <2> QED
    BY <2>1, <2>2, <2>3, <2>4, <2>5, <2>6, <2>7, <2>8 DEF Next, CallerNext
<1> QED
  BY <1>1, <1>2, PTL DEF Spec

LEMMA HeardIsSeq ==
  ASSUME NEW b \in Seq(Known)
  PROVE  /\ HeardOf(b) \in Seq(Message) /\ Len(HeardOf(b)) = Len(b)
         /\ Len(b) \in Nat
         /\ \A k \in 1..Len(b) : HeardOf(b)[k] = Reply(b[k])
<1>1. /\ Len(b) \in Nat /\ DOMAIN b = 1..Len(b)
      /\ \A k \in 1..Len(b) : b[k] \in Known
  BY LenProperties, ElementOfSeq
<1>2. HeardOf(b) \in [1..Len(b) -> Message]
  BY <1>1, KnownReply DEF HeardOf
<1> QED
  BY <1>1, <1>2 DEF HeardOf

LEMMA KnownIsPossible ==
  ASSUME NEW d \in Known
  PROVE  Reply(d) \in Possible
BY DEF Known, Datagram, Possible, Reply, Range

LEMMA Hearing ==
  ASSUME ClientInv, ClientInv', Phases, Receive, buffers' # buffers
  PROVE  Promise!Hear
<1>1. Head(inbox) \in Known \cup {SocketError}
  BY HeadTailProperties DEF Receive, ClientInv, Sent
<1>2. Head(inbox) \in Known /\ buffers' = Append(buffers, Head(inbox))
  BY <1>1 DEF Receive
<1> DEFINE d == Head(inbox)
<1>3. d \in Known /\ buffers' = Append(buffers, d)
      /\ cpc = "listen" /\ cpc' = cpc /\ pi' = pi /\ responses' = responses
  BY <1>2 DEF Receive, results
<1> HIDE DEF d
<1>4. Len(buffers') = Len(buffers) + 1 /\ buffers'[Len(buffers) + 1] = d
      /\ \A k \in 1..Len(buffers) : buffers'[k] = buffers[k]
  BY <1>3, AppendProperties DEF ClientInv, Sent
<1>5. Reply(d) \in Message /\ Reply(d) \in Possible
  BY <1>3, KnownReply, KnownIsPossible
<1>6. /\ Heard' \in Seq(Message) /\ Len(Heard') = Len(buffers')
      /\ \A k \in 1..Len(buffers') : Heard'[k] = Reply(buffers'[k])
  BY HeardIsSeq DEF Heard, ClientInv, Sent
<1> DEFINE H == Append(Heard, Reply(d))
<1>7. /\ Heard \in Seq(Message) /\ Len(Heard) = Len(buffers)
      /\ Len(buffers) \in Nat
      /\ \A k \in 1..Len(buffers) : Heard[k] = Reply(buffers[k])
  BY HeardIsSeq DEF Heard, ClientInv, Sent
<1>8. /\ H \in Seq(Message) /\ Len(H) = Len(Heard) + 1
      /\ \A k \in 1..Len(Heard) : H[k] = Heard[k]
      /\ H[Len(Heard) + 1] = Reply(d)
  BY <1>5, <1>7, AppendProperties
<1>9. Heard' = H
  <2> HIDE DEF H, Heard
  <2>1. \A k \in 1..Len(Heard') : Heard'[k] = H[k]
    BY <1>4, <1>6, <1>7, <1>8
  <2> QED
    BY <1>4, <1>6, <1>7, <1>8, <2>1, SeqEqual
<1>10. Told = "pending" /\ Told' = Told /\ pi = 1
  BY <1>3 DEF Told, Phases
<1> QED
  BY <1>3, <1>5, <1>9, <1>10, PromiseMapped

LEMMA Reading ==
  ASSUME ProperReplies, ClientInv, Phases, ParseBuffer
  PROVE  Promise!Read \/ Promise!ReturnSome
<1> DEFINE m == Reply(buffers[pi])
<1>1. /\ pi \in 1..Len(buffers) /\ buffers[pi] \in Known
      /\ cpc = "parse" /\ Heard' = Heard /\ verdict' = verdict
      /\ asked' = asked
  BY LenProperties, ElementOfSeq DEF ParseBuffer, ClientInv, Sent, Heard
<1>2. ProperReply(m) /\ m \in Message
  BY <1>1, KnownReply DEF ProperReplies, Known, Datagram, Reply, Range
<1>3. Heard[pi] = m /\ Len(Heard) = Len(buffers) /\ Len(buffers) \in Nat
  BY <1>1, HeardIsSeq DEF Heard, ClientInv, Sent
<1> DEFINE p == pi - 1 + 1
<1>4. p = pi /\ pi - 1 < Len(Heard) /\ Heard[p].size = m.size
      /\ Heard[p].items = m.items
  BY <1>1, <1>3
<1>5. PICK o \in ParseReply(m) :
        /\ responses' = responses \o o.recs
        /\ \/ o.ok /\ pi' = pi + 1 /\ UNCHANGED cpc
           \/ ~o.ok /\ cpc' = "filter" /\ UNCHANGED pi
  BY DEF ParseBuffer
<1> HIDE DEF m, p
<1>6. CASE m.size <= BufferSize
  <2>1. ParseReply(m) = {Outcome(TRUE, m.items)}
    BY <1>2, <1>6, ProperIsReadInFull, Zenon
  <2>2. o.ok /\ o.recs = m.items
    BY <1>5, <2>1 DEF Outcome
  <2>3. Told = "pending" /\ Told' = Told
    BY <1>1, <1>5, <2>2 DEF Told
  <2>4. (pi - 1)' = p /\ responses' = responses \o Heard[p].items
    BY <1>1, <1>4, <1>5, <2>2
  <2> QED
    BY <1>1, <1>4, <1>6, <2>3, <2>4, PromiseMapped DEF p
<1>7. CASE ~(m.size <= BufferSize)
  <2>1. ParseReply(m) = {Outcome(FALSE, <<>>)}
    BY <1>2, <1>7, ProperIsReadInFull, Zenon
  <2>2. ~o.ok /\ o.recs = <<>>
    BY <1>5, <2>1 DEF Outcome
  <2>3. responses' = responses /\ pi' = pi
    BY <1>5, <2>2, ConcatEmptySeq DEF ClientInv, TypeOK
  <2>4. Told = "pending" /\ Told' = "some"
    BY <1>1, <1>5, <2>2 DEF Told, Phases
  <2> QED
    BY <1>1, <1>4, <1>7, <2>3, <2>4, PromiseMapped DEF p
<1> QED
  BY <1>6, <1>7

LEMMA Refusing ==
  ASSUME ClientInv, Phases, NEW n \in QueryCounts, SendQuery(n)
  PROVE  Promise!Refuse \/ UNCHANGED Promise!vars
<1>1. /\ Heard' = Heard /\ pi' = pi /\ responses' = responses
      /\ Told = "pending" /\ buffers = <<>> /\ ~verdict /\ verdict' = verdict
  BY DEF SendQuery, results, Heard, Told, Phases
<1>2. Heard = <<>>
  BY <1>1, HeardIsSeq, EmptySeq DEF Heard, ClientInv, Sent
<1>3. CASE n \in 1..255
  <2>1. Told' = "pending"
    BY <1>3 DEF SendQuery, Told
  <2> QED
    BY <1>1, <2>1, Unmoved DEF SendQuery
<1>4. CASE n \notin 1..255
  <2>1. Told' = "refused"
    BY <1>1, <1>4 DEF SendQuery, Told
  <2> QED
    BY <1>1, <1>2, <2>1, PromiseMapped
<1> QED
  BY <1>3, <1>4

\* For any network, and responders that compose their replies as this code
\* does, of records whose IPv6 texts do not outgrow their length byte, what the
\* caller gets is what Discovery promises.
THEOREM QueryKeepsPromise == ASSUME ProperReplies PROVE Spec => KeepsPromise
<1>1. ASSUME Init PROVE Promise!Init
  <2>1. Heard = <<>>
    BY <1>1, EmptySeq, HeardIsSeq DEF Init, Heard
  <2> QED
    BY <1>1, <2>1, PromiseMapped DEF Init, Told
<1>2. ASSUME ClientInv, ClientInv', Phases, [Next]_vars
      PROVE  [Promise!Next]_(Promise!vars)
  <2> USE <1>2
  <2>1. ASSUME UNCHANGED <<buffers, pi, responses, Told>>
        PROVE  UNCHANGED Promise!vars
    BY <2>1, Unmoved
  <2>2. ASSUME NEW n \in QueryCounts, SendQuery(n)
        PROVE  Promise!Refuse \/ UNCHANGED Promise!vars
    BY <2>2, Refusing
  <2>3. CASE Broadcasting \/ SkipInterface \/ CloseSocket \/ AllWalked
    BY <2>1, <2>3 DEF Broadcasting, SkipInterface, CloseSocket, AllWalked,
                      results, Told
  <2>4. ASSUME Receive PROVE Promise!Hear \/ UNCHANGED Promise!vars
    <3>1. CASE buffers' = buffers
      BY <2>1, <2>4, <3>1 DEF Receive, results, Told
    <3> QED
      BY <2>4, <3>1, Hearing
  <2>5. ASSUME ParseBuffer PROVE Promise!Read \/ Promise!ReturnSome
    BY <2>5, Reading
  <2>6. ASSUME AllParsed PROVE Promise!ReturnAll
    <3>1. pi \in 1..Len(buffers) + 1 /\ pi \notin 1..Len(buffers)
          /\ Len(buffers) \in Nat /\ Len(Heard) = Len(buffers)
      BY <2>6, LenProperties, HeardIsSeq
         DEF AllParsed, ClientInv, TypeOK, Sent, Heard
    <3>2. pi - 1 = Len(Heard)
      BY <3>1
    <3>3. Told = "pending" /\ Told' = "all"
      BY <2>6 DEF AllParsed, Told
    <3> QED
      BY <2>6, <3>2, <3>3, PromiseMapped DEF AllParsed, Heard
  <2>7. CASE Filter
    BY <2>1, <2>7 DEF Filter, results, Told
  <2>8. CASE AllFiltered
    BY <2>1, <2>8 DEF AllFiltered, results, Told
  <2>9. CASE Arrive
    BY <2>1, <2>9 DEF Arrive, results, Told
  <2>10. CASE Duplicate
    BY <2>1, <2>10 DEF Duplicate, results, Told
  <2>11. CASE Fault
    BY <2>1, <2>11 DEF Fault, results, Told
  <2>12. CASE Tick
    BY <2>1, <2>12 DEF Tick, results, Told
  <2>13. CASE Finished \/ UNCHANGED vars
    BY <2>1, <2>13 DEF Finished, vars, results, Told
  <2> QED
    BY <2>2, <2>3, <2>4, <2>5, <2>6, <2>7, <2>8, <2>9, <2>10, <2>11, <2>12,
       <2>13 DEF Next, CallerNext, Promise!Next
<1>3. Init /\ [][Next]_vars => Promise!Init /\ [][Promise!Next]_(Promise!vars)
  BY <1>1, <1>2, ClientAlways, PhasesKept, PTL DEF Spec
<1> QED
  BY <1>3 DEF Spec, KeepsPromise, Promise!Spec

-----------------------------------------------------------------------------
\* Every service behind an interface that was asked.  Datagrams the caller has,
\* or can still get, come from responders that heard the broadcast; until one
\* is late, there is one of each reply.
Here == (flight \cup Range(inbox) \cup Range(buffers)) \ {SocketError}

Asked(i) == i < iface \/ (i = iface /\ cpc = "listen")

Solicited(d) ==
  d.via \in WithIPv4 \ skipped /\ d.from \in Reach[d.via] /\ Asked(d.via)

Arrived ==
  late = {} =>
    \A i \in WithIPv4 \ skipped : Asked(i) =>
      \A r \in Reach[i] : \A n \in DOMAIN Replies[r] :
        \E d \in Here : d.from = r /\ d.n = n

WalkInv ==
  /\ skipped \subseteq 1..iface - 1
  /\ \A d \in Here : Solicited(d)
  /\ Arrived
  /\ cpc \in {"parse", "filter", "done"} /\ asked \in 1..255
       => iface = Interfaces + 1

LEMMA RangeOfAppend ==
  ASSUME NEW S, NEW s \in Seq(S), NEW x \in S
  PROVE  Range(Append(s, x)) = Range(s) \cup {x}
<1> DEFINE t == Append(s, x)
<1>1. /\ DOMAIN s = 1..Len(s) /\ Len(s) \in Nat
      /\ t \in Seq(S) /\ Len(t) = Len(s) + 1 /\ t[Len(s) + 1] = x
      /\ \A i \in 1..Len(s) : t[i] = s[i]
  BY LenProperties, AppendProperties
<1>2. DOMAIN t = 1..Len(s) + 1
  BY <1>1, LenProperties
<1> HIDE DEF t
<1>3. Range(t) = Range(s) \cup {x}
  BY <1>1, <1>2 DEF Range
<1> QED
  BY <1>3 DEF t

LEMMA RangeOfTail ==
  ASSUME NEW S, NEW s \in Seq(S), s # <<>>
  PROVE  Range(s) = {Head(s)} \cup Range(Tail(s))
<1> DEFINE t == Tail(s)
           n == Len(s)
<1>1. /\ DOMAIN s = 1..n /\ n \in Nat \ {0} /\ Head(s) = s[1]
      /\ t \in Seq(S) /\ Len(t) = n - 1
      /\ \A i \in 1..n - 1 : t[i] = s[i + 1]
  BY LenProperties, EmptySeq, HeadTailProperties
<1>2. DOMAIN t = 1..n - 1
  BY <1>1, LenProperties
<1> HIDE DEF t, n
<1>3. Range(s) \subseteq {s[1]} \cup Range(t)
  <2>1. SUFFICES ASSUME NEW i \in 1..n, i # 1 PROVE s[i] \in Range(t)
    BY <1>1 DEF Range
  <2>2. i - 1 \in 1..n - 1 /\ t[i - 1] = s[i]
    BY <1>1, <2>1
  <2> QED
    BY <1>2, <2>2 DEF Range
<1>4. {s[1]} \cup Range(t) \subseteq Range(s)
  <2>1. 1 \in 1..n /\ \A i \in 1..n - 1 : i + 1 \in 1..n
    BY <1>1
  <2> QED
    BY <1>1, <1>2, <2>1 DEF Range
<1> QED
  BY <1>1, <1>3, <1>4 DEF t

LEMMA HereIsKnown == ASSUME ClientInv PROVE Here \subseteq Known
<1>1. Range(inbox) \subseteq Known \cup {SocketError} /\ Range(buffers) \subseteq Known
  BY LenProperties, ElementOfSeq DEF ClientInv, Sent, Range
<1> QED
  BY <1>1 DEF Here, ClientInv, Sent

\* Steps that neither walk on nor lose anything keep WalkInv.
LEMMA NothingLost ==
  ASSUME WalkInv, UNCHANGED <<iface, skipped, late>>, Here \subseteq Here',
         cpc = "listen" <=> cpc' = "listen",
         cpc' \in {"parse", "filter", "done"} /\ asked' \in 1..255
           => iface = Interfaces + 1,
         \A d \in Here' \ Here : Solicited(d)
  PROVE  WalkInv'
<1>1. \A i : Asked(i)' <=> Asked(i)
  BY DEF Asked
<1>2. \A d \in Here' : Solicited(d)'
  BY <1>1 DEF WalkInv, Solicited
<1>3. Arrived'
  BY <1>1 DEF WalkInv, Arrived
<1> QED
  BY <1>2, <1>3 DEF WalkInv

LEMMA WalkStart == ASSUME Init PROVE WalkInv
<1>1. Here = {}
  <2>1. Range(<<>>) = {}
    BY EmptySeq DEF Range
  <2> QED
    BY <2>1 DEF Init, Here
<1>2. \A i \in 1..Interfaces : ~Asked(i)
  BY DEF Init, Asked
<1> QED
  BY <1>1, <1>2, ClientAssumption DEF Init, WalkInv, Arrived

LEMMA WalkOn ==
  ASSUME ClientInv, WalkInv, Broadcasting \/ SkipInterface \/ CloseSocket
  PROVE  WalkInv'
<1> USE DEF network, faults, results, unique
<1>1. iface \in 1..Interfaces + 1 /\ WithIPv4 \subseteq 1..Interfaces
      /\ Interfaces \in Nat /\ skipped \subseteq 1..iface - 1
      /\ iface \notin skipped
  BY ClientAssumption DEF ClientInv, TypeOK, WalkInv
<1>2. CASE Broadcasting
  <2> DEFINE Wave == UNION {[via : {iface}, from : {r}, n : DOMAIN Replies[r],
                             copy : {1}] : r \in Reach[iface]}
  <2>1. /\ flight' = Wave /\ UNCHANGED <<iface, inbox, buffers, skipped, late>>
        /\ cpc = "walk" /\ cpc' = "listen" /\ flight = {}
        /\ iface \in WithIPv4 \ skipped /\ iface \in 1..Interfaces
    BY <1>1, <1>2 DEF Broadcasting, CanBroadcast, ClientInv, TypeOK
  <2>2. \A d \in Wave : d.via = iface /\ d.from \in Reach[iface]
    OBVIOUS
  <2>3. \A r \in Reach[iface] : \A n \in DOMAIN Replies[r] :
          \E d \in Wave : d.from = r /\ d.n = n
    <3>1. SUFFICES ASSUME NEW r \in Reach[iface], NEW n \in DOMAIN Replies[r]
                   PROVE  \E d \in Wave : d.from = r /\ d.n = n
      OBVIOUS
    <3>2. [via |-> iface, from |-> r, n |-> n, copy |-> 1] \in Wave
      OBVIOUS
    <3> QED
      BY <3>2
  <2>4. SocketError \notin Wave
    <3>1. Wave \subseteq Datagram
      BY <1>2, WalkStep, <2>1 DEF ClientInv, TypeOK
    <3> QED
      BY <3>1, SocketErrorAssumption
  <2> HIDE DEF Wave
  <2>5. Here' = Here \cup Wave
    BY <2>1, <2>4 DEF Here
  <2>6. \A i \in 1..Interfaces : Asked(i)' <=> Asked(i) \/ i = iface
    BY <1>1, <2>1 DEF Asked
  <2>7. \A d \in Here' : Solicited(d)'
    <3>1. ASSUME NEW d \in Here PROVE Solicited(d)'
      BY <1>1, <2>1, <2>6, <3>1 DEF WalkInv, Solicited
    <3>2. ASSUME NEW d \in Wave PROVE Solicited(d)'
      BY <1>1, <2>1, <2>2, <2>6, <3>2 DEF Solicited
    <3> QED
      BY <2>5, <3>1, <3>2
  <2>8. Arrived'
    BY <1>1, <2>1, <2>3, <2>5, <2>6 DEF WalkInv, Arrived
  <2> QED
    BY <1>1, <2>1, <2>7, <2>8 DEF WalkInv
<1>3. CASE SkipInterface
  <2>1. /\ Here' = Here /\ iface' = iface + 1 /\ skipped' = skipped \cup {iface}
        /\ late' = late /\ cpc = "walk" /\ cpc' = "walk"
    BY <1>3 DEF SkipInterface, Here
  <2>2. \A i \in 1..Interfaces : Asked(i) => Asked(i)' /\ i # iface
    BY <1>1, <2>1 DEF Asked
  <2>3. \A i \in 1..Interfaces : Asked(i)' => Asked(i) \/ i = iface
    BY <1>1, <2>1 DEF Asked
  <2>4. \A d \in Here' : Solicited(d)'
    BY <1>1, <2>1, <2>2 DEF WalkInv, Solicited
  <2>5. Arrived'
    BY <1>1, <2>1, <2>3 DEF WalkInv, Arrived
  <2>6. skipped' \subseteq 1..iface' - 1
    BY <1>1, <1>3, <2>1 DEF SkipInterface
  <2> QED
    BY <2>1, <2>4, <2>5, <2>6 DEF WalkInv
<1>4. CASE CloseSocket
  <2>1. /\ flight' = {} /\ UNCHANGED <<inbox, buffers, skipped>>
        /\ iface' = iface + 1 /\ late' = late \cup flight
        /\ cpc = "listen" /\ cpc' = "walk"
    BY <1>4 DEF CloseSocket
  <2>2. \A i \in 1..Interfaces : Asked(i)' <=> Asked(i)
    BY <1>1, <2>1 DEF Asked
  <2>3. Here' \subseteq Here /\ (late' = {} => late = {} /\ Here' = Here)
    BY <2>1 DEF Here
  <2>4. \A d \in Here' : Solicited(d)'
    BY <1>1, <2>1, <2>2, <2>3 DEF WalkInv, Solicited
  <2>5. Arrived'
    BY <1>1, <2>1, <2>2, <2>3 DEF WalkInv, Arrived
  <2>6. skipped' \subseteq 1..iface' - 1
    BY <1>1, <2>1
  <2> QED
    BY <2>1, <2>4, <2>5, <2>6 DEF WalkInv
<1> QED
  BY <1>2, <1>3, <1>4

LEMMA WalkKept ==
  ASSUME ClientInv, ClientInv', Phases, WalkInv, [Next]_vars
  PROVE  WalkInv'
<1> USE DEF network, faults, results, unique
<1>1. CASE Broadcasting \/ SkipInterface \/ CloseSocket
  BY <1>1, WalkOn
<1>2. CASE Receive
  <2>1. /\ inbox \in Seq(Known \cup {SocketError}) /\ inbox # <<>>
        /\ inbox' = Tail(inbox) /\ buffers \in Seq(Known)
        /\ UNCHANGED <<cpc, asked, iface, flight, skipped, late>> /\ cpc = "listen"
    BY <1>2 DEF Receive, ClientInv, Sent
  <2>2. Range(inbox) = {Head(inbox)} \cup Range(inbox')
        /\ Head(inbox) \in Known \cup {SocketError}
    BY <2>1, RangeOfTail, HeadTailProperties
  <2>3. Range(buffers') \ {SocketError}
          = (Range(buffers) \cup {Head(inbox)}) \ {SocketError}
    <3>1. CASE Head(inbox) = SocketError
      BY <1>2, <3>1 DEF Receive
    <3>2. CASE Head(inbox) # SocketError
      BY <1>2, <2>1, <2>2, <3>2, RangeOfAppend DEF Receive
    <3> QED
      BY <3>1, <3>2
  <2>4. Here' = Here
    BY <2>1, <2>2, <2>3 DEF Here
  <2> QED
    BY <2>1, <2>4, NothingLost
<1>3. CASE Arrive
  <2>1. PICK d \in flight : inbox' = Append(inbox, d) /\ flight' = flight \ {d}
    BY <1>3 DEF Arrive
  <2>2. Range(inbox') = Range(inbox) \cup {d}
    <3>1. inbox \in Seq(Known \cup {SocketError}) /\ d \in Known \cup {SocketError}
      BY DEF ClientInv, Sent
    <3> QED
      BY <2>1, <3>1, RangeOfAppend
  <2>3. Here' = Here
    BY <1>3, <2>1, <2>2 DEF Arrive, Here
  <2> QED
    BY <1>3, <2>3, NothingLost DEF Arrive
<1>4. CASE Fault
  <2>1. Range(inbox') = Range(inbox) \cup {SocketError}
    BY <1>4, RangeOfAppend DEF Fault, ClientInv, Sent
  <2>2. Here' = Here
    BY <1>4, <2>1 DEF Fault, Here
  <2> QED
    BY <1>4, <2>2, NothingLost DEF Fault
<1>5. CASE Duplicate
  <2>1. PICK d \in flight : flight' = flight \cup {[d EXCEPT !.copy = copies' + 1]}
    BY <1>5 DEF Duplicate
  <2> DEFINE e == [d EXCEPT !.copy = copies' + 1]
  <2>2. d \in Known /\ d \in Here /\ d \in Datagram /\ copies' + 1 \in Nat
    BY <1>5, SocketErrorAssumption DEF Duplicate, ClientInv, TypeOK, Sent, Here, Known
  <2>3. e.via = d.via /\ e.from = d.from /\ e \in Known /\ e # SocketError
    <3>1. e \in Known
      BY <2>2, CopyIsKnown, Zenon
    <3> QED
      BY <2>2, <3>1, SocketErrorAssumption DEF Datagram, Known
  <2>4. flight' = flight \cup {e}
    BY <2>1
  <2> HIDE DEF e
  <2>5. Here' = Here \cup {e}
    BY <1>5, <2>3, <2>4 DEF Duplicate, Here
  <2>6. Solicited(e)
    BY <2>2, <2>3 DEF WalkInv, Solicited
  <2> QED
    BY <1>5, <2>5, <2>6, NothingLost DEF Duplicate
<1>6. CASE AllWalked
  <2>1. iface = Interfaces + 1
    BY <1>6, ClientAssumption DEF AllWalked, ClientInv, TypeOK
  <2>2. Here' = Here
    BY <1>6 DEF AllWalked, Here
  <2> QED
    BY <1>6, <2>1, <2>2, NothingLost DEF AllWalked
<1>7. ASSUME NEW n \in QueryCounts, SendQuery(n) PROVE WalkInv'
  <2>1. Here' = Here
    BY <1>7 DEF SendQuery, Here
  <2>2. cpc' \in {"parse", "filter", "done"} => asked' \notin 1..255
    BY <1>7 DEF SendQuery
  <2>3. cpc # "listen" /\ cpc' # "listen" /\ UNCHANGED <<iface, skipped, late>>
    BY <1>7 DEF SendQuery
  <2> QED
    BY <2>1, <2>2, <2>3, NothingLost
<1>8. CASE ParseBuffer \/ AllParsed
  <2>1. Here' = Here
    BY <1>8 DEF ParseBuffer, AllParsed, Here
  <2>2. /\ cpc = "parse" /\ cpc' # "listen"
        /\ UNCHANGED <<asked, iface, skipped, late>>
    BY <1>8 DEF ParseBuffer, AllParsed
  <2> QED
    BY <2>1, <2>2, NothingLost DEF WalkInv
<1>9. CASE Filter \/ AllFiltered
  <2>1. Here' = Here
    BY <1>9 DEF Filter, AllFiltered, Here
  <2>2. /\ cpc = "filter" /\ cpc' \in {"filter", "done"}
        /\ UNCHANGED <<asked, iface, skipped, late>>
    BY <1>9 DEF Filter, AllFiltered
  <2> QED
    BY <2>1, <2>2, NothingLost DEF WalkInv
<1>10. CASE Tick \/ Finished \/ UNCHANGED vars
  <2>1. Here' = Here
    BY <1>10 DEF Tick, Finished, vars, Here
  <2>2. UNCHANGED <<cpc, asked, iface, skipped, late>>
    BY <1>10 DEF Tick, Finished, vars
  <2> QED
    BY <2>1, <2>2, NothingLost DEF WalkInv
<1> QED
  BY <1>1, <1>2, <1>3, <1>4, <1>5, <1>6, <1>7, <1>8, <1>9, <1>10
     DEF Next, CallerNext

LEMMA WalkAlways == Spec => []WalkInv
BY WalkStart, WalkKept, ClientAlways, PhasesKept, PTL DEF Spec

\* The caller has the records of the replies read so far and no others, and a
\* call that gave up met a reply the receive buffer had cut off.
Records(k) == Range(Reply(buffers[k]).items)

ReadInv ==
  /\ \A k \in 1..pi - 1 : Records(k) \subseteq Range(responses)
  /\ \A x \in Range(responses) : \E k \in 1..pi - 1 : x \in Records(k)
  /\ cpc \in {"filter", "done"} /\ asked \in 1..255
       => IF verdict THEN pi = Len(buffers) + 1
          ELSE \E k \in 1..Len(buffers) : ~(Reply(buffers[k]).size <= BufferSize)

LEMMA RangeOfConcat ==
  ASSUME NEW S, NEW s \in Seq(S), NEW t \in Seq(S)
  PROVE  Range(s \o t) = Range(s) \cup Range(t)
<1> DEFINE u == s \o t
           a == Len(s)
           b == Len(t)
<1>1. /\ DOMAIN s = 1..a /\ DOMAIN t = 1..b /\ a \in Nat /\ b \in Nat
      /\ u \in Seq(S) /\ Len(u) = a + b
      /\ \A i \in 1..a + b : u[i] = IF i <= a THEN s[i] ELSE t[i - a]
  BY LenProperties, ConcatProperties
<1>2. DOMAIN u = 1..a + b
  BY <1>1, LenProperties
<1> HIDE DEF u, a, b
<1>3. Range(u) \subseteq Range(s) \cup Range(t)
  <2>1. SUFFICES ASSUME NEW i \in 1..a + b
                 PROVE  u[i] \in Range(s) \cup Range(t)
    BY <1>2 DEF Range
  <2>2. CASE i <= a
    <3>1. i \in 1..a /\ u[i] = s[i]
      BY <1>1, <2>2
    <3> QED
      BY <1>1, <3>1 DEF Range
  <2>3. CASE ~(i <= a)
    <3>1. i - a \in 1..b /\ u[i] = t[i - a]
      BY <1>1, <2>3
    <3> QED
      BY <1>1, <3>1 DEF Range
  <2> QED
    BY <2>2, <2>3
<1>4. Range(s) \subseteq Range(u)
  BY <1>1, <1>2 DEF Range
<1>5. Range(t) \subseteq Range(u)
  <2>1. SUFFICES ASSUME NEW i \in 1..b PROVE t[i] \in Range(u)
    BY <1>1 DEF Range
  <2>2. i + a \in 1..a + b /\ ~(i + a <= a) /\ i + a - a = i
    BY <1>1
  <2>3. u[i + a] = t[i]
    BY <1>1, <2>2
  <2> QED
    BY <1>2, <2>2, <2>3 DEF Range
<1> QED
  BY <1>3, <1>4, <1>5 DEF u

LEMMA ReadStart == ASSUME Init PROVE ReadInv
<1>1. Range(<<>>) = {}
  BY EmptySeq DEF Range
<1> QED
  BY <1>1 DEF Init, ReadInv

LEMMA ReadOne ==
  ASSUME ProperReplies, ClientInv, Phases, ReadInv, ParseBuffer
  PROVE  ReadInv'
<1> DEFINE m == Reply(buffers[pi])
<1>1. /\ pi \in 1..Len(buffers) /\ buffers[pi] \in Known
      /\ cpc = "parse" /\ buffers' = buffers /\ verdict' = verdict /\ ~verdict
      /\ asked' = asked /\ Len(buffers) \in Nat
  BY LenProperties, ElementOfSeq DEF ParseBuffer, ClientInv, Sent, Phases
<1>2. ProperReply(m) /\ m \in Message /\ m.items \in Seq(Record)
      /\ Range(m.items) = Records(pi)
  BY <1>1, KnownReply DEF ProperReplies, Known, Datagram, Reply, Range, Records
<1>3. PICK o \in ParseReply(m) :
        /\ responses' = responses \o o.recs
        /\ \/ o.ok /\ pi' = pi + 1 /\ UNCHANGED cpc
           \/ ~o.ok /\ cpc' = "filter" /\ UNCHANGED pi
  BY DEF ParseBuffer
<1>4. \A k : Records(k)' = Records(k)
  BY <1>1 DEF Records
<1>5. CASE m.size <= BufferSize
  <2> HIDE DEF m
  <2>1. ParseReply(m) = {Outcome(TRUE, m.items)}
    BY <1>2, <1>5, ProperIsReadInFull, Zenon
  <2>2. o.ok /\ o.recs = m.items
    BY <1>3, <2>1 DEF Outcome
  <2>3. pi' = pi + 1 /\ cpc' = "parse"
    BY <1>1, <1>3, <2>2
  <2>4. Range(responses') = Range(responses) \cup Records(pi)
    <3>1. m.items \in Seq(Record \cup {Garbage})
      BY <1>2, SeqMonotonic
    <3>2. responses' = responses \o m.items
      BY <1>3, <2>2
    <3> QED
      BY <1>2, <3>1, <3>2, RangeOfConcat DEF ClientInv, TypeOK
  <2>5. \A k \in 1..pi : k \in 1..pi - 1 \/ k = pi
    BY <1>1
  <2>6. pi \in 1..pi /\ 1..pi - 1 \subseteq 1..pi /\ pi' - 1 = pi
    BY <1>1, <2>3
  <2> QED
    BY <1>4, <2>3, <2>4, <2>5, <2>6 DEF ReadInv
<1>6. CASE ~(m.size <= BufferSize)
  <2> HIDE DEF m
  <2>1. ParseReply(m) = {Outcome(FALSE, <<>>)}
    BY <1>2, <1>6, ProperIsReadInFull, Zenon
  <2>2. ~o.ok /\ o.recs = <<>>
    BY <1>3, <2>1 DEF Outcome
  <2>3. responses' = responses /\ pi' = pi /\ cpc' = "filter"
    BY <1>3, <2>2, ConcatEmptySeq DEF ClientInv, TypeOK
  <2>4. \E k \in 1..Len(buffers') : ~(Reply(buffers'[k]).size <= BufferSize)
    BY <1>1, <1>6 DEF m
  <2> QED
    BY <1>1, <1>4, <2>3, <2>4 DEF ReadInv
<1> QED
  BY <1>5, <1>6

LEMMA ReadKept ==
  ASSUME ProperReplies, ClientInv, Phases, ReadInv, [Next]_vars
  PROVE  ReadInv'
<1> USE DEF network, faults, results, unique
<1>1. ASSUME UNCHANGED <<asked, pi, buffers, responses, verdict>>,
             \/ cpc' \notin {"filter", "done"}
             \/ cpc \in {"filter", "done"}
      PROVE  ReadInv'
  BY <1>1 DEF ReadInv, Records
<1>2. CASE ParseBuffer
  BY <1>2, ReadOne
<1>3. CASE Receive
  <2>1. cpc = "listen" /\ cpc' = "listen" /\ pi = 1
        /\ UNCHANGED <<pi, responses>>
    BY <1>3 DEF Receive, Phases
  <2> QED
    BY <2>1 DEF ReadInv
<1>4. CASE AllParsed
  <2>1. pi \in 1..Len(buffers) + 1 /\ pi \notin 1..Len(buffers)
        /\ Len(buffers) \in Nat
    BY <1>4, LenProperties DEF AllParsed, ClientInv, TypeOK
  <2>2. pi = Len(buffers) + 1
    BY <2>1
  <2> QED
    BY <1>4, <2>2 DEF AllParsed, ReadInv, Records
<1>5. ASSUME NEW n \in QueryCounts, SendQuery(n) PROVE ReadInv'
  <2>1. cpc' \in {"filter", "done"} => asked' \notin 1..255
    BY <1>5 DEF SendQuery
  <2> QED
    BY <1>5, <2>1 DEF SendQuery, ReadInv, Records
<1>6. CASE Broadcasting \/ SkipInterface \/ CloseSocket \/ AllWalked
  BY <1>1, <1>6 DEF Broadcasting, SkipInterface, CloseSocket, AllWalked
<1>7. CASE Filter \/ AllFiltered
  BY <1>1, <1>7 DEF Filter, AllFiltered
<1>8. CASE Arrive
  BY <1>1, <1>8 DEF Arrive
<1>9. CASE Duplicate
  BY <1>1, <1>9 DEF Duplicate
<1>10. CASE Fault
  BY <1>1, <1>10 DEF Fault
<1>11. CASE Tick
  BY <1>1, <1>11 DEF Tick
<1>12. CASE Finished \/ UNCHANGED vars
  BY <1>1, <1>12 DEF Finished, vars
<1> QED
  BY <1>2, <1>3, <1>4, <1>5, <1>6, <1>7, <1>8, <1>9, <1>10, <1>11, <1>12
     DEF Next, CallerNext

LEMMA CompleteAtTheEnd ==
  ASSUME ClientInv, WalkInv, ReadInv, UniquesComplete
  PROVE  CompleteWhenQuiet
<1>1. SUFFICES ASSUME cpc = "done", asked \in 1..255, late = {}, Readable
               PROVE  verdict /\ Printed = Offers
  BY DEF CompleteWhenQuiet
<1>2. /\ flight = {} /\ inbox = <<>> /\ buffers \in Seq(Known)
      /\ Len(buffers) \in Nat /\ DOMAIN buffers = 1..Len(buffers)
      /\ \A k \in 1..Len(buffers) : buffers[k] \in Known
      /\ iface = Interfaces + 1 /\ Interfaces \in Nat
      /\ WithIPv4 \subseteq 1..Interfaces
  BY <1>1, LenProperties, ElementOfSeq, ClientAssumption
     DEF ClientInv, TypeOK, Sent, WalkInv
<1>3. Here = Range(buffers)
  <2>1. Range(inbox) = {}
    BY <1>2, EmptySeq DEF Range
  <2>2. SocketError \notin Range(buffers)
    BY <1>2, SocketErrorAssumption DEF Range, Known
  <2> QED
    BY <1>2, <2>1, <2>2 DEF Here
<1>4. \A i \in WithIPv4 : Asked(i)
  BY <1>2 DEF Asked
<1>5. ASSUME NEW k \in 1..Len(buffers)
      PROVE  /\ buffers[k].from \in Reached /\ buffers[k].from \in Responders
             /\ Reply(buffers[k]) \in Range(Replies[buffers[k].from])
  <2>1. buffers[k] \in Here /\ buffers[k] \in Known
    BY <1>2, <1>3 DEF Range
  <2> QED
    BY <2>1 DEF WalkInv, Solicited, Reached, Known, Datagram, Reply, Range
<1>6. verdict /\ pi = Len(buffers) + 1
  BY <1>1, <1>5 DEF ReadInv, Readable
<1>7. \A x : x \in Range(responses) <=> \E k \in 1..Len(buffers) : x \in Records(k)
  BY <1>2, <1>6 DEF ReadInv
<1>8. Range(responses) \subseteq Offers
  BY <1>5, <1>7 DEF Offers, Records
<1>9. Offers \subseteq Range(responses)
  <2>1. SUFFICES ASSUME NEW i \in WithIPv4 \ skipped, NEW r \in Reach[i],
                        NEW m \in Range(Replies[r])
                 PROVE  Range(m.items) \subseteq Range(responses)
    BY DEF Offers, Reached
  <2>2. PICK n \in DOMAIN Replies[r] : m = Replies[r][n]
    BY DEF Range
  <2>3. PICK d \in Here : d.from = r /\ d.n = n
    BY <1>1, <1>4 DEF WalkInv, Arrived
  <2>4. PICK k \in 1..Len(buffers) : buffers[k] = d
    BY <1>2, <1>3 DEF Range
  <2>5. Records(k) = Range(m.items)
    BY <2>2, <2>3, <2>4 DEF Records, Reply
  <2> QED
    BY <1>7, <2>5
<1>10. Printed = Range(responses)
  BY <1>1 DEF UniquesComplete
<1> QED
  BY <1>6, <1>8, <1>9, <1>10

\* For any interfaces, routes and such replies: a query that loses none, and
\* gets none that its buffer cuts off, tells of every service behind every
\* interface that was asked, and of no other.
THEOREM EveryServiceFound ==
  ASSUME ProperReplies PROVE Spec => []CompleteWhenQuiet
<1>1. Spec => []ReadInv
  BY ReadStart, ReadKept, ClientAlways, PhasesKept, PTL DEF Spec
<1> QED
  BY <1>1, ClientAlways, WalkAlways, NoServiceDropped, CompleteAtTheEnd, PTL

=============================================================================
