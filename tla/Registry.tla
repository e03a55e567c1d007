------------------------------ MODULE Registry ------------------------------
(***************************************************************************)
(* What a NyanSD responder promises, without its threads, mutex, socket or *)
(* parsing: entries are only ever added, complete, and every reply is      *)
(* an exact picture of the registry at one moment no earlier than the      *)
(* receipt of the query it answers.                                        *)
(***************************************************************************)
EXTENDS Wire, FiniteSets

CONSTANTS
  Offered,     \* entries the application may register
  HostName,    \* host name given to an entry that has none
  Requesters,  \* addresses replies go to
  Facing       \* Facing[s]: local addresses on the network of s

VARIABLES
  services,    \* the registered entries, in order
  floor,       \* how much of the registry the next reply must cover
  replies      \* replies given so far

vars == <<services, floor, replies>>

Wanted(filter, e) == filter \in {Empty, e.name}

Hits(r) == {j \in 1..r.upto : Wanted(r.query.filter, services[j])}

\* The record rec stands for the entry e in a reply to s.
StandsFor(rec, e, s) ==
  \/ e.addr # NoAddr /\ rec = e
  \/ /\ e.addr = NoAddr
     /\ \E a \in Facing[s] : rec = [e EXCEPT !.addr = a, !.ipv6 = Empty]

\* r holds one record for every entry that was asked for, and nothing else.
Exact(r) ==
  /\ \A i \in DOMAIN r.items : \E j \in Hits(r) :
        StandsFor(r.items[i], services[j], r.to)
  /\ \A j \in Hits(r) : \E i \in DOMAIN r.items :
        StandsFor(r.items[i], services[j], r.to)
  /\ Len(r.items) = Cardinality(Hits(r))
  /\ r.count = Len(r.items) % 256

-----------------------------------------------------------------------------
Init == services = <<>> /\ floor = 0 /\ replies = <<>>

Register ==
  /\ \E e \in Offered :
        /\ e.port # 0 /\ e.name # Empty
        /\ services' = Append(services,
              IF e.host = Empty THEN [e EXCEPT !.host = HostName] ELSE e)
  /\ UNCHANGED <<floor, replies>>

\* A request is received: its replies must know what is registered by now.
Accept == floor' = Len(services) /\ UNCHANGED <<services, replies>>

Answer ==
  /\ Len(replies') = Len(replies) + 1
  /\ LET r == replies'[Len(replies) + 1]
     IN  /\ replies' = Append(replies, r)
         /\ r.to \in Requesters /\ r.query \in Query
         /\ r.upto \in floor..Len(services)
         /\ Exact(r)
         /\ floor' = r.upto
  /\ UNCHANGED services

Next == Register \/ Accept \/ Answer

Spec == Init /\ [][Next]_vars

=============================================================================
