--------------------------- MODULE ArduinoClient ----------------------------
(***************************************************************************)
(* The client library for microcontrollers, arduino/client.                *)
(*                                                                         *)
(* Nothing blocks: sendQuery sends and returns, the UDP stack calls back   *)
(* for every datagram, which is kept in a linked list, and getResponses    *)
(* parses and frees that list.  All of it runs on one event loop, so every *)
(* call is one step; what goes wrong is what a call leaves behind for the  *)
(* next one.  The actions are the calls; the application that makes them   *)
(* is a module of its own.                                                 *)
(*                                                                         *)
(* List nodes are addresses.  heap maps those allocated to their contents; *)
(* a pointer to any other address dangles, and an address that was freed   *)
(* can be handed out again.                                                *)
(***************************************************************************)
EXTENDS Wire, FiniteSets, Functions

CONSTANTS
  Nodes,      \* addresses for list nodes: the bound on memory
  Null,       \* the null pointer
  Ports,      \* remote ports datagrams may come from
  Datagrams   \* what may arrive

ASSUME ArduinoAssumption ==
  /\ Null \notin Nodes
  /\ Ports \subseteq Word \ {0}
  /\ Datagrams \subseteq Message

VARIABLES
  heap,       \* the allocated ListNodes
  response,   \* first node that has not been read
  last,       \* last node of the list
  count,      \* number of nodes; what hasResponse looks at
  received,   \* whether any datagram was ever taken
  port,       \* the port the last query went to; 0 before the first
  listening,  \* whether the socket is bound
  memory,     \* "sound", or how freed memory was used
  fresh,      \* history: the list has not been read since the last query
  taken       \* history: the nodes of the datagrams taken since that query

listVars == <<heap, response, last, count, received>>
clientVars == <<listVars, port, listening, memory, fresh, taken>>

Node == [msg : Datagrams, next : Nodes \cup {Null}]

ClientInit ==
  /\ heap = <<>> /\ response = Null /\ last = Null
  /\ count = 0 /\ received = FALSE /\ port = 0
  /\ listening = FALSE /\ memory = "sound" /\ fresh = TRUE /\ taken = <<>>

Live == DOMAIN heap

-----------------------------------------------------------------------------
\* udp_receive_callback

\* Slip: the node is put in front of the list.
LinkInFront(n, m) ==
  /\ response' = n /\ last' = IF response = Null THEN n ELSE last
  /\ heap' = [a \in Live \cup {n} |->
                 IF a = n THEN [msg |-> m, next |-> response] ELSE heap[a]]
  /\ UNCHANGED memory

\* "Attach at end."  The last node may have been freed since: then the write
\* goes to memory nobody owns, or into the new node if that was put there.
\* Such a write destroys the allocator's lists, or goes unnoticed.
Link(n, m) ==
  LET grown == [a \in Live \cup {n} |->
                   IF a = n THEN [msg |-> m, next |-> Null] ELSE heap[a]]
  IN  \/ /\ response = Null
         /\ heap' = grown /\ response' = n /\ last' = n
         /\ UNCHANGED memory
      \/ /\ response # Null /\ last \in Live \cup {n}
         /\ heap' = [grown EXCEPT ![last].next = n] /\ last' = n
         /\ UNCHANGED <<response, memory>>
      \/ /\ response # Null /\ last \notin Live \cup {n}
         /\ heap' = grown /\ last' = n
         /\ memory' \in {"sound", "freed memory written"}
         /\ UNCHANGED response

\* A datagram from another port is not for us.
Callback(m, from) ==
  /\ memory = "sound" /\ listening
  /\ from = port
  /\ \E n \in Nodes \ Live :
        /\ Link(n, m)
        /\ taken' = IF fresh THEN Append(taken, n) ELSE taken
  /\ count' = count + 1
  /\ received' = TRUE
  /\ UNCHANGED <<port, listening, fresh>>

-----------------------------------------------------------------------------
\* sendQuery, with its verdict.  Nodes that were never read are forgotten;
\* received and last keep their values.

Forget == response' = Null /\ count' = 0

SendQuery(p, queries, verdict) ==
  /\ memory = "sound"
  /\ port' = p
  /\ \/ /\ queries = <<>> /\ verdict = 2
        /\ UNCHANGED <<response, count, listening, fresh, taken>>
     \/ /\ queries # <<>> /\ verdict \in {0, 4}   \* 4: it could not be sent
        /\ Forget
        /\ listening' = TRUE
        /\ fresh' = TRUE /\ taken' = <<>>
  /\ UNCHANGED <<heap, last, received, memory>>

-----------------------------------------------------------------------------
\* getResponses

HasResponse == count > 0

Reads(code, recs) == [code |-> code, recs |-> recs]

\* What can come of reading one datagram: 0 and at most the first record, or
\* the code of an error.  The type, the count and the first section are read
\* whether or not the datagram is that long.  Behind an IPv6 length that has
\* wrapped the rest of the record comes from the wrong bytes.
ReadMessage(m) ==
  LET open == {Reads(0, <<Garbage>>), Reads(12, <<>>)}
  IN  IF m.size < HeaderBytes THEN {Reads(8, <<>>)}
      ELSE IF ~m.sig THEN {Reads(9, <<>>)}
      ELSE IF m.len > m.size - HeaderBytes THEN {Reads(10, <<>>)}
      ELSE IF m.size = HeaderBytes
      THEN open \cup {Reads(11, <<>>), Reads(0, <<>>)}
      ELSE IF m.type # Response THEN {Reads(11, <<>>)}
      ELSE IF m.size = HeaderBytes + 1 THEN open \cup {Reads(0, <<>>)}
      ELSE IF m.count = 0 THEN {Reads(0, <<>>)}
      ELSE IF m.items = <<>> \/ m.items[1] = Loose THEN open
      ELSE IF m.items[1] \in Query THEN {Reads(12, <<>>)}
      ELSE {Reads(0, <<IF TextFits(m.items[1]) THEN m.items[1] ELSE Garbage>>)}

\* Where the loop looks, turn by turn.  response stays behind on the last node.
Walk[i \in 1..count + 1] ==
  IF i = 1 THEN response
  ELSE IF Walk[i - 1] \in Live /\ heap[Walk[i - 1]].next # Null
  THEN heap[Walk[i - 1]].next ELSE Walk[i - 1]

\* The node of turn i has not been freed, neither before the call nor in it.
CanRead(i) == Walk[i] \in Live /\ \A j \in 1..i - 1 : Walk[j] # Walk[i]

\* The records n successful turns can yield; nothing if one cannot be made.
Yield ==
  LET upto[n \in 0..count] ==
        IF n = 0 THEN {<<>>}
        ELSE IF ~CanRead(n) THEN {}
        ELSE {recs \o o.recs : recs \in upto[n - 1], o \in
                {x \in ReadMessage(heap[Walk[n]].msg) : x.code = 0}}
  IN  upto

\* Slip: the loop stops one node early.
TurnsOneLess == IF count = 0 THEN 0 ELSE count - 1

Turns == count

\* Every datagram is read.
Complete == {[verdict |-> 0, recs |-> recs, turns |-> Turns, sound |-> TRUE] :
                recs \in Yield[Turns]}

\* How the turn after the n-th can fail.
Errors(n) == IF ~CanRead(n + 1) THEN {Reads(0, <<>>)}
             ELSE {o \in ReadMessage(heap[Walk[n + 1]].msg) : o.code # 0}

FailsAfter(n) == {[verdict |-> o.code, recs |-> recs, turns |-> n,
                   sound |-> CanRead(n + 1)] : recs \in Yield[n], o \in Errors(n)}

\* What getResponses can make of the list: its verdict, the records it parsed
\* (before an error, too, but then resnum does not say so), how many nodes it
\* frees and whether it reads one that is freed already.
Results ==
  IF ~received
  THEN {[verdict |-> 1, recs |-> <<>>, turns |-> 0, sound |-> TRUE]}
  ELSE Complete \cup UNION {FailsAfter(n) : n \in 0..Turns - 1}

\* Each node read is freed together with its datagram.
GetResponses(r) ==
  /\ memory = "sound" /\ r \in Results
  /\ heap' = Restrict(heap, Live \ {Walk[i] : i \in 1..r.turns})
  /\ response' = Walk[r.turns + 1]
  /\ memory' = IF r.sound THEN memory ELSE "freed memory read"
  /\ fresh' = FALSE
  /\ UNCHANGED <<last, count, received, port, listening, taken>>

-----------------------------------------------------------------------------
\* Properties.

\* Until it is read, the list holds every datagram taken since the query, in
\* the order they came, and count, response and last agree with it.
ListIntact ==
  fresh =>
    /\ count = Len(taken)
    /\ response = (IF taken = <<>> THEN Null ELSE taken[1])
    /\ taken # <<>> => last = taken[Len(taken)]
    /\ \A i \in DOMAIN taken :
          /\ taken[i] \in Live
          /\ heap[taken[i]].next =
                (IF i = Len(taken) THEN Null ELSE taken[i + 1])

\* No call reads a node that was freed.
NeverReadsFreed == memory # "freed memory read"

\* No datagram is linked to a node that was freed.
NeverWritesFreed == memory # "freed memory written"

=============================================================================
