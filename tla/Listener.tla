------------------------------ MODULE Listener ------------------------------
(***************************************************************************)
(* The server side of the NyanSD library (src/nyansd.cpp): the registry    *)
(* that addService fills, startListener and stopListener, and the handler  *)
(* thread that answers broadcasts.                                         *)
(*                                                                         *)
(* Threads: the application threads (Owner is the one that starts and      *)
(* stops the listener, Adders only add services) and the handler thread.   *)
(* They share services under servicesMutex, the atomic flag running, and   *)
(* the std::thread object handler.  hpc is where the handler thread is;    *)
(* the std::thread is joinable exactly when hpc # "none".                  *)
(***************************************************************************)
EXTENDS Wire, FiniteSets

CONSTANTS
  Owner, Adders,   \* application threads
  Handler,         \* the handler thread, as holder of the mutex
  Free,            \* nobody holds the mutex
  HostName,        \* Poco::Net::DNS::hostName()
  Offered,         \* service entries the application may pass to addService
  Senders,         \* addresses broadcasts come from
  Messages,        \* datagrams that reach the port
  SocketError,     \* a pending error that receiveFrom throws
  Nothing,         \* no request, no entry
  Endings,         \* how else the process can end: its main returns, a signal
  LocalAddrs,      \* LocalAddrs[s]: what remoteToLocalIP can find for the
                   \* sender s; NoAddr when no interface shares the first
                   \* three octets of s
  MaxServices, MaxArrivals, MaxStarts   \* bounds of the checked instance

Threads == {Owner} \cup Adders

Datagram == [from : Senders, msg : Messages]

\* What receiveFrom can come back with.
Events == Datagram \cup {SocketError}

ASSUME ListenerAssumption ==
  /\ Owner \notin Adders
  /\ Free \notin Threads \cup {Handler}
  /\ Handler \notin Threads
  /\ HostName \in Strings \ {Empty}
  /\ Offered \subseteq Entry
  /\ Nothing \notin Entry \cup Query
  /\ SocketError \notin Datagram
  /\ Nothing \notin Datagram
  /\ Messages \subseteq Message
  /\ LocalAddrs \in [Senders -> SUBSET Address]
  /\ MaxServices \in Nat /\ MaxArrivals \in Nat /\ MaxStarts \in Nat

\* The library has names of its own for how it ends a process.
ASSUME EndingsAssumption ==
  Endings \cap {"up", "started twice", "nothing to join"} = {}

VARIABLES
  fate,      \* "up", or why the process was terminated
  running,   \* the flag NyanSD::running
  hpc,       \* control state of the handler thread
  pc, arg,   \* control state of each application thread, entry being added
  mutex,     \* holder of servicesMutex
  services,  \* the registry
  inbox,     \* datagrams in the receive buffer of the listening socket
  cur,       \* the request being answered
  qi, at,    \* queries handled, next section of the request (0: none here)
  query,     \* the query being answered
  si,        \* next registry index of the match loop
  body,      \* servicesBody
  scount,    \* scount
  starts,    \* calls of startListener that got past the flag
  upto,      \* history: registry size when the mutex was taken to match
  floor,     \* history: registry size the next reply must cover
  sent,      \* history: every reply that left the socket
  arrived    \* history: every datagram that reached the socket

appVars     == <<pc, arg>>
registry    == <<mutex, services>>
requestVars == <<cur, qi, at, query, si, body, scount, upto>>
history     == <<floor, sent, arrived>>
vars == <<fate, running, hpc, appVars, registry, inbox, requestVars, starts,
          history>>

\* Positions of the handler thread between running = true and its return.
Loop == {"check", "poll", "query", "lock", "match", "send"}

Init ==
  /\ fate = "up" /\ running = FALSE /\ hpc = "none"
  /\ pc = [t \in Threads |-> "idle"]
  /\ arg = [t \in Threads |-> Nothing]
  /\ mutex = Free /\ services = <<>>
  /\ inbox = <<>> /\ cur = Nothing
  /\ qi = 0 /\ at = 1 /\ query = Nothing /\ si = 1
  /\ body = <<>> /\ scount = 0 /\ upto = 0
  /\ starts = 0
  /\ floor = 0 /\ sent = <<>> /\ arrived = <<>>

\* An exception nobody catches, or std::terminate: the whole process ends.
Terminate(why) ==
  /\ fate' = why
  /\ UNCHANGED <<running, hpc, appVars, registry, inbox, requestVars, history>>

-----------------------------------------------------------------------------
\* addService.

\* Slip: the host name is left to the caller.
CompletedByCaller(e) == e

ValidEntry(e) == e.port # 0 /\ e.name # Empty

Completed(e) == IF e.host = Empty THEN [e EXCEPT !.host = HostName] ELSE e

\* Entries on their way into the registry, for the bound MaxServices.
Pending == {t \in Threads : pc[t] \in {"lock", "push"}}

\* The call up to servicesMutex.lock(): an invalid entry is refused.
AddService(t, e) ==
  /\ fate = "up" /\ pc[t] = "idle"
  /\ ValidEntry(e)
  /\ Len(services) + Cardinality(Pending) < MaxServices
  /\ pc' = [pc EXCEPT ![t] = "lock"]
  /\ arg' = [arg EXCEPT ![t] = Completed(e)]
  /\ UNCHANGED <<fate, running, hpc, registry, inbox, requestVars,
                 starts, history>>

\* Slip: services is used without its mutex.
CanAlwaysLock == TRUE

CanLock == mutex = Free

LockToAdd(t) ==
  /\ fate = "up" /\ pc[t] = "lock" /\ CanLock
  /\ mutex' = t
  /\ pc' = [pc EXCEPT ![t] = "push"]
  /\ UNCHANGED <<fate, running, hpc, arg, services, inbox, requestVars,
                 starts, history>>

PushBack(t) ==
  /\ fate = "up" /\ pc[t] = "push"
  /\ services' = Append(services, arg[t])
  /\ arg' = [arg EXCEPT ![t] = Nothing]
  /\ pc' = [pc EXCEPT ![t] = "unlock"]
  /\ UNCHANGED <<fate, running, hpc, mutex, inbox, requestVars, starts,
                 history>>

UnlockAdded(t) ==
  /\ fate = "up" /\ pc[t] = "unlock"
  /\ mutex' = Free
  /\ pc' = [pc EXCEPT ![t] = "idle"]
  /\ UNCHANGED <<fate, running, hpc, arg, services, inbox, requestVars,
                 starts, history>>

-----------------------------------------------------------------------------
\* startListener and stopListener.

\* While the flag is up the call returns false and changes nothing.  Otherwise
\* the new thread is assigned to handler, and assigning to a std::thread that
\* is still joinable terminates the process.
StartListener ==
  /\ fate = "up" /\ pc[Owner] = "idle" /\ starts < MaxStarts
  /\ ~running
  /\ starts' = starts + 1
  /\ \/ /\ hpc = "none"
        /\ hpc' = "bind"
        /\ UNCHANGED <<fate, running, appVars, registry, inbox, requestVars,
                       history>>
     \/ hpc # "none" /\ Terminate("started twice")

\* stopListener: running = false ...
StopListener ==
  /\ fate = "up" /\ pc[Owner] = "idle"
  /\ running' = FALSE
  /\ pc' = [pc EXCEPT ![Owner] = "join"]
  /\ UNCHANGED <<fate, hpc, arg, registry, inbox, requestVars, starts,
                 history>>

\* ... then handler.join(), which waits for the thread to return and throws
\* when there is no thread to wait for.
Join ==
  /\ fate = "up" /\ pc[Owner] = "join"
  /\ \/ /\ hpc = "exited"
        /\ hpc' = "none"
        /\ pc' = [pc EXCEPT ![Owner] = "idle"]
        /\ UNCHANGED <<fate, running, arg, registry, inbox, requestVars,
                       starts, history>>
     \/ /\ hpc = "none"
        /\ Terminate("nothing to join")
        /\ UNCHANGED starts

-----------------------------------------------------------------------------
\* clientHandler: the socket and the receive loop.

HandlerAt(p) == fate = "up" /\ hpc = p

\* The port may be taken: bind throws.
Bind ==
  /\ HandlerAt("bind")
  /\ \/ /\ hpc' = "announce"
        /\ UNCHANGED <<fate, running, appVars, registry, inbox, requestVars,
                       history>>
     \/ Terminate("uncaught exception")
  /\ UNCHANGED starts

\* Slip: the flag is never raised.
SetRunningForgotten ==
  /\ HandlerAt("announce")
  /\ hpc' = "check"
  /\ UNCHANGED <<fate, running, appVars, registry, inbox, requestVars, starts,
                 history>>

\* running = true, without looking whether a stop has been asked for.
SetRunning ==
  /\ HandlerAt("announce")
  /\ running' = TRUE
  /\ hpc' = "check"
  /\ UNCHANGED <<fate, appVars, registry, inbox, requestVars, starts, history>>

\* Slip: while (true).
CheckNothing ==
  /\ HandlerAt("check")
  /\ hpc' = "poll"
  /\ UNCHANGED <<fate, running, appVars, registry, inbox, requestVars, starts,
                 history>>

\* while (running); on return the socket is closed with what it holds.
CheckRunning ==
  /\ HandlerAt("check")
  /\ \/ running /\ hpc' = "poll" /\ UNCHANGED inbox
     \/ ~running /\ hpc' = "exited" /\ inbox' = <<>>
  /\ UNCHANGED <<fate, running, appVars, registry, requestVars, starts,
                 history>>

\* poll returns false after 250 ms without a datagram.
PollTimeout ==
  /\ HandlerAt("poll") /\ inbox = <<>>
  /\ hpc' = "check"
  /\ UNCHANGED <<fate, running, appVars, registry, inbox, requestVars,
                 starts, history>>

Acceptable(d) == d # SocketError /\ AcceptsBroadcast(d.msg)

\* receiveFrom and the checks of the header.  An exception and a message that
\* fails a check both lead back to the loop condition.
Receive ==
  /\ HandlerAt("poll") /\ inbox # <<>>
  /\ inbox' = Tail(inbox)
  /\ \/ /\ ~Acceptable(Head(inbox))
        /\ hpc' = "check"
        /\ UNCHANGED <<requestVars, floor>>
     \/ /\ Acceptable(Head(inbox))
        /\ hpc' = "query"
        /\ cur' = Head(inbox)
        /\ qi' = 0 /\ at' = 1
        /\ floor' = Len(services)
        /\ UNCHANGED <<query, si, body, scount, upto>>
  /\ UNCHANGED <<fate, running, appVars, registry, starts, sent, arrived>>

-----------------------------------------------------------------------------
\* clientHandler: the loop over the queries of one broadcast.

AtQuery == at \in DOMAIN cur.msg.items /\ cur.msg.items[at] \in Query

\* Slip: the count of the reply before is kept.
TakeQueryCounting(q) ==
  /\ query' = q
  /\ body' = <<>> /\ UNCHANGED scount
  /\ hpc' = "lock"
  /\ UNCHANGED <<qi, si>>

TakeQuery(q) ==
  /\ query' = q
  /\ body' = <<>> /\ scount' = 0
  /\ hpc' = "lock"
  /\ UNCHANGED <<qi, si>>

\* Slip: a while loop whose counter the early continue jumps over.
SkipSectionStuck == at' = 0 /\ UNCHANGED <<qi, hpc, query, si, body, scount>>

\* A byte that is no 'Q' is skipped without moving on: every later turn of the
\* loop looks at the same byte, and at = 0 says so.
SkipSection ==
  /\ qi' = qi + 1 /\ at' = 0
  /\ UNCHANGED <<hpc, query, si, body, scount>>

\* Slip: one turn too many.
OneQueryMore == qi <= cur.msg.count

MoreQueries == qi < cur.msg.count

\* Where no section starts there may still be a 'Q': in the tail of a long
\* filter, or in the bytes after the datagram, which nobody initialised.
QuerySection ==
  /\ HandlerAt("query") /\ MoreQueries
  /\ \/ AtQuery /\ TakeQuery(cur.msg.items[at]) /\ at' = at + 1
     \/ ~AtQuery /\ SkipSection
     \/ ~AtQuery /\ at # 0 /\ at' = at /\ \E q \in Query : TakeQuery(q)
  /\ UNCHANGED <<fate, running, appVars, registry, inbox, cur, upto, starts,
                 history>>

RequestDone ==
  /\ HandlerAt("query") /\ ~MoreQueries
  /\ hpc' = "check"
  /\ cur' = Nothing /\ qi' = 0 /\ at' = 1 /\ query' = Nothing /\ si' = 1
  /\ body' = <<>> /\ scount' = 0 /\ upto' = 0
  /\ UNCHANGED <<fate, running, appVars, registry, inbox, starts, history>>

LockToMatch ==
  /\ HandlerAt("lock") /\ CanLock
  /\ mutex' = Handler
  /\ upto' = Len(services)
  /\ si' = 1
  /\ hpc' = "match"
  /\ UNCHANGED <<fate, running, appVars, services, inbox, cur, qi, at, query,
                 body, scount, starts, history>>

\* Slip: the address of whatever interface comes first.
SectionAnyInterface(e) ==
  IF e.addr # NoAddr THEN {e}
  ELSE {Localised(e, a) : a \in UNION {LocalAddrs[s] : s \in Senders}}

\* What one matching entry adds: a complete record that is counted, or, when
\* its address cannot be resolved, the 'S' already written and no count.
Section(e) ==
  IF e.addr # NoAddr THEN {e}
  ELSE {IF a = NoAddr THEN Loose ELSE Localised(e, a)
          : a \in LocalAddrs[cur.from]}

Counted(n, item) == IF item = Loose THEN n ELSE (n + 1) % 256

MatchEntry ==
  /\ HandlerAt("match") /\ si \in DOMAIN services
  /\ \/ /\ ~Matches(query.filter, services[si])
        /\ UNCHANGED <<body, scount>>
     \/ /\ Matches(query.filter, services[si])
        /\ \E item \in Section(services[si]) :
              /\ body' = Append(body, item)
              /\ scount' = Counted(scount, item)
  /\ si' = si + 1
  /\ UNCHANGED <<fate, running, hpc, appVars, registry, inbox, cur, qi, at,
                 query, upto, starts, history>>

UnlockMatched ==
  /\ HandlerAt("match") /\ si \notin DOMAIN services
  /\ mutex' = Free
  /\ hpc' = "send"
  /\ UNCHANGED <<fate, running, appVars, services, inbox, requestVars, starts,
                 history>>

Answers == [to : Senders, query : Query, upto : Nat, items : Seq(Record),
            count : Byte]

Reply == [to |-> cur.from, query |-> query, upto |-> upto,
          items |-> body, count |-> scount]

\* sendTo throws when the message does not fit a datagram or the network is
\* down, and nothing in the thread catches that.
Send ==
  /\ HandlerAt("send")
  /\ \/ /\ ResponseMessage(body, scount).size <= MaxPayload
        /\ sent' = Append(sent, Reply)
        /\ floor' = upto
        /\ qi' = qi + 1
        /\ hpc' = "query"
        /\ UNCHANGED <<fate, running, appVars, registry, inbox, cur, at, query,
                       si, body, scount, upto, arrived>>
     \/ Terminate("uncaught exception")
  /\ UNCHANGED starts

-----------------------------------------------------------------------------
\* The environment: datagrams reach the socket while it is bound.  Messages
\* that are lost, or find the receive buffer full, do not appear.
Arrive ==
  /\ fate = "up" /\ hpc \in {"announce"} \cup Loop
  /\ Len(arrived) < MaxArrivals
  /\ \E d \in Events :
        /\ inbox' = Append(inbox, d)
        /\ arrived' = Append(arrived, d)
  /\ UNCHANGED <<fate, running, hpc, appVars, registry, requestVars, starts,
                 floor, sent>>

\* main returns or a signal ends the process, wherever its threads are.
End ==
  /\ fate = "up"
  /\ \E why \in Endings : Terminate(why)
  /\ UNCHANGED starts

\* Nothing happens any more in a process that has been terminated.
Gone == fate # "up" /\ UNCHANGED vars

AdderNext(t) ==
  \/ \E e \in Offered : AddService(t, e)
  \/ LockToAdd(t) \/ PushBack(t) \/ UnlockAdded(t)

OwnerNext == StartListener \/ StopListener \/ Join

HandlerNext ==
  \/ Bind \/ SetRunning \/ CheckRunning \/ PollTimeout \/ Receive
  \/ QuerySection \/ RequestDone \/ LockToMatch \/ MatchEntry
  \/ UnlockMatched \/ Send

Next ==
  \/ \E t \in Threads : AdderNext(t)
  \/ OwnerNext
  \/ HandlerNext
  \/ Arrive \/ End
  \/ Gone

Spec == Init /\ [][Next]_vars

\* The operating system keeps scheduling the threads that can run.  When to
\* call the library, and what arrives, is nobody's obligation.
Fairness ==
  /\ WF_vars(HandlerNext)
  /\ WF_vars(Join)
  /\ \A t \in Threads : WF_vars(LockToAdd(t) \/ PushBack(t) \/ UnlockAdded(t))

FairSpec == Spec /\ Fairness

-----------------------------------------------------------------------------
\* Properties.

\* Positions of the handler thread between receiving a request and the end of
\* the loop over its queries.
Busy == {"query", "lock", "match", "send"}

ThreadsTyped ==
  /\ fate \in {"up", "started twice", "nothing to join", "uncaught exception"}
               \cup Endings
  /\ running \in BOOLEAN
  /\ hpc \in {"none", "bind", "announce", "exited"} \cup Loop
  /\ pc \in [Threads -> {"idle", "lock", "push", "unlock", "join"}]
  /\ mutex \in Threads \cup {Handler, Free}
  /\ starts \in Nat

RegistryTyped ==
  /\ services \in Seq(Entry)
  /\ arg \in [Threads -> Entry \cup {Nothing}]
  /\ \A t \in Threads : pc[t] \in {"lock", "push"} => arg[t] # Nothing
  /\ upto \in Nat /\ floor \in Nat

\* A request is at hand exactly while one is being answered, and the loop over
\* its queries stays within the announced count.
RequestTyped ==
  /\ cur \in Datagram \cup {Nothing} /\ (cur # Nothing <=> hpc \in Busy)
  /\ qi \in Byte /\ (cur # Nothing => qi <= cur.msg.count)
  /\ query \in Query \cup {Nothing}
  /\ hpc \in {"lock", "match", "send"} => query # Nothing /\ qi < cur.msg.count
  /\ at \in Nat /\ si \in Nat \ {0}

RepliesTyped ==
  /\ body \in Seq(Record) /\ scount \in Byte
  /\ sent \in Seq(Answers)

SocketTyped ==
  /\ inbox \in Seq(Events)
  /\ arrived \in Seq(Events)

\* Every variable has its type, and what the handler thread has at hand fits
\* the position it is in.
TypeOK ==
  /\ ThreadsTyped /\ RegistryTyped /\ RequestTyped /\ RepliesTyped
  /\ SocketTyped

\* addService and the handler thread never touch services at the same time: a
\* push_back may move the vector the match loop is walking through.
RegistryExclusive ==
  \A t \in Threads : pc[t] = "push" =>
     hpc # "match" /\ \A u \in Threads \ {t} : pc[u] # "push"

\* The flag can be relied on: it is up only while the handler thread is in its
\* loop, it is up whenever the thread is in its loop and nobody is stopping it,
\* and the thread returns only if stopListener waits for it.  So starting twice
\* is refused except in the window before the new thread raises the flag.
FlagTracksHandler ==
  /\ running => hpc \in Loop
  /\ hpc \in Loop /\ pc[Owner] # "join" => running
  /\ hpc = "exited" => pc[Owner] = "join"
  /\ fate = "started twice" => hpc \in {"bind", "announce"}

\* "The others will be filled in if left empty": whoever registered an entry,
\* no record leaves without an address, a host, a name and a port.
RecordsFilledIn ==
  \A k \in DOMAIN sent : \A i \in DOMAIN sent[k].items :
     LET r == sent[k].items[i]
     IN  r # Loose =>
           /\ r.addr # NoAddr /\ r.host # Empty
           /\ r.name # Empty /\ r.port # 0

\* The queries s has sent, and the replies it was sent.
QueriesIn(d, s) ==
  IF d # SocketError /\ d.from = s /\ d.msg.type = Broadcast
  THEN d.msg.count ELSE 0

Requested(ds, s) == SumOf([k \in DOMAIN ds |-> QueriesIn(ds[k], s)])

RepliesTo(s) == Cardinality({k \in DOMAIN sent : sent[k].to = s})

\* A responder answers broadcasts and only them, each query at most once, to
\* whoever sent it: two responders cannot keep each other busy.
AtMostOneReplyPerQuery ==
  \A s \in Senders : RepliesTo(s) <= Requested(arrived, s)

\* What the responder sends is what the client of the same library reads: a
\* reply that fits the client's buffer is taken for complete, record by record,
\* unless a text that was registered has outgrown its length byte.
RepliesAreRead ==
  \A k \in DOMAIN sent :
     LET m == ResponseMessage(sent[k].items, sent[k].count)
     IN  m.size <= BufferSize =>
           (ParseReply(m) = {Outcome(TRUE, m.items)}
              <=> \A i \in DOMAIN m.items : StrBytes[m.items[i].ipv6] < 256)

\* With every requester on a network this host has an address on, the threads,
\* the mutex and the parser together keep the promise of Registry: every reply
\* is the exact picture of the registry at one moment after its request came.
Promise == INSTANCE Registry WITH
  replies <- sent, Requesters <- Senders, Facing <- LocalAddrs

KeepsPromise == Promise!Spec

\* A stop that finds the handler thread in its loop ends it: no request, error
\* or wait for the mutex keeps stopListener from returning.
StopReturns ==
  pc[Owner] = "join" /\ hpc \in Loop /\ ~running
     ~> pc[Owner] = "idle" \/ fate # "up"

\* Whatever arrives, broken or not, is dealt with, so that the requests behind
\* it are too, for as long as the listener is left running.
InboxDrains == inbox # <<>> ~> inbox = <<>> \/ fate # "up"

-----------------------------------------------------------------------------
\* What the repository says of the listener and the code does not do.

\* A call of stopListener returns.
StopAlwaysReturns ==
  pc[Owner] = "join" ~> pc[Owner] = "idle" \/ fate # "up"

\* The count of a reply is the number of sections behind it.
SectionsCounted ==
  \A k \in DOMAIN sent : sent[k].count = Len(sent[k].items)

=============================================================================
