--------------------------- MODULE ListenerProofs ---------------------------
(***************************************************************************)
(* Theorems about Listener, for any number of application threads, any     *)
(* registry and any traffic.                                               *)
(***************************************************************************)
EXTENDS Listener, WireProofs, FiniteSetTheorems

\* The empty sequence belongs to every set of sequences.
LEMMA EmptyIsSeq == \A S : <<>> \in Seq(S)
BY EmptySeq

\* Completing an entry gives an entry with a host.
LEMMA CompletedIsEntry ==
  ASSUME NEW e \in Entry
  PROVE  /\ Completed(e) \in Entry
         /\ Completed(e).host # Empty
         /\ Completed(e).port = e.port /\ Completed(e).name = e.name
         /\ Completed(e).ipv6 = e.ipv6
BY WireAssumption, ListenerAssumption DEF Completed, Entry

\* Giving an entry a local address changes nothing else the requester needs.
LEMMA LocalisedIsEntry ==
  ASSUME NEW e \in Entry, NEW a \in Address
  PROVE  /\ Localised(e, a) \in Entry
         /\ Localised(e, a).addr = a
         /\ Localised(e, a).host = e.host
         /\ Localised(e, a).port = e.port /\ Localised(e, a).name = e.name
         /\ TextFits(Localised(e, a))
<1>1. Localised(e, a) = [e EXCEPT !.addr = a, !.ipv6 = Empty]
  BY DEF Localised
<1>2. Empty \in Strings /\ StrBytes[Empty] = 0 /\ e \in Entry
  BY WireAssumption
<1>3. /\ Localised(e, a) \in Entry /\ Localised(e, a).ipv6 = Empty
      /\ Localised(e, a).addr = a /\ Localised(e, a).host = e.host
      /\ Localised(e, a).port = e.port /\ Localised(e, a).name = e.name
  BY <1>1, <1>2 DEF Entry
<1>4. 0 \in Byte
  BY DEF Byte
<1> QED
  BY <1>2, <1>3, <1>4 DEF TextFits

\* The count field of a datagram is a byte.
LEMMA CountIsByte == ASSUME NEW d \in Datagram PROVE d.msg.count \in Byte
<1>1. d.msg \in Message
  BY ListenerAssumption DEF Datagram
<1> QED
  BY <1>1 DEF Message

\* What a matching entry adds to a reply is a record or a lone 'S'.
LEMMA SectionIsRecord ==
  ASSUME NEW e \in Entry, cur \in Datagram
  PROVE  Section(e) \subseteq Record
<1>1. LocalAddrs[cur.from] \subseteq Address
  BY ListenerAssumption DEF Datagram
<1>2. CASE e.addr # NoAddr
  BY <1>2 DEF Section, Record
<1>3. CASE e.addr = NoAddr
  BY <1>1, <1>3, LocalisedIsEntry DEF Section, Record
<1> QED
  BY <1>2, <1>3

\* The count of a reply stays a byte.
LEMMA CountedIsByte == ASSUME NEW n \in Byte, NEW x PROVE Counted(n, x) \in Byte
BY DEF Counted, Byte

\* What is sent is a well-formed reply.
LEMMA ReplyIsAnswer == TypeOK /\ hpc = "send" => Reply \in Answers
BY DEF TypeOK, ThreadsTyped, RegistryTyped, RequestTyped, RepliesTyped, Reply,
       Answers, Datagram, Busy

-----------------------------------------------------------------------------
\* Every variable keeps its type, and the request at hand stays consistent
\* with the position of the handler thread.
THEOREM TypeCorrect == Spec => []TypeOK
<1> USE ListenerAssumption
<1> USE DEF TypeOK, Loop, Busy, appVars, registry, requestVars, history
<1>1. Init => TypeOK
  <2>1. ASSUME Init PROVE ThreadsTyped
    BY <2>1 DEF Init, ThreadsTyped, Threads
  <2>2. ASSUME Init PROVE RegistryTyped /\ RequestTyped
    BY <2>2 DEF Init, RegistryTyped, RequestTyped, Threads, Byte
  <2>3. ASSUME Init PROVE RepliesTyped /\ SocketTyped
    BY <2>3, EmptyIsSeq DEF Init, RepliesTyped, SocketTyped, Byte
  <2> QED
    BY <2>1, <2>2, <2>3
<1>2. TypeOK /\ [Next]_vars => TypeOK'
  <2>a. SUFFICES ASSUME TypeOK, [Next]_vars
                 PROVE  TypeOK'
    OBVIOUS
  <2>1. ASSUME NEW t \in Threads, NEW e \in Offered, AddService(t, e)
        PROVE  TypeOK'
    <3>1. ThreadsTyped'
      BY <2>a, <2>1 DEF AddService, ThreadsTyped
    <3>2. RegistryTyped'
      BY <2>a, <2>1, CompletedIsEntry DEF AddService, RegistryTyped
    <3>3. RequestTyped'
      BY <2>a, <2>1 DEF AddService, RequestTyped
    <3>4. RepliesTyped'
      BY <2>a, <2>1 DEF AddService, RepliesTyped
    <3>5. SocketTyped'
      BY <2>a, <2>1 DEF AddService, SocketTyped
    <3> QED
      BY <3>1, <3>2, <3>3, <3>4, <3>5
  <2>2. ASSUME NEW t \in Threads, LockToAdd(t)
        PROVE  TypeOK'
    <3>1. ThreadsTyped'
      BY <2>a, <2>2 DEF LockToAdd, ThreadsTyped
    <3>2. RegistryTyped'
      BY <2>a, <2>2 DEF LockToAdd, RegistryTyped
    <3>3. RequestTyped'
      BY <2>a, <2>2 DEF LockToAdd, RequestTyped
    <3>4. RepliesTyped'
      BY <2>a, <2>2 DEF LockToAdd, RepliesTyped
    <3>5. SocketTyped'
      BY <2>a, <2>2 DEF LockToAdd, SocketTyped
    <3> QED
      BY <3>1, <3>2, <3>3, <3>4, <3>5
  <2>3. ASSUME NEW t \in Threads, PushBack(t)
        PROVE  TypeOK'
    <3>1. ThreadsTyped'
      BY <2>a, <2>3 DEF PushBack, ThreadsTyped
    <3>2. RegistryTyped'
      BY <2>a, <2>3 DEF PushBack, RegistryTyped, ThreadsTyped
    <3>3. RequestTyped'
      BY <2>a, <2>3 DEF PushBack, RequestTyped
    <3>4. RepliesTyped'
      BY <2>a, <2>3 DEF PushBack, RepliesTyped
    <3>5. SocketTyped'
      BY <2>a, <2>3 DEF PushBack, SocketTyped
    <3> QED
      BY <3>1, <3>2, <3>3, <3>4, <3>5
  <2>4. ASSUME NEW t \in Threads, UnlockAdded(t)
        PROVE  TypeOK'
    <3>1. ThreadsTyped'
      BY <2>a, <2>4 DEF UnlockAdded, ThreadsTyped
    <3>2. RegistryTyped'
      BY <2>a, <2>4 DEF UnlockAdded, RegistryTyped
    <3>3. RequestTyped'
      BY <2>a, <2>4 DEF UnlockAdded, RequestTyped
    <3>4. RepliesTyped'
      BY <2>a, <2>4 DEF UnlockAdded, RepliesTyped
    <3>5. SocketTyped'
      BY <2>a, <2>4 DEF UnlockAdded, SocketTyped
    <3> QED
      BY <3>1, <3>2, <3>3, <3>4, <3>5
  <2>5. CASE StartListener
    <3>1. ThreadsTyped'
      <4>1. CASE hpc = "none" /\ hpc' = "bind" /\ UNCHANGED fate
        BY <2>a, <2>5, <4>1 DEF StartListener, ThreadsTyped
      <4>2. CASE Terminate("started twice")
        <5>1. fate' = "started twice" /\ UNCHANGED <<running, hpc, pc, mutex>>
          BY <4>2 DEF Terminate
        <5>2. starts \in Nat /\ starts' = starts + 1
          BY <2>a, <2>5 DEF StartListener, ThreadsTyped
        <5>3. starts' \in Nat
          BY <5>2
        <5> QED
          BY <2>a, <5>1, <5>3 DEF ThreadsTyped
      <4> QED
        BY <2>5, <4>1, <4>2 DEF StartListener
    <3>2. RegistryTyped'
      BY <2>a, <2>5 DEF StartListener, Terminate, RegistryTyped
    <3>3. RequestTyped'
      BY <2>a, <2>5 DEF StartListener, Terminate, RequestTyped
    <3>4. RepliesTyped'
      BY <2>a, <2>5 DEF StartListener, Terminate, RepliesTyped
    <3>5. SocketTyped'
      BY <2>a, <2>5 DEF StartListener, Terminate, SocketTyped
    <3> QED
      BY <3>1, <3>2, <3>3, <3>4, <3>5
  <2>6. CASE StopListener
    <3>1. ThreadsTyped'
      BY <2>a, <2>6 DEF StopListener, ThreadsTyped
    <3>2. RegistryTyped'
      BY <2>a, <2>6 DEF StopListener, RegistryTyped
    <3>3. RequestTyped'
      BY <2>a, <2>6 DEF StopListener, RequestTyped
    <3>4. RepliesTyped'
      BY <2>a, <2>6 DEF StopListener, RepliesTyped
    <3>5. SocketTyped'
      BY <2>a, <2>6 DEF StopListener, SocketTyped
    <3> QED
      BY <3>1, <3>2, <3>3, <3>4, <3>5
  <2>7. CASE Join
    <3>1. ThreadsTyped'
      BY <2>a, <2>7 DEF Join, Terminate, ThreadsTyped
    <3>2. RegistryTyped'
      <4>1. UNCHANGED <<services, arg, upto, floor>>
        BY <2>7 DEF Join, Terminate
      <4>2. \A t \in Threads : pc'[t] \in {"lock", "push"} => pc[t] = pc'[t]
        BY <2>a, <2>7 DEF Join, Terminate, ThreadsTyped
      <4> QED
        BY <2>a, <4>1, <4>2 DEF RegistryTyped
    <3>3. RequestTyped'
      BY <2>a, <2>7 DEF Join, Terminate, RequestTyped
    <3>4. RepliesTyped'
      BY <2>a, <2>7 DEF Join, Terminate, RepliesTyped
    <3>5. SocketTyped'
      BY <2>a, <2>7 DEF Join, Terminate, SocketTyped
    <3> QED
      BY <3>1, <3>2, <3>3, <3>4, <3>5
  <2>8. CASE Bind
    <3>1. ThreadsTyped'
      BY <2>a, <2>8 DEF Bind, HandlerAt, Terminate, ThreadsTyped
    <3>2. RegistryTyped'
      BY <2>a, <2>8 DEF Bind, HandlerAt, Terminate, RegistryTyped
    <3>3. RequestTyped'
      BY <2>a, <2>8 DEF Bind, HandlerAt, Terminate, RequestTyped
    <3>4. RepliesTyped'
      BY <2>a, <2>8 DEF Bind, HandlerAt, Terminate, RepliesTyped
    <3>5. SocketTyped'
      BY <2>a, <2>8 DEF Bind, HandlerAt, Terminate, SocketTyped
    <3> QED
      BY <3>1, <3>2, <3>3, <3>4, <3>5
  <2>9. CASE SetRunning
    <3>1. ThreadsTyped'
      BY <2>a, <2>9 DEF SetRunning, HandlerAt, ThreadsTyped
    <3>2. RegistryTyped'
      BY <2>a, <2>9 DEF SetRunning, HandlerAt, RegistryTyped
    <3>3. RequestTyped'
      BY <2>a, <2>9 DEF SetRunning, HandlerAt, RequestTyped
    <3>4. RepliesTyped'
      BY <2>a, <2>9 DEF SetRunning, HandlerAt, RepliesTyped
    <3>5. SocketTyped'
      BY <2>a, <2>9 DEF SetRunning, HandlerAt, SocketTyped
    <3> QED
      BY <3>1, <3>2, <3>3, <3>4, <3>5
  <2>10. CASE CheckRunning
    <3>1. ThreadsTyped'
      BY <2>a, <2>10 DEF CheckRunning, HandlerAt, ThreadsTyped
    <3>2. RegistryTyped'
      BY <2>a, <2>10 DEF CheckRunning, HandlerAt, RegistryTyped
    <3>3. RequestTyped'
      BY <2>a, <2>10 DEF CheckRunning, HandlerAt, RequestTyped
    <3>4. RepliesTyped'
      BY <2>a, <2>10 DEF CheckRunning, HandlerAt, RepliesTyped
    <3>5. SocketTyped'
      BY <2>a, <2>10, EmptyIsSeq DEF CheckRunning, HandlerAt, SocketTyped
    <3> QED
      BY <3>1, <3>2, <3>3, <3>4, <3>5
  <2>11. CASE PollTimeout
    <3>1. ThreadsTyped'
      BY <2>a, <2>11 DEF PollTimeout, HandlerAt, ThreadsTyped
    <3>2. RegistryTyped'
      BY <2>a, <2>11 DEF PollTimeout, HandlerAt, RegistryTyped
    <3>3. RequestTyped'
      BY <2>a, <2>11 DEF PollTimeout, HandlerAt, RequestTyped
    <3>4. RepliesTyped'
      BY <2>a, <2>11 DEF PollTimeout, HandlerAt, RepliesTyped
    <3>5. SocketTyped'
      BY <2>a, <2>11 DEF PollTimeout, HandlerAt, SocketTyped
    <3> QED
      BY <3>1, <3>2, <3>3, <3>4, <3>5
  <2>12. CASE Receive
    <3>1. ThreadsTyped'
      BY <2>a, <2>12 DEF Receive, HandlerAt, ThreadsTyped
    <3>2. RegistryTyped'
      BY <2>a, <2>12 DEF Receive, HandlerAt, RegistryTyped
    <3>3. RequestTyped'
      <4>1. Head(inbox) \in Events
        BY <2>a, <2>12, HeadTailProperties DEF Receive, SocketTyped
      <4>2. CASE ~Acceptable(Head(inbox))
        BY <2>a, <2>12, <4>2 DEF Receive, HandlerAt, RequestTyped
      <4>3. CASE Acceptable(Head(inbox))
        <5>1. Head(inbox) \in Datagram
          BY <4>1, <4>3 DEF Acceptable, Events
        <5>2. Head(inbox) # Nothing /\ 0 <= Head(inbox).msg.count
          BY <5>1, CountIsByte, SMTT(30) DEF Byte
        <5>3. /\ cur' = Head(inbox) /\ qi' = 0 /\ at' = 1 /\ hpc' = "query"
              /\ UNCHANGED <<query, si>>
          BY <2>12, <4>3 DEF Receive
        <5> QED
          BY <2>a, <5>1, <5>2, <5>3 DEF RequestTyped, Byte
      <4> QED
        BY <4>2, <4>3
    <3>4. RepliesTyped'
      BY <2>a, <2>12 DEF Receive, HandlerAt, RepliesTyped
    <3>5. SocketTyped'
      BY <2>a, <2>12 DEF Receive, HandlerAt, SocketTyped
    <3> QED
      BY <3>1, <3>2, <3>3, <3>4, <3>5
  <2>13. CASE QuerySection
    <3>1. ThreadsTyped'
      BY <2>a, <2>13 DEF QuerySection, HandlerAt, TakeQuery, SkipSection, AtQuery, MoreQueries, ThreadsTyped
    <3>2. RegistryTyped'
      BY <2>a, <2>13 DEF QuerySection, HandlerAt, TakeQuery, SkipSection, RegistryTyped
    <3>3. RequestTyped'
      <4>1. cur \in Datagram /\ cur # Nothing /\ cur' = cur /\ qi < cur.msg.count
        BY <2>a, <2>13
        DEF QuerySection, HandlerAt, MoreQueries, RequestTyped
      <4>2. ASSUME NEW q \in Query, TakeQuery(q), at' \in {at, at + 1}
            PROVE  RequestTyped'
        BY <2>a, <4>1, <4>2 DEF TakeQuery, RequestTyped
      <4>3. ASSUME SkipSection PROVE RequestTyped'
        <5>1. qi + 1 \in Byte /\ qi + 1 <= cur.msg.count
          BY <2>a, <4>1, CountIsByte, SMTT(30) DEF RequestTyped, Byte
        <5>2. hpc' = "query" /\ hpc = "query"
          BY <2>13, <4>3 DEF SkipSection, QuerySection, HandlerAt
        <5> QED
          BY <2>a, <4>1, <4>3, <5>1, <5>2 DEF SkipSection, RequestTyped
      <4> QED
        BY <2>13, <4>2, <4>3 DEF QuerySection, AtQuery
    <3>4. RepliesTyped'
      <4>1. UNCHANGED <<body, scount>> \/ (body' = <<>> /\ scount' = 0)
        BY <2>13 DEF QuerySection, TakeQuery, SkipSection
      <4>2. body' \in Seq(Record) /\ scount' \in Byte
        <5>1. <<>> \in Seq(Record) /\ 0 \in Byte
          BY EmptyIsSeq DEF Byte
        <5> QED
          BY <2>a, <4>1, <5>1 DEF RepliesTyped
      <4>3. UNCHANGED sent
        BY <2>13 DEF QuerySection
      <4> QED
        BY <2>a, <4>2, <4>3 DEF RepliesTyped
    <3>5. SocketTyped'
      BY <2>a, <2>13 DEF QuerySection, HandlerAt, TakeQuery, SkipSection, SocketTyped
    <3> QED
      BY <3>1, <3>2, <3>3, <3>4, <3>5
  <2>14. CASE RequestDone
    <3>1. ThreadsTyped'
      BY <2>a, <2>14 DEF RequestDone, HandlerAt, ThreadsTyped
    <3>2. RegistryTyped'
      BY <2>a, <2>14 DEF RequestDone, HandlerAt, RegistryTyped
    <3>3. RequestTyped'
      BY <2>a, <2>14 DEF RequestDone, HandlerAt, RequestTyped, Byte
    <3>4. RepliesTyped'
      BY <2>a, <2>14, EmptyIsSeq DEF RequestDone, RepliesTyped, Byte
    <3>5. SocketTyped'
      BY <2>a, <2>14 DEF RequestDone, HandlerAt, SocketTyped
    <3> QED
      BY <3>1, <3>2, <3>3, <3>4, <3>5
  <2>15. CASE LockToMatch
    <3>1. ThreadsTyped'
      BY <2>a, <2>15 DEF LockToMatch, HandlerAt, ThreadsTyped
    <3>2. RegistryTyped'
      BY <2>a, <2>15 DEF LockToMatch, HandlerAt, RegistryTyped
    <3>3. RequestTyped'
      BY <2>a, <2>15 DEF LockToMatch, HandlerAt, RequestTyped
    <3>4. RepliesTyped'
      BY <2>a, <2>15 DEF LockToMatch, HandlerAt, RepliesTyped
    <3>5. SocketTyped'
      BY <2>a, <2>15 DEF LockToMatch, HandlerAt, SocketTyped
    <3> QED
      BY <3>1, <3>2, <3>3, <3>4, <3>5
  <2>16. CASE MatchEntry
    <3>1. ThreadsTyped'
      BY <2>a, <2>16 DEF MatchEntry, HandlerAt, ThreadsTyped
    <3>2. RegistryTyped'
      BY <2>a, <2>16 DEF MatchEntry, HandlerAt, RegistryTyped
    <3>3. RequestTyped'
      BY <2>a, <2>16 DEF MatchEntry, HandlerAt, RequestTyped
    <3>4. RepliesTyped'
      <4>1. cur \in Datagram /\ services[si] \in Entry
        BY <2>a, <2>16
        DEF MatchEntry, HandlerAt, RequestTyped, RegistryTyped
      <4>2. ASSUME NEW x \in Section(services[si])
            PROVE  Append(body, x) \in Seq(Record) /\ Counted(scount, x) \in Byte
        BY <2>a, <4>1, <4>2, SectionIsRecord, CountedIsByte DEF RepliesTyped
      <4> QED
        BY <2>a, <2>16, <4>2 DEF MatchEntry, RepliesTyped
    <3>5. SocketTyped'
      BY <2>a, <2>16 DEF MatchEntry, HandlerAt, SocketTyped
    <3> QED
      BY <3>1, <3>2, <3>3, <3>4, <3>5
  <2>17. CASE UnlockMatched
    <3>1. ThreadsTyped'
      BY <2>a, <2>17 DEF UnlockMatched, HandlerAt, ThreadsTyped
    <3>2. RegistryTyped'
      BY <2>a, <2>17 DEF UnlockMatched, HandlerAt, RegistryTyped
    <3>3. RequestTyped'
      BY <2>a, <2>17 DEF UnlockMatched, HandlerAt, RequestTyped
    <3>4. RepliesTyped'
      BY <2>a, <2>17 DEF UnlockMatched, HandlerAt, RepliesTyped
    <3>5. SocketTyped'
      BY <2>a, <2>17 DEF UnlockMatched, HandlerAt, SocketTyped
    <3> QED
      BY <3>1, <3>2, <3>3, <3>4, <3>5
  <2>18. CASE Send
    <3>1. ThreadsTyped'
      BY <2>a, <2>18 DEF Send, HandlerAt, Terminate, ThreadsTyped
    <3>2. RegistryTyped'
      BY <2>a, <2>18 DEF Send, HandlerAt, Terminate, RegistryTyped
    <3>3. RequestTyped'
      <4>1. CASE UNCHANGED requestVars /\ UNCHANGED hpc
        BY <2>a, <4>1 DEF RequestTyped
      <4>2. CASE qi' = qi + 1 /\ hpc' = "query" /\ UNCHANGED <<cur, at, query, si>>
        <5>1. cur \in Datagram /\ cur # Nothing /\ qi < cur.msg.count
          BY <2>a, <2>18 DEF Send, HandlerAt, RequestTyped
        <5>2. qi + 1 \in Byte /\ qi + 1 <= cur.msg.count
          BY <2>a, <5>1, CountIsByte, SMTT(30) DEF RequestTyped, Byte
        <5> QED
          BY <2>a, <4>2, <5>1, <5>2 DEF RequestTyped
      <4> QED
        BY <2>18, <4>1, <4>2 DEF Send, Terminate
    <3>4. RepliesTyped'
      <4>1. Reply \in Answers
        BY <2>a, <2>18, ReplyIsAnswer DEF Send, HandlerAt
      <4>2. sent' \in {sent, Append(sent, Reply)} /\ UNCHANGED <<body, scount>>
        BY <2>18 DEF Send, Terminate
      <4> QED
        BY <2>a, <4>1, <4>2 DEF RepliesTyped
    <3>5. SocketTyped'
      BY <2>a, <2>18 DEF Send, HandlerAt, Terminate, SocketTyped
    <3> QED
      BY <3>1, <3>2, <3>3, <3>4, <3>5
  <2>19. CASE Arrive
    <3>1. ThreadsTyped'
      BY <2>a, <2>19 DEF Arrive, ThreadsTyped
    <3>2. RegistryTyped'
      BY <2>a, <2>19 DEF Arrive, RegistryTyped
    <3>3. RequestTyped'
      BY <2>a, <2>19 DEF Arrive, RequestTyped
    <3>4. RepliesTyped'
      BY <2>a, <2>19 DEF Arrive, RepliesTyped
    <3>5. SocketTyped'
      BY <2>a, <2>19 DEF Arrive, SocketTyped
    <3> QED
      BY <3>1, <3>2, <3>3, <3>4, <3>5
  <2>20. CASE UNCHANGED vars
    BY <2>a, <2>20, ZenonT(60) DEF vars, ThreadsTyped, RegistryTyped, RequestTyped,
                    RepliesTyped, SocketTyped
  <2>21. CASE End
    <3>1. ThreadsTyped'
      BY <2>a, <2>21 DEF End, Terminate, ThreadsTyped
    <3>2. RegistryTyped'
      BY <2>a, <2>21 DEF End, Terminate, RegistryTyped
    <3>3. RequestTyped'
      BY <2>a, <2>21 DEF End, Terminate, RequestTyped
    <3>4. RepliesTyped'
      BY <2>a, <2>21 DEF End, Terminate, RepliesTyped
    <3>5. SocketTyped'
      BY <2>a, <2>21 DEF End, Terminate, SocketTyped
    <3> QED
      BY <3>1, <3>2, <3>3, <3>4, <3>5
  <2> QED
    BY <2>a, <2>1, <2>2, <2>3, <2>4, <2>5, <2>6, <2>7, <2>8, <2>9, <2>10, <2>11, <2>12, <2>13, <2>14, <2>15, <2>16, <2>17, <2>18, <2>19, <2>20, <2>21
    DEF Next, AdderNext, OwnerNext, HandlerNext, Gone
<1> QED
  BY <1>1, <1>2, PTL DEF Spec

-----------------------------------------------------------------------------
\* Who holds servicesMutex, by the positions of the threads.
LockInv ==
  /\ mutex = Handler <=> hpc = "match"
  /\ \A t \in Threads : mutex = t <=> pc[t] \in {"push", "unlock"}

\* The mutex is where the threads' positions say it is.
LEMMA LockIsHeld == Spec => []LockInv
<1> USE ListenerAssumption
<1> USE DEF ThreadsTyped, Loop, appVars, registry, requestVars, history
<1>1. Init => LockInv
  BY DEF Init, LockInv
<1>2. TypeOK /\ LockInv /\ [Next]_vars => LockInv'
  <2>a. SUFFICES ASSUME TypeOK /\ LockInv, [Next]_vars
                 PROVE  LockInv'
    OBVIOUS
  <2>1. ASSUME NEW t \in Threads, NEW e \in Offered, AddService(t, e)
        PROVE  LockInv'
    BY <2>a, <2>1
    DEF AddService, LockInv, TypeOK
  <2>2. ASSUME NEW t \in Threads, LockToAdd(t)
        PROVE  LockInv'
    BY <2>a, <2>2
    DEF LockToAdd, CanLock, LockInv, TypeOK
  <2>3. ASSUME NEW t \in Threads, PushBack(t)
        PROVE  LockInv'
    BY <2>a, <2>3
    DEF PushBack, LockInv, TypeOK
  <2>4. ASSUME NEW t \in Threads, UnlockAdded(t)
        PROVE  LockInv'
    BY <2>a, <2>4
    DEF UnlockAdded, LockInv, TypeOK
  <2>5. CASE StartListener
    BY <2>a, <2>5
    DEF StartListener, Terminate, LockInv, TypeOK
  <2>6. CASE StopListener
    BY <2>a, <2>6
    DEF StopListener, LockInv, TypeOK
  <2>7. CASE Join
    BY <2>a, <2>7
    DEF Join, Terminate, LockInv, TypeOK
  <2>8. CASE Bind
    BY <2>a, <2>8
    DEF Bind, HandlerAt, Terminate, LockInv, TypeOK
  <2>9. CASE SetRunning
    BY <2>a, <2>9
    DEF SetRunning, HandlerAt, LockInv, TypeOK
  <2>10. CASE CheckRunning
    BY <2>a, <2>10
    DEF CheckRunning, HandlerAt, LockInv, TypeOK
  <2>11. CASE PollTimeout
    BY <2>a, <2>11
    DEF PollTimeout, HandlerAt, LockInv, TypeOK
  <2>12. CASE Receive
    BY <2>a, <2>12
    DEF Receive, HandlerAt, LockInv, TypeOK
  <2>13. CASE QuerySection
    BY <2>a, <2>13
    DEF QuerySection, HandlerAt, TakeQuery, SkipSection, LockInv, TypeOK
  <2>14. CASE RequestDone
    BY <2>a, <2>14
    DEF RequestDone, HandlerAt, LockInv, TypeOK
  <2>15. CASE LockToMatch
    BY <2>a, <2>15
    DEF LockToMatch, HandlerAt, CanLock, LockInv, TypeOK
  <2>16. CASE MatchEntry
    BY <2>a, <2>16
    DEF MatchEntry, HandlerAt, LockInv, TypeOK
  <2>17. CASE UnlockMatched
    BY <2>a, <2>17
    DEF UnlockMatched, HandlerAt, LockInv, TypeOK
  <2>18. CASE Send
    BY <2>a, <2>18
    DEF Send, HandlerAt, Terminate, LockInv, TypeOK
  <2>19. CASE Arrive
    BY <2>a, <2>19
    DEF Arrive, LockInv, TypeOK
  <2>20. CASE UNCHANGED vars
    BY <2>a, <2>20 DEF vars, LockInv, TypeOK
  <2>21. CASE End
    BY <2>a, <2>21 DEF End, Terminate, LockInv, TypeOK
  <2> QED
    BY <2>a, <2>1, <2>2, <2>3, <2>4, <2>5, <2>6, <2>7, <2>8, <2>9, <2>10,
       <2>11, <2>12, <2>13, <2>14, <2>15, <2>16, <2>17, <2>18, <2>19,
       <2>20, <2>21
    DEF Next, AdderNext, OwnerNext, HandlerNext, Gone
<1> QED
  BY <1>1, <1>2, TypeCorrect, PTL DEF Spec

\* The registry is never used by two threads at once, however many threads add
\* services: the push_back of addService and the match loop exclude each other.
THEOREM MutualExclusion == Spec => []RegistryExclusive
<1>1. TypeOK /\ LockInv => RegistryExclusive
  BY ListenerAssumption DEF LockInv, RegistryExclusive, TypeOK, ThreadsTyped
<1> QED
  BY <1>1, LockIsHeld, TypeCorrect, PTL

\* NyanSD::running can be relied on in every interleaving of startListener,
\* stopListener and the handler thread.
THEOREM FlagIsReliable == Spec => []FlagTracksHandler
<1> USE ListenerAssumption
<1> USE DEF ThreadsTyped, Loop, Threads, appVars, registry, requestVars, history
<1>1. Init => FlagTracksHandler
  BY DEF Init, FlagTracksHandler
<1>2. TypeOK /\ FlagTracksHandler /\ [Next]_vars => FlagTracksHandler'
  <2>a. SUFFICES ASSUME TypeOK /\ FlagTracksHandler, [Next]_vars
                 PROVE  FlagTracksHandler'
    OBVIOUS
  <2>1. ASSUME NEW t \in Threads, NEW e \in Offered, AddService(t, e)
        PROVE  FlagTracksHandler'
    BY <2>a, <2>1
    DEF AddService, FlagTracksHandler, TypeOK
  <2>2. ASSUME NEW t \in Threads, LockToAdd(t)
        PROVE  FlagTracksHandler'
    BY <2>a, <2>2
    DEF LockToAdd, FlagTracksHandler, TypeOK
  <2>3. ASSUME NEW t \in Threads, PushBack(t)
        PROVE  FlagTracksHandler'
    BY <2>a, <2>3
    DEF PushBack, FlagTracksHandler, TypeOK
  <2>4. ASSUME NEW t \in Threads, UnlockAdded(t)
        PROVE  FlagTracksHandler'
    BY <2>a, <2>4
    DEF UnlockAdded, FlagTracksHandler, TypeOK
  <2>5. CASE StartListener
    <3>1. CASE hpc = "none" /\ hpc' = "bind" /\ UNCHANGED <<fate, running, pc>>
      BY <2>a, <2>5, <3>1 DEF StartListener, FlagTracksHandler
    <3>2. CASE hpc # "none" /\ Terminate("started twice")
      <4>1. hpc \in {"bind", "announce"}
        BY <2>a, <2>5, <3>2 DEF StartListener, FlagTracksHandler, TypeOK
      <4>2. UNCHANGED <<running, hpc, pc>>
        BY <3>2 DEF Terminate
      <4> QED
        BY <2>a, <4>1, <4>2 DEF FlagTracksHandler
    <3> QED
      BY <2>5, <3>1, <3>2 DEF StartListener
  <2>6. CASE StopListener
    BY <2>a, <2>6
    DEF StopListener, FlagTracksHandler, TypeOK
  <2>7. CASE Join
    <3>1. CASE hpc = "exited"
      BY <2>a, <2>7, <3>1 DEF Join, Terminate, FlagTracksHandler, TypeOK
    <3>2. CASE Terminate("nothing to join")
      <4>1. fate' # "started twice" /\ UNCHANGED <<running, hpc, pc>>
        BY <3>2 DEF Terminate
      <4> QED
        BY <2>a, <4>1 DEF FlagTracksHandler
    <3> QED
      BY <2>7, <3>1, <3>2 DEF Join
  <2>8. CASE Bind
    <3>1. CASE hpc' = "announce" /\ UNCHANGED <<fate, running, pc>>
      BY <2>a, <2>8, <3>1 DEF Bind, HandlerAt, FlagTracksHandler
    <3>2. CASE Terminate("uncaught exception")
      <4>1. fate' # "started twice" /\ UNCHANGED <<running, hpc, pc>>
        BY <3>2 DEF Terminate
      <4> QED
        BY <2>a, <4>1 DEF FlagTracksHandler
    <3> QED
      BY <2>8, <3>1, <3>2 DEF Bind
  <2>9. CASE SetRunning
    BY <2>a, <2>9
    DEF SetRunning, HandlerAt, FlagTracksHandler, TypeOK
  <2>10. CASE CheckRunning
    BY <2>a, <2>10
    DEF CheckRunning, HandlerAt, FlagTracksHandler, TypeOK
  <2>11. CASE PollTimeout
    BY <2>a, <2>11
    DEF PollTimeout, HandlerAt, FlagTracksHandler, TypeOK
  <2>12. CASE Receive
    BY <2>a, <2>12
    DEF Receive, HandlerAt, FlagTracksHandler, TypeOK
  <2>13. CASE QuerySection
    BY <2>a, <2>13
    DEF QuerySection, HandlerAt, TakeQuery, SkipSection, FlagTracksHandler,
        TypeOK
  <2>14. CASE RequestDone
    BY <2>a, <2>14
    DEF RequestDone, HandlerAt, FlagTracksHandler, TypeOK
  <2>15. CASE LockToMatch
    BY <2>a, <2>15
    DEF LockToMatch, HandlerAt, FlagTracksHandler, TypeOK
  <2>16. CASE MatchEntry
    BY <2>a, <2>16
    DEF MatchEntry, HandlerAt, FlagTracksHandler, TypeOK
  <2>17. CASE UnlockMatched
    BY <2>a, <2>17
    DEF UnlockMatched, HandlerAt, FlagTracksHandler, TypeOK
  <2>18. CASE Send
    BY <2>a, <2>18
    DEF Send, HandlerAt, Terminate, FlagTracksHandler, TypeOK
  <2>19. CASE Arrive
    BY <2>a, <2>19
    DEF Arrive, FlagTracksHandler, TypeOK
  <2>20. CASE UNCHANGED vars
    BY <2>a, <2>20 DEF vars, FlagTracksHandler, TypeOK
  <2>21. CASE End
    <3>1. UNCHANGED <<running, hpc, pc>>
      BY <2>21 DEF End, Terminate
    <3>2. fate' \in Endings
      BY <2>21 DEF End, Terminate
    <3>3. fate' # "started twice"
      BY <3>2, EndingsAssumption
    <3> QED
      BY <2>a, <3>1, <3>3 DEF FlagTracksHandler
  <2> QED
    BY <2>a, <2>1, <2>2, <2>3, <2>4, <2>5, <2>6, <2>7, <2>8, <2>9, <2>10,
       <2>11, <2>12, <2>13, <2>14, <2>15, <2>16, <2>17, <2>18, <2>19,
       <2>20, <2>21
    DEF Next, AdderNext, OwnerNext, HandlerNext, Gone
<1> QED
  BY <1>1, <1>2, TypeCorrect, PTL DEF Spec

-----------------------------------------------------------------------------
\* No IPv6 text that is registered is longer than its field in a reply.
ShortTexts == \A e \in Offered : TextFits(e)

\* An entry that lacks nothing but perhaps its address, and a piece of a reply
\* that lacks nothing.  Neither has a long text if none was registered.
Filled(e) == /\ e.host # Empty /\ e.name # Empty /\ e.port # 0
             /\ ShortTexts => TextFits(e)

Ready(r) == r # Loose => Filled(r) /\ r.addr # NoAddr

\* From addService to the wire nothing incomplete is kept anywhere.
FilledInv ==
  /\ \A t \in Threads : pc[t] \in {"lock", "push"} => Filled(arg[t])
  /\ \A j \in DOMAIN services : Filled(services[j])
  /\ \A i \in DOMAIN body : Ready(body[i])
  /\ \A k \in DOMAIN sent : \A i \in DOMAIN sent[k].items :
        Ready(sent[k].items[i])

\* What a complete entry contributes to a reply is complete.
LEMMA SectionIsReady ==
  ASSUME NEW e \in Entry, Filled(e), cur \in Datagram, NEW x \in Section(e)
  PROVE  Ready(x)
<1>1. LocalAddrs[cur.from] \subseteq Address
  BY ListenerAssumption DEF Datagram
<1>2. CASE e.addr # NoAddr
  BY <1>2 DEF Section, Ready
<1>3. CASE e.addr = NoAddr
  <2>1. PICK a \in LocalAddrs[cur.from] :
           x = IF a = NoAddr THEN Loose ELSE Localised(e, a)
    BY <1>3 DEF Section
  <2> QED
    BY <1>1, <2>1, LocalisedIsEntry DEF Ready, Filled
<1> QED
  BY <1>2, <1>3

\* What the threads pass on to each other and to the wire stays complete.
LEMMA AlwaysFilled == Spec => []FilledInv
<1> USE ListenerAssumption
<1> USE DEF Loop, appVars, registry, requestVars, history
<1>1. Init => FilledInv
  BY DEF Init, FilledInv
<1>2. TypeOK /\ FilledInv /\ [Next]_vars => FilledInv'
  <2>a. SUFFICES ASSUME TypeOK /\ FilledInv, [Next]_vars
                 PROVE  FilledInv'
    OBVIOUS
  <2>1. ASSUME NEW t \in Threads, NEW e \in Offered, AddService(t, e)
        PROVE  FilledInv'
    <3>1. Completed(e) \in Entry /\ Filled(Completed(e))
      <4>1. e \in Entry /\ e.port # 0 /\ e.name # Empty
        BY <2>1 DEF AddService, ValidEntry
      <4>2. /\ Completed(e) \in Entry /\ Completed(e).host # Empty
            /\ Completed(e).port # 0 /\ Completed(e).name # Empty
            /\ Completed(e).ipv6 = e.ipv6
        BY <4>1, CompletedIsEntry
      <4>3. ShortTexts => TextFits(Completed(e))
        BY <4>2 DEF ShortTexts, TextFits
      <4> QED
        BY <4>2, <4>3 DEF Filled
    <3>2. /\ pc' = [pc EXCEPT ![t] = "lock"]
          /\ arg' = [arg EXCEPT ![t] = Completed(e)]
          /\ UNCHANGED <<services, body, sent>>
      BY <2>1 DEF AddService
    <3> QED
      BY <2>a, <3>1, <3>2 DEF FilledInv, TypeOK, ThreadsTyped, RegistryTyped
  <2>2. ASSUME NEW t \in Threads, LockToAdd(t)
        PROVE  FilledInv'
    BY <2>a, <2>2 DEF LockToAdd, FilledInv, TypeOK, ThreadsTyped
  <2>3. ASSUME NEW t \in Threads, PushBack(t)
        PROVE  FilledInv'
    <3>1. /\ pc' = [pc EXCEPT ![t] = "unlock"]
          /\ arg' = [arg EXCEPT ![t] = Nothing]
          /\ services' = Append(services, arg[t])
          /\ pc[t] = "push" /\ UNCHANGED <<body, sent>>
      BY <2>3 DEF PushBack
    <3>2. \A u \in Threads : pc'[u] \in {"lock", "push"} => Filled(arg'[u])
      BY <2>a, <3>1 DEF FilledInv, TypeOK, ThreadsTyped, RegistryTyped
    <3>3. \A j \in DOMAIN services' : Filled(services'[j])
      <4>1. Filled(arg[t]) /\ arg[t] \in Entry /\ services \in Seq(Entry)
        BY <2>a, <3>1 DEF FilledInv, TypeOK, RegistryTyped
      <4> QED
        BY <2>a, <3>1, <4>1 DEF FilledInv
    <3> QED
      BY <2>a, <3>1, <3>2, <3>3 DEF FilledInv
  <2>4. ASSUME NEW t \in Threads, UnlockAdded(t)
        PROVE  FilledInv'
    BY <2>a, <2>4 DEF UnlockAdded, FilledInv, TypeOK, ThreadsTyped
  <2>5. CASE StartListener
    <3>1. UNCHANGED <<pc, arg, services, body, sent>>
      BY <2>5 DEF StartListener, Terminate
    <3> QED
      BY <2>a, <3>1 DEF FilledInv
  <2>6. CASE StopListener
    BY <2>a, <2>6 DEF StopListener, FilledInv, TypeOK, ThreadsTyped
  <2>7. CASE Join
    <3>1. UNCHANGED <<arg, services, body, sent>>
      BY <2>7 DEF Join, Terminate
    <3>2. \A t \in Threads : pc'[t] \in {"lock", "push"} => pc'[t] = pc[t]
      BY <2>a, <2>7 DEF Join, Terminate, TypeOK, ThreadsTyped
    <3> QED
      BY <2>a, <3>1, <3>2 DEF FilledInv
  <2>8. CASE Bind
    <3>1. UNCHANGED <<pc, arg, services, body, sent>>
      BY <2>8 DEF Bind, Terminate
    <3> QED
      BY <2>a, <3>1 DEF FilledInv
  <2>9. CASE SetRunning
    BY <2>a, <2>9
    DEF SetRunning, HandlerAt, FilledInv
  <2>10. CASE CheckRunning
    BY <2>a, <2>10
    DEF CheckRunning, HandlerAt, FilledInv
  <2>11. CASE PollTimeout
    BY <2>a, <2>11
    DEF PollTimeout, HandlerAt, FilledInv
  <2>12. CASE Receive
    BY <2>a, <2>12
    DEF Receive, HandlerAt, FilledInv
  <2>13. CASE QuerySection
    <3>1. body' \in {body, <<>>} /\ UNCHANGED <<pc, arg, services, sent>>
      BY <2>13 DEF QuerySection, TakeQuery, SkipSection
    <3> QED
      BY <2>a, <3>1 DEF FilledInv
  <2>14. CASE RequestDone
    BY <2>a, <2>14
    DEF RequestDone, HandlerAt, FilledInv
  <2>15. CASE LockToMatch
    BY <2>a, <2>15
    DEF LockToMatch, HandlerAt, FilledInv
  <2>16. CASE MatchEntry
    <3>1. UNCHANGED <<pc, arg, services, sent>>
      BY <2>16 DEF MatchEntry
    <3>2. cur \in Datagram /\ services[si] \in Entry /\ Filled(services[si])
      <4>1. cur \in Datagram
        BY <2>a, <2>16 DEF MatchEntry, HandlerAt, TypeOK, RequestTyped, Busy
      <4>2. si \in DOMAIN services /\ services \in Seq(Entry)
        BY <2>a, <2>16 DEF MatchEntry, TypeOK, RegistryTyped
      <4> QED
        BY <2>a, <4>1, <4>2 DEF FilledInv
    <3>3. CASE UNCHANGED body
      BY <2>a, <3>1, <3>3 DEF FilledInv
    <3>4. ASSUME NEW x \in Section(services[si]), body' = Append(body, x)
          PROVE  FilledInv'
      <4>1. Ready(x) /\ body \in Seq(Record)
        BY <2>a, <3>2, SectionIsReady DEF TypeOK, RepliesTyped
      <4>2. \A i \in DOMAIN body' : Ready(body'[i])
        BY <2>a, <3>4, <4>1 DEF FilledInv
      <4> QED
        BY <2>a, <3>1, <4>2 DEF FilledInv
    <3> QED
      BY <2>16, <3>3, <3>4 DEF MatchEntry
  <2>17. CASE UnlockMatched
    BY <2>a, <2>17
    DEF UnlockMatched, HandlerAt, FilledInv
  <2>18. CASE Send
    <3>1. UNCHANGED <<pc, arg, services, body>>
      BY <2>18 DEF Send, Terminate
    <3>2. CASE UNCHANGED sent
      BY <2>a, <3>1, <3>2 DEF FilledInv
    <3>3. CASE sent' = Append(sent, Reply)
      <4>1. sent \in Seq(Answers) /\ Reply.items = body
        BY <2>a DEF TypeOK, RepliesTyped, Reply
      <4>2. Reply \in Answers
        BY <2>a, <2>18, ReplyIsAnswer DEF Send, HandlerAt
      <4>3. ASSUME NEW k \in DOMAIN sent'
            PROVE  \/ sent'[k] = Reply
                   \/ k \in DOMAIN sent /\ sent'[k] = sent[k]
        BY <3>3, <4>1, <4>2, <4>3
      <4> QED
        BY <2>a, <3>1, <4>1, <4>3 DEF FilledInv
    <3> QED
      BY <2>18, <3>2, <3>3 DEF Send, Terminate
  <2>19. CASE Arrive
    BY <2>a, <2>19
    DEF Arrive, FilledInv
  <2>20. CASE UNCHANGED vars
    BY <2>a, <2>20 DEF vars, FilledInv
  <2>21. CASE End
    <3>1. UNCHANGED <<pc, arg, services, body, sent>>
      BY <2>21 DEF End, Terminate
    <3> QED
      BY <2>a, <3>1 DEF FilledInv
  <2> QED
    BY <2>a, <2>1, <2>2, <2>3, <2>4, <2>5, <2>6, <2>7, <2>8, <2>9, <2>10,
       <2>11, <2>12, <2>13, <2>14, <2>15, <2>16, <2>17, <2>18, <2>19,
       <2>20, <2>21
    DEF Next, AdderNext, OwnerNext, HandlerNext, Gone
<1> QED
  BY <1>1, <1>2, TypeCorrect, PTL DEF Spec

\* No record ever leaves with a field that was left for the library to fill in.
THEOREM RecordsAreFilledIn == Spec => []RecordsFilledIn
<1>1. FilledInv => RecordsFilledIn
  BY DEF FilledInv, RecordsFilledIn, Ready, Filled
<1> QED
  BY <1>1, AlwaysFilled, PTL

-----------------------------------------------------------------------------
\* What s may still be sent for the request at hand, and the counts of the
\* requests of s in a sequence of datagrams.
Open(s) ==
  IF cur # Nothing /\ cur.from = s THEN cur.msg.count - qi ELSE 0

CountsOf(ds, s) == [k \in DOMAIN ds |-> QueriesIn(ds[k], s)]

\* Every reply is paid for by a query, and so is every one still to come: what
\* waits in the socket and what is left of the request at hand is counted with
\* the replies that were sent.
Budget ==
  \A s \in Senders :
     RepliesTo(s) + Open(s) + Requested(inbox, s) <= Requested(arrived, s)

LEMMA QueriesAreNat == ASSUME NEW d \in Events, NEW s PROVE QueriesIn(d, s) \in Nat
<1>1. CASE d = SocketError
  BY <1>1 DEF QueriesIn
<1>2. CASE d # SocketError
  <2>1. d \in Datagram
    BY <1>2 DEF Events
  <2>2. d.msg.count \in Nat
    BY <2>1, CountIsByte DEF Byte
  <2> QED
    BY <2>2 DEF QueriesIn
<1> QED
  BY <1>1, <1>2

LEMMA CountsAreSeq ==
  ASSUME NEW ds \in Seq(Events), NEW s
  PROVE  CountsOf(ds, s) \in Seq(Nat) /\ Len(CountsOf(ds, s)) = Len(ds)
<1>1. \A k \in 1..Len(ds) : QueriesIn(ds[k], s) \in Nat
  BY QueriesAreNat
<1>2. CountsOf(ds, s) = [k \in 1..Len(ds) |-> QueriesIn(ds[k], s)]
  BY DEF CountsOf
<1>3. Len(ds) \in Nat
  OBVIOUS
<1> QED
  BY <1>1, <1>2, <1>3

LEMMA RequestedIsNat ==
  ASSUME NEW ds \in Seq(Events), NEW s PROVE Requested(ds, s) \in Nat
BY CountsAreSeq, SumIsNat DEF Requested, CountsOf

LEMMA RequestedNothing == ASSUME NEW s PROVE Requested(<<>>, s) = 0
<1>1. [k \in DOMAIN <<>> |-> QueriesIn(<<>>[k], s)] = <<>>
  OBVIOUS
<1> QED
  BY <1>1, SumOfNothing DEF Requested

\* What arrives adds its queries.
LEMMA RequestedAppend ==
  ASSUME NEW ds \in Seq(Events), NEW d \in Events, NEW s
  PROVE  Requested(Append(ds, d), s) = Requested(ds, s) + QueriesIn(d, s)
<1> DEFINE v == CountsOf(Append(ds, d), s)
           w == Append(CountsOf(ds, s), QueriesIn(d, s))
<1>1. /\ Append(ds, d) \in Seq(Events) /\ Len(Append(ds, d)) = Len(ds) + 1
      /\ Append(ds, d)[Len(ds) + 1] = d
      /\ \A k \in 1..Len(ds) : Append(ds, d)[k] = ds[k]
      /\ Len(ds) \in Nat
  OBVIOUS
<1>2. v \in Seq(Nat) /\ Len(v) = Len(ds) + 1
  BY <1>1, CountsAreSeq
<1>3. w \in Seq(Nat) /\ Len(w) = Len(ds) + 1
  BY <1>1, CountsAreSeq, QueriesAreNat
<1>4. ASSUME NEW k \in 1..Len(ds) + 1 PROVE v[k] = w[k]
  <2>1. v[k] = QueriesIn(Append(ds, d)[k], s)
    BY <1>1, <1>4 DEF CountsOf
  <2>2. CASE k = Len(ds) + 1
    <3>1. Len(CountsOf(ds, s)) = Len(ds) /\ CountsOf(ds, s) \in Seq(Nat)
      BY CountsAreSeq
    <3>2. w[k] = QueriesIn(d, s)
      BY <2>2, <3>1, AppendProperties, QueriesAreNat
    <3> QED
      BY <1>1, <2>1, <2>2, <3>2
  <2>3. CASE k \in 1..Len(ds)
    <3>1. Len(CountsOf(ds, s)) = Len(ds) /\ CountsOf(ds, s) \in Seq(Nat)
      BY CountsAreSeq
    <3>2. w[k] = CountsOf(ds, s)[k]
      BY <2>3, <3>1, AppendProperties, QueriesAreNat
    <3>3. CountsOf(ds, s)[k] = QueriesIn(ds[k], s)
      BY <2>3 DEF CountsOf
    <3> QED
      BY <1>1, <2>1, <2>3, <3>2, <3>3
  <2>4. k = Len(ds) + 1 \/ k \in 1..Len(ds)
    <3>1. Len(ds) \in Nat /\ k \in 1..Len(ds) + 1
      BY <1>1, <1>4
    <3> HIDE DEF v, w
    <3> QED
      BY <3>1
  <2> QED
    BY <2>2, <2>3, <2>4
<1> HIDE DEF v, w
<1>5. v = w
  BY <1>2, <1>3, <1>4, SeqEqual
<1> QED
  BY <1>5, CountsAreSeq, QueriesAreNat, SumOfAppend DEF v, w, Requested, CountsOf

\* What is received takes its queries out of the socket.
LEMMA RequestedTail ==
  ASSUME NEW ds \in Seq(Events), ds # <<>>, NEW s
  PROVE  Requested(ds, s) = QueriesIn(Head(ds), s) + Requested(Tail(ds), s)
<1> DEFINE c == CountsOf(ds, s)
           v == CountsOf(Tail(ds), s)
<1>1. /\ Len(ds) \in Nat /\ Len(ds) > 0 /\ Head(ds) = ds[1]
      /\ Tail(ds) \in Seq(Events) /\ Len(Tail(ds)) = Len(ds) - 1
      /\ \A k \in 1..Len(Tail(ds)) : Tail(ds)[k] = ds[k + 1]
  OBVIOUS
<1>2. c \in Seq(Nat) /\ Len(c) = Len(ds)
  BY CountsAreSeq
<1>3. v \in Seq(Nat) /\ Len(v) = Len(ds) - 1
  BY <1>1, CountsAreSeq
<1>4. c # <<>> /\ c[1] = QueriesIn(Head(ds), s)
  <2>1. 1 \in DOMAIN ds
    BY <1>1
  <2> QED
    BY <1>1, <1>2, <2>1 DEF CountsOf
<1>5. ASSUME NEW k \in 1..Len(ds) - 1 PROVE v[k] = c[k + 1]
  <2>1. k \in DOMAIN Tail(ds) /\ k + 1 \in DOMAIN ds
    BY <1>1, <1>5
  <2> QED
    BY <1>1, <1>5, <2>1 DEF CountsOf
<1> HIDE DEF c, v
<1>6. v = Tail(c)
  <2>1. /\ Tail(c) \in Seq(Nat) /\ Len(Tail(c)) = Len(ds) - 1
        /\ \A k \in 1..Len(ds) - 1 : Tail(c)[k] = c[k + 1]
    BY <1>2, <1>4
  <2> QED
    BY <1>3, <1>5, <2>1, SeqEqual
<1>7. SumOf(c) = c[1] + SumOf(Tail(c))
  BY <1>2, <1>4, SumOfTail
<1> QED
  BY <1>4, <1>6, <1>7 DEF c, v, Requested, CountsOf

LEMMA RepliesToIsNat ==
  ASSUME sent \in Seq(Answers), NEW s
  PROVE  IsFiniteSet({k \in DOMAIN sent : sent[k].to = s}) /\ RepliesTo(s) \in Nat
<1>1. IsFiniteSet(1..Len(sent))
  BY FS_Interval
<1>2. {k \in DOMAIN sent : sent[k].to = s} \in SUBSET (1..Len(sent))
  OBVIOUS
<1> QED
  BY <1>1, <1>2, FS_Subset, FS_CardinalityType DEF RepliesTo

\* One more reply is one more to whoever it goes to.
LEMMA RepliesAfter ==
  ASSUME sent \in Seq(Answers), NEW r \in Answers, sent' = Append(sent, r), NEW s
  PROVE  RepliesTo(s)' = RepliesTo(s) + (IF r.to = s THEN 1 ELSE 0)
<1> DEFINE n == Len(sent)
           K == {k \in 1..n : sent[k].to = s}
           L == {k \in 1..n + 1 : sent'[k].to = s}
<1>1. /\ n \in Nat /\ Len(sent') = n + 1 /\ sent'[n + 1] = r
      /\ \A k \in 1..n : sent'[k] = sent[k]
      /\ DOMAIN sent = 1..n /\ DOMAIN sent' = 1..n + 1
  OBVIOUS
<1>2. RepliesTo(s) = Cardinality(K) /\ RepliesTo(s)' = Cardinality(L)
  BY <1>1 DEF RepliesTo
<1>3. IsFiniteSet(K) /\ Cardinality(K) \in Nat
  BY <1>1, <1>2, RepliesToIsNat
<1>4. n + 1 \notin K
  BY <1>1
<1>5. 1..n + 1 = (1..n) \cup {n + 1}
  BY <1>1
<1>6. L = IF r.to = s THEN K \cup {n + 1} ELSE K
  BY <1>1, <1>5
<1> HIDE DEF K, L, n
<1>7. Cardinality(L) = Cardinality(K) + (IF r.to = s THEN 1 ELSE 0)
  <2>1. CASE r.to = s
    BY <1>3, <1>4, <1>6, <2>1, FS_AddElement
  <2>2. CASE r.to # s
    BY <1>3, <1>6, <2>2
  <2> QED
    BY <2>1, <2>2
<1> QED
  BY <1>2, <1>7

\* The request at hand promises what is left of its count.
LEMMA OpenIsNat ==
  ASSUME TypeOK, NEW s
  PROVE  /\ Open(s) \in Nat
         /\ cur # Nothing /\ cur.from = s => cur.msg.count - qi \in Nat
<1>1. CASE cur # Nothing
  <2>1. /\ cur \in Datagram /\ qi \in Nat /\ qi <= cur.msg.count
    BY <1>1 DEF TypeOK, RequestTyped, Byte
  <2>2. cur.msg.count \in Nat
    BY <2>1, CountIsByte DEF Byte
  <2> QED
    BY <2>1, <2>2 DEF Open
<1>2. CASE cur = Nothing
  BY <1>2 DEF Open
<1> QED
  BY <1>1, <1>2

\* All terms of the budget are numbers.
LEMMA BudgetTerms ==
  ASSUME TypeOK, NEW s
  PROVE  /\ RepliesTo(s) \in Nat /\ Open(s) \in Nat
         /\ Requested(inbox, s) \in Nat /\ Requested(arrived, s) \in Nat
BY RepliesToIsNat, OpenIsNat, RequestedIsNat
   DEF TypeOK, RepliesTyped, SocketTyped

\* Steps that neither receive, nor answer, nor finish a request.
LEMMA BudgetFrame ==
  ASSUME Budget, UNCHANGED <<sent, inbox, arrived, cur, qi>>
  PROVE  Budget'
BY DEF Budget, RepliesTo, Open

\* receiveFrom: the queries of the datagram are what may be answered next, or
\* they are dropped with it.
LEMMA ReceiveKeepsBudget == ASSUME TypeOK, Budget, Receive PROVE Budget'
<1> USE DEF requestVars
<1>1. /\ inbox \in Seq(Events) /\ inbox # <<>> /\ inbox' = Tail(inbox)
      /\ UNCHANGED <<sent, arrived>> /\ cur = Nothing
  BY DEF Receive, HandlerAt, TypeOK, SocketTyped, RequestTyped, Busy
<1> SUFFICES ASSUME NEW s \in Senders
             PROVE  RepliesTo(s)' + Open(s)' + Requested(inbox, s)'
                      <= Requested(arrived, s)'
  BY DEF Budget
<1> DEFINE d == Head(inbox)
<1>2. d \in Events /\ Tail(inbox) \in Seq(Events)
  BY <1>1
<1>3. /\ RepliesTo(s)' = RepliesTo(s)
      /\ Requested(arrived, s)' = Requested(arrived, s)
      /\ Requested(inbox, s)' = Requested(Tail(inbox), s)
  BY <1>1 DEF RepliesTo
<1>4. Requested(inbox, s) = QueriesIn(d, s) + Requested(Tail(inbox), s)
  BY <1>1, RequestedTail
<1>5. Open(s)' <= QueriesIn(d, s) /\ Open(s)' \in Nat /\ QueriesIn(d, s) \in Nat
  <2>1. QueriesIn(d, s) \in Nat
    BY <1>2, QueriesAreNat
  <2>2. CASE cur' = Nothing
    BY <2>1, <2>2 DEF Open
  <2>3. CASE cur' # Nothing
    <3>1. Acceptable(d) /\ cur' = d /\ qi' = 0
      BY <1>1, <2>3 DEF Receive
    <3>2. d # SocketError /\ d.msg.type = Broadcast /\ d \in Datagram
      BY <1>2, <3>1 DEF Acceptable, AcceptsBroadcast, Events
    <3>3. d.msg.count \in Nat
      BY <3>2, CountIsByte DEF Byte
    <3> HIDE DEF d
    <3>4. Open(s)' = IF d.from = s THEN d.msg.count - 0 ELSE 0
      BY <2>3, <3>1 DEF Open
    <3> QED
      BY <2>1, <3>2, <3>3, <3>4 DEF QueriesIn
  <2> QED
    BY <2>2, <2>3
<1>6. RepliesTo(s) + Open(s) + Requested(inbox, s) <= Requested(arrived, s)
  BY DEF Budget
<1>7. Requested(Tail(inbox), s) \in Nat
  BY <1>2, RequestedIsNat
<1>8. Open(s) = 0
  BY <1>1 DEF Open
<1> HIDE DEF d
<1> QED
  BY <1>3, <1>4, <1>5, <1>6, <1>7, <1>8, BudgetTerms

\* Send: one query less to answer, one reply more.
LEMMA SendKeepsBudget == ASSUME TypeOK, Budget, Send PROVE Budget'
<1> USE DEF requestVars, history
<1>1. CASE Terminate("uncaught exception")
  BY <1>1, BudgetFrame DEF Terminate
<1>2. CASE /\ sent' = Append(sent, Reply) /\ qi' = qi + 1
           /\ UNCHANGED <<inbox, arrived, cur>>
  <2>1. hpc = "send" /\ sent \in Seq(Answers) /\ Reply \in Answers
    BY ReplyIsAnswer DEF Send, HandlerAt, TypeOK, RepliesTyped
  <2>2. /\ cur # Nothing /\ cur \in Datagram /\ qi < cur.msg.count
        /\ qi \in Nat
    BY <2>1 DEF TypeOK, RequestTyped, Busy, Byte
  <2>3. cur.msg.count \in Nat
    BY <2>2, CountIsByte DEF Byte
  <2> SUFFICES ASSUME NEW s \in Senders
               PROVE  RepliesTo(s)' + Open(s)' + Requested(inbox, s)'
                        <= Requested(arrived, s)'
    BY DEF Budget
  <2>4. RepliesTo(s)' = RepliesTo(s) + (IF cur.from = s THEN 1 ELSE 0)
    <3>1. Reply.to = cur.from
      BY DEF Reply
    <3> HIDE DEF Reply
    <3> QED
      BY <1>2, <2>1, <3>1, RepliesAfter
  <2>5. Open(s)' = Open(s) - (IF cur.from = s THEN 1 ELSE 0)
    BY <1>2, <2>2, <2>3 DEF Open
  <2>6. /\ Requested(inbox, s)' = Requested(inbox, s)
        /\ Requested(arrived, s)' = Requested(arrived, s)
    BY <1>2
  <2>7. RepliesTo(s) + Open(s) + Requested(inbox, s) <= Requested(arrived, s)
    BY DEF Budget
  <2> QED
    BY <2>4, <2>5, <2>6, <2>7, BudgetTerms
<1> QED
  BY <1>1, <1>2 DEF Send

\* The request at hand is given up, or one query of it is.
LEMMA LessIsOpen ==
  ASSUME TypeOK, Budget, UNCHANGED <<sent, inbox, arrived>>,
         \A s \in Senders : Open(s)' \in Nat /\ Open(s)' <= Open(s)
  PROVE  Budget'
<1> SUFFICES ASSUME NEW s \in Senders
             PROVE  RepliesTo(s)' + Open(s)' + Requested(inbox, s)'
                      <= Requested(arrived, s)'
  BY DEF Budget
<1>1. /\ Requested(inbox, s)' = Requested(inbox, s)
      /\ Requested(arrived, s)' = Requested(arrived, s)
      /\ RepliesTo(s)' = RepliesTo(s)
  BY DEF RepliesTo
<1>2. RepliesTo(s) + Open(s) + Requested(inbox, s) <= Requested(arrived, s)
  BY DEF Budget
<1>3. Open(s)' \in Nat /\ Open(s)' <= Open(s)
  OBVIOUS
<1> QED
  BY <1>1, <1>2, <1>3, BudgetTerms

LEMMA QueryKeepsBudget == ASSUME TypeOK, Budget, QuerySection PROVE Budget'
<1>1. /\ UNCHANGED <<sent, inbox, arrived, cur>> /\ qi' \in {qi, qi + 1}
      /\ cur # Nothing /\ cur \in Datagram /\ qi < cur.msg.count /\ qi \in Nat
  <2>1. UNCHANGED <<sent, inbox, arrived, cur>> /\ qi' \in {qi, qi + 1}
    BY DEF QuerySection, TakeQuery, SkipSection, history
  <2>2. hpc = "query" /\ qi < cur.msg.count
    BY DEF QuerySection, HandlerAt, MoreQueries
  <2> QED
    BY <2>1, <2>2 DEF TypeOK, RequestTyped, Busy, Byte
<1>2. cur.msg.count \in Nat
  BY <1>1, CountIsByte DEF Byte
<1>3. \A s \in Senders : Open(s)' \in Nat /\ Open(s)' <= Open(s)
  BY <1>1, <1>2 DEF Open
<1> QED
  BY <1>1, <1>3, LessIsOpen

LEMMA DoneKeepsBudget == ASSUME TypeOK, Budget, RequestDone PROVE Budget'
<1>1. UNCHANGED <<sent, inbox, arrived>> /\ cur' = Nothing
  BY DEF RequestDone, history
<1>2. \A s \in Senders : Open(s)' = 0 /\ Open(s) \in Nat
  BY <1>1, OpenIsNat DEF Open
<1>3. \A s \in Senders : Open(s)' \in Nat /\ Open(s)' <= Open(s)
  BY <1>2
<1> QED
  BY <1>1, <1>3, LessIsOpen

\* On return the socket is closed with what it holds.
LEMMA CheckKeepsBudget == ASSUME TypeOK, Budget, CheckRunning PROVE Budget'
<1> USE DEF requestVars, history
<1>1. CASE UNCHANGED inbox
  BY <1>1, BudgetFrame DEF CheckRunning
<1>2. CASE inbox' = <<>>
  <2>1. UNCHANGED <<sent, arrived, cur, qi>>
    BY DEF CheckRunning
  <2> SUFFICES ASSUME NEW s \in Senders
               PROVE  RepliesTo(s)' + Open(s)' + Requested(inbox, s)'
                        <= Requested(arrived, s)'
    BY DEF Budget
  <2>2. /\ Requested(inbox, s)' = 0
        /\ Requested(arrived, s)' = Requested(arrived, s)
        /\ RepliesTo(s)' = RepliesTo(s) /\ Open(s)' = Open(s)
    BY <1>2, <2>1, RequestedNothing DEF RepliesTo, Open
  <2>3. RepliesTo(s) + Open(s) + Requested(inbox, s) <= Requested(arrived, s)
    BY DEF Budget
  <2> QED
    BY <2>2, <2>3, BudgetTerms
<1> QED
  BY <1>1, <1>2 DEF CheckRunning

LEMMA ArriveKeepsBudget == ASSUME TypeOK, Budget, Arrive PROVE Budget'
<1>1. PICK d \in Events : inbox' = Append(inbox, d) /\ arrived' = Append(arrived, d)
  BY DEF Arrive
<1>2. UNCHANGED <<sent, cur, qi>> /\ inbox \in Seq(Events) /\ arrived \in Seq(Events)
  BY DEF Arrive, requestVars, TypeOK, SocketTyped
<1> SUFFICES ASSUME NEW s \in Senders
             PROVE  RepliesTo(s)' + Open(s)' + Requested(inbox, s)'
                      <= Requested(arrived, s)'
  BY DEF Budget
<1>3. /\ RepliesTo(s)' = RepliesTo(s) /\ Open(s)' = Open(s)
      /\ Requested(inbox, s)' = Requested(inbox', s)
      /\ Requested(arrived, s)' = Requested(arrived', s)
  BY <1>2 DEF RepliesTo, Open, Requested, QueriesIn
<1>4. /\ Requested(inbox', s) = Requested(inbox, s) + QueriesIn(d, s)
      /\ Requested(arrived', s) = Requested(arrived, s) + QueriesIn(d, s)
  BY <1>1, <1>2, RequestedAppend
<1>5. RepliesTo(s) + Open(s) + Requested(inbox, s) <= Requested(arrived, s)
  BY DEF Budget
<1> QED
  BY <1>3, <1>4, <1>5, BudgetTerms, QueriesAreNat

\* Two responders cannot keep each other busy: only broadcasts are answered,
\* and each query of one at most once, to whoever sent it.
THEOREM OneReplyPerQuery == Spec => []AtMostOneReplyPerQuery
<1> USE DEF appVars, registry, requestVars, history
<1>1. Init => Budget
  <2> SUFFICES ASSUME Init, NEW s \in Senders
               PROVE  RepliesTo(s) + Open(s) + Requested(inbox, s)
                        <= Requested(arrived, s)
    BY DEF Budget
  <2>1. {k \in DOMAIN sent : sent[k].to = s} = {} /\ Open(s) = 0
    BY DEF Init, Open
  <2>2. RepliesTo(s) = 0
    BY <2>1, FS_EmptySet DEF RepliesTo
  <2>3. Requested(inbox, s) = 0 /\ Requested(arrived, s) = 0
    BY RequestedNothing DEF Init
  <2> QED
    BY <2>1, <2>2, <2>3
<1>2. TypeOK /\ Budget /\ [Next]_vars => Budget'
  <2>a. SUFFICES ASSUME TypeOK, Budget, [Next]_vars PROVE Budget'
    OBVIOUS
  <2>1. ASSUME NEW t \in Threads, NEW e \in Offered, AddService(t, e) PROVE Budget'
    BY <2>a, <2>1, BudgetFrame DEF AddService
  <2>2. ASSUME NEW t \in Threads, LockToAdd(t) PROVE Budget'
    BY <2>a, <2>2, BudgetFrame DEF LockToAdd
  <2>3. ASSUME NEW t \in Threads, PushBack(t) PROVE Budget'
    BY <2>a, <2>3, BudgetFrame DEF PushBack
  <2>4. ASSUME NEW t \in Threads, UnlockAdded(t) PROVE Budget'
    BY <2>a, <2>4, BudgetFrame DEF UnlockAdded
  <2>5. CASE StartListener
    BY <2>a, <2>5, BudgetFrame DEF StartListener, Terminate
  <2>6. CASE StopListener
    BY <2>a, <2>6, BudgetFrame DEF StopListener
  <2>7. CASE Join
    BY <2>a, <2>7, BudgetFrame DEF Join, Terminate
  <2>8. CASE Bind
    BY <2>a, <2>8, BudgetFrame DEF Bind, Terminate
  <2>9. CASE SetRunning
    BY <2>a, <2>9, BudgetFrame DEF SetRunning
  <2>10. CASE CheckRunning
    BY <2>a, <2>10, CheckKeepsBudget
  <2>11. CASE PollTimeout
    BY <2>a, <2>11, BudgetFrame DEF PollTimeout
  <2>12. CASE Receive
    BY <2>a, <2>12, ReceiveKeepsBudget
  <2>13. CASE QuerySection
    BY <2>a, <2>13, QueryKeepsBudget
  <2>14. CASE RequestDone
    BY <2>a, <2>14, DoneKeepsBudget
  <2>15. CASE LockToMatch
    BY <2>a, <2>15, BudgetFrame DEF LockToMatch
  <2>16. CASE MatchEntry
    BY <2>a, <2>16, BudgetFrame DEF MatchEntry
  <2>17. CASE UnlockMatched
    BY <2>a, <2>17, BudgetFrame DEF UnlockMatched
  <2>18. CASE Send
    BY <2>a, <2>18, SendKeepsBudget
  <2>19. CASE Arrive
    BY <2>a, <2>19, ArriveKeepsBudget
  <2>20. CASE UNCHANGED vars
    BY <2>a, <2>20, BudgetFrame DEF vars
  <2>21. CASE End
    BY <2>a, <2>21, BudgetFrame DEF End, Terminate
  <2> QED
    BY <2>a, <2>1, <2>2, <2>3, <2>4, <2>5, <2>6, <2>7, <2>8, <2>9, <2>10,
       <2>11, <2>12, <2>13, <2>14, <2>15, <2>16, <2>17, <2>18, <2>19,
       <2>20, <2>21
    DEF Next, AdderNext, OwnerNext, HandlerNext, Gone
<1>3. TypeOK /\ Budget => AtMostOneReplyPerQuery
  <2> SUFFICES ASSUME TypeOK, Budget, NEW s \in Senders
               PROVE  RepliesTo(s) <= Requested(arrived, s)
    BY DEF AtMostOneReplyPerQuery
  <2>1. RepliesTo(s) + Open(s) + Requested(inbox, s) <= Requested(arrived, s)
    BY DEF Budget
  <2> QED
    BY <2>1, BudgetTerms
<1> QED
  BY <1>1, <1>2, <1>3, TypeCorrect, PTL DEF Spec

-----------------------------------------------------------------------------
\* Every requester is on a network this host has an address on.
OnLink == \A s \in Senders : NoAddr \notin LocalAddrs[s]

\* The entries among the first n that the query at hand asks for, and the reply
\* being built when exactly those have been answered.
Asked(n) == {j \in 1..n : Promise!Wanted(query.filter, services[j])}

Covers(n) ==
  /\ \A i \in DOMAIN body : \E j \in Asked(n) :
        Promise!StandsFor(body[i], services[j], cur.from)
  /\ \A j \in Asked(n) : \E i \in DOMAIN body :
        Promise!StandsFor(body[i], services[j], cur.from)
  /\ Len(body) = Cardinality(Asked(n))

\* What the handler thread has built so far, by its position.  While it holds
\* the mutex nothing is added, so the registry it walks through is the one it
\* locked; what is added later does not change the first upto entries.
AnswerInv ==
  /\ scount = Len(body) % 256
  /\ hpc = "lock" => body = <<>>
  /\ floor <= Len(services)
  /\ hpc \in {"match", "send"} => floor <= upto /\ upto <= Len(services)
  /\ hpc = "match" =>
        upto = Len(services) /\ si <= upto + 1 /\ Covers(si - 1)
  /\ hpc = "send" => Covers(upto)

\* Entries on their way into the registry were offered and are valid.
PendingInv ==
  \A t \in Threads : pc[t] \in {"lock", "push"} =>
     \E e \in Offered : ValidEntry(e) /\ arg[t] = Completed(e)

LEMMA AskedIsFinite ==
  ASSUME NEW n \in Nat
  PROVE  IsFiniteSet(Asked(n)) /\ Cardinality(Asked(n)) \in Nat
<1>1. IsFiniteSet(1..n)
  BY FS_Interval
<1>2. Asked(n) \in SUBSET (1..n)
  BY DEF Asked
<1> QED
  BY <1>1, <1>2, FS_Subset, FS_CardinalityType

\* One more entry is asked for or it is not.
LEMMA AskedStep ==
  ASSUME NEW n \in Nat
  PROVE  /\ Promise!Wanted(query.filter, services[n + 1]) =>
              /\ Asked(n + 1) = Asked(n) \cup {n + 1}
              /\ Cardinality(Asked(n + 1)) = Cardinality(Asked(n)) + 1
         /\ ~Promise!Wanted(query.filter, services[n + 1]) =>
              Asked(n + 1) = Asked(n)
<1>1. Promise!Wanted(query.filter, services[n + 1]) =>
        Asked(n + 1) = Asked(n) \cup {n + 1}
  BY DEF Asked
<1>2. ~Promise!Wanted(query.filter, services[n + 1]) => Asked(n + 1) = Asked(n)
  BY DEF Asked
<1>3. n + 1 \notin Asked(n)
  BY DEF Asked
<1> QED
  BY <1>1, <1>2, <1>3, AskedIsFinite, FS_AddElement

\* An empty reply answers for no entries.
LEMMA CoversNothing == body = <<>> => Covers(0)
<1>1. Asked(0) = {}
  BY DEF Asked
<1> QED
  BY <1>1, FS_EmptySet DEF Covers

\* The code's test of a filter is the one the promise is about.
LEMMA MatchIsWanted ==
  ASSUME NEW f, NEW e PROVE Matches(f, e) <=> Promise!Wanted(f, e)
BY DEF Matches, Promise!Wanted

\* On link, what an entry adds stands for it and is counted.
LEMMA SectionStandsFor ==
  ASSUME OnLink, NEW e \in Entry, cur \in Datagram, NEW x \in Section(e),
         Loose \notin Entry
  PROVE  x \in Entry /\ x # Loose /\ Promise!StandsFor(x, e, cur.from)
<1>1. LocalAddrs[cur.from] \subseteq Address /\ NoAddr \notin LocalAddrs[cur.from]
  BY ListenerAssumption DEF Datagram, OnLink
<1>2. CASE e.addr # NoAddr
  BY <1>2 DEF Section, Promise!StandsFor
<1>3. CASE e.addr = NoAddr
  <2>1. PICK a \in LocalAddrs[cur.from] : x = Localised(e, a)
    BY <1>1, <1>3 DEF Section
  <2>2. Promise!StandsFor(x, e, cur.from)
    BY <1>3, <2>1 DEF Localised, Promise!StandsFor
  <2> QED
    BY <1>1, <2>1, <2>2, LocalisedIsEntry
<1> QED
  BY <1>2, <1>3

\* Steps that touch neither the reply being built nor what it depends on.
LEMMA AnswerFrame ==
  ASSUME AnswerInv,
         UNCHANGED <<services, floor, upto, body, scount, query, cur, si>>,
         hpc' = hpc \/ hpc' \notin {"lock", "match", "send"}
  PROVE  AnswerInv'
BY DEF AnswerInv, Covers, Asked

\* A byte that wraps counts modulo 256.
LEMMA CountWraps == \A n \in Nat : ((n % 256) + 1) % 256 = (n + 1) % 256
OBVIOUS

\* One turn of the match loop keeps the reply in step with the registry.
LEMMA MatchKeepsAnswer ==
  ASSUME OnLink, TypeOK, AnswerInv, MatchEntry
  PROVE  AnswerInv'
<1> DEFINE n == si - 1
<1> USE DEF history, requestVars, registry
<1>1. /\ hpc = "match" /\ si \in 1..Len(services) /\ si' = si + 1
      /\ UNCHANGED <<services, floor, upto, query, cur, hpc>>
  BY DEF MatchEntry, HandlerAt, TypeOK, RegistryTyped
<1>2. /\ n \in Nat /\ n + 1 = si /\ Covers(n)
      /\ upto = Len(services) /\ floor <= upto
      /\ scount = Len(body) % 256
  BY <1>1 DEF AnswerInv, TypeOK, RegistryTyped
<1>3. /\ services \in Seq(Entry) /\ services[si] \in Entry
      /\ body \in Seq(Record)
  BY <1>1 DEF TypeOK, RegistryTyped, RepliesTyped
<1>4. cur \in Datagram
  BY <1>1 DEF TypeOK, RequestTyped, Busy
<1> DEFINE Answered ==
      /\ scount' = Len(body') % 256
      /\ \A i \in DOMAIN body' : \E j \in Asked(si) :
            Promise!StandsFor(body'[i], services[j], cur.from)
      /\ \A j \in Asked(si) : \E i \in DOMAIN body' :
            Promise!StandsFor(body'[i], services[j], cur.from)
      /\ Len(body') = Cardinality(Asked(si))
<1>5. ASSUME ~Matches(query.filter, services[si]), UNCHANGED <<body, scount>>
      PROVE  Answered
  <2>1. Asked(si) = Asked(n)
    BY <1>2, <1>5, MatchIsWanted, AskedStep
  <2> QED
    BY <1>2, <1>5, <2>1 DEF Covers
<1>6. ASSUME Matches(query.filter, services[si]),
             NEW x \in Section(services[si]),
             body' = Append(body, x), scount' = Counted(scount, x)
      PROVE  Answered
  <2>1. /\ x \in Entry /\ x # Loose
        /\ Promise!StandsFor(x, services[si], cur.from)
    BY <1>3, <1>4, SectionStandsFor, WireAssumption
  <2>2. /\ Asked(si) = Asked(n) \cup {si}
        /\ Cardinality(Asked(si)) = Cardinality(Asked(n)) + 1
    BY <1>2, <1>6, MatchIsWanted, AskedStep
  <2>3. /\ Len(body) \in Nat /\ Len(body') = Len(body) + 1
        /\ DOMAIN body = 1..Len(body) /\ DOMAIN body' = 1..(Len(body) + 1)
        /\ body'[Len(body) + 1] = x
        /\ \A i \in DOMAIN body : body'[i] = body[i]
    BY <1>3, <1>6, <2>1 DEF Record
  <2>4. scount' = Len(body') % 256
    BY <1>2, <1>6, <2>1, <2>3, CountWraps DEF Counted
  <2>5. ASSUME NEW i \in DOMAIN body'
        PROVE  \E j \in Asked(si) :
                  Promise!StandsFor(body'[i], services[j], cur.from)
    <3>1. CASE i \in DOMAIN body
      BY <1>2, <2>2, <2>3, <3>1 DEF Covers
    <3>2. CASE i = Len(body) + 1
      BY <2>1, <2>2, <2>3, <3>2
    <3> QED
      BY <2>3, <2>5, <3>1, <3>2
  <2>6. ASSUME NEW j \in Asked(si)
        PROVE  \E i \in DOMAIN body' :
                  Promise!StandsFor(body'[i], services[j], cur.from)
    <3>1. CASE j \in Asked(n)
      <4>1. PICK i \in DOMAIN body :
               Promise!StandsFor(body[i], services[j], cur.from)
        BY <1>2, <3>1 DEF Covers
      <4> QED
        BY <2>3, <4>1
    <3>2. CASE j = si
      BY <2>1, <2>3, <3>2
    <3> QED
      BY <2>2, <3>1, <3>2
  <2>7. Len(body') = Cardinality(Asked(si))
    BY <1>2, <2>2, <2>3 DEF Covers
  <2> QED
    BY <2>4, <2>5, <2>6, <2>7
<1>7. Answered
  BY <1>5, <1>6 DEF MatchEntry
<1>8. Covers(si - 1)'
  <2>1. Asked(si - 1)' = Asked(si)
    BY <1>1, <1>2 DEF Asked
  <2> QED
    BY <1>1, <1>7, <2>1 DEF Covers
<1> QED
  <2> HIDE DEF Answered
  <2>1. scount' = Len(body') % 256
    BY <1>7 DEF Answered
  <2>2. Len(services) \in Nat /\ floor \in Nat /\ upto \in Nat
    BY <1>3 DEF TypeOK, RegistryTyped
  <2> QED
    BY <1>1, <1>2, <1>8, <2>1, <2>2 DEF AnswerInv

\* An entry added while a reply waits to be sent changes nothing about it.
LEMMA PushKeepsAnswer ==
  ASSUME TypeOK, LockInv, AnswerInv, NEW t \in Threads, PushBack(t)
  PROVE  AnswerInv'
<1> USE DEF requestVars, history
<1>1. /\ pc[t] = "push" /\ services' = Append(services, arg[t])
      /\ UNCHANGED <<hpc, floor, upto, body, scount, query, cur, si>>
  BY DEF PushBack
<1>2. hpc # "match"
  BY <1>1, ListenerAssumption DEF LockInv
<1>3. services \in Seq(Entry) /\ arg[t] \in Entry /\ upto \in Nat /\ floor \in Nat
  BY <1>1 DEF TypeOK, RegistryTyped
<1>4. /\ Len(services') = Len(services) + 1 /\ Len(services) \in Nat
      /\ \A j \in 1..Len(services) : services'[j] = services[j]
  BY <1>1, <1>3
<1>5. ASSUME hpc = "send" PROVE Covers(upto)'
  <2>1. upto <= Len(services) /\ Covers(upto)
    BY <1>5 DEF AnswerInv
  <2>2. \A j \in 1..upto : services'[j] = services[j]
    BY <1>3, <1>4, <2>1
  <2>3. Asked(upto)' = Asked(upto)
    BY <1>1, <2>2 DEF Asked
  <2>4. \A j \in Asked(upto) : services'[j] = services[j]
    BY <2>2 DEF Asked
  <2>5. ASSUME NEW i \in DOMAIN body
        PROVE  \E j \in Asked(upto) :
                  Promise!StandsFor(body[i], services'[j], cur.from)
    <3>1. PICK j \in Asked(upto) :
             Promise!StandsFor(body[i], services[j], cur.from)
      BY <2>1 DEF Covers
    <3> QED
      BY <2>4, <3>1
  <2>6. ASSUME NEW j \in Asked(upto)
        PROVE  \E i \in DOMAIN body :
                  Promise!StandsFor(body[i], services'[j], cur.from)
    <3>1. services'[j] = services[j]
      BY <2>4
    <3> QED
      BY <2>1, <3>1 DEF Covers
  <2>7. Len(body) = Cardinality(Asked(upto))
    BY <2>1 DEF Covers
  <2> QED
    BY <1>1, <2>3, <2>5, <2>6, <2>7 DEF Covers
<1> QED
  BY <1>1, <1>2, <1>3, <1>4, <1>5 DEF AnswerInv

\* The handler thread builds the picture of the registry it locked.
LEMMA AnswersAreBuilt == ASSUME OnLink PROVE Spec => []AnswerInv
<1> USE DEF appVars, registry, requestVars, history
<1>1. Init => AnswerInv
  BY DEF Init, AnswerInv
<1>2. TypeOK /\ LockInv /\ AnswerInv /\ [Next]_vars => AnswerInv'
  <2>a. SUFFICES ASSUME TypeOK /\ LockInv /\ AnswerInv, [Next]_vars
                 PROVE  AnswerInv'
    OBVIOUS
  <2>1. ASSUME NEW t \in Threads, NEW e \in Offered, AddService(t, e)
        PROVE  AnswerInv'
    BY <2>a, <2>1, AnswerFrame DEF AddService
  <2>2. ASSUME NEW t \in Threads, LockToAdd(t)
        PROVE  AnswerInv'
    BY <2>a, <2>2, AnswerFrame DEF LockToAdd
  <2>3. ASSUME NEW t \in Threads, PushBack(t)
        PROVE  AnswerInv'
    BY <2>a, <2>3, PushKeepsAnswer
  <2>4. ASSUME NEW t \in Threads, UnlockAdded(t)
        PROVE  AnswerInv'
    BY <2>a, <2>4, AnswerFrame DEF UnlockAdded
  <2>5. CASE StartListener
    BY <2>a, <2>5, AnswerFrame DEF StartListener, Terminate
  <2>6. CASE StopListener
    BY <2>a, <2>6, AnswerFrame DEF StopListener
  <2>7. CASE Join
    BY <2>a, <2>7, AnswerFrame DEF Join, Terminate
  <2>8. CASE Bind
    BY <2>a, <2>8, AnswerFrame DEF Bind, Terminate, HandlerAt
  <2>9. CASE SetRunning
    BY <2>a, <2>9, AnswerFrame DEF SetRunning, HandlerAt
  <2>10. CASE CheckRunning
    BY <2>a, <2>10, AnswerFrame DEF CheckRunning, HandlerAt
  <2>11. CASE PollTimeout
    BY <2>a, <2>11, AnswerFrame DEF PollTimeout, HandlerAt
  <2>12. CASE Receive
    <3>1. UNCHANGED <<services, upto, body, scount, query, si>>
      BY <2>12 DEF Receive
    <3>2. hpc' \in {"check", "query"} /\ floor' \in {floor, Len(services)}
      BY <2>12 DEF Receive
    <3>3. Len(services) \in Nat
      BY <2>a DEF TypeOK, RegistryTyped
    <3> QED
      BY <2>a, <3>1, <3>2, <3>3 DEF AnswerInv
  <2>13. CASE QuerySection
    <3>1. UNCHANGED <<services, floor>>
      BY <2>13 DEF QuerySection
    <3>2. CASE hpc' = "lock" /\ body' = <<>> /\ scount' = 0
      BY <2>a, <3>1, <3>2 DEF AnswerInv
    <3>3. CASE SkipSection
      BY <2>a, <2>13, <3>3, AnswerFrame DEF QuerySection, SkipSection
    <3> QED
      BY <2>13, <3>2, <3>3 DEF QuerySection, TakeQuery
  <2>14. CASE RequestDone
    BY <2>a, <2>14 DEF RequestDone, AnswerInv
  <2>15. CASE LockToMatch
    <3>1. /\ hpc' = "match" /\ upto' = Len(services) /\ si' = 1
          /\ UNCHANGED <<services, floor, body, scount, query, cur>>
      BY <2>15 DEF LockToMatch
    <3>2. body = <<>> /\ floor <= Len(services) /\ scount = Len(body) % 256
      BY <2>a, <2>15 DEF LockToMatch, HandlerAt, AnswerInv
    <3>3. Covers(si - 1)'
      <4>1. Covers(0)
        BY <3>2, CoversNothing
      <4>2. (si - 1)' = 0
        BY <3>1
      <4> QED
        BY <3>1, <4>1, <4>2 DEF Covers, Asked
    <3>4. Len(services) \in Nat
      BY <2>a DEF TypeOK, RegistryTyped
    <3> QED
      BY <3>1, <3>2, <3>3, <3>4 DEF AnswerInv
  <2>16. CASE MatchEntry
    BY <2>a, <2>16, MatchKeepsAnswer
  <2>17. CASE UnlockMatched
    <3>1. /\ hpc = "match" /\ hpc' = "send" /\ si \notin DOMAIN services
          /\ UNCHANGED <<services, floor, upto, body, scount, query, cur, si>>
      BY <2>17 DEF UnlockMatched, HandlerAt
    <3>2. /\ upto = Len(services) /\ si <= upto + 1 /\ Covers(si - 1)
          /\ floor <= upto /\ scount = Len(body) % 256
      BY <2>a, <3>1 DEF AnswerInv
    <3>3. si - 1 = upto /\ upto \in Nat /\ floor \in Nat
      BY <2>a, <3>1, <3>2 DEF TypeOK, RegistryTyped, RequestTyped
    <3>4. Covers(upto)'
      BY <3>1, <3>2, <3>3 DEF Covers, Asked
    <3> QED
      BY <3>1, <3>2, <3>3, <3>4 DEF AnswerInv
  <2>18. CASE Send
    <3>1. CASE Terminate("uncaught exception")
      BY <2>a, <3>1, AnswerFrame DEF Terminate
    <3>2. CASE /\ hpc' = "query" /\ floor' = upto
               /\ UNCHANGED <<services, body, scount>>
      BY <2>a, <2>18, <3>2 DEF Send, HandlerAt, AnswerInv
    <3> QED
      BY <2>18, <3>1, <3>2 DEF Send
  <2>19. CASE Arrive
    BY <2>a, <2>19, AnswerFrame DEF Arrive
  <2>20. CASE UNCHANGED vars
    BY <2>a, <2>20, AnswerFrame DEF vars
  <2>21. CASE End
    BY <2>a, <2>21, AnswerFrame DEF End, Terminate
  <2> QED
    BY <2>a, <2>1, <2>2, <2>3, <2>4, <2>5, <2>6, <2>7, <2>8, <2>9, <2>10,
       <2>11, <2>12, <2>13, <2>14, <2>15, <2>16, <2>17, <2>18, <2>19,
       <2>20, <2>21
    DEF Next, AdderNext, OwnerNext, HandlerNext, Gone
<1> QED
  BY <1>1, <1>2, TypeCorrect, LockIsHeld, PTL DEF Spec

\* Only offered and valid entries are on their way into the registry.
LEMMA PendingIsOffered == Spec => []PendingInv
<1> USE ListenerAssumption
<1> USE DEF appVars, registry, requestVars, history
<1>1. Init => PendingInv
  BY DEF Init, PendingInv
<1>2. TypeOK /\ PendingInv /\ [Next]_vars => PendingInv'
  <2>a. SUFFICES ASSUME TypeOK /\ PendingInv, [Next]_vars
                 PROVE  PendingInv'
    OBVIOUS
  <2>1. ASSUME NEW t \in Threads, NEW e \in Offered, AddService(t, e)
        PROVE  PendingInv'
    <3>1. /\ pc' = [pc EXCEPT ![t] = "lock"] /\ ValidEntry(e)
          /\ arg' = [arg EXCEPT ![t] = Completed(e)]
      BY <2>1 DEF AddService
    <3>2. ASSUME NEW u \in Threads, pc'[u] \in {"lock", "push"}
          PROVE  \E x \in Offered : ValidEntry(x) /\ arg'[u] = Completed(x)
      <4>1. CASE u = t
        BY <2>a, <3>1, <4>1 DEF TypeOK, RegistryTyped
      <4>2. CASE u # t
        BY <2>a, <3>1, <3>2, <4>2
        DEF PendingInv, TypeOK, ThreadsTyped, RegistryTyped
      <4> QED
        BY <4>1, <4>2
    <3> QED
      BY <3>2 DEF PendingInv
  <2>2. ASSUME NEW t \in Threads, LockToAdd(t)
        PROVE  PendingInv'
    <3>1. \A u \in Threads : pc'[u] \in {"lock", "push"} =>
             pc[u] \in {"lock", "push"} /\ arg'[u] = arg[u]
      BY <2>a, <2>2 DEF LockToAdd, TypeOK, ThreadsTyped, RegistryTyped
    <3> QED
      BY <2>a, <3>1 DEF PendingInv
  <2>3. ASSUME NEW t \in Threads, PushBack(t)
        PROVE  PendingInv'
    <3>1. \A u \in Threads : pc'[u] \in {"lock", "push"} =>
             pc[u] \in {"lock", "push"} /\ arg'[u] = arg[u]
      BY <2>a, <2>3 DEF PushBack, TypeOK, ThreadsTyped, RegistryTyped
    <3> QED
      BY <2>a, <3>1 DEF PendingInv
  <2>4. ASSUME NEW t \in Threads, UnlockAdded(t)
        PROVE  PendingInv'
    <3>1. \A u \in Threads : pc'[u] \in {"lock", "push"} =>
             pc[u] \in {"lock", "push"} /\ arg'[u] = arg[u]
      BY <2>a, <2>4 DEF UnlockAdded, TypeOK, ThreadsTyped, RegistryTyped
    <3> QED
      BY <2>a, <3>1 DEF PendingInv
  <2>5. CASE StartListener
    <3>1. UNCHANGED <<pc, arg>>
      BY <2>5 DEF StartListener, Terminate
    <3> QED
      BY <2>a, <3>1 DEF PendingInv
  <2>6. CASE StopListener
    <3>1. \A u \in Threads : pc'[u] \in {"lock", "push"} =>
             pc[u] \in {"lock", "push"} /\ arg'[u] = arg[u]
      BY <2>a, <2>6 DEF StopListener, TypeOK, ThreadsTyped, RegistryTyped
    <3> QED
      BY <2>a, <3>1 DEF PendingInv
  <2>7. CASE Join
    <3>1. \A u \in Threads : pc'[u] \in {"lock", "push"} =>
             pc[u] \in {"lock", "push"} /\ arg'[u] = arg[u]
      BY <2>a, <2>7 DEF Join, Terminate, TypeOK, ThreadsTyped, RegistryTyped
    <3> QED
      BY <2>a, <3>1 DEF PendingInv
  <2>8. CASE Bind
    <3>1. UNCHANGED <<pc, arg>>
      BY <2>8 DEF Bind, Terminate
    <3> QED
      BY <2>a, <3>1 DEF PendingInv
  <2>9. CASE SetRunning
    BY <2>a, <2>9
    DEF SetRunning, HandlerAt, PendingInv
  <2>10. CASE CheckRunning
    BY <2>a, <2>10
    DEF CheckRunning, HandlerAt, PendingInv
  <2>11. CASE PollTimeout
    BY <2>a, <2>11
    DEF PollTimeout, HandlerAt, PendingInv
  <2>12. CASE Receive
    BY <2>a, <2>12
    DEF Receive, HandlerAt, PendingInv
  <2>13. CASE QuerySection
    BY <2>a, <2>13
    DEF QuerySection, HandlerAt, TakeQuery, SkipSection, PendingInv
  <2>14. CASE RequestDone
    BY <2>a, <2>14
    DEF RequestDone, HandlerAt, PendingInv
  <2>15. CASE LockToMatch
    BY <2>a, <2>15
    DEF LockToMatch, HandlerAt, PendingInv
  <2>16. CASE MatchEntry
    BY <2>a, <2>16
    DEF MatchEntry, HandlerAt, PendingInv
  <2>17. CASE UnlockMatched
    BY <2>a, <2>17
    DEF UnlockMatched, HandlerAt, PendingInv
  <2>18. CASE Send
    <3>1. UNCHANGED <<pc, arg>>
      BY <2>18 DEF Send, Terminate
    <3> QED
      BY <2>a, <3>1 DEF PendingInv
  <2>19. CASE Arrive
    BY <2>a, <2>19
    DEF Arrive, PendingInv
  <2>20. CASE UNCHANGED vars
    BY <2>a, <2>20 DEF vars, PendingInv
  <2>21. CASE End
    <3>1. UNCHANGED <<pc, arg>>
      BY <2>21 DEF End, Terminate
    <3> QED
      BY <2>a, <3>1 DEF PendingInv
  <2> QED
    BY <2>a, <2>1, <2>2, <2>3, <2>4, <2>5, <2>6, <2>7, <2>8, <2>9, <2>10,
       <2>11, <2>12, <2>13, <2>14, <2>15, <2>16, <2>17, <2>18, <2>19,
       <2>20, <2>21
    DEF Next, AdderNext, OwnerNext, HandlerNext, Gone
<1> QED
  BY <1>1, <1>2, TypeCorrect, PTL DEF Spec

-----------------------------------------------------------------------------
\* The threads, the mutex, the parser and the match loop together implement the
\* registry's promise: when the requester can be told an address of this host,
\* every reply is the exact picture of the registry at one moment after its
\* request was received, for any interleaving and any traffic.
THEOREM ListenerKeepsPromise == ASSUME OnLink PROVE Spec => KeepsPromise
<1> USE DEF appVars, registry, requestVars, history
<1>1. Init => Promise!Init
  BY DEF Init, Promise!Init
<1>2. /\ TypeOK /\ AnswerInv /\ PendingInv /\ [Next]_vars
      => [Promise!Next]_(Promise!vars)
  <2>a. SUFFICES ASSUME TypeOK, AnswerInv, PendingInv, [Next]_vars
                 PROVE  [Promise!Next]_(Promise!vars)
    OBVIOUS
  <2>1. ASSUME NEW t \in Threads, NEW e \in Offered, AddService(t, e)
        PROVE  UNCHANGED Promise!vars
    BY <2>1 DEF AddService, Promise!vars
  <2>2. ASSUME NEW t \in Threads, LockToAdd(t)
        PROVE  UNCHANGED Promise!vars
    BY <2>2 DEF LockToAdd, Promise!vars
  <2>3. ASSUME NEW t \in Threads, UnlockAdded(t)
        PROVE  UNCHANGED Promise!vars
    BY <2>3 DEF UnlockAdded, Promise!vars
  <2>4. ASSUME StartListener PROVE UNCHANGED Promise!vars
    BY <2>4 DEF StartListener, Terminate, Promise!vars
  <2>5. ASSUME StopListener PROVE UNCHANGED Promise!vars
    BY <2>5 DEF StopListener, Promise!vars
  <2>6. ASSUME Join PROVE UNCHANGED Promise!vars
    BY <2>6 DEF Join, Terminate, Promise!vars
  <2>7. ASSUME Bind PROVE UNCHANGED Promise!vars
    BY <2>7 DEF Bind, Terminate, Promise!vars
  <2>8. ASSUME SetRunning PROVE UNCHANGED Promise!vars
    BY <2>8 DEF SetRunning, Promise!vars
  <2>9. ASSUME CheckRunning PROVE UNCHANGED Promise!vars
    BY <2>9 DEF CheckRunning, Promise!vars
  <2>10. ASSUME PollTimeout PROVE UNCHANGED Promise!vars
    BY <2>10 DEF PollTimeout, Promise!vars
  <2>11. ASSUME QuerySection PROVE UNCHANGED Promise!vars
    BY <2>11 DEF QuerySection, Promise!vars
  <2>12. ASSUME RequestDone PROVE UNCHANGED Promise!vars
    BY <2>12 DEF RequestDone, Promise!vars
  <2>13. ASSUME LockToMatch PROVE UNCHANGED Promise!vars
    BY <2>13 DEF LockToMatch, Promise!vars
  <2>14. ASSUME MatchEntry PROVE UNCHANGED Promise!vars
    BY <2>14 DEF MatchEntry, Promise!vars
  <2>15. ASSUME UnlockMatched PROVE UNCHANGED Promise!vars
    BY <2>15 DEF UnlockMatched, Promise!vars
  <2>16. ASSUME Arrive PROVE UNCHANGED Promise!vars
    BY <2>16 DEF Arrive, Promise!vars
  <2>17. ASSUME UNCHANGED vars PROVE UNCHANGED Promise!vars
    BY <2>17 DEF vars, Promise!vars
  <2>18. ASSUME NEW t \in Threads, PushBack(t)
         PROVE  Promise!Register
    <3>1. PICK e \in Offered : ValidEntry(e) /\ arg[t] = Completed(e)
      BY <2>a, <2>18 DEF PushBack, PendingInv
    <3>2. services' = Append(services, arg[t]) /\ UNCHANGED <<floor, sent>>
      BY <2>18 DEF PushBack
    <3> QED
      BY <3>1, <3>2 DEF Promise!Register, ValidEntry, Completed
  <2>19. ASSUME Receive PROVE Promise!Accept \/ UNCHANGED Promise!vars
    BY <2>19 DEF Receive, Promise!Accept, Promise!vars
  <2>20. ASSUME Send PROVE Promise!Answer \/ UNCHANGED Promise!vars
    <3>1. CASE Terminate("uncaught exception")
      BY <3>1 DEF Terminate, Promise!vars
    <3>2. CASE /\ sent' = Append(sent, Reply) /\ floor' = upto
               /\ UNCHANGED services
      <4>1. hpc = "send"
        BY <2>20 DEF Send, HandlerAt
      <4>2. Reply \in Answers
        BY <2>a, <4>1, ReplyIsAnswer
      <4>3. /\ Len(sent') = Len(sent) + 1 /\ sent'[Len(sent) + 1] = Reply
        BY <2>a, <3>2, <4>2 DEF TypeOK, RepliesTyped
      <4>4. /\ floor <= upto /\ upto <= Len(services) /\ Covers(upto)
            /\ scount = Len(body) % 256
        BY <2>a, <4>1 DEF AnswerInv
      <4>5. /\ Reply.to = cur.from /\ Reply.query = query
            /\ Reply.upto = upto /\ Reply.items = body
            /\ Reply.count = scount
        BY DEF Reply
      <4>6. Reply.to \in Senders /\ Reply.query \in Query
        BY <4>2 DEF Answers
      <4>7. Reply.upto \in floor..Len(services)
        BY <2>a, <4>4, <4>5 DEF TypeOK, RegistryTyped
      <4>8. Promise!Exact(Reply)
        <5>1. Promise!Hits(Reply) = Asked(upto)
          BY <4>5 DEF Promise!Hits, Asked
        <5>2. \A i \in DOMAIN Reply.items : \E j \in Promise!Hits(Reply) :
                 Promise!StandsFor(Reply.items[i], services[j], Reply.to)
          BY <4>4, <4>5, <5>1 DEF Covers
        <5>3. \A j \in Promise!Hits(Reply) : \E i \in DOMAIN Reply.items :
                 Promise!StandsFor(Reply.items[i], services[j], Reply.to)
          BY <4>4, <4>5, <5>1 DEF Covers
        <5>4. Len(Reply.items) = Promise!Cardinality(Promise!Hits(Reply))
          <6>1. Len(Reply.items) = Cardinality(Promise!Hits(Reply))
            BY <4>4, <4>5, <5>1 DEF Covers
          <6>2. \A S : Promise!Cardinality(S) = Cardinality(S)
            BY DEF Promise!Cardinality, Cardinality
          <6> QED
            BY <6>1, <6>2
        <5>5. Reply.count = Len(Reply.items) % 256
          BY <4>4, <4>5
        <5> QED
          BY <5>2, <5>3, <5>4, <5>5 DEF Promise!Exact
      <4>9. floor' = Reply.upto
        BY <3>2, <4>5
      <4>10. Promise!Query = Query
        BY DEF Promise!Query, Query, Promise!Protocols, Protocols,
               Promise!ProtocolAll, Promise!ProtocolTCP, Promise!ProtocolUDP,
               ProtocolAll, ProtocolTCP, ProtocolUDP
      <4> QED
        BY <3>2, <4>3, <4>6, <4>7, <4>8, <4>9, <4>10 DEF Promise!Answer
    <3> QED
      BY <2>20, <3>1, <3>2 DEF Send
  <2>21. ASSUME End PROVE UNCHANGED Promise!vars
    BY <2>21 DEF End, Terminate, Promise!vars
  <2> QED
    BY <2>a, <2>1, <2>2, <2>3, <2>4, <2>5, <2>6, <2>7, <2>8, <2>9, <2>10,
       <2>11, <2>12, <2>13, <2>14, <2>15, <2>16, <2>17, <2>18,
       <2>19, <2>20, <2>21
    DEF Next, AdderNext, OwnerNext, HandlerNext, Gone, Promise!Next
<1> QED
  BY <1>1, <1>2, TypeCorrect, AnswersAreBuilt, PendingIsOffered, PTL
  DEF Spec, KeepsPromise, Promise!Spec

-----------------------------------------------------------------------------
\* On link a reply is made of complete records, and what was sent of it fits a
\* datagram.
Composed(r) ==
  /\ r.items \in Seq(Entry)
  /\ r.count = Len(r.items) % 256
  /\ ResponseMessage(r.items, r.count).size <= MaxPayload

ComposedInv ==
  /\ body \in Seq(Entry)
  /\ \A k \in DOMAIN sent : Composed(sent[k])

LEMMA ComposedFrame ==
  ASSUME ComposedInv, body' \in {body, <<>>}, UNCHANGED sent
  PROVE  ComposedInv'
BY EmptyIsSeq DEF ComposedInv

LEMMA MatchKeepsComposed ==
  ASSUME OnLink, TypeOK, ComposedInv, MatchEntry
  PROVE  ComposedInv'
<1> USE DEF requestVars, history, registry
<1>1. UNCHANGED sent
  BY DEF MatchEntry
<1>2. cur \in Datagram /\ services[si] \in Entry
  BY DEF MatchEntry, HandlerAt, TypeOK, RequestTyped, RegistryTyped, Busy
<1>3. ASSUME NEW x \in Section(services[si]), body' = Append(body, x)
      PROVE  body' \in Seq(Entry)
  <2>1. x \in Entry /\ body \in Seq(Entry)
    BY <1>2, SectionStandsFor, WireAssumption DEF ComposedInv
  <2> QED
    BY <1>3, <2>1, AppendProperties
<1>4. body' = body \/ body' \in Seq(Entry)
  BY <1>3 DEF MatchEntry
<1> QED
  BY <1>1, <1>4 DEF ComposedInv

LEMMA SendKeepsComposed ==
  ASSUME TypeOK, AnswerInv, ComposedInv, Send
  PROVE  ComposedInv'
<1> USE DEF requestVars, history
<1>1. CASE Terminate("uncaught exception")
  BY <1>1, ComposedFrame DEF Terminate
<1>2. CASE /\ sent' = Append(sent, Reply) /\ UNCHANGED body
           /\ ResponseMessage(body, scount).size <= MaxPayload
  <2>1. sent \in Seq(Answers) /\ Reply \in Answers
    BY ReplyIsAnswer DEF Send, HandlerAt, TypeOK, RepliesTyped
  <2>2. Composed(Reply)
    <3>1. Reply.items = body /\ Reply.count = scount
      BY DEF Reply
    <3>2. scount = Len(body) % 256 /\ body \in Seq(Entry)
      BY DEF AnswerInv, ComposedInv
    <3> HIDE DEF Reply
    <3> QED
      BY <1>2, <3>1, <3>2 DEF Composed
  <2> HIDE DEF Reply
  <2>3. \A k \in DOMAIN sent' :
           \/ sent'[k] = Reply
           \/ k \in DOMAIN sent /\ sent'[k] = sent[k]
    BY <1>2, <2>1
  <2> QED
    BY <1>2, <2>2, <2>3, Zenon DEF ComposedInv
<1> QED
  BY <1>1, <1>2 DEF Send

\* What waits to be sent and what was sent is made of complete records.
LEMMA RepliesAreComposed == ASSUME OnLink PROVE Spec => []ComposedInv
<1> USE DEF appVars, registry, requestVars, history
<1>1. Init => ComposedInv
  BY EmptyIsSeq DEF Init, ComposedInv
<1>2. TypeOK /\ AnswerInv /\ ComposedInv /\ [Next]_vars => ComposedInv'
  <2>a. SUFFICES ASSUME TypeOK, AnswerInv, ComposedInv, [Next]_vars
                 PROVE  ComposedInv'
    OBVIOUS
  <2>1. ASSUME NEW t \in Threads, NEW e \in Offered, AddService(t, e)
        PROVE  ComposedInv'
    BY <2>a, <2>1, ComposedFrame DEF AddService
  <2>2. ASSUME NEW t \in Threads, LockToAdd(t) PROVE ComposedInv'
    BY <2>a, <2>2, ComposedFrame DEF LockToAdd
  <2>3. ASSUME NEW t \in Threads, PushBack(t) PROVE ComposedInv'
    BY <2>a, <2>3, ComposedFrame DEF PushBack
  <2>4. ASSUME NEW t \in Threads, UnlockAdded(t) PROVE ComposedInv'
    BY <2>a, <2>4, ComposedFrame DEF UnlockAdded
  <2>5. CASE StartListener
    BY <2>a, <2>5, ComposedFrame DEF StartListener, Terminate
  <2>6. CASE StopListener
    BY <2>a, <2>6, ComposedFrame DEF StopListener
  <2>7. CASE Join
    BY <2>a, <2>7, ComposedFrame DEF Join, Terminate
  <2>8. CASE Bind
    BY <2>a, <2>8, ComposedFrame DEF Bind, Terminate
  <2>9. CASE SetRunning
    BY <2>a, <2>9, ComposedFrame DEF SetRunning
  <2>10. CASE CheckRunning
    BY <2>a, <2>10, ComposedFrame DEF CheckRunning
  <2>11. CASE PollTimeout
    BY <2>a, <2>11, ComposedFrame DEF PollTimeout
  <2>12. CASE Receive
    BY <2>a, <2>12, ComposedFrame DEF Receive
  <2>13. CASE QuerySection
    BY <2>a, <2>13, ComposedFrame DEF QuerySection, TakeQuery, SkipSection
  <2>14. CASE RequestDone
    BY <2>a, <2>14, ComposedFrame DEF RequestDone
  <2>15. CASE LockToMatch
    BY <2>a, <2>15, ComposedFrame DEF LockToMatch
  <2>16. CASE MatchEntry
    BY <2>a, <2>16, MatchKeepsComposed
  <2>17. CASE UnlockMatched
    BY <2>a, <2>17, ComposedFrame DEF UnlockMatched
  <2>18. CASE Send
    BY <2>a, <2>18, SendKeepsComposed
  <2>19. CASE Arrive
    BY <2>a, <2>19, ComposedFrame DEF Arrive
  <2>20. CASE UNCHANGED vars
    BY <2>a, <2>20, ComposedFrame DEF vars
  <2>21. CASE End
    BY <2>a, <2>21, ComposedFrame DEF End, Terminate
  <2> QED
    BY <2>a, <2>1, <2>2, <2>3, <2>4, <2>5, <2>6, <2>7, <2>8, <2>9, <2>10,
       <2>11, <2>12, <2>13, <2>14, <2>15, <2>16, <2>17, <2>18, <2>19,
       <2>20, <2>21
    DEF Next, AdderNext, OwnerNext, HandlerNext, Gone
<1> QED
  BY <1>1, <1>2, TypeCorrect, AnswersAreBuilt, PTL DEF Spec

\* Across the wire: whatever the threads of the responder do, a reply of theirs
\* that fits the buffer of the library's own client is read there as it was
\* composed, record by record, exactly if no IPv6 text in it has outgrown its
\* length byte.
THEOREM RepliesAreReadBack == ASSUME OnLink PROVE Spec => []RepliesAreRead
<1>1. ComposedInv => RepliesAreRead
  <2> SUFFICES ASSUME ComposedInv, NEW k \in DOMAIN sent
               PROVE  LET m == ResponseMessage(sent[k].items, sent[k].count)
                      IN  m.size <= BufferSize =>
                            (ParseReply(m) = {Outcome(TRUE, m.items)}
                               <=> \A i \in DOMAIN m.items :
                                      StrBytes[m.items[i].ipv6] < 256)
    BY Zenon DEF RepliesAreRead
  <2> DEFINE b == sent[k].items
             m == ResponseMessage(b, sent[k].count)
  <2>1. Composed(sent[k])
    BY DEF ComposedInv
  <2>2. b \in Seq(Entry) /\ sent[k].count = Len(b) % 256
    BY <2>1 DEF Composed
  <2>3. m = ResponseMessage(b, Len(b) % 256) /\ m.items = b
    BY <2>2 DEF ResponseMessage
  <2> HIDE DEF b, m
  <2>4. ASSUME m.size <= BufferSize
        PROVE  ParseReply(m) = {Outcome(TRUE, m.items)}
                 <=> \A i \in DOMAIN m.items : StrBytes[m.items[i].ipv6] < 256
    <3>1. ResponseMessage(b, Len(b) % 256).size <= BufferSize
      BY <2>3, <2>4, Zenon
    <3>2. ParseReply(ResponseMessage(b, Len(b) % 256)) = {Outcome(TRUE, b)}
            <=> \A i \in DOMAIN b : StrBytes[b[i].ipv6] < 256
      BY <2>2, <3>1, ReplyReadsBack
    <3>3. m.items = b /\ m = ResponseMessage(b, Len(b) % 256)
      BY <2>3
    <3> QED
      BY <3>2, <3>3
  <2>5. m.size <= BufferSize =>
          (ParseReply(m) = {Outcome(TRUE, m.items)}
             <=> \A i \in DOMAIN m.items : StrBytes[m.items[i].ipv6] < 256)
    BY <2>4
  <2> QED
    BY <2>5 DEF b, m
<1> QED
  BY <1>1, RepliesAreComposed, PTL

\* All that leaves a responder is what the client's model takes for the reply
\* of one: complete records with texts that fit, counted, in one datagram.
RepliesAreProper ==
  \A k \in DOMAIN sent :
     ProperReply(ResponseMessage(sent[k].items, sent[k].count))

\* On link, and where no long IPv6 text is registered, the client's assumption
\* about honest responders is what the listener guarantees.
THEOREM RespondersAreProper ==
  ASSUME OnLink, ShortTexts
  PROVE  Spec => []RepliesAreProper
<1>1. ComposedInv /\ FilledInv => RepliesAreProper
  <2> SUFFICES ASSUME ComposedInv, FilledInv, NEW k \in DOMAIN sent
               PROVE  ProperReply(ResponseMessage(sent[k].items, sent[k].count))
    BY DEF RepliesAreProper
  <2>1. Composed(sent[k])
    BY DEF ComposedInv
  <2>2. sent[k].items \in Seq(Entry) /\ sent[k].count = Len(sent[k].items) % 256
    BY <2>1 DEF Composed
  <2>3. ResponseMessage(sent[k].items, sent[k].count)
          = ResponseMessage(sent[k].items, Len(sent[k].items))
    BY <2>2, CountIsCut
  <2>4. ResponseMessage(sent[k].items, Len(sent[k].items)).size <= MaxPayload
    BY <2>1, <2>3 DEF Composed
  <2>5. ASSUME NEW i \in DOMAIN sent[k].items
        PROVE  TextFits(sent[k].items[i])
    <3>1. Ready(sent[k].items[i])
      BY DEF FilledInv
    <3>2. sent[k].items[i] \in Entry
      BY <2>2, ElementOfSeq
    <3>3. sent[k].items[i] # Loose
      BY <3>2, WireAssumption
    <3> QED
      BY <3>1, <3>3 DEF Ready, Filled
  <2> QED
    BY <2>2, <2>3, <2>4, <2>5, ComposedIsProper
<1> QED
  BY <1>1, RepliesAreComposed, AlwaysFilled, PTL

=============================================================================
