----------------------------- MODULE MqttProofs -----------------------------
(***************************************************************************)
(* Theorems about MqttApp and the client library it uses, for any number   *)
(* of list nodes, any datagrams and any number of queries.                 *)
(***************************************************************************)
EXTENDS MqttApp, NaturalFacts, SequenceTheorems, TLAPS

-----------------------------------------------------------------------------
\* The inductive invariant.  The list is as ListIntact says and no address is
\* in it twice; the timer is set to check only while nobody has read the list.
Distinct == \A i, j \in DOMAIN taken : taken[i] = taken[j] => i = j

ListInv ==
  /\ Live \subseteq Nodes /\ \A a \in Live : heap[a] \in Node
  /\ taken \in Seq(Nodes) /\ fresh \in BOOLEAN
  /\ ListIntact
  /\ fresh => Distinct
  /\ timer = "check" => fresh

\* Where the loop of getResponses looks, written down without recursion.
LEMMA WalkFollowsTaken ==
  ASSUME ListInv, fresh
  PROVE  /\ count \in Nat
         /\ \A i \in 1..count : i \in DOMAIN taken /\ Walk[i] = taken[i]
<1> DEFINE n == Len(taken)
           Place(i) == IF i <= n THEN i ELSE n
           W == [i \in 1..count + 1 |->
                   IF taken = <<>> THEN Null ELSE taken[Place(i)]]
           Turn(f) == [i \in 1..count + 1 |->
                         IF i = 1 THEN response
                         ELSE IF f[i - 1] \in Live /\ heap[f[i - 1]].next # Null
                         THEN heap[f[i - 1]].next ELSE f[i - 1]]
<1>1. /\ count = n /\ n \in Nat /\ DOMAIN taken = 1..n
      /\ taken = <<>> <=> n = 0
      /\ \A i \in 1..n : taken[i] \in Nodes
  BY DEF ListInv, ListIntact
<1>2. W = Turn(W)
  <2>1. ASSUME NEW i \in 1..count + 1 PROVE W[i] = Turn(W)[i]
    <3>1. CASE i = 1
      BY <1>1, <2>1, <3>1 DEF ListInv, ListIntact
    <3>2. CASE i # 1
      <4>1. i - 1 \in 1..n /\ taken # <<>> /\ i - 1 \in 1..count + 1
        BY <1>1, <2>1, <3>2
      <4>2. W[i - 1] = taken[i - 1]
        BY <1>1, <4>1
      <4>3. /\ taken[i - 1] \in Live
            /\ heap[taken[i - 1]].next = IF i - 1 = n THEN Null ELSE taken[i]
        BY <1>1, <4>1 DEF ListInv, ListIntact
      <4>4. CASE i - 1 = n
        <5>1. W[i] = taken[n]
          BY <1>1, <4>1, <4>4
        <5> QED
          BY <3>2, <4>2, <4>3, <4>4, <5>1
      <4>5. CASE i - 1 # n
        <5>1. W[i] = taken[i] /\ taken[i] # Null
          BY <1>1, <2>1, <4>1, <4>5, ArduinoAssumption
        <5> QED
          BY <3>2, <4>2, <4>3, <4>5, <5>1
      <4> QED
        BY <4>4, <4>5
    <3> QED
      BY <3>1, <3>2
  <2> QED
    BY <2>1
<1>3. Walk = Turn(Walk)
  <2>1. Walk = CHOOSE f : f = Turn(f)
    BY DEF Walk
  <2> HIDE DEF W, Turn
  <2> QED
    BY <1>2, <2>1
<1>4. \A i \in 1..count + 1 : W[i] = Walk[i]
  <2>1. W[1] = Walk[1]
    <3>1. W[1] = Turn(W)[1] /\ Walk[1] = Turn(Walk)[1]
      BY <1>2, <1>3
    <3> QED
      BY <1>1, <3>1
  <2>2. ASSUME NEW i \in 2..count + 1, W[i - 1] = Walk[i - 1]
        PROVE  W[i] = Walk[i]
    <3>1. W[i] = Turn(W)[i] /\ Walk[i] = Turn(Walk)[i]
      BY <1>2, <1>3
    <3> HIDE DEF W
    <3> QED
      BY <1>1, <2>2, <3>1
  <2>3. count + 1 \in Nat
    BY <1>1
  <2> HIDE DEF W
  <2> QED
    BY <2>1, <2>2, <2>3, AgreeAll
<1> QED
  BY <1>1, <1>4

\* Reading a list nobody has read meets only nodes that are allocated, and each
\* of them once.
LEMMA FreshListIsSound ==
  ASSUME ListInv, fresh, NEW r \in Results
  PROVE  /\ r.sound
         /\ r.verdict = 0 =>
              {Walk[i] : i \in 1..r.turns} = {taken[i] : i \in DOMAIN taken}
<1>1. /\ count \in Nat /\ count = Len(taken) /\ DOMAIN taken = 1..count
      /\ \A i \in 1..count : Walk[i] = taken[i]
  BY WalkFollowsTaken DEF ListInv, ListIntact
<1>2. ASSUME NEW i \in 1..count PROVE CanRead(i)
  <2>1. Walk[i] \in Live
    BY <1>1 DEF ListInv, ListIntact
  <2>2. ASSUME NEW j \in 1..i - 1 PROVE Walk[j] # Walk[i]
    BY <1>1 DEF ListInv, Distinct
  <2> QED
    BY <2>1, <2>2 DEF CanRead
<1>3. CASE received
  <2>1. r \in Complete \/ \E n \in 0..Turns - 1 : r \in FailsAfter(n)
    BY <1>3 DEF Results
  <2>2. CASE r \in Complete
    BY <1>1, <2>2 DEF Complete, Turns
  <2>3. ASSUME NEW n \in 0..Turns - 1, r \in FailsAfter(n)
        PROVE  r.sound /\ r.verdict # 0
    <3>1. CanRead(n + 1)
      BY <1>1, <1>2 DEF Turns
    <3>2. PICK o \in Errors(n) : r.verdict = o.code /\ r.sound = CanRead(n + 1)
      BY <2>3 DEF FailsAfter
    <3>3. o.code # 0
      BY <3>1, <3>2 DEF Errors
    <3> QED
      BY <2>3, <3>1, <3>2, <3>3
  <2>4. r.sound /\ (r.verdict = 0 => r.turns = count)
    BY <2>1, <2>2, <2>3 DEF Complete, Turns
  <2> QED
    BY <1>1, <2>4
<1>4. CASE ~received
  BY <1>4 DEF Results
<1> QED
  BY <1>3, <1>4

-----------------------------------------------------------------------------
LEMMA InitListInv == AppInit => ListInv
<1>1. <<>> \in Seq(Nodes) /\ Len(<<>>) = 0
  BY EmptySeq
<1> QED
  BY <1>1 DEF AppInit, ClientInit, ListInv, ListIntact, Distinct, Live

\* A query starts an empty list.
LEMMA QueryKeepsList ==
  ASSUME ListInv, GotIP PROVE ListInv'
<1>1. /\ heap' = heap /\ fresh' /\ fresh' \in BOOLEAN /\ taken' = <<>>
      /\ response' = Null /\ count' = 0
  BY DEF GotIP, SendQuery, Forget
<1>2. <<>> \in Seq(Nodes) /\ Len(<<>>) = 0
  BY EmptySeq
<1> QED
  BY <1>1, <1>2 DEF ListInv, ListIntact, Distinct, Live

\* A datagram is put behind the others.
LEMMA CallbackKeepsList ==
  ASSUME ListInv, Arrive PROVE ListInv'
<1>1. PICK m \in Datagrams, n \in Nodes \ Live :
        /\ Link(n, m)
        /\ taken' = IF fresh THEN Append(taken, n) ELSE taken
  BY DEF Arrive, Callback
<1>2. fresh' = fresh /\ timer' = timer /\ count' = count + 1
  BY DEF Arrive, Callback, appVars
<1> DEFINE grown == [a \in Live \cup {n} |->
                        IF a = n THEN [msg |-> m, next |-> Null] ELSE heap[a]]
<1>3. DOMAIN grown = Live \cup {n} /\ \A a \in DOMAIN grown : grown[a] \in Node
  BY DEF ListInv, Node
<1>4. \/ /\ response = Null
         /\ heap' = grown /\ response' = n /\ last' = n
      \/ /\ response # Null /\ last \in Live \cup {n}
         /\ heap' = [grown EXCEPT ![last].next = n] /\ last' = n
         /\ response' = response
      \/ /\ response # Null /\ last \notin Live
         /\ heap' = grown /\ last' = n
         /\ response' = response
  BY <1>1 DEF Link
<1>5. Live' = Live \cup {n} /\ \A a \in Live' : heap'[a] \in Node
  <2>1. CASE heap' = grown
    BY <1>3, <2>1 DEF Live
  <2>2. CASE last \in Live \cup {n} /\ heap' = [grown EXCEPT ![last].next = n]
    <3>1. [grown[last] EXCEPT !.next = n] \in Node
      BY <1>3, <2>2 DEF Node
    <3> HIDE DEF grown
    <3> QED
      BY <1>3, <2>2, <3>1 DEF Live
  <2> QED
    BY <1>4, <2>1, <2>2
<1>6. taken' \in Seq(Nodes)
  BY <1>1 DEF ListInv
<1>7. CASE ~fresh
  BY <1>2, <1>5, <1>6, <1>7 DEF ListInv, ListIntact
<1>8. CASE fresh
  <2> DEFINE k == Len(taken)
  <2>1. /\ k \in Nat /\ DOMAIN taken = 1..k /\ count = k
        /\ taken' = Append(taken, n)
        /\ \A i \in 1..k : taken[i] \in Live /\ taken[i] # n
    BY <1>1, <1>8 DEF ListInv, ListIntact
  <2>2. /\ Len(taken') = k + 1 /\ DOMAIN taken' = 1..k + 1
        /\ taken'[k + 1] = n /\ \A i \in 1..k : taken'[i] = taken[i]
        /\ taken' # <<>>
    BY <2>1 DEF ListInv
  <2>3. Distinct'
    BY <1>8, <2>1, <2>2 DEF ListInv, Distinct
  <2>4. response' = taken'[1] /\ last' = taken'[k + 1]
    <3>1. CASE k = 0
      BY <1>4, <1>8, <2>1, <2>2, <3>1 DEF ListInv, ListIntact
    <3>2. CASE k > 0
      <4>1. response = taken[1] /\ response # Null
        BY <1>8, <2>1, <3>2, ArduinoAssumption DEF ListInv, ListIntact
      <4> QED
        BY <1>4, <2>1, <2>2, <3>2, <4>1
    <3> QED
      BY <2>1, <3>1, <3>2
  <2>5. ASSUME NEW i \in 1..k + 1
        PROVE  heap'[taken'[i]].next = IF i = k + 1 THEN Null ELSE taken'[i + 1]
    <3>1. CASE k = 0
      <4>1. heap' = grown
        BY <1>4, <1>8, <2>1, <3>1 DEF ListInv, ListIntact
      <4> QED
        BY <2>2, <3>1, <4>1
    <3>2. CASE k > 0
      <4>1. response # Null /\ last = taken[k] /\ last \in Live /\ last # n
        BY <1>8, <2>1, <3>2, ArduinoAssumption DEF ListInv, ListIntact
      <4>2. heap' = [grown EXCEPT ![last].next = n]
        BY <1>4, <4>1
      <4>3. CASE i = k + 1
        <5>1. heap'[n] = grown[n]
          BY <1>3, <4>1, <4>2
        <5> QED
          BY <2>2, <4>3, <5>1
      <4>4. CASE i = k
        <5>1. heap'[last] = [grown[last] EXCEPT !.next = n]
          BY <1>3, <4>1, <4>2
        <5>2. grown[last] \in Node
          BY <1>3, <4>1
        <5> HIDE DEF grown
        <5>3. heap'[last].next = n
          BY <5>1, <5>2 DEF Node
        <5> HIDE DEF k
        <5>4. i # k + 1 /\ k \in 1..k
          BY <2>1, <3>2, <4>4
        <5>5. taken'[i] = last
          BY <2>2, <4>1, <4>4, <5>4
        <5>6. taken'[i + 1] = n
          BY <2>2, <4>4
        <5>7. heap'[taken'[i]].next = taken'[i + 1]
          BY <5>3, <5>5, <5>6
        <5> QED
          BY <5>4, <5>6, <5>7
      <4>5. CASE i < k
        <5>1. taken[i] # last /\ taken[i] \in Live /\ taken[i] # n
          BY <1>8, <2>1, <4>1, <4>5 DEF ListInv, Distinct
        <5>2. heap'[taken[i]] = heap[taken[i]]
          BY <1>3, <4>1, <4>2, <5>1
        <5>3. heap[taken[i]].next = taken[i + 1]
          BY <1>8, <2>1, <4>5 DEF ListInv, ListIntact
        <5> QED
          BY <2>1, <2>2, <4>5, <5>2, <5>3
      <4>6. k \in Nat /\ i \in 1..k + 1
        BY <2>1, <2>5
      <4>7. i = k + 1 \/ i = k \/ i < k
        <5> HIDE DEF k
        <5> QED
          BY <4>6
      <4> QED
        BY <4>3, <4>4, <4>5, <4>7
    <3> QED
      BY <2>1, <3>1, <3>2
  <2>6. ListIntact'
    BY <1>2, <1>5, <2>1, <2>2, <2>4, <2>5 DEF ListIntact
  <2> QED
    BY <1>2, <1>5, <1>6, <1>8, <2>3, <2>6 DEF ListInv
<1> QED
  BY <1>7, <1>8 DEF ListInv

\* getResponses only frees, and nothing is fresh afterwards.
LEMMA CheckKeepsList ==
  ASSUME ListInv, CheckResponses PROVE ListInv'
<1>1. PICK r \in Results : GetResponses(r) /\ timer' = "off"
  BY DEF CheckResponses, GiveUp, StartMqttClient
<1>2. fresh' = FALSE /\ taken' = taken /\ timer' # "check"
  BY <1>1 DEF GetResponses
<1>3. /\ Live' \subseteq Live
      /\ \A a \in Live' : heap'[a] = heap[a]
  BY <1>1 DEF GetResponses, Restrict, Live
<1> QED
  BY <1>2, <1>3 DEF ListInv, ListIntact

\* Whatever else happens leaves the list alone and sets no timer to check.
LEMMA OthersKeepList ==
  ASSUME ListInv,
         \/ NoResponse \/ Reconnect \/ PublishMessage
         \/ Connected \/ Disconnect \/ UNCHANGED vars
  PROVE  ListInv'
<1>1. UNCHANGED listVars /\ UNCHANGED <<fresh, taken>>
  BY DEF NoResponse, Reconnect, PublishMessage, Connected, Disconnect, vars,
         clientVars
<1>2. timer' = "check" => timer = "check"
  BY DEF NoResponse, GiveUp, Reconnect, PublishMessage, StartMqttClient,
         Connected, Disconnect, vars, appVars
<1> QED
  BY <1>1, <1>2 DEF ListInv, ListIntact, Distinct, Live, listVars

LEMMA NextListInv == ListInv /\ [AppNext]_vars => ListInv'
<1> SUFFICES ASSUME ListInv, [AppNext]_vars PROVE ListInv'
  OBVIOUS
<1>1. CASE GotIP
  BY <1>1, QueryKeepsList
<1>2. CASE Arrive
  BY <1>2, CallbackKeepsList
<1>3. CASE CheckResponses
  BY <1>3, CheckKeepsList
<1>4. CASE \/ NoResponse \/ Reconnect \/ PublishMessage
           \/ Connected \/ Disconnect \/ UNCHANGED vars
  BY <1>4, OthersKeepList
<1> QED
  BY <1>1, <1>2, <1>3, <1>4 DEF AppNext, TimerFires, Gone

LEMMA ListInvHolds == AppSpec => []ListInv
BY InitListInv, NextListInv, PTL DEF AppSpec

-----------------------------------------------------------------------------
\* Until it is read, the list holds every datagram taken since the query, in
\* the order they came: udp_receive_callback attaches at the end, and count,
\* response and last stay in step whatever an earlier query left behind.
THEOREM ListStaysIntact == AppSpec => []ListIntact
<1>1. ListInv => ListIntact
  BY DEF ListInv
<1> QED
  BY <1>1, ListInvHolds, PTL

\* Used as the application uses it, one getResponses after each query,
\* getResponses never looks at a node it has freed.
THEOREM NoFreedReads == AppSpec => []NeverReadsFreed
<1>1. AppInit => NeverReadsFreed
  BY DEF AppInit, ClientInit, NeverReadsFreed
<1>2. ListInv /\ NeverReadsFreed /\ [AppNext]_vars => NeverReadsFreed'
  <2> SUFFICES ASSUME ListInv, NeverReadsFreed, [AppNext]_vars
               PROVE  NeverReadsFreed'
    OBVIOUS
  <2>1. CASE CheckResponses
    <3>1. PICK r \in Results : GetResponses(r)
      BY <2>1 DEF CheckResponses
    <3>2. fresh
      BY <2>1 DEF CheckResponses, ListInv
    <3>3. memory' = memory
      BY <3>1, <3>2, FreshListIsSound DEF GetResponses
    <3> QED
      BY <3>3 DEF NeverReadsFreed
  <2>2. CASE Arrive
    BY <2>2 DEF Arrive, Callback, Link, NeverReadsFreed
  <2>3. CASE \/ GotIP \/ NoResponse \/ Reconnect \/ PublishMessage
             \/ Connected \/ Disconnect \/ UNCHANGED vars
    <3>1. memory' = memory
      BY <2>3 DEF GotIP, SendQuery, NoResponse, Reconnect, PublishMessage,
                  Connected, Disconnect, vars, clientVars
    <3> QED
      BY <3>1 DEF NeverReadsFreed
  <2> QED
    BY <2>1, <2>2, <2>3 DEF AppNext, TimerFires, Gone
<1> QED
  BY <1>1, <1>2, ListInvHolds, PTL DEF AppSpec

\* A check that finds a broker frees the nodes of its own query, all of them
\* and no other.
THEOREM RepliesAreFreed == AppSpec => FreesItsReplies
<1>1. ASSUME ListInv, [AppNext]_vars, outcome = "asked", outcome' = "found"
      PROVE  Live' = Live \ {taken[i] : i \in DOMAIN taken}
  <2>1. CheckResponses
    BY <1>1 DEF AppNext, GotIP, TimerFires, NoResponse, GiveUp, Reconnect,
                PublishMessage, Connected, Disconnect, Arrive, Gone, vars,
                appVars
  <2>2. PICK r \in Results : GetResponses(r) /\ Usable(r)
    BY <1>1, <2>1 DEF CheckResponses, GiveUp
  <2>3. fresh
    BY <1>1, <2>1 DEF CheckResponses, ListInv
  <2>4. {Walk[i] : i \in 1..r.turns} = {taken[i] : i \in DOMAIN taken}
    BY <1>1, <2>2, <2>3, FreshListIsSound DEF Usable
  <2> QED
    BY <2>2, <2>4 DEF GetResponses, Restrict, Live
<1> QED
  BY <1>1, ListInvHolds, PTL DEF AppSpec, FreesItsReplies

\* The application waits without a timer only before its first query and after
\* one that found nothing.
THEOREM NeverIdleForNothing == AppSpec => []IdleForAReason
<1>1. AppInit => IdleForAReason
  BY DEF AppInit, IdleForAReason
<1>2. IdleForAReason /\ [AppNext]_vars => IdleForAReason'
  BY DEF IdleForAReason, AppNext, GotIP, TimerFires, NoResponse, CheckResponses,
         GiveUp, StartMqttClient, Reconnect, PublishMessage, Connected,
         Disconnect, Arrive, Gone, vars, appVars
<1> QED
  BY <1>1, <1>2, PTL DEF AppSpec

=============================================================================
