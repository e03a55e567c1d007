----------------------------- MODULE WireProofs ------------------------------
(***************************************************************************)
(* What the messages of Wire are worth: for any records and queries, what  *)
(* one side composes within the limits the other side reads back, and what *)
(* is beyond them is refused as a whole.                                   *)
(***************************************************************************)
EXTENDS Wire, NaturalFacts, SequenceTheorems, TLAPS

-----------------------------------------------------------------------------
\* What a cut to 16 bits leaves fits them.
LEMMA WordFits == ASSUME NEW n \in Int PROVE n % 65536 \in Word
<1> DEFINE size == 65536
           top  == 65535
<1>1. size \in Nat /\ top \in Nat /\ 0 < size /\ size = top + 1 /\ Word = 0..top
  BY DEF Word
<1> HIDE DEF size, top
<1>2. n % size \in 0..top
  BY <1>1
<1> QED
  BY <1>1, <1>2 DEF size

-----------------------------------------------------------------------------
\* Sizes.

LEMMA RecordBytesFit ==
  ASSUME NEW r \in Entry
  PROVE  RecordBytes(r) \in Nat /\ 13 <= RecordBytes(r)
<1>1. r.ipv6 \in Strings /\ r.host \in Strings /\ r.name \in Strings
  BY DEF Entry
<1>2. \A s \in Strings : StrBytes[s] \in Nat
  BY WireAssumption
<1> QED
  BY <1>1, <1>2 DEF RecordBytes

LEMMA ItemBytesAreNat == ASSUME NEW r \in Record PROVE ItemBytes(r) \in Nat
<1>1. CASE r = Loose
  BY <1>1 DEF ItemBytes
<1>2. CASE r # Loose
  BY <1>2, RecordBytesFit DEF ItemBytes, Record
<1> QED
  BY <1>1, <1>2

LEMMA BodyBytesIsNat == ASSUME NEW b \in Seq(Record) PROVE BodyBytes(b) \in Nat
<1>1. \A i \in DOMAIN b : b[i] \in Record
  OBVIOUS
<1>2. [i \in DOMAIN b |-> ItemBytes(b[i])] \in Seq(Nat)
  BY <1>1, ItemBytesAreNat
<1> QED
  BY <1>2, SumIsNat DEF BodyBytes

\* A complete record takes 13 bytes and more.
LEMMA BodyBytesFit ==
  ASSUME NEW b \in Seq(Entry)
  PROVE  BodyBytes(b) \in Nat /\ 13 * Len(b) <= BodyBytes(b)
<1> DEFINE w == [i \in DOMAIN b |-> ItemBytes(b[i])]
<1>1. ASSUME NEW i \in DOMAIN b PROVE ItemBytes(b[i]) \in Nat /\ 13 <= ItemBytes(b[i])
  <2>1. b[i] \in Entry /\ b[i] # Loose
    BY WireAssumption
  <2> QED
    BY <2>1, RecordBytesFit DEF ItemBytes
<1>2. w \in Seq(Nat) /\ Len(w) = Len(b) /\ \A i \in 1..Len(w) : 13 <= w[i]
  BY <1>1
<1> HIDE DEF w
<1>3. SumOf(w) \in Nat /\ 13 * Len(w) <= SumOf(w)
  BY <1>2, SumIsNat, SumIsLong
<1> QED
  BY <1>2, <1>3 DEF BodyBytes, w

LEMMA QueryBytesIsNat ==
  ASSUME NEW q \in Seq(Query) PROVE QueryBytes(q) \in Nat
<1>1. ASSUME NEW i \in DOMAIN q PROVE 3 + FilterBytes(q[i].filter) \in Nat
  <2>1. q[i] \in Query
    OBVIOUS
  <2>2. StrBytes[q[i].filter] \in Nat
    BY <2>1, WireAssumption DEF Query
  <2> QED
    BY <2>2 DEF FilterBytes
<1>2. [i \in DOMAIN q |-> 3 + FilterBytes(q[i].filter)] \in Seq(Nat)
  BY <1>1
<1> QED
  BY <1>2, SumIsNat DEF QueryBytes

-----------------------------------------------------------------------------
\* Parsing one buffer.

LEMMA CountIsNatural == ASSUME NEW m \in Message PROVE m.count \in Nat
<1>1. m.count \in Byte
  BY DEF Message
<1> QED
  BY <1>1 DEF Byte

LEMMA ItemsAreSeq ==
  ASSUME NEW m \in Message
  PROVE  m.items \in Seq(Item) /\ Len(m.items) \in Nat
<1>1. m.items \in Seq(Item)
  BY DEF Message
<1> QED
  BY <1>1, LenProperties

\* No more sections are read as written than are announced, nor than there are,
\* and no fewer unless the next one is not legible.
LEMMA CleanPrefixFits ==
  ASSUME NEW m \in Message
  PROVE  /\ CleanPrefix(m) \in 0..m.count /\ CleanPrefix(m) <= Len(m.items)
         /\ CleanPrefix(m) = m.count =>
              \A i \in 1..m.count : Legible(m.items[i])
<1> DEFINE n == m.count
           k == Len(m.items)
           bad(i) == ~Legible(m.items[i])
           stops == {i \in 1..n : i > k \/ bad(i)}
           first == CHOOSE i \in stops : \A j \in stops : i <= j
<1>1. n \in Nat /\ k \in Nat
  BY CountIsNatural, ItemsAreSeq
<1>2. CleanPrefix(m) = IF stops = {} THEN n ELSE first - 1
  BY DEF CleanPrefix
<1> HIDE DEF n, k, bad
<1>3. CASE stops = {}
  <2>1. n <= k
    <3>1. n # 0 => n \in 1..n
      BY <1>1
    <3>2. n \notin stops
      BY <1>3
    <3> QED
      BY <1>1, <3>1, <3>2
  <2>2. CleanPrefix(m) = n
    BY <1>2, <1>3
  <2>3. \A i \in 1..n : ~bad(i)
    BY <1>3
  <2> QED
    BY <1>1, <2>1, <2>2, <2>3 DEF n, k, bad
<1>4. CASE stops # {}
  <2>1. stops \in SUBSET Nat
    BY <1>1
  <2>2. first \in stops /\ \A j \in stops : first <= j
    <3> HIDE DEF stops
    <3>1. \E i \in stops : \A j \in stops : i <= j
      BY <1>4, <2>1, LeastNatural
    <3> QED
      BY <3>1
  <2> HIDE DEF first
  <2>3. first \in 1..n
    BY <2>2
  <2>4. first <= k + 1
    <3>1. k + 1 <= n => k + 1 \in stops
      BY <1>1
    <3> HIDE DEF stops
    <3> QED
      BY <1>1, <2>2, <2>3, <3>1
  <2>5. CleanPrefix(m) = first - 1
    BY <1>2, <1>4
  <2>6. first - 1 \in 0..n /\ first - 1 <= k /\ first - 1 # n
    BY <1>1, <2>3, <2>4
  <2> QED
    BY <2>5, <2>6 DEF n, k
<1> QED
  BY <1>3, <1>4

\* The outcomes of ParseReply, one by one: what was read as written, and what
\* may come with it.
Read(m) == SubSeq(m.items, 1, CleanPrefix(m))
Unread(m) == m.count - CleanPrefix(m)

LEMMA ReplyCases ==
  ASSUME NEW m
  PROVE  ParseReply(m) =
           IF ~CompleteMessage(m) THEN {Outcome(FALSE, <<>>)}
           ELSE IF ReceivedBytes(m) < 10 \/ m.type # Response
           THEN Astray(<<>>, 0, 0)
           ELSE IF Unread(m) = 0 /\ CleanPrefix(m) = Len(m.items)
           THEN {Outcome(TRUE, Read(m))}
           ELSE IF Unread(m) = 0 \/ CleanPrefix(m) = Len(m.items)
           THEN Astray(Read(m), 0, Unread(m))
           ELSE IF m.items[CleanPrefix(m) + 1] \in Query
           THEN {Outcome(FALSE, Read(m))}
           ELSE Astray(Read(m), 1, Unread(m))
BY DEF ParseReply, Read, Unread

\* Made-up records are all that a reader who has lost its place can add.
LEMMA AstrayAdds ==
  ASSUME NEW recs, NEW least \in 0..1, NEW unread \in Nat,
         NEW o \in Astray(recs, least, unread)
  PROVE  \E g \in Nat : o.recs = recs \o MadeUp(g)
<1>1. \A g \in least..unread + 1 : g \in Nat
  OBVIOUS
<1>2. \A g \in unread..unread + 1 : g \in Nat
  OBVIOUS
<1>3. \A ok, x : Outcome(ok, x).recs = x
  BY DEF Outcome
<1>4. \/ \E g \in least..unread + 1 : o = Outcome(FALSE, recs \o MadeUp(g))
      \/ \E g \in unread..unread + 1 : o = Outcome(TRUE, recs \o MadeUp(g))
  BY Zenon DEF Astray
<1> QED
  BY <1>1, <1>2, <1>3, <1>4, Zenon

\* Whatever the parser makes of a reply, it appends records and, at most,
\* made-up ones.
LEMMA ParsedAreRecords ==
  ASSUME NEW m \in Message, m.items \in Seq(Record), NEW o \in ParseReply(m)
  PROVE  o.recs \in Seq(Record \cup {Garbage})
<1> DEFINE R == Record \cup {Garbage}
           clean == CleanPrefix(m)
           unread == Unread(m)
           recs == Read(m)
<1>1. clean \in Nat /\ clean <= Len(m.items) /\ unread \in Nat
  BY CleanPrefixFits, CountIsNatural, ItemsAreSeq DEF Unread
<1>2. m.items \in Seq(R) /\ Len(m.items) \in Nat
  BY SeqMonotonic
<1> SUFFICES o.recs \in Seq(R)
  OBVIOUS
<1>3. Garbage \in R
  OBVIOUS
<1> HIDE DEF R, clean, unread
<1>4. recs \in Seq(R) /\ <<>> \in Seq(R)
  BY <1>1, <1>2, SubSeqProperties, EmptySeq DEF Read, clean
<1> HIDE DEF recs
<1>5. \A g \in Nat : MadeUp(g) \in Seq(R)
  BY <1>3 DEF MadeUp
<1>6. \A s, t \in Seq(R) : s \o t \in Seq(R)
  BY ConcatProperties
<1>7. \A s \in Seq(R), l \in 0..1, u \in Nat :
         o \in Astray(s, l, u) => o.recs \in Seq(R)
  <2> SUFFICES ASSUME NEW s \in Seq(R), NEW l \in 0..1, NEW u \in Nat,
                      o \in Astray(s, l, u)
               PROVE  o.recs \in Seq(R)
    OBVIOUS
  <2>1. PICK g \in Nat : o.recs = s \o MadeUp(g)
    BY AstrayAdds
  <2> QED
    BY <1>5, <1>6, <2>1, Zenon
<1>8. \/ o \in {Outcome(FALSE, <<>>), Outcome(TRUE, recs), Outcome(FALSE, recs)}
      \/ o \in Astray(<<>>, 0, 0)
      \/ o \in Astray(recs, 0, unread) \/ o \in Astray(recs, 1, unread)
  BY ReplyCases, Zenon DEF recs, unread
<1>9. CASE o \in {Outcome(FALSE, <<>>), Outcome(TRUE, recs), Outcome(FALSE, recs)}
  <2>1. \A ok, s : Outcome(ok, s).recs = s
    BY DEF Outcome
  <2>2. o.recs = <<>> \/ o.recs = recs
    BY <1>9, <2>1, Zenon
  <2> QED
    BY <1>4, <2>2, Zenon
<1>10. 0 \in 0..1 /\ 1 \in 0..1 /\ 0 \in Nat
  OBVIOUS
<1> QED
  BY <1>1, <1>4, <1>7, <1>8, <1>9, <1>10, Zenon

\* A message that is not read to the end as it was written may be refused.
LEMMA LostIsRefused ==
  ASSUME NEW m \in Message, Unread(m) # 0
  PROVE  \E o \in ParseReply(m) : ~o.ok
<1> DEFINE unread == Unread(m)
<1>1. unread \in Nat
  BY CleanPrefixFits, CountIsNatural DEF Unread
<1> HIDE DEF unread
<1>2. \A x : Outcome(FALSE, x).ok = FALSE
  BY DEF Outcome
<1>3. ASSUME NEW recs, NEW least \in 0..1, NEW n \in Nat
      PROVE  \E o \in Astray(recs, least, n) : ~o.ok
  <2>1. n + 1 \in least..n + 1
    OBVIOUS
  <2>2. Outcome(FALSE, recs \o MadeUp(n + 1)) \in Astray(recs, least, n)
    BY <2>1, Zenon DEF Astray
  <2> QED
    BY <1>2, <2>2, Zenon
<1>4. 0 \in 0..1 /\ 1 \in 0..1 /\ 0 \in Nat
  OBVIOUS
<1>5. \/ \E x : ParseReply(m) = {Outcome(FALSE, x)}
      \/ \E l \in 0..1, n \in Nat : \E x : ParseReply(m) = Astray(x, l, n)
  <2>1. \/ ParseReply(m) = {Outcome(FALSE, <<>>)}
        \/ ParseReply(m) = {Outcome(FALSE, Read(m))}
        \/ ParseReply(m) = Astray(<<>>, 0, 0)
        \/ ParseReply(m) = Astray(Read(m), 0, unread)
        \/ ParseReply(m) = Astray(Read(m), 1, unread)
    BY ReplyCases, Zenon DEF unread
  <2>2. CASE ParseReply(m) = Astray(<<>>, 0, 0)
    BY <1>4, <2>2, Zenon
  <2>3. CASE ParseReply(m) = Astray(Read(m), 0, unread)
    BY <1>1, <1>4, <2>3, Zenon
  <2>4. CASE ParseReply(m) = Astray(Read(m), 1, unread)
    BY <1>1, <1>4, <2>4, Zenon
  <2> QED
    BY <2>1, <2>2, <2>3, <2>4, Zenon
<1>6. CASE \E x : ParseReply(m) = {Outcome(FALSE, x)}
  BY <1>2, <1>6, Zenon
<1>7. CASE \E l \in 0..1, n \in Nat : \E x : ParseReply(m) = Astray(x, l, n)
  BY <1>3, <1>7, Zenon
<1> QED
  BY <1>5, <1>6, <1>7

-----------------------------------------------------------------------------
\* Replies.

\* What the responder composes fits the length field, and its records fit the
\* count field wherever they fit the buffer.
LEMMA HeaderFits ==
  ASSUME NEW b \in Seq(Entry), NEW m, m = ResponseMessage(b, Len(b)),
         m.size <= MaxPayload
  PROVE  /\ m \in Message /\ m.items = b
         /\ m.size \in Nat /\ m.sig /\ m.len = m.size - 8 /\ m.size >= 10
         /\ m.type = Response
         /\ m.size <= BufferSize => m.count = Len(b)
<1> DEFINE n == BodyBytes(b)
           k == Len(b)
           len == (2 + n) % 65536
           count == k % 256
<1>1. n \in Nat /\ 13 * k <= n /\ k \in Nat
  BY BodyBytesFit
<1>2. m = [size |-> 10 + n, sig |-> TRUE, type |-> Response, len |-> len,
           count |-> count, items |-> b]
  BY DEF ResponseMessage
<1>3. 10 + n <= MaxPayload
  BY <1>2
<1> HIDE DEF n, k
<1>4. len \in Word /\ count \in Byte
  <2>1. len \in Word
    BY <1>1, WordFits
  <2>2. count \in Byte
    BY <1>1 DEF Byte
  <2> QED
    BY <2>1, <2>2
<1>5. len = 2 + n
  BY <1>1, <1>3 DEF MaxPayload
<1>6. 10 + n <= BufferSize => count = k
  BY <1>1 DEF BufferSize
<1> HIDE DEF len, count
<1>7. b \in Seq(Item)
  BY SeqMonotonic DEF Item, Record
<1>8. 10 + n \in Nat /\ Response \in Byte /\ len = (10 + n) - 8 /\ 10 + n >= 10
  BY <1>1, <1>5 DEF Response, Byte
<1>9. m \in Message
  BY <1>2, <1>4, <1>7, <1>8 DEF Message
<1> QED
  BY <1>2, <1>6, <1>8, <1>9 DEF k

\* A reply that the receive buffer cut off is refused, whatever is in it.
LEMMA CutOffIsRefused ==
  ASSUME NEW m, m.size \in Nat, m.len = m.size - 8, m.size > BufferSize
  PROVE  ParseReply(m) = {Outcome(FALSE, <<>>)}
<1>1. ~CompleteMessage(m)
  BY DEF CompleteMessage, ReceivedBytes, BufferSize, HeaderBytes
<1> QED
  BY <1>1, ReplyCases, Zenon

\* One that was received and has only legible sections is read in full.
LEMMA LegibleIsRead ==
  ASSUME NEW m, NEW b \in Seq(Entry), m.items = b, m.count = Len(b),
         m.size \in Nat, m.sig, m.len = m.size - 8, m.size >= 10,
         m.type = Response, m.size <= BufferSize,
         \A i \in DOMAIN b : Legible(b[i])
  PROVE  ParseReply(m) = {Outcome(TRUE, b)}
<1>1. ReceivedBytes(m) = m.size /\ ~(ReceivedBytes(m) < 10)
  BY DEF ReceivedBytes, BufferSize
<1>2. CompleteMessage(m)
  BY <1>1 DEF CompleteMessage, HeaderBytes
<1>3. Len(b) \in Nat /\ SubSeq(b, 1, Len(b)) = b /\ Len(b) - Len(b) = 0
  BY LenProperties, SubSeqFull
<1>4. \A i \in 1..m.count : ~(i > Len(m.items) \/ ~Legible(m.items[i]))
  BY LenProperties
<1>5. CleanPrefix(m) = m.count
  BY <1>4, Zenon DEF CleanPrefix
<1>6. Unread(m) = 0 /\ CleanPrefix(m) = Len(m.items) /\ Read(m) = b
  BY <1>3, <1>5, Zenon DEF Unread, Read
<1> QED
  BY <1>1, <1>2, <1>6, ReplyCases, Zenon

\* A reply the responder composed is read in full or, when the receive buffer
\* cut it off, not at all.
LEMMA ProperIsReadInFull ==
  ASSUME NEW m, ProperReply(m)
  PROVE  ParseReply(m) = IF m.size <= BufferSize
                         THEN {Outcome(TRUE, m.items)}
                         ELSE {Outcome(FALSE, <<>>)}
<1> DEFINE b == m.items
<1>1. b \in Seq(Entry) /\ m = ResponseMessage(b, Len(b)) /\ m.size <= MaxPayload
  BY DEF ProperReply
<1>2. /\ m.size \in Nat /\ m.sig /\ m.len = m.size - 8 /\ m.size >= 10
      /\ m.type = Response /\ m.items = b
      /\ m.size <= BufferSize => m.count = Len(b)
  <2> HIDE DEF b
  <2> QED
    BY <1>1, HeaderFits
<1>3. \A i \in DOMAIN b : Legible(b[i])
  BY <1>1, ElementOfSeq DEF ProperReply, Legible
<1> HIDE DEF b
<1>4. CASE m.size <= BufferSize
  <2>1. ParseReply(m) = {Outcome(TRUE, b)}
    BY <1>1, <1>2, <1>3, <1>4, LegibleIsRead
  <2> QED
    BY <1>2, <1>4, <2>1, Zenon
<1>5. CASE ~(m.size <= BufferSize)
  <2>1. m.size > BufferSize
    BY <1>2, <1>5 DEF BufferSize
  <2> QED
    BY <1>2, <1>5, <2>1, CutOffIsRefused, Zenon
<1> QED
  BY <1>4, <1>5

\* So is any sequence of records with short texts that fits a datagram.
LEMMA ComposedIsProper ==
  ASSUME NEW b \in Seq(Entry), ResponseMessage(b, Len(b)).size <= MaxPayload,
         \A i \in DOMAIN b : TextFits(b[i])
  PROVE  ProperReply(ResponseMessage(b, Len(b)))
BY DEF ProperReply, ResponseMessage

LEMMA CountIsCut ==
  ASSUME NEW b \in Seq(Entry)
  PROVE  ResponseMessage(b, Len(b) % 256) = ResponseMessage(b, Len(b))
<1>1. \A n \in Nat : (n % 256) % 256 = n % 256
  OBVIOUS
<1>2. Len(b) \in Nat
  OBVIOUS
<1>3. (Len(b) % 256) % 256 = Len(b) % 256
  BY <1>1, <1>2
<1>4. \A s, t : s = t =>
        [size |-> 10 + BodyBytes(b), sig |-> TRUE, type |-> Response,
         len |-> (2 + BodyBytes(b)) % 65536, count |-> s, items |-> b]
        = [size |-> 10 + BodyBytes(b), sig |-> TRUE, type |-> Response,
           len |-> (2 + BodyBytes(b)) % 65536, count |-> t, items |-> b]
  OBVIOUS
<1> QED
  BY <1>3, <1>4 DEF ResponseMessage

LEMMA WithinPayload ==
  \A x \in Nat : x <= BufferSize => x <= MaxPayload
BY SMTT(30) DEF BufferSize, MaxPayload

LEMMA BeyondBuffer ==
  \A x \in BufferSize + 1..MaxPayload : x <= MaxPayload /\ x > BufferSize
BY SMTT(30) DEF BufferSize, MaxPayload

\* A text fits its length byte if it has fewer than 256 bytes.
LEMMA ShortTextFits ==
  ASSUME NEW e \in Entry
  PROVE  TextFits(e) <=> StrBytes[e.ipv6] < 256
<1>1. StrBytes[e.ipv6] \in Nat
  BY WireAssumption DEF Entry
<1> QED
  BY <1>1 DEF TextFits, Byte

\* A reply that fits the client's buffer is read back exactly, whatever its
\* records are, if their texts fit their length bytes; if one does not, the
\* reply may be refused.
THEOREM ReplyReadsBack ==
  ASSUME NEW b \in Seq(Entry),
         ResponseMessage(b, Len(b) % 256).size <= BufferSize
  PROVE  ParseReply(ResponseMessage(b, Len(b) % 256)) = {Outcome(TRUE, b)}
           <=> \A i \in DOMAIN b : StrBytes[b[i].ipv6] < 256
<1> DEFINE m == ResponseMessage(b, Len(b))
<1>1. m = ResponseMessage(b, Len(b) % 256) /\ m.size <= BufferSize
  BY CountIsCut
<1>2. m.size \in Nat
  BY BodyBytesFit DEF ResponseMessage
<1>3. \A i \in DOMAIN b : b[i] \in Entry
  BY ElementOfSeq
<1>4. \A i \in DOMAIN b : Legible(b[i]) <=> StrBytes[b[i].ipv6] < 256
  BY <1>3, ShortTextFits, Zenon DEF Legible
<1> HIDE DEF m
<1>5. m.size <= MaxPayload
  BY <1>1, <1>2, WithinPayload, Zenon
<1>6. /\ m \in Message /\ m.items = b
      /\ m.sig /\ m.len = m.size - 8 /\ m.size >= 10
      /\ m.type = Response /\ m.count = Len(b)
  BY <1>1, <1>5, HeaderFits DEF m
<1>7. ASSUME \A i \in DOMAIN b : Legible(b[i])
      PROVE  ParseReply(m) = {Outcome(TRUE, b)}
  BY <1>1, <1>2, <1>6, <1>7, LegibleIsRead, ZenonT(60)
<1>8. ASSUME ParseReply(m) = {Outcome(TRUE, b)}, NEW i \in DOMAIN b
      PROVE  Legible(b[i])
  <2>1. Outcome(TRUE, b).ok = TRUE
    BY DEF Outcome
  <2>2. Unread(m) = 0
    BY <1>6, <1>8, <2>1, LostIsRefused, Zenon
  <2>3. CleanPrefix(m) = m.count
    <3>1. CleanPrefix(m) \in 0..m.count /\ m.count \in Nat
      BY <1>6, CleanPrefixFits, CountIsNatural
    <3> QED
      BY <2>2, <3>1 DEF Unread
  <2>4. i \in 1..m.count
    BY <1>6
  <2> QED
    BY <1>6, <2>3, <2>4, CleanPrefixFits
<1> QED
  BY <1>1, <1>4, <1>7, <1>8, Zenon

\* A reply that fits a datagram and not the buffer is refused as a whole.
THEOREM LongReplyRefused ==
  ASSUME NEW b \in Seq(Entry),
         ResponseMessage(b, Len(b) % 256).size \in BufferSize + 1..MaxPayload
  PROVE  ParseReply(ResponseMessage(b, Len(b) % 256)) = {Outcome(FALSE, <<>>)}
<1> DEFINE m == ResponseMessage(b, Len(b))
<1>1. m = ResponseMessage(b, Len(b) % 256)
      /\ m.size \in BufferSize + 1..MaxPayload
  BY CountIsCut
<1> HIDE DEF m
<1>2. m.size <= MaxPayload /\ m.size > BufferSize
  BY <1>1, BeyondBuffer, Zenon
<1>3. m.size \in Nat /\ m.len = m.size - 8
  BY <1>2, HeaderFits DEF m
<1> QED
  BY <1>1, <1>2, <1>3, CutOffIsRefused, Zenon

-----------------------------------------------------------------------------
\* Broadcasts.

\* FlattenSeq appends the sequences one by one.
LEMMA FlattenedStepwise ==
  ASSUME NEW S, NEW seqs \in Seq(S), Len(seqs) # 0
  PROVE  \E flat : /\ FlattenSeq(seqs) = flat[Len(seqs)]
                   /\ flat[1] = seqs[1]
                   /\ \A i \in 2..Len(seqs) : flat[i] = flat[i - 1] \o seqs[i]
<1> DEFINE n == Len(seqs)
           upto(k, f) == [i \in 1..k |-> IF i = 1 THEN seqs[i]
                                         ELSE f[i - 1] \o seqs[i]]
           K == {k \in 0..n : \E f : f = upto(k, f)}
           flat == CHOOSE f : f = upto(n, f)
<1>1. n \in Nat /\ n # 0
  OBVIOUS
<1>2. 0 \in K
  <2>1. \A f, g : upto(0, f) = upto(0, g)
    OBVIOUS
  <2>2. upto(0, upto(0, 0)) = upto(0, 0)
    BY <2>1
  <2> HIDE DEF upto
  <2> QED
    BY <1>1, <2>2
<1>3. ASSUME NEW k \in 1..n, k - 1 \in K PROVE k \in K
  <2>1. PICK f : f = upto(k - 1, f)
    BY <1>3
  <2> DEFINE g == [i \in 1..k |-> IF i < k THEN f[i]
                                  ELSE IF i = 1 THEN seqs[i]
                                  ELSE f[i - 1] \o seqs[i]]
  <2>2. ASSUME NEW i \in 1..k PROVE g[i] = upto(k, g)[i]
    <3>1. CASE i = 1 /\ i < k
      <4>1. i \in 1..k - 1
        BY <3>1
      <4> QED
        BY <2>1, <3>1, <4>1
    <3>2. CASE i # 1 /\ i < k
      <4>1. i \in 1..k - 1 /\ i - 1 \in 1..k /\ i - 1 < k
        BY <3>2
      <4>2. f[i] = f[i - 1] \o seqs[i]
        BY <2>1, <3>2, <4>1
      <4>3. g[i] = f[i] /\ g[i - 1] = f[i - 1]
        BY <3>2, <4>1
      <4> HIDE DEF g
      <4> QED
        BY <3>2, <4>2, <4>3
    <3>3. CASE i = k /\ k = 1
      BY <3>3
    <3>4. CASE i = k /\ k # 1
      <4>1. i - 1 \in 1..k /\ i - 1 < k /\ ~(i < k) /\ i # 1
        BY <3>4
      <4>2. g[i - 1] = f[i - 1] /\ g[i] = f[i - 1] \o seqs[i]
        BY <4>1
      <4> HIDE DEF g
      <4> QED
        BY <4>1, <4>2
    <3> QED
      BY <3>1, <3>2, <3>3, <3>4
  <2>3. g = upto(k, g)
    <3>1. g = [i \in 1..k |-> g[i]]
      OBVIOUS
    <3> HIDE DEF g
    <3> QED
      BY <2>2, <3>1
  <2> HIDE DEF g, upto
  <2> QED
    BY <2>3
<1>4. n \in K
  <2> HIDE DEF K, n
  <2>1. \A k \in 1..n : k - 1 \in K => k \in K
    BY <1>3
  <2>2. \A k \in 0..n : k \in K
    BY <1>1, <1>2, <2>1, UpTo
  <2> QED
    BY <1>1, <2>2
<1> HIDE DEF K
<1>5. flat = upto(n, flat)
  <2>1. \E f : f = upto(n, f)
    BY <1>4 DEF K
  <2> HIDE DEF upto
  <2> QED
    BY <2>1
<1>6. FlattenSeq(seqs) = flat[n]
  BY <1>1 DEF FlattenSeq
<1> HIDE DEF flat
<1>7. flat[1] = seqs[1] /\ \A i \in 2..n : flat[i] = flat[i - 1] \o seqs[i]
  <2> HIDE DEF n
  <2>1. ASSUME NEW i \in 1..n
        PROVE  flat[i] = IF i = 1 THEN seqs[i] ELSE flat[i - 1] \o seqs[i]
    <3>1. flat[i] = upto(n, flat)[i]
      BY <1>5
    <3> HIDE DEF flat
    <3> QED
      BY <3>1
  <2>2. 1 \in 1..n /\ \A i \in 2..n : i \in 1..n /\ i # 1
    BY <1>1
  <2> QED
    BY <2>1, <2>2
<1> QED
  BY <1>6, <1>7

LEMMA FlattenSingletons ==
  ASSUME NEW S, NEW q \in Seq(S)
  PROVE  FlattenSeq([i \in DOMAIN q |-> <<q[i]>>]) = q
<1> DEFINE n == Len(q)
           seqs == [i \in DOMAIN q |-> <<q[i]>>]
<1>1. /\ n \in Nat /\ DOMAIN q = 1..n /\ Len(seqs) = n /\ seqs \in Seq(Seq(S))
      /\ \A i \in 1..n : q[i] \in S /\ seqs[i] = <<q[i]>>
  <2>1. n \in Nat /\ DOMAIN q = 1..n
    BY LenProperties
  <2>2. \A i \in 1..n : q[i] \in S
    BY <2>1, ElementOfSeq
  <2> HIDE DEF n
  <2>3. \A i \in 1..n : seqs[i] = <<q[i]>> /\ <<q[i]>> \in Seq(S)
    BY <2>1, <2>2
  <2>4. seqs \in [1..n -> Seq(S)]
    BY <2>1, <2>3
  <2> HIDE DEF seqs
  <2>5. seqs \in Seq(Seq(S)) /\ Len(seqs) = n
    BY <2>1, <2>4
  <2> QED
    BY <2>1, <2>2, <2>3, <2>5
<1>2. CASE n = 0
  <2>1. seqs = <<>> /\ q = <<>>
    BY <1>1, <1>2
  <2> QED
    BY <2>1 DEF FlattenSeq
<1>3. CASE n # 0
  <2> HIDE DEF seqs
  <2>1. PICK flat : /\ FlattenSeq(seqs) = flat[n]
                    /\ flat[1] = seqs[1]
                    /\ \A i \in 2..n : flat[i] = flat[i - 1] \o seqs[i]
    <3> HIDE DEF n
    <3>1. Len(seqs) # 0
      BY <1>1, <1>3
    <3>2. \E flat : /\ FlattenSeq(seqs) = flat[Len(seqs)]
                    /\ flat[1] = seqs[1]
                    /\ \A i \in 2..Len(seqs) : flat[i] = flat[i - 1] \o seqs[i]
      BY <1>1, <3>1, FlattenedStepwise
    <3> QED
      BY <1>1, <3>2
  <2> DEFINE g == [i \in 1..n |-> SubSeq(q, 1, i)]
  <2>2. 1 \in 1..n /\ n \in 1..n
    BY <1>1, <1>3
  <2>3. SubSeq(q, 1, 1) = <<q[1]>>
    <3>1. SubSeq(q, 1, 1) \in Seq(S) /\ Len(SubSeq(q, 1, 1)) = 1
          /\ SubSeq(q, 1, 1)[1] = q[1]
      BY <1>1, <2>2, SubSeqProperties
    <3>2. <<q[1]>> \in Seq(S) /\ Len(<<q[1]>>) = 1 /\ <<q[1]>>[1] = q[1]
      BY <1>1, <2>2
    <3>3. \A i \in 1..1 : SubSeq(q, 1, 1)[i] = <<q[1]>>[i]
      BY <3>1, <3>2
    <3> QED
      BY <3>1, <3>2, <3>3, SeqEqual
  <2>4. flat[1] = g[1]
    BY <1>1, <2>1, <2>2, <2>3
  <2>5. ASSUME NEW i \in 2..n, flat[i - 1] = g[i - 1] PROVE flat[i] = g[i]
    <3>1. i \in 1..n /\ i - 1 \in 1..n
      BY <1>1
    <3>2. SubSeq(q, 1, i) = SubSeq(q, 1, i - 1) \o <<q[i]>>
      BY <1>1, <3>1, SubSeqRecursiveSecond
    <3>3. flat[i] = flat[i - 1] \o <<q[i]>>
      BY <1>1, <2>1, <3>1
    <3> QED
      BY <2>5, <3>1, <3>2, <3>3
  <2> HIDE DEF g
  <2>6. flat[n] = g[n]
    <3> HIDE DEF n
    <3> DEFINE T == {i \in 0..n : i = 0 \/ flat[i] = g[i]}
    <3>1. 0 \in T
      BY <1>1
    <3>2. ASSUME NEW i \in 1..n, i - 1 \in T PROVE i \in T
      <4>1. CASE i = 1
        BY <2>4, <4>1
      <4>2. CASE i # 1
        BY <2>5, <3>2, <4>2
      <4> QED
        BY <4>1, <4>2
    <3>3. n \in T
      <4> HIDE DEF T
      <4>1. \A i \in 1..n : i - 1 \in T => i \in T
        BY <3>2
      <4>2. \A i \in 0..n : i \in T
        BY <1>1, <3>1, <4>1, UpTo
      <4> QED
        BY <1>1, <4>2
    <3> QED
      BY <1>3, <3>3
  <2>7. g[n] = q
    BY <2>2, SubSeqFull DEF g
  <2> QED
    BY <2>1, <2>6, <2>7 DEF seqs
<1> QED
  BY <1>2, <1>3

\* Nothing that is in one of the sequences is lost.
LEMMA FlattenKeeps ==
  ASSUME NEW S, NEW seqs \in Seq(Seq(S)),
         NEW i \in DOMAIN seqs, NEW k \in DOMAIN seqs[i]
  PROVE  \E j \in DOMAIN FlattenSeq(seqs) : FlattenSeq(seqs)[j] = seqs[i][k]
<1> DEFINE n == Len(seqs)
<1>1. n \in Nat /\ n # 0 /\ i \in 1..n /\ \A h \in 1..n : seqs[h] \in Seq(S)
  <2>1. DOMAIN seqs = 1..n /\ n \in Nat
    BY LenProperties
  <2> QED
    BY <2>1
<1>2. PICK flat : /\ FlattenSeq(seqs) = flat[n]
                  /\ flat[1] = seqs[1]
                  /\ \A h \in 2..n : flat[h] = flat[h - 1] \o seqs[h]
  BY <1>1, FlattenedStepwise
<1> DEFINE keeps(f, g) == \A x \in DOMAIN f : \E j \in DOMAIN g : g[j] = f[x]
           T == {h \in 0..n : h = 0 \/ /\ flat[h] \in Seq(S)
                                       /\ \A l \in 1..h : keeps(seqs[l], flat[h])}
<1>3. 0 \in T
  BY <1>1
<1>4. ASSUME NEW h \in 1..n, h - 1 \in T PROVE h \in T
  <2>1. CASE h = 1
    <3>1. flat[h] = seqs[h] /\ flat[h] \in Seq(S) /\ \A l \in 1..h : l = h
      BY <1>1, <1>2, <2>1
    <3>2. keeps(seqs[h], flat[h])
      BY <3>1
    <3> HIDE DEF keeps
    <3> QED
      BY <3>1, <3>2
  <2>2. CASE h # 1
    <3>1. h \in 2..n /\ h - 1 # 0
      BY <2>2
    <3>2. flat[h - 1] \in Seq(S) /\ \A l \in 1..h - 1 : keeps(seqs[l], flat[h - 1])
      BY <1>4, <3>1
    <3>3. seqs[h] \in Seq(S) /\ flat[h] = flat[h - 1] \o seqs[h]
      BY <1>1, <1>2, <3>1
    <3> DEFINE a == flat[h - 1]
               b == seqs[h]
    <3>4. a \in Seq(S) /\ b \in Seq(S) /\ flat[h] = a \o b
      BY <3>2, <3>3
    <3> HIDE DEF a, b
    <3>5. flat[h] \in Seq(S) /\ Len(flat[h]) = Len(a) + Len(b)
          /\ \A x \in 1..Len(a) + Len(b) :
                flat[h][x] = IF x <= Len(a) THEN a[x] ELSE b[x - Len(a)]
      BY <3>4, ConcatProperties
    <3>6. keeps(a, flat[h]) /\ keeps(b, flat[h])
      <4>1. ASSUME NEW x \in DOMAIN a PROVE \E j \in DOMAIN flat[h] : flat[h][j] = a[x]
        <5>1. x \in DOMAIN flat[h] /\ flat[h][x] = a[x]
          BY <3>4, <3>5
        <5> QED
          BY <5>1
      <4>2. ASSUME NEW x \in DOMAIN b PROVE \E j \in DOMAIN flat[h] : flat[h][j] = b[x]
        <5>1. Len(a) + x \in DOMAIN flat[h] /\ flat[h][Len(a) + x] = b[x]
          BY <3>4, <3>5
        <5> QED
          BY <5>1
      <4> QED
        BY <4>1, <4>2
    <3>7. \A l \in 1..h : keeps(seqs[l], flat[h])
      <4> SUFFICES ASSUME NEW l \in 1..h PROVE keeps(seqs[l], flat[h])
        OBVIOUS
      <4>1. CASE l = h
        BY <3>6, <4>1 DEF b
      <4>2. CASE l # h
        <5>1. l \in 1..h - 1
          BY <4>2
        <5>2. keeps(seqs[l], a)
          BY <3>2, <5>1 DEF a
        <5> QED
          BY <3>6, <5>2
      <4> QED
        BY <4>1, <4>2
    <3> HIDE DEF keeps
    <3> QED
      BY <3>5, <3>7
  <2> QED
    BY <2>1, <2>2
<1>5. n \in T
  <2> HIDE DEF T, n
  <2>1. \A h \in 1..n : h - 1 \in T => h \in T
    BY <1>4
  <2>2. \A h \in 0..n : h \in T
    BY <1>1, <1>3, <2>1, UpTo
  <2> QED
    BY <1>1, <2>2
<1>6. keeps(seqs[i], flat[n])
  <2> HIDE DEF keeps
  <2> QED
    BY <1>1, <1>5
<1> QED
  BY <1>2, <1>6

\* What is found where a query was written: the query with what is left of its
\* filter, alone unless the filter has more than 256 bytes.
LEMMA SectionsOfQuery ==
  ASSUME NEW q \in Query
  PROVE  LET clipped == [q EXCEPT !.filter = Clip[q.filter]]
         IN  /\ q.filter \in Strings /\ StrBytes[q.filter] \in Nat
             /\ clipped \in Query /\ QuerySections(q) \in Seq(Item)
             /\ clipped = q <=> StrBytes[q.filter] < 256
             /\ StrBytes[q.filter] < 256 => QuerySections(q) = <<clipped>>
             /\ \/ QuerySections(q) = <<clipped>>
                \/ QuerySections(q)[2] = Loose /\ 2 \in DOMAIN QuerySections(q)
<1> DEFINE f == q.filter
           clipped == [q EXCEPT !.filter = Clip[q.filter]]
<1>1. f \in Strings /\ q = [proto |-> q.proto, filter |-> f]
  BY DEF Query
<1>2. /\ StrBytes[f] \in Nat /\ Clip[f] \in Strings
      /\ StrBytes[Clip[f]] = StrBytes[f] % 256
      /\ StrBytes[f] < 256 => Clip[f] = f
  <2> HIDE DEF f
  <2> QED
    BY <1>1, WireAssumption
<1>3. clipped \in Query
  BY <1>2 DEF Query
<1>4. clipped = q <=> Clip[f] = f
  BY <1>1
<1>5. Clip[f] = f <=> StrBytes[f] < 256
  BY <1>2
<1>6. StrBytes[f] < 256 => FilterBytes(f) < 256
  BY <1>2 DEF FilterBytes
<1>7. QuerySections(q) = IF FilterBytes(f) < 256 THEN <<clipped>>
                         ELSE <<clipped, Loose>>
  BY DEF QuerySections
<1> HIDE DEF f, clipped
<1>8. QuerySections(q) \in Seq(Item)
  <2>1. clipped \in Item /\ Loose \in Item
    BY <1>3 DEF Item, Record
  <2> QED
    BY <1>7, <2>1
<1>9. \/ QuerySections(q) = <<clipped>>
      \/ QuerySections(q)[2] = Loose /\ 2 \in DOMAIN QuerySections(q)
  BY <1>7
<1> QED
  BY <1>1, <1>2, <1>3, <1>4, <1>5, <1>6, <1>7, <1>8, <1>9 DEF f, clipped

\* The responder reads the queries that were asked for exactly if no filter is
\* beyond the reach of its length field.
LEMMA QueriesAreRead ==
  ASSUME NEW q \in Seq(Query)
  PROVE  BroadcastMessage(q).items = q
           <=> \A i \in DOMAIN q : StrBytes[q[i].filter] < 256
<1> DEFINE items == BroadcastMessage(q).items
           seqs == [i \in DOMAIN q |-> QuerySections(q[i])]
           clipped(i) == [q[i] EXCEPT !.filter = Clip[q[i].filter]]
           left == [i \in DOMAIN q |-> clipped(i)]
<1>1. items = FlattenSeq(seqs)
  BY DEF BroadcastMessage
<1>2. ASSUME NEW i \in DOMAIN q
      PROVE  /\ q[i] \in Query
             /\ clipped(i) \in Query /\ QuerySections(q[i]) \in Seq(Item)
             /\ clipped(i) = q[i] <=> StrBytes[q[i].filter] < 256
             /\ StrBytes[q[i].filter] < 256 => QuerySections(q[i]) = <<clipped(i)>>
             /\ \/ QuerySections(q[i]) = <<clipped(i)>>
                \/ /\ QuerySections(q[i])[2] = Loose
                   /\ 2 \in DOMAIN QuerySections(q[i])
  <2>1. q[i] \in Query
    OBVIOUS
  <2> QED
    BY <2>1, SectionsOfQuery
<1> HIDE DEF clipped
<1>3. (\A i \in DOMAIN q : QuerySections(q[i]) = <<clipped(i)>>) => items = left
  <2> HAVE \A i \in DOMAIN q : QuerySections(q[i]) = <<clipped(i)>>
  <2>1. left \in Seq(Query) /\ DOMAIN left = DOMAIN q
    <3>1. DOMAIN q = 1..Len(q) /\ Len(q) \in Nat
      BY LenProperties
    <3> QED
      BY <1>2, <3>1
  <2>2. seqs = [i \in DOMAIN left |-> <<left[i]>>]
    BY <2>1
  <2> HIDE DEF left, seqs, items
  <2>3. FlattenSeq([i \in DOMAIN left |-> <<left[i]>>]) = left
    BY <2>1, FlattenSingletons
  <2> QED
    BY <1>1, <2>2, <2>3
<1>4. (\A i \in DOMAIN q : left[i] = q[i]) <=> left = q
  <2>1. q = [i \in DOMAIN q |-> q[i]]
    OBVIOUS
  <2> QED
    BY <2>1
<1>5. ASSUME items = q PROVE \A i \in DOMAIN q : QuerySections(q[i]) = <<clipped(i)>>
  <2> SUFFICES ASSUME NEW i \in DOMAIN q,
                      QuerySections(q[i])[2] = Loose,
                      2 \in DOMAIN QuerySections(q[i])
               PROVE  FALSE
    BY <1>2
  <2>1. seqs \in Seq(Seq(Item)) /\ i \in DOMAIN seqs /\ seqs[i] = QuerySections(q[i])
    <3>1. DOMAIN q = 1..Len(q) /\ Len(q) \in Nat
      BY LenProperties
    <3> QED
      BY <1>2, <3>1
  <2> HIDE DEF seqs
  <2>2. PICK j \in DOMAIN FlattenSeq(seqs) : FlattenSeq(seqs)[j] = seqs[i][2]
    <3>1. 2 \in DOMAIN seqs[i]
      BY <2>1
    <3> QED
      BY <2>1, <3>1, FlattenKeeps
  <2>3. j \in DOMAIN q /\ q[j] = Loose
    BY <1>1, <1>5, <2>1, <2>2
  <2>4. q[j] \in Query
    BY <2>3
  <2> QED
    BY <2>3, <2>4, WireAssumption
<1>6. \A i \in DOMAIN q : left[i] = clipped(i)
  OBVIOUS
<1> HIDE DEF left, items, seqs
<1>7. ASSUME items = q PROVE \A i \in DOMAIN q : StrBytes[q[i].filter] < 256
  <2>1. left = q
    BY <1>3, <1>5, <1>7, Zenon
  <2>2. \A i \in DOMAIN q : clipped(i) = q[i]
    BY <1>4, <1>6, <2>1, Zenon
  <2> QED
    BY <1>2, <2>2, Zenon
<1>8. ASSUME \A i \in DOMAIN q : StrBytes[q[i].filter] < 256 PROVE items = q
  <2>1. \A i \in DOMAIN q : QuerySections(q[i]) = <<clipped(i)>> /\ clipped(i) = q[i]
    BY <1>2, <1>8, Zenon
  <2>2. items = left
    BY <1>3, <2>1, Zenon
  <2>3. left = q
    BY <1>4, <1>6, <2>1, Zenon
  <2> QED
    BY <2>2, <2>3, Zenon
<1> QED
  BY <1>7, <1>8, Zenon DEF items

\* The length field of a broadcast that fits a datagram is its true length.
LEMMA BroadcastFields ==
  ASSUME NEW q \in Seq(Query), Len(q) \in 1..255,
         BroadcastMessage(q).size <= MaxPayload
  PROVE  LET m == BroadcastMessage(q)
         IN  /\ m.size \in Nat /\ 10 <= m.size
             /\ m.sig /\ m.type = Broadcast
             /\ m.len = m.size - HeaderBytes
             /\ m.count = Len(q) /\ m.count # 0
<1> DEFINE m == BroadcastMessage(q)
           n == QueryBytes(q)
           k == Len(q)
<1>1. n \in Nat /\ m.size = 10 + n /\ m.sig /\ m.type = Broadcast
      /\ m.len = (2 + n) % 65536 /\ m.count = k % 256
      /\ m.size <= MaxPayload /\ k \in 1..255
  BY QueryBytesIsNat DEF BroadcastMessage
<1> HIDE DEF m, n, k
<1>2. m.count = k /\ m.count # 0
  BY <1>1
<1>3. m.len = 2 + n
  BY <1>1 DEF MaxPayload
<1>4. m.size \in Nat /\ 10 <= m.size /\ m.len = m.size - HeaderBytes
  BY <1>1, <1>3 DEF HeaderBytes
<1> QED
  BY <1>1, <1>2, <1>4 DEF m, k

\* A broadcast of 1 to 255 queries that fits the responder's buffer is
\* accepted, and read back exactly if no filter is too long.
THEOREM BroadcastReadsBack ==
  ASSUME NEW q \in Seq(Query), Len(q) \in 1..255,
         BroadcastMessage(q).size <= BufferSize
  PROVE  /\ AcceptsBroadcast(BroadcastMessage(q))
         /\ BroadcastMessage(q).count = Len(q)
         /\ BroadcastMessage(q).items = q
              <=> \A i \in DOMAIN q : StrBytes[q[i].filter] < 256
<1> DEFINE m == BroadcastMessage(q)
<1>1. m.size <= MaxPayload
  <2>1. m.size \in Nat
    <3>1. QueryBytes(q) \in Nat /\ m.size = 10 + QueryBytes(q)
      BY QueryBytesIsNat DEF BroadcastMessage
    <3> HIDE DEF m
    <3> QED
      BY <3>1
  <2> HIDE DEF m
  <2> QED
    BY <2>1 DEF m, BufferSize, MaxPayload
<1>2. /\ m.size \in Nat /\ 10 <= m.size /\ m.sig /\ m.type = Broadcast
      /\ m.len = m.size - HeaderBytes /\ m.count = Len(q) /\ m.count # 0
  <2>1. BroadcastMessage(q).size <= MaxPayload
    BY <1>1
  <2> QED
    BY <2>1, BroadcastFields
<1>3. m.size <= BufferSize
  OBVIOUS
<1>4. m.items = q <=> \A i \in DOMAIN q : StrBytes[q[i].filter] < 256
  BY QueriesAreRead
<1> HIDE DEF m
<1>5. AcceptsBroadcast(m)
  BY <1>2, <1>3 DEF AcceptsBroadcast, ReceivedBytes, BufferSize, HeaderBytes
<1> QED
  BY <1>2, <1>4, <1>5 DEF m

\* A broadcast that fits a datagram and not the responder's buffer is refused.
THEOREM LongBroadcastRefused ==
  ASSUME NEW q \in Seq(Query), Len(q) \in 1..255,
         BroadcastMessage(q).size \in BufferSize + 1..MaxPayload
  PROVE  ~AcceptsBroadcast(BroadcastMessage(q))
<1> DEFINE m == BroadcastMessage(q)
<1>1. m.size > BufferSize /\ m.size <= MaxPayload
  <2> HIDE DEF m
  <2>1. m.size \in BufferSize + 1..MaxPayload
    BY DEF m
  <2> QED
    BY <2>1, BeyondBuffer, Zenon
<1>2. m.size \in Nat /\ m.len = m.size - HeaderBytes
  BY <1>1, BroadcastFields
<1> HIDE DEF m
<1>3. ~AcceptsBroadcast(m)
  BY <1>1, <1>2 DEF AcceptsBroadcast, ReceivedBytes, BufferSize, HeaderBytes
<1> QED
  BY <1>3 DEF m

=============================================================================
