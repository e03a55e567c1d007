-------------------------------- MODULE Wire --------------------------------
(***************************************************************************)
(* The NyanSD messages, as src/nyansd.cpp composes and parses them.        *)
(*                                                                         *)
(* A message is a record of what the two parsers look at: how many bytes   *)
(* it has, whether it starts with "NYANSD", the length, type and count     *)
(* fields, and the sequence of sections after them.  Strings are members   *)
(* of Strings; all that matters of one is its identity and its length.     *)
(* Bytes that belong to no section are the single item Loose: the lone 'S' *)
(* the responder leaves behind when it cannot resolve an address, and the  *)
(* tail of a filter that is longer than its one-byte length field.  A text *)
(* for IPv6 that is longer than its own stays part of its record, which    *)
(* then is not the record a reader finds: see TextFits.                    *)
(***************************************************************************)
EXTENDS Sums, SequencesExt

CONSTANTS
  Strings,    \* names, host names, IPv6 texts and filters
  Empty,      \* the empty string
  StrBytes,   \* length of each string
  Clip,       \* Clip[f]: the first (length % 256) bytes of the filter f
  Addrs,      \* IPv4 addresses a service record can carry
  NoAddr,     \* the IPv4 address 0: "to be filled in by the responder"
  Loose,      \* bytes of a body that belong to no section
  Garbage     \* a record read from bytes that are no section

BufferSize == 2048      \* receive buffers of both sides
MaxPayload == 65507     \* largest UDP payload over IPv4
HeaderBytes == 8        \* signature and length field

Broadcast == 1
Response  == 2

ProtocolAll == 0
ProtocolTCP == 1
ProtocolUDP == 2
Protocols == {ProtocolAll, ProtocolTCP, ProtocolUDP}

Byte == 0..255          \* uint8_t
Word == 0..65535        \* uint16_t

\* A service entry (struct NYSD_service).
Address == Addrs \cup {NoAddr}

Entry == [name : Strings, host : Strings, ipv6 : Strings,
          addr : Address, port : Word, proto : Protocols]

\* A query (struct NYSD_query).
Query == [proto : Protocols, filter : Strings]

\* What a body consists of.
Record == Entry \cup {Loose}
Item   == Record \cup Query

Message == [size : Nat, sig : BOOLEAN, type : Byte, len : Word, count : Byte,
            items : Seq(Item)]

ASSUME WireAssumption ==
  /\ Empty \in Strings
  /\ StrBytes \in [Strings -> Nat]
  /\ StrBytes[Empty] = 0
  /\ Clip \in [Strings -> Strings]
  /\ \A s \in Strings : StrBytes[Clip[s]] = StrBytes[s] % 256
  /\ \A s \in Strings : StrBytes[s] < 256 => Clip[s] = s
  /\ NoAddr \notin Addrs
  /\ Loose \notin Entry \cup Query

-----------------------------------------------------------------------------
\* Sizes in bytes.

\* 'S', IPv4, IPv6 length, host length, port, protocol, name length: 13 bytes.
\* All bytes of the three texts follow, also when the length byte has wrapped.
RecordBytes(r) == 13 + StrBytes[r.ipv6] + StrBytes[r.host] + StrBytes[r.name]

ItemBytes(item) == IF item = Loose THEN 1 ELSE RecordBytes(item)

BodyBytes(body) == SumOf([i \in DOMAIN body |-> ItemBytes(body[i])])

\* Nothing of a filter is written if its length field, one byte, is 0.
FilterBytes(f) == IF StrBytes[f] % 256 = 0 THEN 0 ELSE StrBytes[f]

QueryBytes(queries) ==
  SumOf([i \in DOMAIN queries |-> 3 + FilterBytes(queries[i].filter)])

-----------------------------------------------------------------------------
\* Composing.

\* The sections the receiver finds where a query was written.  A filter of
\* more than 256 bytes is written in full behind a length that has wrapped.
QuerySections(q) ==
  IF FilterBytes(q.filter) < 256
  THEN <<[q EXCEPT !.filter = Clip[q.filter]]>>
  ELSE <<[q EXCEPT !.filter = Clip[q.filter]], Loose>>

\* Slip: the length field misses the byte of the count.
BroadcastUncounted(queries) ==
  [size  |-> 10 + QueryBytes(queries), sig |-> TRUE, type |-> Broadcast,
   len   |-> (1 + QueryBytes(queries)) % 65536,
   count |-> Len(queries) % 256,
   items |-> FlattenSeq([i \in DOMAIN queries |-> QuerySections(queries[i])])]

BroadcastMessage(queries) ==
  [size  |-> 10 + QueryBytes(queries), sig |-> TRUE, type |-> Broadcast,
   len   |-> (2 + QueryBytes(queries)) % 65536,
   count |-> Len(queries) % 256,
   items |-> FlattenSeq([i \in DOMAIN queries |-> QuerySections(queries[i])])]

ResponseMessage(body, scount) ==
  [size  |-> 10 + BodyBytes(body), sig |-> TRUE, type |-> Response,
   len   |-> (2 + BodyBytes(body)) % 65536,
   count |-> scount % 256,
   items |-> body]

\* The length of an IPv6 text is stored in a uint8_t.  Addresses the responder
\* looks up have been checked for it, texts that were registered have not.
TextFits(r) == StrBytes[r.ipv6] \in Byte

\* A reply as the responder composes it: complete records only, a count that
\* says how many, no length byte that has wrapped, and no more than a datagram
\* holds.
ProperReply(m) ==
  /\ m.items \in Seq(Entry)
  /\ \A i \in DOMAIN m.items : TextFits(m.items[i])
  /\ m = ResponseMessage(m.items, Len(m.items))
  /\ m.size <= MaxPayload

-----------------------------------------------------------------------------
\* Parsing.

\* A datagram longer than the receive buffer is cut off.
ReceivedBytes(m) == IF m.size > BufferSize THEN BufferSize ELSE m.size

\* Slip: the message type is not looked at.
AcceptsAnyType(m) ==
  /\ ReceivedBytes(m) >= 10
  /\ m.sig
  /\ ReceivedBytes(m) - HeaderBytes = m.len
  /\ m.count # 0

\* Slip: what the receive buffer has cut off is not missed.
AcceptsCutOff(m) ==
  /\ ReceivedBytes(m) >= 10
  /\ m.sig
  /\ ReceivedBytes(m) - HeaderBytes <= m.len
  /\ m.type = Broadcast
  /\ m.count # 0

\* The responder's checks before it looks at the first query section.
AcceptsBroadcast(m) ==
  /\ ReceivedBytes(m) >= 10
  /\ m.sig
  /\ ReceivedBytes(m) - HeaderBytes = m.len
  /\ m.type = Broadcast
  /\ m.count # 0

\* Slip: the announced length is not compared with the received one.
CompleteAnyLength(m) == ReceivedBytes(m) >= HeaderBytes /\ m.sig

\* The client's checks before it looks at the message type.
CompleteMessage(m) ==
  /\ ReceivedBytes(m) >= HeaderBytes
  /\ m.sig
  /\ m.len <= ReceivedBytes(m) - HeaderBytes

Outcome(ok, recs) == [ok |-> ok, recs |-> recs]

\* Slip: the last section is not read.
CleanPrefixShort(m) == IF m.items = <<>> THEN 0 ELSE Len(m.items) - 1

\* A section that is read as the record it was written for.
Legible(item) == item \in Entry /\ TextFits(item)

\* Sections read before the first that is none, or not the one written.
CleanPrefix(m) ==
  LET stops == {i \in 1..m.count :
                  i > Len(m.items) \/ ~Legible(m.items[i])}
  IN  IF stops = {} THEN m.count
      ELSE (CHOOSE i \in stops : \A j \in stops : i <= j) - 1

MadeUp(n) == [i \in 1..n |-> Garbage]

\* The reader has lost its place.  Lengths and contents come from neighbouring
\* bytes and from memory nobody wrote, so records are made up and the verdict
\* is open; but it is TRUE only once all sections announced have been read.
\* One more record stands for those of whatever is taken for a next message.
Astray(recs, least, unread) ==
  {Outcome(FALSE, recs \o MadeUp(g)) : g \in least..unread + 1} \cup
  {Outcome(TRUE, recs \o MadeUp(g)) : g \in unread..unread + 1}

\* What sendQuery can make of one receive buffer: its verdict and the records
\* it appends.  The loop over further messages in the buffer compares the
\* signature at the start of the buffer, so anything after the counted sections
\* is read as a second message.  Where a section should start, the reader stops
\* at anything but an 'S'; the lone 'S' of Loose and a record whose length byte
\* has wrapped pass, and it is lost within the record it reads there.
ParseReply(m) ==
  LET clean  == CleanPrefix(m)
      recs   == SubSeq(m.items, 1, clean)
      unread == m.count - clean
      ends   == clean = Len(m.items)
  IN  IF ~CompleteMessage(m) THEN {Outcome(FALSE, <<>>)}
      ELSE IF ReceivedBytes(m) < 10 \/ m.type # Response
      THEN Astray(<<>>, 0, 0)
      ELSE IF unread = 0 /\ ends THEN {Outcome(TRUE, recs)}
      ELSE IF unread = 0 \/ ends THEN Astray(recs, 0, unread)
      ELSE IF m.items[clean + 1] \in Query THEN {Outcome(FALSE, recs)}
      ELSE Astray(recs, 1, unread)

-----------------------------------------------------------------------------
\* Matching and answering.

\* filter.compare(0, filter.length(), name) == 0; an empty filter matches all.
\* The protocol of the query is parsed and not consulted.
Matches(filter, e) == filter = Empty \/ filter = e.name

\* The record sent for an entry without an address: it gets the address of the
\* interface facing the requester and, the responder's socket being an IPv4
\* one, no IPv6 text, not even the one that was registered.
Localised(e, a) == [e EXCEPT !.addr = a, !.ipv6 = Empty]

=============================================================================
