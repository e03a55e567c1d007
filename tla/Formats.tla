------------------------------ MODULE Formats --------------------------------
(***************************************************************************)
(* Whatever NyanSD converts, on inputs that grow: a broadcast gains queries*)
(* and a reply gains records one at a time; numbers, bytes, address texts, *)
(* the interfaces of a host and the lines of a service file grow likewise. *)
(* Every behaviour grows one input, and the constants say out of what.     *)
(***************************************************************************)
EXTENDS Wire, ByteOrder, LocalAddress, ServiceFile

CONSTANTS
  Services,       \* records of a reply
  Filters,        \* filters of queries
  Numbers,        \* numbers to be packed or sent
  Octets,         \* bytes of a packed integer
  Parts,          \* parts of an address text
  HostAddresses,  \* addresses of an interface
  Requesters,     \* addresses broadcasts come from
  FileLines,      \* lines of a service file
  MaxQueries, MaxRecords, MaxOther, MaxMixed,    \* bounds of the instance
  MaxParts, MaxAddresses, MaxLines

ASSUME FormatsAssumption ==
  /\ Services \subseteq Entry /\ Filters \subseteq Strings
  /\ Numbers \subseteq Nat /\ Octets \subseteq Byte
  /\ Parts \ {NoNumber} \subseteq Nat
  /\ HostAddresses \ {IPv6} \subseteq [1..4 -> Byte]
  /\ Requesters \subseteq [1..4 -> Byte]
  /\ FileLines \subseteq Line
  /\ \A max \in {MaxQueries, MaxRecords, MaxOther, MaxMixed,
                  MaxParts, MaxAddresses, MaxLines} : max \in Nat

VARIABLES
  kind,         \* which input this behaviour grows
  queries,      \* the queries of a broadcast
  body,         \* the records of a reply
  number,       \* a number to be packed or sent
  bytes,        \* a packed integer from outside
  text,         \* an address as text
  interfaces,   \* the interfaces of a host
  lines         \* a service file

numberVars == <<number, bytes>>
textVars == <<text, interfaces, lines>>
messageVars == <<queries, body>>
vars == <<kind, numberVars, textVars, messageVars>>

Init ==
  /\ kind \in {"queries", "body", "number", "bytes", "text", "interfaces",
               "lines"}
  /\ queries = <<>> /\ body = <<>> /\ number = 0 /\ bytes = <<>>
  /\ text = <<>> /\ interfaces = <<>> /\ lines = <<>>

\* Sequences of one kind of element; behind up to MaxMixed of them there may
\* be MaxOther elements of other kinds.
MayGrow(seq, x, max) ==
  LET first  == (<<x>> \o seq)[IF seq = <<>> THEN 1 ELSE 2]
      others == {i \in DOMAIN seq : seq[i] # first}
  IN  /\ Len(seq) < max
      /\ others # {} => x # first
      /\ x # first => Cardinality(others) < MaxOther /\ Len(seq) <= MaxMixed

Ask(filter) ==
  LET q == [proto |-> ProtocolAll, filter |-> filter]
  IN  /\ kind = "queries" /\ MayGrow(queries, q, MaxQueries)
      /\ queries' = Append(queries, q)
      /\ UNCHANGED <<kind, body, numberVars, textVars>>

Offer(s) ==
  /\ kind = "body" /\ MayGrow(body, s, MaxRecords)
  /\ body' = Append(body, s)
  /\ UNCHANGED <<kind, queries, numberVars, textVars>>

\* sendQuery refuses no queries and more than 255 of them.
AllowedQueries == Len(queries) \in 1..255

PickNumber ==
  /\ kind = "number" /\ number = 0
  /\ number' \in Numbers
  /\ UNCHANGED <<kind, bytes, textVars, messageVars>>

AddByte ==
  /\ kind = "bytes" /\ Len(bytes) < 4
  /\ \E b \in Octets : bytes' = Append(bytes, b)
  /\ UNCHANGED <<kind, number, textVars, messageVars>>

AddPart ==
  /\ kind = "text" /\ Len(text) < MaxParts
  /\ \E p \in Parts : text' = Append(text, p)
  /\ UNCHANGED <<kind, numberVars, interfaces, lines, messageVars>>

AddInterface ==
  /\ kind = "interfaces" /\ Len(FlattenSeq(interfaces)) < MaxAddresses
  /\ Len(interfaces) < MaxAddresses
  /\ interfaces' = Append(interfaces, <<>>)
  /\ UNCHANGED <<kind, numberVars, text, lines, messageVars>>

AddAddress ==
  /\ kind = "interfaces" /\ interfaces # <<>>
  /\ Len(Last(interfaces)) < MaxAddresses
  /\ \E a \in HostAddresses :
        interfaces' = [interfaces EXCEPT ![Len(interfaces)] = Append(@, a)]
  /\ UNCHANGED <<kind, numberVars, text, lines, messageVars>>

WriteLine ==
  /\ kind = "lines" /\ Len(lines) < MaxLines
  /\ \E l \in FileLines : lines' = Append(lines, l)
  /\ UNCHANGED <<kind, numberVars, text, interfaces, messageVars>>

Next ==
  \/ \E f \in Filters : Ask(f)
  \/ \E s \in Services : Offer(s)
  \/ PickNumber \/ AddByte \/ AddPart \/ AddInterface \/ AddAddress \/ WriteLine

Spec == Init /\ [][Next]_vars

-----------------------------------------------------------------------------
Sent == ResponseMessage(body, Len(body) % 256)

\* A reply that fits the client's buffer is read back exactly if no IPv6 text
\* in it has more than 255 bytes: then length, count and sections agree and no
\* field has wrapped.  With one longer text something else may be read.
RepliesReadBack ==
  Sent.size <= BufferSize =>
    (ParseReply(Sent) = {Outcome(TRUE, body)}
       <=> \A i \in DOMAIN body : StrBytes[body[i].ipv6] < 256)

\* A reply that fits a datagram and not the client's buffer is refused as a
\* whole; no part of it is taken for something else.
LongRepliesRefused ==
  Sent.size \in BufferSize + 1..MaxPayload =>
     ParseReply(Sent) = {Outcome(FALSE, <<>>)}

\* A broadcast that fits the responder's buffer is accepted and all its queries
\* are counted; they are read back exactly if no filter has more than 255
\* bytes.  A longer one is not read as it was asked.
BroadcastsReadBack ==
  LET m == BroadcastMessage(queries)
  IN  AllowedQueries /\ m.size <= BufferSize
      => /\ AcceptsBroadcast(m) /\ m.count = Len(queries)
         /\ m.items = queries
              <=> \A i \in DOMAIN queries : StrBytes[queries[i].filter] < 256

\* A broadcast that fits a datagram and not the responder's buffer is dropped
\* as a whole: what the buffer holds of it is not taken for the broadcast.
LongBroadcastsRefused ==
  LET m == BroadcastMessage(queries)
  IN  AllowedQueries /\ m.size \in BufferSize + 1..MaxPayload
        => ~AcceptsBroadcast(m)

\* Numbers of 16 bits survive the way between any two hosts.
NumbersArrive == number < 65536 => NumberArrives(number)

\* Addresses survive it between hosts of one byte order only.
AddressesArrive ==
  Len(text) = 4 /\ StringToUint(text) # NotFound
    => AddressArrives(StringToUint(text))

\* Packed integers read back, but for the four limits.
PackedIntsReadBack == PackedReadsBack(number)

\* Any four bytes read as a number that fits them.
PackedIntsBounded == Len(bytes) = 4 => PackedBounded(bytes)

\* Address texts come back unchanged if they are addresses, and only then.
TextsComeBack == text # <<>> => TextComesBack(text)

\* A requester is told an address it can reach, of its own network if it may.
AnswersOnNetwork ==
  \A requester \in Requesters :
     AnswersOnOwnNetwork(interfaces, requester)

\* A service file that says nothing twice loads as it is written.
FilesLoad == PlainFilesLoad(lines)

\* Sections that differ in case only share what they say.
FilesCollect == AlikeSectionsShare(lines)

\* The first bad line of a file is reported, and nothing else is.
BrokenFilesRefused == FirstBrokenReported(lines)

\* What is indented becomes part of the value before it.
IndentedContinues == IndentedLinesContinue(lines)

=============================================================================
