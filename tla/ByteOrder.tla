------------------------------ MODULE ByteOrder ------------------------------
(***************************************************************************)
(* ByteBauble, src/bytebauble.h and .cpp: byte order and packed integers.  *)
(*                                                                         *)
(* A value is the sequence of its bytes in memory, first address first.    *)
(***************************************************************************)
EXTENDS Integers, Sequences, SequencesExt, FiniteSetsExt

Hosts == {"LE", "BE"}
Global == "LE"          \* globalEndian, which nothing changes

\* How a host stores a uint16_t, and what it makes of two bytes.
Stored(n, host) ==
  IF host = "LE" THEN <<n % 256, n \div 256>> ELSE <<n \div 256, n % 256>>

Loaded(bytes, host) ==
  IF host = "LE" THEN bytes[1] + 256 * bytes[2] ELSE 256 * bytes[1] + bytes[2]

\* Slip: nothing is converted on the way out.
ToGlobalUnchanged(bytes, host) == bytes

ToGlobal(bytes, host) == IF host = Global THEN bytes ELSE Reverse(bytes)

\* Slip: what comes from the network is taken as it is.
ToHostUnchanged(bytes, end, host) == bytes

ToHost(bytes, end, host) == IF end = host THEN bytes ELSE Reverse(bytes)

\* A length or a port, from one host to another.
NumberSent(n, from, to) ==
  Loaded(ToHost(ToGlobal(Stored(n, from), from), "LE", to), to)

\* An IPv4 address.  ipv4_stringToUint puts the octets into memory in the order
\* of the text on every host, so nothing is to be swapped, and still is.
AddressSent(octets, from, to) ==
  ToHost(ToGlobal(octets, from), "LE", to)

-----------------------------------------------------------------------------
\* Packed integers: seven bits of the number in each byte, the eighth says that
\* another byte follows.

\* Bytes written for a number, 0 if it is out of range.
PackedLength(n) ==
  IF n <= 128 THEN 1 ELSE IF n <= 16384 THEN 2 ELSE IF n <= 2097152 THEN 3
  ELSE IF n <= 268435456 THEN 4 ELSE 0

\* What the seven bits of each byte count.
Weight == <<1, 128, 16384, 2097152>>

Digit(n, i) == (n \div Weight[i]) % 128

\* Slip: the flag is set on the last byte as well.
WritePackedOpen(n) ==
  [i \in 1..4 |-> IF i > PackedLength(n) THEN 0 ELSE Digit(n, i) + 128]

WritePacked(n) ==
  [i \in 1..4 |-> IF i > PackedLength(n) THEN 0
                  ELSE Digit(n, i) + (IF i < PackedLength(n) THEN 128 ELSE 0)]

\* Slip: the byte without a flag is not copied any more.
DataBytesShort(packed) ==
  LET last == {i \in 1..4 : packed[i] < 128}
  IN  IF last = {} THEN 4 ELSE Min(last) - 1

\* The bytes copied: the loop breaks at the first one without a flag.
DataBytes(packed) ==
  LET last == {i \in 1..4 : packed[i] < 128}
  IN  IF last = {} THEN 4 ELSE Min(last)

\* The value and the number of bytes: i + 1, with i = 4 if nothing broke the loop.
ReadPacked(packed) ==
  LET part(i) == IF i > DataBytes(packed) THEN 0
                 ELSE (packed[i] % 128) * Weight[i]
  IN  [value |-> part(1) + part(2) + part(3) + part(4),
       bytes |-> IF \A i \in 1..4 : packed[i] >= 128 THEN 5
                 ELSE DataBytes(packed)]

-----------------------------------------------------------------------------
\* Properties of single inputs.

\* Numbers arrive between hosts of any byte order.
NumberArrives(n) == \A from, to \in Hosts : NumberSent(n, from, to) = n

\* Addresses arrive between hosts of one byte order and are reversed between
\* others: on a big-endian host the octets are swapped though they are in order.
AddressArrives(o) ==
  \A from, to \in Hosts :
     AddressSent(o, from, to) = IF from = to THEN o ELSE Reverse(o)

\* Numbers below 2^28 read back with their length, but for 2^7, 2^14 and 2^21,
\* which one byte too few is written for; they and 2^28 read back as 0.
TooShort == {128, 16384, 2097152, 268435456}

PackedReadsBack(n) ==
  PackedLength(n) # 0 =>
    ReadPacked(WritePacked(n)) =
      [value |-> IF n \in TooShort THEN 0 ELSE n, bytes |-> PackedLength(n)]

\* Whatever the four bytes are, the value fits the bytes reported, and more than
\* four are reported only if the last one announces a fifth.
PackedBounded(packed) ==
  LET r == ReadPacked(packed)
  IN  /\ r.bytes \in 1..5 /\ (r.bytes = 5 => packed[4] >= 128)
      /\ r.value < (IF r.bytes < 4 THEN Weight[r.bytes + 1] ELSE 268435456)

==============================================================================
