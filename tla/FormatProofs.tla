---------------------------- MODULE FormatProofs -----------------------------
(***************************************************************************)
(* What NyanSD's conversions do with any input: numbers and addresses on   *)
(* the way between hosts, packed integers, address texts, the choice of a  *)
(* local address; and what follows for messages and service files of any   *)
(* size.                                                                   *)
(***************************************************************************)
EXTENDS Formats, WireProofs, FileProofs

-----------------------------------------------------------------------------
\* Byte order.

LEMMA ReversePair ==
  ASSUME NEW a, NEW b PROVE Reverse(<<a, b>>) = <<b, a>>
<1>1. Len(<<a, b>>) = 2 /\ <<a, b>>[1] = a /\ <<a, b>>[2] = b
  OBVIOUS
<1>2. Reverse(<<a, b>>) = [i \in 1..2 |-> <<a, b>>[(2 - i) + 1]]
  BY <1>1 DEF Reverse
<1> QED
  BY <1>1, <1>2

\* Numbers of 16 bits arrive: on the wire the low byte comes first, whoever
\* sends it.
THEOREM EveryNumberArrives ==
  ASSUME NEW n \in Word
  PROVE  NumberArrives(n)
<1> DEFINE low == n % 256
           high == n \div 256
<1>1. n = low + 256 * high /\ low \in Nat /\ high \in Nat
  BY DEF Word
<1> HIDE DEF low, high
<1>2. ASSUME NEW from \in Hosts
      PROVE  ToGlobal(Stored(n, from), from) = <<low, high>>
  <2>1. CASE from = "LE"
    BY <2>1 DEF ToGlobal, Stored, Global, low, high
  <2>2. CASE from = "BE"
    BY <2>2, ReversePair DEF ToGlobal, Stored, Global, low, high
  <2> QED
    BY <2>1, <2>2 DEF Hosts
<1>3. ASSUME NEW to \in Hosts
      PROVE  Loaded(ToHost(<<low, high>>, "LE", to), to) = n
  <2>1. CASE to = "LE"
    BY <1>1, <2>1 DEF ToHost, Loaded
  <2>2. CASE to = "BE"
    <3>1. ToHost(<<low, high>>, "LE", to) = <<high, low>>
      BY <2>2, ReversePair DEF ToHost
    <3> QED
      BY <1>1, <2>2, <3>1 DEF Loaded
  <2> QED
    BY <2>1, <2>2 DEF Hosts
<1> QED
  BY <1>2, <1>3, SMTT(30) DEF NumberArrives, NumberSent

\* Four octets arrive as they are between hosts of one byte order, and reversed
\* between others.
THEOREM EveryAddressArrives ==
  ASSUME NEW o, o = [i \in 1..4 |-> o[i]]
  PROVE  AddressArrives(o)
<1>1. Len(o) = 4
  OBVIOUS
<1>2. Reverse(o) = [i \in 1..4 |-> o[(4 - i) + 1]]
  BY <1>1 DEF Reverse
<1>3. Len(Reverse(o)) = 4
  BY <1>2
<1>4. Reverse(Reverse(o)) = [i \in 1..4 |-> Reverse(o)[(4 - i) + 1]]
  BY <1>3 DEF Reverse
<1>5. \A i \in 1..4 : Reverse(o)[(4 - i) + 1] = o[i]
  BY <1>2
<1>6. Reverse(Reverse(o)) = o
  BY <1>4, <1>5
<1>7. ASSUME NEW from \in Hosts, NEW to \in Hosts
      PROVE  AddressSent(o, from, to) = IF from = to THEN o ELSE Reverse(o)
  <2>1. from \in {"LE", "BE"} /\ to \in {"LE", "BE"}
    BY DEF Hosts
  <2> QED
    BY <1>6, <2>1 DEF AddressSent, ToHost, ToGlobal, Global
<1> QED
  BY <1>7 DEF AddressArrives

-----------------------------------------------------------------------------
\* Packed integers.

LEMMA MinIsLeast ==
  ASSUME NEW S \in SUBSET Nat, S # {}
  PROVE  Min(S) \in S /\ \A x \in S : Min(S) <= x
<1>1. \E x \in S : \A y \in S : x <= y
  BY LeastNatural
<1> QED
  BY <1>1, Zenon DEF Min

LEMMA Weights == /\ Weight[1] = 1 /\ Weight[2] = 128
                 /\ Weight[3] = 16384 /\ Weight[4] = 2097152
BY DEF Weight

LEMMA FirstDigit == ASSUME NEW n \in Nat PROVE Digit(n, 1) = n % 128
BY Weights DEF Digit

LEMMA DigitsOf ==
  ASSUME NEW n \in Nat
  PROVE  /\ Digit(n, 2) = (n \div 128) % 128
         /\ Digit(n, 3) = (n \div 16384) % 128
         /\ Digit(n, 4) = (n \div 2097152) % 128
BY Weights DEF Digit

LEMMA DigitIsSmall ==
  ASSUME NEW n \in Nat, NEW i \in 1..4
  PROVE  Digit(n, i) \in 0..127
<1>6. n % 128 \in 0..127 /\ Digit(n, 1) = n % 128
  BY FirstDigit
<1>7. (n \div 128) % 128 \in 0..127 /\ Digit(n, 2) = (n \div 128) % 128
  BY DigitsOf
<1>8. (n \div 16384) % 128 \in 0..127 /\ Digit(n, 3) = (n \div 16384) % 128
  BY DigitsOf
<1>9. (n \div 2097152) % 128 \in 0..127 /\ Digit(n, 4) = (n \div 2097152) % 128
  BY DigitsOf
<1>2. CASE i = 1
  BY <1>2, <1>6
<1>3. CASE i = 2
  BY <1>3, <1>7
<1>4. CASE i = 3
  BY <1>4, <1>8
<1>5. CASE i = 4
  BY <1>5, <1>9
<1> QED
  BY <1>2, <1>3, <1>4, <1>5

\* The bytes that carry the flag are those before the last one of the number.
LEMMA WrittenBytes ==
  ASSUME NEW n \in Nat, PackedLength(n) # 0
  PROVE  /\ PackedLength(n) \in 1..4
         /\ \A i \in 1..4 :
              /\ i > PackedLength(n) => WritePacked(n)[i] = 0
              /\ i <= PackedLength(n) => WritePacked(n)[i] % 128 = Digit(n, i)
              /\ WritePacked(n)[i] < 128 <=> i >= PackedLength(n)
<1>1. PackedLength(n) \in 1..4
  BY DEF PackedLength
<1>2. ASSUME NEW i \in 1..4 PROVE Digit(n, i) \in 0..127
  BY DigitIsSmall
<1> DEFINE L == PackedLength(n)
<1>3. ASSUME NEW i \in 1..4
      PROVE  WritePacked(n)[i] = IF i > L THEN 0
                                 ELSE Digit(n, i) + (IF i < L THEN 128 ELSE 0)
  BY DEF WritePacked
<1> HIDE DEF L
<1>4. ASSUME NEW i \in 1..4
      PROVE  /\ i > L => WritePacked(n)[i] = 0
             /\ i <= L => WritePacked(n)[i] % 128 = Digit(n, i)
             /\ WritePacked(n)[i] < 128 <=> i >= L
  <2> DEFINE d == Digit(n, i)
             w == WritePacked(n)[i]
  <2>1. d \in 0..127 /\ L \in 1..4
    BY <1>1, <1>2 DEF L
  <2>2. w = IF i > L THEN 0 ELSE d + (IF i < L THEN 128 ELSE 0)
    BY <1>3
  <2> HIDE DEF d, w
  <2>3. /\ i > L => w = 0
        /\ i <= L => w % 128 = d
        /\ w < 128 <=> i >= L
    BY <2>1, <2>2
  <2> QED
    BY <2>3 DEF d, w
<1> QED
  BY <1>1, <1>4 DEF L

\* A number reads back with the bytes written for it, unless it is one of the
\* four that one byte too few is written for.
THEOREM EveryNumberReadsBack ==
  ASSUME NEW n \in Nat
  PROVE  PackedReadsBack(n)
<1>1. SUFFICES ASSUME PackedLength(n) # 0
               PROVE  ReadPacked(WritePacked(n)) =
                        [value |-> IF n \in TooShort THEN 0 ELSE n,
                         bytes |-> PackedLength(n)]
  BY DEF PackedReadsBack
<1> DEFINE L == PackedLength(n)
           w == WritePacked(n)
           last == {i \in 1..4 : w[i] < 128}
           part(i) == IF i > DataBytes(w) THEN 0 ELSE (w[i] % 128) * Weight[i]
<1>2. /\ L \in 1..4
      /\ \A i \in 1..4 : /\ i > L => w[i] = 0
                         /\ i <= L => w[i] % 128 = Digit(n, i)
                         /\ w[i] < 128 <=> i >= L
  BY <1>1, WrittenBytes
<1>3. ReadPacked(w) = [value |-> part(1) + part(2) + part(3) + part(4),
                       bytes |-> IF \A i \in 1..4 : w[i] >= 128 THEN 5
                                 ELSE DataBytes(w)]
  BY DEF ReadPacked
<1>4. DataBytes(w) = IF last = {} THEN 4 ELSE Min(last)
  BY DEF DataBytes
<1> HIDE DEF L, w
<1>5. L \in last /\ \A i \in last : L <= i
  BY <1>2
<1>6. DataBytes(w) = L
  <2>1. last # {} /\ last \in SUBSET Nat
    BY <1>5
  <2>4. L \in last /\ \A i \in last : L <= i
    BY <1>5
  <2> HIDE DEF last
  <2>2. Min(last) \in last /\ Min(last) <= L
    BY <2>1, <2>4, MinIsLeast
  <2>3. Min(last) \in Nat /\ L <= Min(last) /\ L \in Nat
    <3>1. L \in Nat
      BY <1>2
    <3>2. Min(last) \in Nat
      BY <2>1, <2>2, Zenon
    <3>3. L <= Min(last)
      BY <2>2, <2>4
    <3> QED
      BY <3>1, <3>2, <3>3
  <2>5. Min(last) = L
    BY <2>2, <2>3
  <2> QED
    BY <1>4, <2>1, <2>5, Zenon
<1>7. ~(w[L] >= 128)
  <2>1. w[L] < 128 /\ w[L] \in Int
    <3>1. \A i \in 1..4 : w[i] \in Int
      <4>1. \A i \in 1..4 : Digit(n, i) \in Int
        BY DigitIsSmall
      <4>2. PackedLength(n) \in Int
        BY <1>2 DEF L
      <4> QED
        BY <4>1, <4>2 DEF w, WritePacked
    <3> QED
      BY <1>2, <3>1
  <2> QED
    BY <2>1
<1>8. \A i \in 1..4 : part(i) = IF i > L THEN 0 ELSE Digit(n, i) * Weight[i]
  <2>1. L \in Int
    BY <1>2
  <2> QED
    BY <1>2, <1>6, <2>1
<1> HIDE DEF part
<1> DEFINE value == part(1) + part(2) + part(3) + part(4)
<1>9. value = IF n \in TooShort THEN 0 ELSE n
  <2> DEFINE p1 == part(1)
             p2 == part(2)
             p3 == part(3)
             p4 == part(4)
  <2>1. /\ p1 = n % 128
        /\ p2 = IF 2 > L THEN 0 ELSE ((n \div 128) % 128) * 128
        /\ p3 = IF 3 > L THEN 0 ELSE ((n \div 16384) % 128) * 16384
        /\ p4 = IF 4 > L THEN 0 ELSE ((n \div 2097152) % 128) * 2097152
    <3>1. 1 \in 1..4 /\ 2 \in 1..4 /\ 3 \in 1..4 /\ 4 \in 1..4
      OBVIOUS
    <3>2. ~(1 > L)
      BY <1>2
    <3>3. (n % 128) * 1 = n % 128
      OBVIOUS
    <3>4. p1 = Digit(n, 1) * Weight[1]
      BY <1>8, <3>1, <3>2, Zenon
    <3>5. p2 = IF 2 > L THEN 0 ELSE Digit(n, 2) * Weight[2]
      BY <1>8, <3>1, Zenon
    <3>6. p3 = IF 3 > L THEN 0 ELSE Digit(n, 3) * Weight[3]
      BY <1>8, <3>1, Zenon
    <3>7. p4 = IF 4 > L THEN 0 ELSE Digit(n, 4) * Weight[4]
      BY <1>8, <3>1, Zenon
    <3>8. Digit(n, 1) = n % 128
      BY FirstDigit
    <3>9. Digit(n, 2) = (n \div 128) % 128
      BY DigitsOf
    <3>10. Digit(n, 3) = (n \div 16384) % 128
      BY DigitsOf
    <3>11. Digit(n, 4) = (n \div 2097152) % 128
      BY DigitsOf
    <3>12. p1 = n % 128
      BY <3>3, <3>4, <3>8, Weights
    <3>13. p2 = IF 2 > L THEN 0 ELSE ((n \div 128) % 128) * 128
      BY <3>5, <3>9, Weights
    <3>14. p3 = IF 3 > L THEN 0 ELSE ((n \div 16384) % 128) * 16384
      BY <3>6, <3>10, Weights
    <3>15. p4 = IF 4 > L THEN 0 ELSE ((n \div 2097152) % 128) * 2097152
      BY <3>7, <3>11, Weights
    <3> QED
      BY <3>12, <3>13, <3>14, <3>15
  <2>2. L = IF n <= 128 THEN 1 ELSE IF n <= 16384 THEN 2
            ELSE IF n <= 2097152 THEN 3 ELSE IF n <= 268435456 THEN 4 ELSE 0
    BY DEF L, PackedLength
  <2>3. L # 0
    BY <1>1 DEF L
  <2> HIDE DEF p1, p2, p3, p4
  <2>4. p1 + p2 + p3 + p4 = IF n \in TooShort THEN 0 ELSE n
    <3>1. CASE n <= 128
      BY <2>1, <2>2, <3>1 DEF TooShort
    <3>2. CASE 128 < n /\ n <= 16384
      BY <2>1, <2>2, <3>2 DEF TooShort
    <3>3. CASE 16384 < n /\ n <= 2097152
      BY <2>1, <2>2, <3>3 DEF TooShort
    <3>4. CASE 2097152 < n /\ n <= 268435456
      BY <2>1, <2>2, <3>4 DEF TooShort
    <3> QED
      BY <2>2, <2>3, <3>1, <3>2, <3>3, <3>4
  <2> QED
    BY <2>4 DEF p1, p2, p3, p4
<1>10. ~(\A i \in 1..4 : w[i] >= 128)
  BY <1>2, <1>7
<1> HIDE DEF value
<1>11. ReadPacked(w) = [value |-> value, bytes |-> L]
  BY <1>3, <1>6, <1>10 DEF value
<1> QED
  BY <1>9, <1>11 DEF w, L

\* Whatever four bytes are read, the value fits the bytes that are reported.
THEOREM EveryPackedIsBounded ==
  ASSUME NEW p \in [1..4 -> Byte]
  PROVE  PackedBounded(p)
<1> DEFINE last == {i \in 1..4 : p[i] < 128}
           d == DataBytes(p)
           part(i) == IF i > d THEN 0 ELSE (p[i] % 128) * Weight[i]
           value == part(1) + part(2) + part(3) + part(4)
           used == IF \A i \in 1..4 : p[i] >= 128 THEN 5 ELSE d
<1>1. p[1] \in Byte /\ p[2] \in Byte /\ p[3] \in Byte /\ p[4] \in Byte
  OBVIOUS
<1>2. d \in 1..4 /\ (last # {} => d \in last)
  <2>1. d = IF last = {} THEN 4 ELSE Min(last)
    BY DEF DataBytes
  <2>2. CASE last = {}
    BY <2>1, <2>2
  <2>3. CASE last # {}
    <3>1. last \in SUBSET Nat /\ last \subseteq 1..4
      OBVIOUS
    <3> HIDE DEF last, d
    <3>2. Min(last) \in last
      BY <2>3, <3>1, MinIsLeast
    <3>3. d = Min(last)
      BY <2>1, <2>3
    <3>4. d \in last
      BY <3>2, <3>3
    <3> QED
      BY <3>1, <3>4
  <2> QED
    BY <2>2, <2>3
<1>3. /\ used \in 1..5
      /\ used = 5 => p[4] >= 128
      /\ used # 5 => used = d
  <2>1. 4 \in 1..4
    OBVIOUS
  <2> HIDE DEF d
  <2> QED
    BY <1>2, <2>1
<1>4. used = 5 => d = 4
  <2>1. (\A i \in 1..4 : p[i] >= 128) => last = {}
    BY DEF Byte
  <2>2. last = {} => d = 4
    BY DEF DataBytes
  <2> HIDE DEF d, last
  <2> QED
    BY <1>2, <2>1, <2>2
<1>5. value < IF used < 4 THEN Weight[used + 1] ELSE 268435456
  <2> DEFINE p1 == part(1)
             p2 == part(2)
             p3 == part(3)
             p4 == part(4)
             b(i) == p[i] % 128
  <2>1. b(1) \in 0..127 /\ b(2) \in 0..127 /\ b(3) \in 0..127 /\ b(4) \in 0..127
    BY <1>1 DEF Byte
  <2> HIDE DEF b, d, used
  <2>2. /\ p1 = IF 1 > d THEN 0 ELSE b(1) * 1
        /\ p2 = IF 2 > d THEN 0 ELSE b(2) * 128
        /\ p3 = IF 3 > d THEN 0 ELSE b(3) * 16384
        /\ p4 = IF 4 > d THEN 0 ELSE b(4) * 2097152
    BY Weights DEF b
  <2> HIDE DEF p1, p2, p3, p4
  <2>3. /\ d = 1 => p1 + p2 + p3 + p4 < 128
        /\ d = 2 => p1 + p2 + p3 + p4 < 16384
        /\ d = 3 => p1 + p2 + p3 + p4 < 2097152
        /\ d = 4 => p1 + p2 + p3 + p4 < 268435456
    BY <2>1, <2>2
  <2>4. \/ (d = 1 /\ used = 1) \/ (d = 2 /\ used = 2)
        \/ (d = 3 /\ used = 3) \/ (d = 4 /\ used \in {4, 5})
    BY <1>2, <1>3, <1>4
  <2>5. p1 + p2 + p3 + p4 < IF used < 4 THEN Weight[used + 1] ELSE 268435456
    BY <2>3, <2>4, Weights
  <2> QED
    BY <2>5 DEF p1, p2, p3, p4
<1>6. ReadPacked(p) = [value |-> value, bytes |-> used]
  BY DEF ReadPacked
<1> HIDE DEF value, used
<1> QED
  BY <1>3, <1>5, <1>6 DEF PackedBounded

-----------------------------------------------------------------------------
\* Address texts and local addresses.

\* A text comes back as it is exactly if it is an address in full.
THEOREM EveryTextComesBack ==
  ASSUME NEW P, P \ {NoNumber} \subseteq Nat, NEW t \in Seq(P)
  PROVE  TextComesBack(t)
<1>1. SUFFICES ASSUME StringToUint(t) # NotFound
               PROVE  UintToString(StringToUint(t)) = t <=> WellFormed(t)
  BY DEF TextComesBack
<1> DEFINE back == [i \in 1..4 |-> PartAt(t, i) % 256]
<1>2. \A i \in 1..4 : PartAt(t, i) # NoNumber
  BY <1>1 DEF StringToUint
<1>3. UintToString(StringToUint(t)) = back
  <2>1. StringToUint(t) = [i \in 1..4 |-> Octet(PartAt(t, i))]
    BY <1>2 DEF StringToUint
  <2>2. StringToUint(t) = back
    BY <2>1 DEF Octet
  <2>3. back = [i \in 1..4 |-> back[i]]
    OBVIOUS
  <2> HIDE DEF back
  <2> QED
    BY <2>2, <2>3 DEF UintToString
<1>4. CASE Len(t) = 4
  <2>1. \A i \in 1..4 : PartAt(t, i) = t[i]
    <3>1. \A i \in 1..4 : ((i - 1) % 4) + 1 = i
      OBVIOUS
    <3> QED
      BY <1>4, <3>1 DEF PartAt
  <2>2. \A i \in 1..4 : t[i] \in Nat
    <3> SUFFICES ASSUME NEW i \in 1..4 PROVE t[i] \in Nat
      OBVIOUS
    <3>1. i \in 1..Len(t)
      BY <1>4
    <3>2. t[i] \in P
      BY <3>1
    <3>3. t[i] # NoNumber
      BY <1>2, <2>1
    <3> QED
      BY <3>2, <3>3
  <2>3. \A x \in Nat : x % 256 = x <=> x < 256
    OBVIOUS
  <2>4. \A i \in 1..4 : back[i] = t[i] <=> t[i] < 256
    <3> SUFFICES ASSUME NEW i \in 1..4 PROVE back[i] = t[i] <=> t[i] < 256
      OBVIOUS
    <3>1. back[i] = PartAt(t, i) % 256
      OBVIOUS
    <3>2. back[i] = t[i] % 256
      BY <2>1, <3>1
    <3>3. t[i] \in Nat
      BY <2>2
    <3> HIDE DEF back
    <3> QED
      BY <2>3, <3>2, <3>3
  <2>5. back = t <=> \A i \in 1..4 : back[i] = t[i]
    <3>1. t = [i \in 1..4 |-> t[i]]
      BY <1>4
    <3>2. back = [i \in 1..4 |-> back[i]]
      OBVIOUS
    <3> HIDE DEF back
    <3> QED
      BY <3>1, <3>2
  <2> HIDE DEF back
  <2>6. WellFormed(t) <=> \A i \in 1..4 : t[i] < 256
    BY <1>2, <1>4, <2>1 DEF WellFormed
  <2> QED
    BY <1>3, <2>4, <2>5, <2>6
<1>5. CASE Len(t) # 4
  <2>1. Len(back) = 4
    OBVIOUS
  <2> HIDE DEF back
  <2> QED
    BY <1>3, <1>5, <2>1 DEF WellFormed
<1> QED
  BY <1>4, <1>5

\* A requester is answered with an IPv4 address of an interface on its network,
\* and one of this very network if the interface has no other.
THEOREM EveryAnswerOnOwnNetwork ==
  ASSUME NEW H, NEW hosts \in Seq(Seq(H)), NEW requester
  PROVE  AnswersOnOwnNetwork(hosts, requester)
<1> DEFINE facing == Facing(hosts, requester)
           a == RemoteToLocalIP(hosts, requester)
<1>1. SUFFICES ASSUME facing # {}
               PROVE  \E i \in facing :
                        /\ \E j \in DOMAIN hosts[i] : hosts[i][j] = a
                        /\ a # IPv6
                        /\ OneNetwork(hosts[i]) => Network(a) = Network(requester)
  BY DEF AnswersOnOwnNetwork, RemoteToLocalIP
<1> DEFINE i == Min(facing)
           four == {j \in DOMAIN hosts[i] : hosts[i][j] # IPv6}
           j == Min(four)
<1>2. facing \in SUBSET Nat
  BY DEF Facing
<1>3. i \in facing
  <2> HIDE DEF facing
  <2> QED
    BY <1>1, <1>2, MinIsLeast
<1>4. a = FirstIPv4(hosts[i])
  BY <1>1 DEF RemoteToLocalIP
<1> HIDE DEF i, facing
<1>5. i \in DOMAIN hosts /\ OnNetwork(hosts[i], requester)
  BY <1>3 DEF Facing, facing
<1>6. PICK k \in DOMAIN hosts[i] :
         hosts[i][k] # IPv6 /\ Network(hosts[i][k]) = Network(requester)
  BY <1>5 DEF OnNetwork
<1>7. four \in SUBSET Nat /\ k \in four
  <2>1. hosts[i] \in Seq(H)
    BY <1>5
  <2>2. DOMAIN hosts[i] \in SUBSET Nat
    BY <2>1
  <2> QED
    BY <1>6, <2>2
<1>8. j \in four
  <2> HIDE DEF four
  <2> QED
    BY <1>7, MinIsLeast
<1>9. a = hosts[i][j]
  BY <1>4 DEF FirstIPv4
<1> HIDE DEF j
<1>10. j \in DOMAIN hosts[i] /\ hosts[i][j] # IPv6
  BY <1>8
<1>11. OneNetwork(hosts[i]) => Network(hosts[i][j]) = Network(hosts[i][k])
  BY <1>6, <1>10 DEF OneNetwork
<1> HIDE DEF a
<1> QED
  BY <1>3, <1>6, <1>9, <1>10, <1>11

-----------------------------------------------------------------------------
\* Inputs that grow.

\* What the inputs are, whatever has been added to them.
Inputs ==
  /\ queries \in Seq(Query) /\ body \in Seq(Entry)
  /\ number \in Nat /\ bytes \in Seq(Byte)
  /\ text \in Seq(Parts) /\ interfaces \in Seq(Seq(HostAddresses))
  /\ lines \in Seq(FileLines)

\* Every input is a sequence of what it is made of, and the number is natural.
THEOREM FormatsTypes == Spec => []Inputs
<1>1. Init => Inputs
  BY DEF Init, Inputs
<1>2. Inputs /\ [Next]_vars => Inputs'
  <2> USE DEF numberVars, textVars, messageVars
  <2> SUFFICES ASSUME Inputs, [Next]_vars PROVE Inputs'
    OBVIOUS
  <2>1. ASSUME NEW f \in Filters, Ask(f) PROVE Inputs'
    <3>1. [proto |-> ProtocolAll, filter |-> f] \in Query
      BY FormatsAssumption DEF Query, Protocols
    <3>2. queries' \in Seq(Query)
      BY <2>1, <3>1 DEF Ask, Inputs
    <3> QED
      BY <2>1, <3>2 DEF Ask, Inputs
  <2>2. ASSUME NEW e \in Services, Offer(e) PROVE Inputs'
    <3>1. body' \in Seq(Entry)
      BY <2>2, FormatsAssumption DEF Offer, Inputs
    <3> QED
      BY <2>2, <3>1 DEF Offer, Inputs
  <2>3. CASE PickNumber
    <3>1. number' \in Nat
      BY <2>3, FormatsAssumption DEF PickNumber, Inputs
    <3> QED
      BY <2>3, <3>1 DEF PickNumber, Inputs
  <2>4. CASE AddByte
    <3>1. bytes' \in Seq(Byte)
      BY <2>4, FormatsAssumption DEF AddByte, Inputs
    <3> QED
      BY <2>4, <3>1 DEF AddByte, Inputs
  <2>5. CASE AddPart
    <3>1. text' \in Seq(Parts)
      BY <2>5 DEF AddPart, Inputs
    <3> QED
      BY <2>5, <3>1 DEF AddPart, Inputs
  <2>6. CASE AddInterface
    <3>1. interfaces' \in Seq(Seq(HostAddresses))
      BY <2>6 DEF AddInterface, Inputs
    <3> QED
      BY <2>6, <3>1 DEF AddInterface, Inputs
  <2>7. CASE AddAddress
    <3>1. interfaces' \in Seq(Seq(HostAddresses))
      BY <2>7 DEF AddAddress, Inputs
    <3> QED
      BY <2>7, <3>1 DEF AddAddress, Inputs
  <2>8. CASE WriteLine
    <3>1. lines' \in Seq(FileLines)
      BY <2>8 DEF WriteLine, Inputs
    <3> QED
      BY <2>8, <3>1 DEF WriteLine, Inputs
  <2>9. CASE UNCHANGED vars
    BY <2>9 DEF vars, Inputs
  <2> QED
    BY <2>1, <2>2, <2>3, <2>4, <2>5, <2>6, <2>7, <2>8, <2>9 DEF Next
<1> QED
  BY <1>1, <1>2, PTL DEF Spec

LEMMA LinesAreLines == Inputs => lines \in Seq(Line)
BY FormatsAssumption DEF Inputs

\* Whatever records a reply has gathered: if it fits the client's buffer, the
\* client reads them back exactly if no IPv6 text is longer than its field.
THEOREM RepliesReadBackAlways == Spec => []RepliesReadBack
<1>1. Inputs => RepliesReadBack
  BY ReplyReadsBack DEF Inputs, RepliesReadBack, Sent
<1> QED
  BY <1>1, FormatsTypes, PTL

\* A reply beyond the client's buffer is refused as a whole, wherever the
\* buffer cuts it.
THEOREM LongRepliesRefusedAlways == Spec => []LongRepliesRefused
<1>1. Inputs => LongRepliesRefused
  BY LongReplyRefused DEF Inputs, LongRepliesRefused, Sent
<1> QED
  BY <1>1, FormatsTypes, PTL

\* Whatever queries a broadcast has: if it fits the responder's buffer, it is
\* accepted, and read back exactly if no filter is longer than its field.
THEOREM BroadcastsReadBackAlways == Spec => []BroadcastsReadBack
<1>1. Inputs => BroadcastsReadBack
  BY BroadcastReadsBack DEF Inputs, BroadcastsReadBack, AllowedQueries
<1> QED
  BY <1>1, FormatsTypes, PTL

\* A broadcast beyond the responder's buffer is refused as a whole.
THEOREM LongBroadcastsRefusedAlways == Spec => []LongBroadcastsRefused
<1>1. Inputs => LongBroadcastsRefused
  BY LongBroadcastRefused DEF Inputs, LongBroadcastsRefused, AllowedQueries
<1> QED
  BY <1>1, FormatsTypes, PTL

\* Lengths and ports survive the way between hosts of any byte order.
THEOREM NumbersArriveAlways == Spec => []NumbersArrive
<1>1. Inputs => NumbersArrive
  <2>1. \A n \in Nat : n < 65536 => n \in Word
    <3> DEFINE max == 65535
    <3>1. Word = 0..max
      BY DEF Word
    <3>2. max \in Nat /\ \A n \in Nat : n < 65536 => n <= max
      OBVIOUS
    <3> HIDE DEF max
    <3> QED
      BY <3>1, <3>2
  <2> QED
    BY <2>1, EveryNumberArrives DEF Inputs, NumbersArrive
<1> QED
  BY <1>1, FormatsTypes, PTL

\* An address survives the way between hosts of one byte order, and is
\* reversed between others.
THEOREM AddressesArriveAlways == Spec => []AddressesArrive
<1>1. Inputs => AddressesArrive
  <2> HAVE Inputs
  <2> SUFFICES ASSUME StringToUint(text) # NotFound
               PROVE  AddressArrives(StringToUint(text))
    BY DEF AddressesArrive
  <2>1. StringToUint(text) = [i \in 1..4 |-> Octet(PartAt(text, i))]
    BY DEF StringToUint
  <2>2. StringToUint(text) = [i \in 1..4 |-> StringToUint(text)[i]]
    BY <2>1
  <2> QED
    BY <2>2, EveryAddressArrives
<1> QED
  BY <1>1, FormatsTypes, PTL

\* Every number that is packed reads back with its length, but for the four
\* limits.
THEOREM PackedIntsReadBackAlways == Spec => []PackedIntsReadBack
<1>1. Inputs => PackedIntsReadBack
  BY EveryNumberReadsBack DEF Inputs, PackedIntsReadBack
<1> QED
  BY <1>1, FormatsTypes, PTL

\* Any four bytes read as a number that fits the bytes reported.
THEOREM PackedIntsBoundedAlways == Spec => []PackedIntsBounded
<1>1. Inputs => PackedIntsBounded
  <2> HAVE Inputs
  <2> SUFFICES ASSUME bytes \in Seq(Byte), Len(bytes) = 4
               PROVE  PackedBounded(bytes)
    BY DEF Inputs, PackedIntsBounded
  <2>1. bytes \in [1..4 -> Byte]
    OBVIOUS
  <2> QED
    BY <2>1, EveryPackedIsBounded
<1> QED
  BY <1>1, FormatsTypes, PTL

\* A text comes back as it is exactly if it is an address in full.
THEOREM TextsComeBackAlways == Spec => []TextsComeBack
<1>1. Inputs => TextsComeBack
  <2>1. Parts \ {NoNumber} \subseteq Nat
    BY FormatsAssumption
  <2> QED
    BY <2>1, EveryTextComesBack DEF Inputs, TextsComeBack
<1> QED
  BY <1>1, FormatsTypes, PTL

\* Whatever interfaces a host has, requesters on its networks are told an
\* address of an interface on theirs, and one of their own network where the
\* interface has no other.
THEOREM AnswersOnNetworkAlways == Spec => []AnswersOnNetwork
<1>1. Inputs => AnswersOnNetwork
  BY EveryAnswerOnOwnNetwork DEF Inputs, AnswersOnNetwork
<1> QED
  BY <1>1, FormatsTypes, PTL

\* A service file that says nothing twice loads as it is written.
THEOREM FilesLoadAlways == Spec => []FilesLoad
<1>1. Inputs => FilesLoad
  BY LinesAreLines, PlainFilesDoLoad DEF FilesLoad
<1> QED
  BY <1>1, FormatsTypes, PTL

\* Sections that differ in case only are read with everything that any of them
\* says, in a file of any length.
THEOREM AlikeSectionsShareAlways == Spec => []FilesCollect
<1>1. Inputs => FilesCollect
  BY LinesAreLines, AlikeSectionsDoShare DEF FilesCollect
<1> QED
  BY <1>1, FormatsTypes, PTL

\* A service file is refused for its first bad line, and only if it has one.
THEOREM BrokenFilesRefusedAlways == Spec => []BrokenFilesRefused
<1>1. Inputs => BrokenFilesRefused
  BY LinesAreLines, FirstBrokenIsReported DEF BrokenFilesRefused
<1> QED
  BY <1>1, FormatsTypes, PTL

\* What is indented becomes part of the value before it and is never lost.
THEOREM IndentedContinuesAlways == Spec => []IndentedContinues
<1>1. Inputs => IndentedContinues
  BY LinesAreLines, IndentedLinesDoContinue DEF IndentedContinues
<1> QED
  BY <1>1, FormatsTypes, PTL

=============================================================================
