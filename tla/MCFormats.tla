----------------------------- MODULE MCFormats ------------------------------
(***************************************************************************)
(* The instance of Formats for TLC: inputs that pass every size at which a *)
(* length field, a count field or a receive buffer has its limit.          *)
(***************************************************************************)
EXTENDS Formats

MCStrings == {"", "x", "clip", "f255", "f256", "f300", "host", "huge"}

MCStrBytes ==
  [s \in MCStrings |->
     CASE s = "" -> 0 [] s = "x" -> 1 [] s = "clip" -> 44 [] s = "f255" -> 255
       [] s = "f256" -> 256 [] s = "f300" -> 300 [] s = "host" -> 64
       [] s = "huge" -> 65024]

\* 256 and 65024 bytes leave a length of 0, 300 bytes one of 44.
MCClip == [s \in MCStrings |-> CASE s \in {"f256", "huge"} -> ""
                                 [] s = "f300" -> "clip" [] OTHER -> s]

Service(name, host, ipv6) ==
  [name |-> name, host |-> host, ipv6 |-> ipv6, addr |-> 1, port |-> 80,
   proto |-> ProtocolTCP]

\* 14, 78 and 332 bytes; one that does not fit any buffer; and IPv6 texts of
\* 255 bytes and of 256.
MCServices == {Service("x", "", ""), Service("x", "host", ""),
               Service("f255", "host", ""), Service("huge", "", ""),
               Service("x", "", "f255"), Service("x", "", "f256")}

MCFilters == {"", "x", "f255", "f256", "f300"}

MCTexts == {"", "web", "WEB", "ssh", "port", "Port", "name", "80", "22"}
MCLower == [t \in MCTexts |-> CASE t = "WEB" -> "web" [] t = "Port" -> "port"
                                [] OTHER -> t]
MCSame == [t \in MCTexts |-> t]
MCWhole == [t \in MCTexts |-> IF t = "" THEN "80" ELSE t]
MCParts == {0, 1, 255, 256, 300, NoNumber}
\* All small numbers, and the neighbours of powers of two.
MCNumbers == 0..300 \cup {2^e + d : e \in 1..30, d \in {-1, 0, 1}}
MCOctets == {0, 1, 127, 128, 200, 255}

MCHostAddresses == {IPv6, <<10, 0, 0, 1>>, <<10, 0, 0, 2>>, <<10, 0, 1, 1>>}
MCRequesters == {<<10, 0, 0, 7>>, <<10, 0, 1, 7>>, <<10, 1, 0, 7>>}

FileLine(k, indented, t, v) ==
  [kind |-> k, indented |-> indented, text |-> t, value |-> v]

MCFileLines ==
  {FileLine("blank", FALSE, "", ""), FileLine("broken", FALSE, "port", ""),
   FileLine("section", FALSE, "web", ""), FileLine("section", FALSE, "WEB", ""),
   FileLine("section", FALSE, "ssh", ""), FileLine("section", TRUE, "ssh", ""),
   FileLine("pair", FALSE, "port", "80"), FileLine("pair", FALSE, "Port", "22"),
   FileLine("pair", FALSE, "name", ""), FileLine("pair", TRUE, "port", "22")}

=============================================================================
