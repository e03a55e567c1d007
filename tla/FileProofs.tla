----------------------------- MODULE FileProofs ------------------------------
(***************************************************************************)
(* What daemon/INIReader.h makes of any service file, of any length and    *)
(* over any texts.                                                         *)
(***************************************************************************)
EXTENDS ServiceFile, NaturalFacts, SequenceTheorems

\* The states of the parser, and of the reader it fills.
Values == UNION {[K -> Seq(Texts)] : K \in SUBSET (Texts \X Texts)}

Parser == [section : Texts, previous : Texts, number : Nat, error : Nat,
           sections : SUBSET Texts, values : Values]

LEMMA StartIsParser == Start \in Parser
<1>1. [key \in {} |-> <<>>] \in [{} -> Seq(Texts)]
  OBVIOUS
<1>2. {} \in SUBSET (Texts \X Texts) /\ {} \in SUBSET Texts
  OBVIOUS
<1>3. [key \in {} |-> <<>>] \in Values
  BY <1>1, <1>2 DEF Values
<1> QED
  BY <1>2, <1>3, ServiceFileAssumption DEF Start, Parser

LEMMA ValueOfIsSeq ==
  ASSUME NEW s \in Parser, NEW key
  PROVE  ValueOf(s, key) \in Seq(Texts)
<1>1. s.values \in Values
  BY DEF Parser
<1>2. PICK K \in SUBSET (Texts \X Texts) : s.values \in [K -> Seq(Texts)]
  BY <1>1 DEF Values
<1> QED
  BY <1>2 DEF ValueOf

\* What ValueHandler leaves alone, and what it adds.
LEMMA HandleAdds ==
  ASSUME NEW s \in Parser, NEW name \in Texts, NEW value \in Texts
  PROVE  /\ Handle(s, name, value) \in Parser
         /\ Handle(s, name, value).section = s.section
         /\ Handle(s, name, value).previous = s.previous
         /\ Handle(s, name, value).number = s.number
         /\ Handle(s, name, value).error = s.error
         /\ Handle(s, name, value).sections = s.sections \cup {s.section}
         /\ DOMAIN Handle(s, name, value).values
              = DOMAIN s.values \cup {MakeKey(s.section, name)}
         /\ Handle(s, name, value).values[MakeKey(s.section, name)]
              = IF ValueOf(s, MakeKey(s.section, name)) = <<>> /\ value = NoText
                THEN <<>>
                ELSE Append(ValueOf(s, MakeKey(s.section, name)), value)
         /\ \A k \in DOMAIN s.values : k # MakeKey(s.section, name) =>
              Handle(s, name, value).values[k] = s.values[k]
<1> DEFINE key == MakeKey(s.section, name)
           before == ValueOf(s, key)
           after == IF before = <<>> /\ value = NoText THEN <<>>
                    ELSE Append(before, value)
           values == [k \in DOMAIN s.values \cup {key} |->
                        IF k = key THEN after ELSE s.values[k]]
           h == Handle(s, name, value)
<1>1. /\ s.section \in Texts /\ s.previous \in Texts /\ s.number \in Nat
      /\ s.error \in Nat /\ s.sections \in SUBSET Texts /\ s.values \in Values
  BY DEF Parser
<1>2. key \in Texts \X Texts
  BY <1>1, ServiceFileAssumption DEF MakeKey
<1>3. after \in Seq(Texts)
  <2>1. before \in Seq(Texts)
    BY ValueOfIsSeq
  <2> HIDE DEF before
  <2> QED
    BY <2>1
<1>4. h = [s EXCEPT !.sections = s.sections \cup {s.section}, !.values = values]
  BY DEF Handle
<1> HIDE DEF key, after
<1>5. values \in Values
  <2>1. PICK K \in SUBSET (Texts \X Texts) : s.values \in [K -> Seq(Texts)]
    BY <1>1 DEF Values
  <2>2. K \cup {key} \in SUBSET (Texts \X Texts)
    BY <1>2
  <2>3. values \in [K \cup {key} -> Seq(Texts)]
    BY <1>3, <2>1
  <2> HIDE DEF values
  <2> QED
    BY <2>2, <2>3 DEF Values
<1>6. /\ DOMAIN values = DOMAIN s.values \cup {key}
      /\ values[key] = after
      /\ \A k \in DOMAIN s.values : k # key => values[k] = s.values[k]
  OBVIOUS
<1> HIDE DEF values, h
<1>7. /\ h.section = s.section /\ h.previous = s.previous
      /\ h.number = s.number /\ h.error = s.error
      /\ h.sections = s.sections \cup {s.section} /\ h.values = values
  BY <1>4 DEF Parser
<1>8. h \in Parser
  BY <1>1, <1>4, <1>5 DEF Parser
<1> QED
  BY <1>6, <1>7, <1>8 DEF h, key, after

LEMMA HandleKeeps ==
  ASSUME NEW s \in Parser, NEW name \in Texts, NEW value \in Texts
  PROVE  /\ Handle(s, name, value) \in Parser
         /\ Handle(s, name, value).section = s.section
         /\ Handle(s, name, value).previous = s.previous
         /\ Handle(s, name, value).number = s.number
         /\ Handle(s, name, value).error = s.error
BY HandleAdds

LEMMA HandleSets ==
  ASSUME NEW s \in Parser, NEW name \in Texts, NEW value \in Texts
  PROVE  Handle(s, name, value).values[MakeKey(s.section, name)]
           = IF ValueOf(s, MakeKey(s.section, name)) = <<>> /\ value = NoText
             THEN <<>>
             ELSE Append(ValueOf(s, MakeKey(s.section, name)), value)
BY HandleAdds

LEMMA HandleOthers ==
  ASSUME NEW s \in Parser, NEW name \in Texts, NEW value \in Texts
  PROVE  \A k \in DOMAIN s.values : k # MakeKey(s.section, name) =>
            Handle(s, name, value).values[k] = s.values[k]
BY HandleAdds

LEMMA HandleKeys ==
  ASSUME NEW s \in Parser, NEW name \in Texts, NEW value \in Texts
  PROVE  DOMAIN Handle(s, name, value).values
           = DOMAIN s.values \cup {MakeKey(s.section, name)}
BY HandleAdds

-----------------------------------------------------------------------------
\* One line.

Counted(s) == [s EXCEPT !.number = @ + 1]

LEMMA CountedIsParser ==
  ASSUME NEW s \in Parser
  PROVE  /\ Counted(s) \in Parser
         /\ Counted(s).number = s.number + 1
         /\ Counted(s).section = s.section /\ Counted(s).previous = s.previous
         /\ Counted(s).error = s.error /\ Counted(s).sections = s.sections
         /\ Counted(s).values = s.values
         /\ \A line : Continues(Counted(s), line) = Continues(s, line)
         /\ \A key : ValueOf(Counted(s), key) = ValueOf(s, key)
<1>1. /\ Counted(s) \in Parser
      /\ Counted(s).number = s.number + 1
      /\ Counted(s).section = s.section /\ Counted(s).previous = s.previous
      /\ Counted(s).error = s.error /\ Counted(s).sections = s.sections
      /\ Counted(s).values = s.values
  BY DEF Counted, Parser
<1> QED
  BY <1>1 DEF Continues, ValueOf

\* The parser behind a blank line, a continuation, a section, a pair and a
\* broken line.
LEMMA BlankLine ==
  ASSUME NEW s \in Parser, NEW line \in Line, line.kind = "blank"
  PROVE  ParseLine(s, line) = Counted(s) /\ ~Continues(s, line)
BY DEF ParseLine, Counted, Continues

LEMMA ContinuedLine ==
  ASSUME NEW s \in Parser, NEW line \in Line, Continues(s, line)
  PROVE  ParseLine(s, line) = Handle(Counted(s), s.previous, Whole[line.text])
<1>1. Continues(Counted(s), line) /\ Counted(s).previous = s.previous
  BY CountedIsParser
<1>2. line.kind # "blank"
  BY DEF Continues
<1> QED
  BY <1>1, <1>2 DEF ParseLine, Counted

LEMMA OtherLine ==
  ASSUME NEW s \in Parser, NEW line \in Line, ~Continues(s, line)
  PROVE  /\ line.kind = "section" => ParseLine(s, line)
              = [Counted(s) EXCEPT !.section = Cut[line.text],
                                   !.previous = NoText]
         /\ line.kind = "pair" => ParseLine(s, line)
              = Handle([Counted(s) EXCEPT !.previous = Cut[line.text]],
                       line.text, line.value)
         /\ line.kind = "broken" => ParseLine(s, line) = Fail(Counted(s))
<1>1. ~Continues(Counted(s), line)
  BY CountedIsParser
<1> QED
  BY <1>1 DEF ParseLine, Counted

LEMMA LineKinds ==
  ASSUME NEW line \in Line
  PROVE  /\ line.kind \in {"blank", "section", "pair", "broken"}
         /\ line.text \in Texts /\ line.value \in Texts
         /\ line.indented \in BOOLEAN
         /\ Cut[line.text] \in Texts /\ Whole[line.text] \in Texts
         /\ Whole[line.text] # NoText
         /\ Cut[line.text] = NoText => line.text = NoText
BY ServiceFileAssumption DEF Line

\* A section opens: what has been read before stays.
LEMMA SectionOpens ==
  ASSUME NEW s \in Parser, NEW line \in Line, ~Continues(s, line),
         line.kind = "section"
  PROVE  /\ ParseLine(s, line) \in Parser
         /\ ParseLine(s, line).number = s.number + 1
         /\ ParseLine(s, line).section = Cut[line.text]
         /\ ParseLine(s, line).previous = NoText
         /\ ParseLine(s, line).error = s.error
         /\ ParseLine(s, line).sections = s.sections
         /\ ParseLine(s, line).values = s.values
<1>1. ParseLine(s, line) = [Counted(s) EXCEPT !.section = Cut[line.text],
                                              !.previous = NoText]
  BY OtherLine
<1>2. Cut[line.text] \in Texts /\ NoText \in Texts
  BY LineKinds, ServiceFileAssumption
<1> QED
  BY <1>1, <1>2, CountedIsParser, ZenonT(60) DEF Parser

\* A pair is handled under its own name.
LEMMA PairHandled ==
  ASSUME NEW s \in Parser, NEW line \in Line, ~Continues(s, line),
         line.kind = "pair"
  PROVE  \E t \in Parser :
            /\ t.number = s.number + 1 /\ t.section = s.section
            /\ t.previous = Cut[line.text]
            /\ t.error = s.error /\ t.sections = s.sections
            /\ t.values = s.values
            /\ \A key : ValueOf(t, key) = ValueOf(s, key)
            /\ ParseLine(s, line) = Handle(t, line.text, line.value)
<1> DEFINE t == [Counted(s) EXCEPT !.previous = Cut[line.text]]
<1>1. Cut[line.text] \in Texts
  BY LineKinds
<1>2. /\ t \in Parser
      /\ t.number = s.number + 1 /\ t.section = s.section
      /\ t.previous = Cut[line.text]
      /\ t.error = s.error /\ t.sections = s.sections
      /\ t.values = s.values
  BY <1>1, CountedIsParser DEF Parser
<1>3. ParseLine(s, line) = Handle(t, line.text, line.value)
  BY OtherLine
<1> HIDE DEF t
<1>4. \A key : ValueOf(t, key) = ValueOf(s, key)
  BY <1>2 DEF ValueOf
<1> QED
  BY <1>2, <1>3, <1>4

\* A broken line is noted if it is the first.
LEMMA BrokenNoted ==
  ASSUME NEW s \in Parser, NEW line \in Line, ~Continues(s, line),
         line.kind = "broken"
  PROVE  /\ ParseLine(s, line) \in Parser
         /\ ParseLine(s, line).number = s.number + 1
         /\ ParseLine(s, line).error
              = IF s.error = 0 THEN s.number + 1 ELSE s.error
         /\ ParseLine(s, line).section = s.section
         /\ ParseLine(s, line).previous = s.previous
         /\ ParseLine(s, line).sections = s.sections
         /\ ParseLine(s, line).values = s.values
<1>1. ParseLine(s, line) = Fail(Counted(s))
  BY OtherLine
<1> QED
  BY <1>1, CountedIsParser DEF Parser, Fail

\* Whatever the line is, the parser stays one, counts it, and reports an error
\* exactly if there was one or the line is broken and no continuation.
LEMMA LineRead ==
  ASSUME NEW s \in Parser, NEW line \in Line
  PROVE  /\ ParseLine(s, line) \in Parser
         /\ ParseLine(s, line).number = s.number + 1
         /\ ParseLine(s, line).error
              = IF s.error = 0 /\ line.kind = "broken" /\ ~Continues(s, line)
                THEN s.number + 1 ELSE s.error
<1>1. CASE line.kind = "blank"
  BY <1>1, BlankLine, CountedIsParser
<1>2. CASE Continues(s, line)
  <2>1. Counted(s) \in Parser /\ s.previous \in Texts /\ Whole[line.text] \in Texts
    BY CountedIsParser, LineKinds DEF Parser
  <2>2. /\ ParseLine(s, line) \in Parser
        /\ ParseLine(s, line).number = Counted(s).number
        /\ ParseLine(s, line).error = Counted(s).error
    BY <1>2, <2>1, ContinuedLine, HandleAdds, SMTT(30)
  <2> QED
    BY <1>2, <2>2, CountedIsParser
<1>3. CASE ~Continues(s, line) /\ line.kind = "section"
  BY <1>3, SectionOpens
<1>4. CASE ~Continues(s, line) /\ line.kind = "pair"
  <2>1. PICK t \in Parser :
            /\ t.number = s.number + 1 /\ t.error = s.error
            /\ ParseLine(s, line) = Handle(t, line.text, line.value)
    BY <1>4, PairHandled
  <2>2. line.text \in Texts /\ line.value \in Texts
    BY LineKinds
  <2>3. /\ ParseLine(s, line) \in Parser
        /\ ParseLine(s, line).number = t.number
        /\ ParseLine(s, line).error = t.error
    BY <2>1, <2>2, HandleAdds, SMTT(30)
  <2> QED
    BY <1>4, <2>1, <2>3
<1>5. CASE ~Continues(s, line) /\ line.kind = "broken"
  BY <1>5, BrokenNoted
<1> QED
  BY <1>1, <1>2, <1>3, <1>4, <1>5, LineKinds

-----------------------------------------------------------------------------
\* A whole file.

\* The equation the parser's states are defined by.
LEMMA ParsingRule ==
  ASSUME NEW lines \in Seq(Line)
  PROVE  /\ Parsing(lines) \in [0..Len(lines) -> Parser]
         /\ Parsing(lines)[0] = Start
         /\ \A i \in 1..Len(lines) :
              Parsing(lines)[i] = ParseLine(Parsing(lines)[i - 1], lines[i])
<1> DEFINE n == Len(lines)
           rule(g) == [i \in 0..n |-> IF i = 0 THEN Start
                                      ELSE ParseLine(g[i - 1], lines[i])]
           step == [i \in 1..n |-> [x \in Parser |-> ParseLine(x, lines[i])]]
<1>1. n \in Nat /\ \A i \in 1..n : lines[i] \in Line
  OBVIOUS
<1>2. step \in [1..n -> [Parser -> Parser]]
  BY <1>1, LineRead
<1>3. PICK g : Recursive(g, n, Parser, Start, step)
  <2>1. n \in Nat /\ Start \in Parser
    BY StartIsParser
  <2> HIDE DEF step, n
  <2> QED
    BY <1>2, <2>1, RecursionExists
<1>4. \A i \in 1..n : g[i] = ParseLine(g[i - 1], lines[i])
  <2> SUFFICES ASSUME NEW i \in 1..n PROVE g[i] = ParseLine(g[i - 1], lines[i])
    OBVIOUS
  <2>1. i - 1 \in 0..n
    BY <1>1
  <2>2. g[i - 1] \in Parser
    BY <1>3, <2>1 DEF Recursive
  <2> QED
    BY <1>3, <2>2 DEF Recursive
<1>5. g = rule(g)
  <2> HIDE DEF n
  <2>1. \A i \in 0..n : g[i] = rule(g)[i]
    <3> SUFFICES ASSUME NEW i \in 0..n PROVE g[i] = rule(g)[i]
      OBVIOUS
    <3>1. i = 0 \/ i \in 1..n
      BY <1>1
    <3> QED
      BY <1>3, <1>4, <3>1 DEF Recursive
  <2> QED
    BY <1>3, <2>1 DEF Recursive
<1>6. Parsing(lines) = rule(Parsing(lines))
  <2>1. Parsing(lines) = CHOOSE h : h = rule(h)
    BY DEF Parsing
  <2> HIDE DEF rule
  <2> QED
    BY <1>5, <2>1
<1> DEFINE r == Parsing(lines)
<1> HIDE DEF r, n
<1>7. r = rule(r)
  BY <1>6 DEF r, n
<1>8. r[0] = Start /\ \A i \in 1..n : r[i] = ParseLine(r[i - 1], lines[i])
  <2>1. 0 \in 0..n /\ \A i \in 1..n : i \in 0..n /\ i # 0
    BY <1>1
  <2> QED
    BY <1>7, <2>1
<1>9. \A i \in 0..n : r[i] \in Parser
  <2> DEFINE T == {i \in 0..n : r[i] \in Parser}
  <2>1. 0 \in T
    BY <1>1, <1>8, StartIsParser
  <2>2. ASSUME NEW i \in 1..n, i - 1 \in T PROVE i \in T
    <3>1. r[i - 1] \in Parser /\ lines[i] \in Line /\ i \in 0..n
      BY <1>1, <2>2
    <3> QED
      BY <1>8, <3>1, LineRead
  <2> HIDE DEF T
  <2>3. \A i \in 0..n : i \in T
    BY <1>1, <2>1, <2>2, UpTo
  <2> QED
    BY <2>3 DEF T
<1>10. r \in [0..n -> Parser]
  BY <1>7, <1>9
<1> QED
  BY <1>8, <1>10 DEF r, n

\* The same, line by line.
LEMMA LineByLine ==
  ASSUME NEW lines \in Seq(Line), NEW i \in 1..Len(lines)
  PROVE  /\ i - 1 \in 0..Len(lines) /\ i \in 0..Len(lines) /\ i \in DOMAIN lines
         /\ lines[i] \in Line
         /\ Parsing(lines)[i - 1] \in Parser /\ Parsing(lines)[i] \in Parser
         /\ Parsing(lines)[i] = ParseLine(Parsing(lines)[i - 1], lines[i])
<1>1. i - 1 \in 0..Len(lines) /\ i \in 0..Len(lines) /\ i \in DOMAIN lines
      /\ lines[i] \in Line
  OBVIOUS
<1> QED
  BY <1>1, ParsingRule

\* The first broken line.  By induction along the lines: an error is reported
\* as soon as there is a broken line, and it is the least of them.
THEOREM FirstBrokenIsReported ==
  ASSUME NEW lines \in Seq(Line)
  PROVE  FirstBrokenReported(lines)
<1> DEFINE n == Len(lines)
           r == Parsing(lines)
           Broken == {i \in DOMAIN lines : lines[i].kind = "broken"
                                           /\ ~Continuation(lines, i)}
           T == {k \in 0..n :
                   /\ r[k].number = k
                   /\ r[k].error = 0 => \A i \in 1..k : i \notin Broken
                   /\ r[k].error # 0 => /\ r[k].error \in Broken
                                        /\ r[k].error \in 1..k
                                        /\ \A i \in Broken : r[k].error <= i}
<1>1. n \in Nat /\ DOMAIN lines = 1..n
  OBVIOUS
<1>2. 0 \in T
  <2>1. r[0].number = 0 /\ r[0].error = 0
    BY ParsingRule DEF Start
  <2> QED
    BY <1>1, <2>1
<1>3. ASSUME NEW k \in 1..n, k - 1 \in T PROVE k \in T
  <2>1. /\ r[k].number = r[k - 1].number + 1
        /\ r[k].error = IF r[k - 1].error = 0 /\ lines[k].kind = "broken"
                           /\ ~Continues(r[k - 1], lines[k])
                        THEN r[k - 1].number + 1 ELSE r[k - 1].error
    BY LineByLine, LineRead
  <2>2. /\ r[k - 1].number = k - 1
        /\ r[k - 1].error = 0 => \A i \in 1..k - 1 : i \notin Broken
        /\ r[k - 1].error # 0 => /\ r[k - 1].error \in Broken
                                 /\ r[k - 1].error \in 1..k - 1
                                 /\ \A i \in Broken : r[k - 1].error <= i
    BY <1>3
  <2>3. k \in Broken <=> lines[k].kind = "broken" /\ ~Continues(r[k - 1], lines[k])
    BY <1>1 DEF Continuation
  <2>4. \A i \in Broken : i \in 1..n
    BY <1>1
  <2> HIDE DEF Broken, r
  <2>5. CASE r[k - 1].error # 0
    <3>1. r[k].error = r[k - 1].error
      BY <2>1, <2>5
    <3>2. \A x \in 1..k - 1 : x \in 1..k
      BY <1>1
    <3>3. r[k].number = k
      BY <1>1, <2>1, <2>2
    <3>4. k \in 0..n
      BY <1>1
    <3> QED
      BY <2>2, <2>5, <3>1, <3>2, <3>3, <3>4
  <2>6. CASE r[k - 1].error = 0 /\ k \in Broken
    <3>1. r[k].error = k /\ r[k].number = k /\ k # 0
      BY <1>1, <2>1, <2>2, <2>3, <2>6
    <3>2. ASSUME NEW i \in Broken PROVE k <= i
      <4>1. i \in 1..n /\ i \notin 1..k - 1
        BY <2>2, <2>4, <2>6
      <4> QED
        BY <4>1
    <3>3. k \in 0..n /\ k \in 1..k
      BY <1>1
    <3> QED
      BY <2>6, <3>1, <3>2, <3>3
  <2>7. CASE r[k - 1].error = 0 /\ k \notin Broken
    <3>1. r[k].error = 0 /\ r[k].number = k
      BY <1>1, <2>1, <2>2, <2>3, <2>7
    <3>2. \A i \in 1..k : i \in 1..k - 1 \/ i = k
      OBVIOUS
    <3>3. k \in 0..n
      BY <1>1
    <3> QED
      BY <2>2, <2>7, <3>1, <3>2, <3>3
  <2> QED
    BY <2>5, <2>6, <2>7
<1>4. \A k \in 0..n : k \in T
  <2> HIDE DEF T
  <2> QED
    BY <1>1, <1>2, <1>3, UpTo
<1>5. n \in T
  BY <1>1, <1>4
<1>6. r[n].error = 0 => Broken = {}
  BY <1>1, <1>5
<1>7. r[n].error # 0 => r[n].error \in Broken /\ \A i \in Broken : r[n].error <= i
  BY <1>5
<1>8. \A i \in Broken : i \in Nat
  BY <1>1
<1>9. r[n].error = IF Broken = {} THEN 0 ELSE Min(Broken)
  <2> HIDE DEF r, Broken, n
  <2>1. CASE r[n].error = 0
    BY <1>6, <2>1
  <2>2. CASE r[n].error # 0
    <3> DEFINE e == r[n].error
    <3> HIDE DEF e
    <3>1. e \in Broken /\ \A i \in Broken : e <= i
      BY <1>7, <2>2 DEF e
    <3>2. \A x \in Broken : (\A i \in Broken : x <= i) => x = e
      BY <1>8, <3>1
    <3>3. Min(Broken) = e
      BY <3>1, <3>2 DEF Min
    <3> QED
      BY <3>1, <3>3 DEF e
  <2> QED
    BY <2>1, <2>2
<1> QED
  BY <1>9 DEF FirstBrokenReported, ParseError, Parse

\* Indented lines.  By induction from the pair with a name to the indented line:
\* the parser remembers a name all the way.
THEOREM IndentedLinesDoContinue ==
  ASSUME NEW lines \in Seq(Line)
  PROVE  IndentedLinesContinue(lines)
<1> DEFINE n == Len(lines)
           r == Parsing(lines)
           named(k) == lines[k].kind = "pair" /\ lines[k].text # NoText
<1>1. n \in Nat /\ DOMAIN lines = 1..n
  OBVIOUS
<1>2. ASSUME NEW i \in 1..n, NEW j \in 1..i - 1,
             lines[i].indented, lines[i].kind # "blank", named(j),
             \A k \in j + 1..i - 1 : named(k) \/ lines[k].kind = "blank"
      PROVE  /\ r[i].section = r[i - 1].section
             /\ r[i].error = r[i - 1].error
             /\ \E key \in DOMAIN r[i].values :
                  r[i].values[key] # ValueOf(r[i - 1], key)
  <2> DEFINE T == {k \in 0..i - 1 : k >= j => r[k].previous # NoText}
  <2>1. 0 \in T
    BY <1>1
  <2>2. ASSUME NEW k \in 1..i - 1, k - 1 \in T PROVE k \in T
    <3>1. k \in 1..n /\ k \in 0..i - 1
      BY <1>1
    <3>2. /\ r[k - 1] \in Parser /\ r[k] \in Parser /\ lines[k] \in Line
          /\ r[k] = ParseLine(r[k - 1], lines[k])
      BY <3>1, LineByLine
    <3>3. CASE k < j
      BY <3>1, <3>3
    <3>4. CASE k >= j
      <4>1. (named(k) \/ (lines[k].kind = "blank" /\ k - 1 >= j))
        <5>1. k = j \/ (k \in j + 1..i - 1 /\ k - 1 >= j)
          BY <3>4
        <5> QED
          BY <1>2, <5>1
      <4>2. k - 1 >= j => r[k - 1].previous # NoText
        BY <2>2
      <4> HIDE DEF r
      <4>3. r[k].previous # NoText
        <5>1. CASE lines[k].kind = "blank"
          BY <3>2, <4>1, <4>2, <5>1, BlankLine, CountedIsParser
        <5>2. CASE named(k) /\ Continues(r[k - 1], lines[k])
          <6>1. r[k - 1].previous # NoText
            BY <5>2 DEF Continues
          <6>2. Counted(r[k - 1]) \in Parser /\ r[k - 1].previous \in Texts
                /\ Whole[lines[k].text] \in Texts
            BY <3>2, CountedIsParser, LineKinds DEF Parser
          <6>3. r[k] = Handle(Counted(r[k - 1]), r[k - 1].previous,
                              Whole[lines[k].text])
            BY <3>2, <5>2, ContinuedLine, Zenon
          <6>4. Handle(Counted(r[k - 1]), r[k - 1].previous,
                       Whole[lines[k].text]).previous = Counted(r[k - 1]).previous
            BY <6>2, HandleKeeps
          <6> QED
            BY <3>2, <6>1, <6>3, <6>4, CountedIsParser
        <5>3. CASE named(k) /\ ~Continues(r[k - 1], lines[k])
          <6>1. PICK t \in Parser :
                   /\ t.previous = Cut[lines[k].text]
                   /\ r[k] = Handle(t, lines[k].text, lines[k].value)
            BY <3>2, <5>3, PairHandled
          <6>2. Handle(t, lines[k].text, lines[k].value).previous = t.previous
            BY <3>2, HandleKeeps, LineKinds
          <6> QED
            BY <3>2, <5>3, <6>1, <6>2, LineKinds
        <5> QED
          BY <4>1, <5>1, <5>2, <5>3
      <4> QED
        BY <3>1, <4>3
    <3> QED
      BY <3>1, <3>3, <3>4
  <2>3. \A k \in 0..i - 1 : k \in T
    <3>1. i - 1 \in Nat
      BY <1>1
    <3> HIDE DEF T
    <3> QED
      BY <2>1, <2>2, <3>1, UpTo
  <2>4. r[i - 1].previous # NoText
    <3>1. i - 1 \in 0..i - 1 /\ i - 1 >= j
      BY <1>1
    <3> QED
      BY <2>3, <3>1
  <2>5. Continues(r[i - 1], lines[i])
    BY <1>2, <2>4 DEF Continues
  <2>6. /\ r[i - 1] \in Parser /\ lines[i] \in Line
        /\ r[i] = ParseLine(r[i - 1], lines[i])
    BY LineByLine
  <2> DEFINE s == Counted(r[i - 1])
             v == Whole[lines[i].text]
             key == MakeKey(s.section, r[i - 1].previous)
  <2> HIDE DEF r, s, v, key
  <2>7. /\ s \in Parser /\ s.section = r[i - 1].section
        /\ s.error = r[i - 1].error
        /\ \A k : ValueOf(s, k) = ValueOf(r[i - 1], k)
    BY <2>6, CountedIsParser DEF s
  <2>8. r[i] = Handle(s, r[i - 1].previous, v)
    BY <2>5, <2>6, ContinuedLine DEF s, v
  <2>9. r[i - 1].previous \in Texts /\ v \in Texts /\ v # NoText
    BY <2>6, LineKinds DEF Parser, v
  <2> DEFINE h == Handle(s, r[i - 1].previous, v)
  <2>13. /\ h.section = s.section /\ h.error = s.error
         /\ DOMAIN h.values = DOMAIN s.values \cup {key}
         /\ h.values[key] = IF ValueOf(s, key) = <<>> /\ v = NoText
                            THEN <<>> ELSE Append(ValueOf(s, key), v)
    <3>1. s \in Parser /\ r[i - 1].previous \in Texts /\ v \in Texts
      BY <2>7, <2>9
    <3>2. h.section = s.section /\ h.error = s.error
      BY <3>1, HandleKeeps
    <3>3. DOMAIN h.values = DOMAIN s.values \cup {key}
      BY <3>1, HandleKeys DEF key
    <3>4. h.values[key] = IF ValueOf(s, key) = <<>> /\ v = NoText
                          THEN <<>> ELSE Append(ValueOf(s, key), v)
      BY <3>1, HandleAdds, Zenon DEF key
    <3> QED
      BY <3>2, <3>3, <3>4
  <2> HIDE DEF h
  <2>10. /\ r[i].section = s.section /\ r[i].error = s.error
         /\ DOMAIN r[i].values = DOMAIN s.values \cup {key}
         /\ r[i].values[key] = IF ValueOf(s, key) = <<>> /\ v = NoText
                               THEN <<>> ELSE Append(ValueOf(s, key), v)
    <3>1. r[i] = h
      BY <2>8 DEF h
    <3> QED
      BY <2>13, <3>1
  <2>11. r[i].values[key] # ValueOf(s, key)
    <3>1. ValueOf(s, key) \in Seq(Texts)
      BY <2>7, ValueOfIsSeq
    <3>2. r[i].values[key] = Append(ValueOf(s, key), v)
      BY <2>9, <2>10
    <3>3. \A q \in Seq(Texts) : Append(q, v) # q
      <4> SUFFICES ASSUME NEW q \in Seq(Texts) PROVE Append(q, v) # q
        OBVIOUS
      <4>1. Len(Append(q, v)) = Len(q) + 1 /\ Len(q) \in Nat
        BY <2>9
      <4> QED
        BY <4>1
    <3> QED
      BY <3>1, <3>2, <3>3
  <2>12. key \in DOMAIN r[i].values /\ r[i].values[key] # ValueOf(r[i - 1], key)
    BY <2>7, <2>10, <2>11
  <2> QED
    BY <2>7, <2>10, <2>12
<1> QED
  BY <1>1, <1>2 DEF IndentedLinesContinue

\* The section a line stands under, without indented lines.
LEMMA SectionAtRule ==
  ASSUME NEW lines \in Seq(Line), \A i \in DOMAIN lines : ~lines[i].indented
  PROVE  /\ \A i \in 1..Len(lines) : ~Continuation(lines, i)
         /\ SectionAt(lines, 0) = NoText
         /\ \A k \in 1..Len(lines) :
              SectionAt(lines, k) = IF lines[k].kind = "section"
                                    THEN lines[k].text ELSE SectionAt(lines, k - 1)
<1> DEFINE n == Len(lines)
           Openings(k) == {0} \cup {j \in 1..k : lines[j].kind = "section"
                                                 /\ ~Continuation(lines, j)}
<1>1. n \in Nat /\ DOMAIN lines = 1..n
  OBVIOUS
<1>2. \A i \in 1..n : ~Continuation(lines, i)
  BY <1>1 DEF Continuation, Continues
<1>3. \A k \in 0..n : SectionLine(lines, k) = Max(Openings(k))
  BY DEF SectionLine
<1>4. SectionAt(lines, 0) = NoText
  <2>1. Openings(0) = {0}
    OBVIOUS
  <2>2. Max({0}) = 0
    BY DEF Max
  <2>3. SectionLine(lines, 0) = 0
    BY <1>1, <1>3, <2>1, <2>2
  <2> QED
    BY <2>3 DEF SectionAt
<1>5. ASSUME NEW k \in 1..n
      PROVE  SectionAt(lines, k) = IF lines[k].kind = "section"
                                   THEN lines[k].text ELSE SectionAt(lines, k - 1)
  <2>1. k - 1 \in 0..n /\ k \in 0..n /\ k # 0
    BY <1>1
  <2>2. CASE lines[k].kind = "section"
    <3> DEFINE S == Openings(k)
    <3>1. k \in S /\ \A x \in S : k >= x /\ x \in Int
      BY <1>2, <2>2
    <3> HIDE DEF S
    <3>2. \A y \in S : (\A x \in S : y >= x) => y = k
      BY <3>1
    <3>3. Max(S) = k
      BY <3>1, <3>2 DEF Max
    <3>4. SectionLine(lines, k) = k
      BY <1>3, <2>1, <3>3 DEF S
    <3> QED
      BY <2>1, <2>2, <3>4 DEF SectionAt
  <2>3. CASE lines[k].kind # "section"
    <3>1. Openings(k) = Openings(k - 1)
      <4>1. \A j \in 1..k : j = k \/ j \in 1..k - 1
        OBVIOUS
      <4>2. \A j \in 1..k - 1 : j \in 1..k
        OBVIOUS
      <4> QED
        BY <2>3, <4>1, <4>2
    <3>2. SectionLine(lines, k) = SectionLine(lines, k - 1)
      BY <1>3, <2>1, <3>1
    <3> QED
      BY <2>3, <3>2 DEF SectionAt
  <2> QED
    BY <2>2, <2>3
<1> QED
  BY <1>2, <1>4, <1>5

\* A plain file.  By induction along the lines: the values are those of the
\* pairs read so far, each under its own key, and the sections are theirs.
THEOREM PlainFilesDoLoad ==
  ASSUME NEW lines \in Seq(Line)
  PROVE  PlainFilesLoad(lines)
<1> DEFINE n == Len(lines)
           r == Parsing(lines)
           Pairs == PairLines(lines)
           Sect(k) == SectionAt(lines, k)
           K(i) == MakeKey(Sect(i), lines[i].text)
           wanted(i) == IF lines[i].value = NoText THEN <<>>
                        ELSE <<lines[i].value>>
           T == {k \in 0..n :
                   /\ r[k].section = Sect(k)
                   /\ \A i \in Pairs : i <= k =>
                        /\ Sect(i) \in r[k].sections
                        /\ K(i) \in DOMAIN r[k].values
                        /\ r[k].values[K(i)] = wanted(i)
                   /\ \A x \in r[k].sections : \E i \in Pairs : i <= k /\ x = Sect(i)
                   /\ \A x \in DOMAIN r[k].values :
                        \E i \in Pairs : i <= k /\ x = K(i)}
<1>1. SUFFICES ASSUME Plain(lines)
               PROVE  /\ \A i \in Pairs : Get(r[n], Sect(i), lines[i].text) = wanted(i)
                      /\ Sections(r[n]) = {Sect(i) : i \in Pairs}
  BY DEF PlainFilesLoad, Parse
<1>2. n \in Nat /\ DOMAIN lines = 1..n
  OBVIOUS
<1>3. /\ \A i \in 1..n : ~Continuation(lines, i)
      /\ Sect(0) = NoText
      /\ \A k \in 1..n : Sect(k) = IF lines[k].kind = "section"
                                   THEN lines[k].text ELSE Sect(k - 1)
  <2>1. \A i \in DOMAIN lines : ~lines[i].indented
    BY <1>1 DEF Plain, Straight
  <2> QED
    BY <2>1, SectionAtRule
<1>4. /\ \A i \in Pairs : i \in 1..n
      /\ \A i \in 1..n : i \in Pairs <=> lines[i].kind = "pair"
  BY <1>2, <1>3 DEF PairLines
<1>5. \A i, j \in Pairs : i # j => K(i) # K(j)
  BY <1>1 DEF Plain, Alike, MakeKey
<1>6. \A i \in 1..n : lines[i].kind = "section" => Cut[lines[i].text] = lines[i].text
  BY <1>1, <1>2 DEF Plain, Straight
<1>7. 0 \in T
  <2>1. r[0] = Start
    BY ParsingRule
  <2>2. \A i \in Pairs : ~(i <= 0)
    BY <1>4
  <2>3. r[0].section = Sect(0) /\ r[0].sections = {} /\ DOMAIN r[0].values = {}
    BY <1>3, <2>1 DEF Start
  <2> HIDE DEF r, Pairs, Sect, K, wanted
  <2> QED
    BY <1>2, <2>2, <2>3
<1>8. ASSUME NEW k \in 1..n, k - 1 \in T PROVE k \in T
  <2>1. /\ r[k - 1] \in Parser /\ lines[k] \in Line
        /\ r[k] = ParseLine(r[k - 1], lines[k])
    BY LineByLine
  <2>2. ~Continues(r[k - 1], lines[k])
    BY <1>3 DEF Continuation
  <2>3. /\ r[k - 1].section = Sect(k - 1)
        /\ \A i \in Pairs : i <= k - 1 =>
             /\ Sect(i) \in r[k - 1].sections
             /\ K(i) \in DOMAIN r[k - 1].values
             /\ r[k - 1].values[K(i)] = wanted(i)
        /\ \A x \in r[k - 1].sections : \E i \in Pairs : i <= k - 1 /\ x = Sect(i)
        /\ \A x \in DOMAIN r[k - 1].values :
             \E i \in Pairs : i <= k - 1 /\ x = K(i)
    BY <1>8
  <2>4. /\ k \in Pairs <=> lines[k].kind = "pair"
        /\ Sect(k) = IF lines[k].kind = "section" THEN lines[k].text ELSE Sect(k - 1)
        /\ \A i \in Pairs : i \in 1..n
        /\ \A i \in Pairs : i <= k <=> (i <= k - 1 \/ i = k)
        /\ k \in 0..n /\ k <= k
    BY <1>3, <1>4
  <2>5. lines[k].kind = "section" => Cut[lines[k].text] = lines[k].text
    BY <1>6
  <2>6. lines[k].kind \in {"blank", "section", "pair", "broken"}
    BY <2>1, LineKinds
  <2>7. K(k) = MakeKey(Sect(k), lines[k].text)
    OBVIOUS
  <2>8. wanted(k) = IF lines[k].value = NoText THEN <<>> ELSE <<lines[k].value>>
    OBVIOUS
  <2> HIDE DEF r, Pairs, Sect, K, wanted, n
  <2>9. CASE lines[k].kind # "pair"
    <3>1. /\ r[k].section = Sect(k)
          /\ r[k].sections = r[k - 1].sections
          /\ r[k].values = r[k - 1].values
      <4>1. CASE lines[k].kind = "blank"
        BY <2>1, <2>3, <2>4, <4>1, BlankLine, CountedIsParser
      <4>2. CASE lines[k].kind = "section"
        BY <2>1, <2>2, <2>4, <2>5, <4>2, SectionOpens
      <4>3. CASE lines[k].kind = "broken"
        BY <2>1, <2>2, <2>3, <2>4, <4>3, BrokenNoted
      <4> QED
        BY <2>6, <2>9, <4>1, <4>2, <4>3
    <3>2. \A i \in Pairs : i <= k <=> i <= k - 1
      BY <2>4, <2>9
    <3> QED
      BY <2>3, <2>4, <3>1, <3>2
  <2>10. CASE lines[k].kind = "pair"
    <3>1. PICK t \in Parser :
             /\ t.section = r[k - 1].section
             /\ t.sections = r[k - 1].sections
             /\ t.values = r[k - 1].values
             /\ r[k] = Handle(t, lines[k].text, lines[k].value)
      BY <2>1, <2>2, <2>10, PairHandled
    <3>2. k \in Pairs /\ t.section = Sect(k) /\ Sect(k) = Sect(k - 1)
      BY <2>3, <2>4, <2>10, <3>1
    <3>3. MakeKey(t.section, lines[k].text) = K(k)
      BY <2>7, <3>2
    <3>4. K(k) \notin DOMAIN t.values
      <4>1. SUFFICES ASSUME K(k) \in DOMAIN r[k - 1].values PROVE FALSE
        BY <3>1
      <4>2. PICK i \in Pairs : i <= k - 1 /\ K(k) = K(i)
        BY <2>3, <4>1
      <4>3. i # k
        BY <4>2
      <4> QED
        BY <1>5, <3>2, <4>2, <4>3
    <3>5. lines[k].text \in Texts /\ lines[k].value \in Texts
      BY <2>1, LineKinds
    <3> DEFINE h == Handle(t, lines[k].text, lines[k].value)
    <3>6. h.section = t.section
      BY <3>5, HandleKeeps
    <3>7. h.sections = t.sections \cup {t.section}
      BY <3>5, HandleAdds
    <3>8. DOMAIN h.values = DOMAIN t.values \cup {K(k)}
      BY <3>3, <3>5, HandleKeys
    <3>9. h.values[K(k)] = wanted(k)
      <4>1. ValueOf(t, K(k)) = <<>>
        BY <3>4 DEF ValueOf
      <4>2. h.values[K(k)] = IF ValueOf(t, K(k)) = <<>> /\ lines[k].value = NoText
                             THEN <<>> ELSE Append(ValueOf(t, K(k)), lines[k].value)
        BY <3>3, <3>5, HandleSets
      <4>3. Append(<<>>, lines[k].value) = <<lines[k].value>>
        OBVIOUS
      <4> HIDE DEF h
      <4> QED
        BY <2>8, <4>1, <4>2, <4>3
    <3>10. \A x \in DOMAIN t.values : h.values[x] = t.values[x]
      <4>1. \A x \in DOMAIN t.values : x # K(k) => h.values[x] = t.values[x]
        BY <3>3, <3>5, HandleOthers
      <4> QED
        BY <3>4, <4>1
    <3>11. r[k] = h
      BY <3>1
    <3> HIDE DEF h
    <3>12. ASSUME NEW i \in Pairs, i <= k
           PROVE  /\ Sect(i) \in h.sections /\ K(i) \in DOMAIN h.values
                  /\ h.values[K(i)] = wanted(i)
      <4>1. CASE i = k
        BY <3>2, <3>7, <3>8, <3>9, <4>1
      <4>2. CASE i <= k - 1
        <5>1. /\ Sect(i) \in t.sections /\ K(i) \in DOMAIN t.values
              /\ t.values[K(i)] = wanted(i)
          BY <2>3, <3>1, <4>2
        <5> QED
          BY <3>7, <3>8, <3>10, <5>1
      <4> QED
        BY <2>4, <3>12, <4>1, <4>2
    <3>13. ASSUME NEW x \in h.sections
           PROVE  \E i \in Pairs : i <= k /\ x = Sect(i)
      <4>1. CASE x = Sect(k)
        BY <2>4, <3>2, <4>1
      <4>2. CASE x \in r[k - 1].sections
        BY <2>3, <2>4, <4>2
      <4> QED
        BY <3>1, <3>2, <3>7, <4>1, <4>2
    <3>14. ASSUME NEW x \in DOMAIN h.values
           PROVE  \E i \in Pairs : i <= k /\ x = K(i)
      <4>1. CASE x = K(k)
        BY <2>4, <3>2, <4>1
      <4>2. CASE x \in DOMAIN r[k - 1].values
        BY <2>3, <2>4, <4>2
      <4> QED
        BY <3>1, <3>8, <4>1, <4>2
    <3>15. h.section = Sect(k)
      BY <3>2, <3>6
    <3> QED
      BY <2>4, <3>11, <3>12, <3>13, <3>14, <3>15
  <2> QED
    BY <2>9, <2>10
<1>9. \A k \in 0..n : k \in T
  <2> HIDE DEF T
  <2> QED
    BY <1>2, <1>7, <1>8, UpTo
<1>10. n \in T
  BY <1>2, <1>9
<1>11. /\ \A i \in Pairs : /\ Sect(i) \in r[n].sections
                           /\ K(i) \in DOMAIN r[n].values
                           /\ r[n].values[K(i)] = wanted(i)
       /\ \A x \in r[n].sections : \E i \in Pairs : x = Sect(i)
  <2>1. \A i \in Pairs : i <= n
    BY <1>2, <1>4
  <2> HIDE DEF r, Pairs, Sect, K, wanted, n
  <2> QED
    BY <1>10, <2>1
<1>12. \A i \in Pairs : Get(r[n], Sect(i), lines[i].text) = wanted(i)
  <2> HIDE DEF r, Pairs, Sect, wanted, n
  <2> QED
    BY <1>11 DEF Get, ValueOf
<1>13. Sections(r[n]) = {Sect(i) : i \in Pairs}
  <2> HIDE DEF r, Pairs, Sect, K, wanted, n
  <2> QED
    BY <1>11 DEF Sections
<1> QED
  BY <1>12, <1>13

\* What a look-up finds behind a pair.
LEMMA HandleShares ==
  ASSUME NEW s \in Parser, NEW name \in Texts, NEW value \in Texts
  PROVE  LET h   == Handle(s, name, value)
             key == MakeKey(s.section, name)
         IN  /\ ToSet(ValueOf(h, key)) \cup {NoText}
                  = ToSet(ValueOf(s, key)) \cup {value, NoText}
             /\ \A k : k # key => ValueOf(h, k) = ValueOf(s, k)
<1> DEFINE h == Handle(s, name, value)
           key == MakeKey(s.section, name)
           before == ValueOf(s, key)
<1>1. DOMAIN h.values = DOMAIN s.values \cup {key}
  BY HandleKeys
<1>2. h.values[key] = IF before = <<>> /\ value = NoText THEN <<>>
                      ELSE Append(before, value)
  BY HandleSets
<1>3. \A k \in DOMAIN s.values : k # key => h.values[k] = s.values[k]
  BY HandleOthers
<1>4. before \in Seq(Texts)
  BY ValueOfIsSeq
<1> HIDE DEF h, key, before
<1>5. ValueOf(h, key) = h.values[key]
  BY <1>1 DEF ValueOf
<1>6. ToSet(Append(before, value)) = ToSet(before) \cup {value}
  <2> DEFINE after == Append(before, value)
             n == Len(before)
  <2>1. /\ n \in Nat /\ DOMAIN before = 1..n /\ DOMAIN after = 1..n + 1
        /\ \A i \in 1..n : after[i] = before[i]
        /\ after[n + 1] = value
    BY <1>4
  <2>2. \A i \in 1..n + 1 : i \in 1..n \/ i = n + 1
    BY <2>1
  <2>3. n + 1 \in 1..n + 1 /\ \A i \in 1..n : i \in 1..n + 1
    BY <2>1
  <2> HIDE DEF n, after
  <2>4. ToSet(after) = ToSet(before) \cup {value}
    BY <2>1, <2>2, <2>3 DEF ToSet
  <2> QED
    BY <2>4 DEF after
<1>7. ToSet(<<>>) = {}
  BY DEF ToSet
<1>8. ToSet(ValueOf(h, key)) \cup {NoText} = ToSet(before) \cup {value, NoText}
  BY <1>2, <1>5, <1>6, <1>7
<1>9. \A k : k # key => ValueOf(h, k) = ValueOf(s, k)
  BY <1>1, <1>3 DEF ValueOf
<1> QED
  BY <1>8, <1>9 DEF h, key, before

\* Sections that look-ups do not tell apart.  By induction along the lines: what
\* is found under a key is what the pairs read so far say under it.
THEOREM AlikeSectionsDoShare ==
  ASSUME NEW lines \in Seq(Line)
  PROVE  AlikeSectionsShare(lines)
<1> DEFINE n == Len(lines)
           r == Parsing(lines)
           Pairs == PairLines(lines)
           Sect(k) == SectionAt(lines, k)
           K(i) == MakeKey(Sect(i), lines[i].text)
           said(k, key) == {lines[j].value : j \in {i \in Pairs : i <= k /\ K(i) = key}}
           T == {k \in 0..n :
                   /\ r[k].section = Sect(k)
                   /\ \A key : ToSet(ValueOf(r[k], key)) \cup {NoText}
                                 = said(k, key) \cup {NoText}}
<1>1. SUFFICES ASSUME Straight(lines), NEW i \in Pairs
               PROVE  ToSet(Get(r[n], Sect(i), lines[i].text)) \cup {NoText} =
                        {lines[j].value : j \in {k \in Pairs : Alike(lines, i, k)}}
                          \cup {NoText}
  BY DEF AlikeSectionsShare, Parse
<1>2. n \in Nat /\ DOMAIN lines = 1..n
  OBVIOUS
<1>3. /\ \A j \in 1..n : ~Continuation(lines, j)
      /\ Sect(0) = NoText
      /\ \A k \in 1..n : Sect(k) = IF lines[k].kind = "section"
                                   THEN lines[k].text ELSE Sect(k - 1)
  <2>1. \A j \in DOMAIN lines : ~lines[j].indented
    BY <1>1 DEF Straight
  <2> QED
    BY <2>1, SectionAtRule
<1>4. /\ \A j \in Pairs : j \in 1..n
      /\ \A j \in 1..n : j \in Pairs <=> lines[j].kind = "pair"
  BY <1>2, <1>3 DEF PairLines
<1>6. \A j \in 1..n : lines[j].kind = "section" => Cut[lines[j].text] = lines[j].text
  BY <1>1, <1>2 DEF Straight
<1>7. 0 \in T
  <2>1. r[0] = Start
    BY ParsingRule
  <2>2. \A key : said(0, key) = {}
    BY <1>4
  <2>3. r[0].section = Sect(0) /\ DOMAIN r[0].values = {}
    BY <1>3, <2>1 DEF Start
  <2>4. \A key : ValueOf(r[0], key) = <<>>
    BY <2>3 DEF ValueOf
  <2>5. ToSet(<<>>) = {}
    BY DEF ToSet
  <2> HIDE DEF r, Sect, said
  <2> QED
    BY <1>2, <2>2, <2>3, <2>4, <2>5
<1>8. ASSUME NEW k \in 1..n, k - 1 \in T PROVE k \in T
  <2>1. /\ r[k - 1] \in Parser /\ lines[k] \in Line
        /\ r[k] = ParseLine(r[k - 1], lines[k])
    BY LineByLine
  <2>2. ~Continues(r[k - 1], lines[k])
    BY <1>3 DEF Continuation
  <2>3. /\ r[k - 1].section = Sect(k - 1)
        /\ \A key : ToSet(ValueOf(r[k - 1], key)) \cup {NoText}
                      = said(k - 1, key) \cup {NoText}
    BY <1>8
  <2>4. /\ k \in Pairs <=> lines[k].kind = "pair"
        /\ Sect(k) = IF lines[k].kind = "section" THEN lines[k].text ELSE Sect(k - 1)
        /\ \A j \in Pairs : j <= k <=> (j <= k - 1 \/ j = k)
        /\ k \in 0..n /\ k <= k
    BY <1>3, <1>4
  <2>5. lines[k].kind = "section" => Cut[lines[k].text] = lines[k].text
    BY <1>6
  <2>6. lines[k].kind \in {"blank", "section", "pair", "broken"}
    BY <2>1, LineKinds
  <2>7. K(k) = MakeKey(Sect(k), lines[k].text)
    OBVIOUS
  <2>8. \A key : said(k, key) = IF k \in Pairs /\ key = K(k)
                                THEN said(k - 1, key) \cup {lines[k].value}
                                ELSE said(k - 1, key)
    <3> SUFFICES ASSUME NEW key
                 PROVE  said(k, key) = IF k \in Pairs /\ key = K(k)
                                       THEN said(k - 1, key) \cup {lines[k].value}
                                       ELSE said(k - 1, key)
      OBVIOUS
    <3> HIDE DEF Pairs, K, n
    <3>1. \A j \in Pairs : j <= k <=> (j <= k - 1 \/ j = k)
      BY <2>4
    <3> QED
      BY <2>4, <3>1
  <2> HIDE DEF r, Pairs, Sect, K, said, n
  <2>9. CASE lines[k].kind # "pair"
    <3>1. /\ r[k].section = Sect(k)
          /\ \A key : ValueOf(r[k], key) = ValueOf(r[k - 1], key)
      <4>1. CASE lines[k].kind = "blank"
        BY <2>1, <2>3, <2>4, <4>1, BlankLine, CountedIsParser
      <4>2. CASE lines[k].kind = "section"
        BY <2>1, <2>2, <2>4, <2>5, <4>2, SectionOpens DEF ValueOf
      <4>3. CASE lines[k].kind = "broken"
        BY <2>1, <2>2, <2>3, <2>4, <4>3, BrokenNoted DEF ValueOf
      <4> QED
        BY <2>6, <2>9, <4>1, <4>2, <4>3
    <3>2. \A key : said(k, key) = said(k - 1, key)
      BY <2>4, <2>8, <2>9
    <3> QED
      BY <2>3, <2>4, <3>1, <3>2
  <2>10. CASE lines[k].kind = "pair"
    <3>1. PICK t \in Parser :
             /\ t.section = r[k - 1].section
             /\ \A key : ValueOf(t, key) = ValueOf(r[k - 1], key)
             /\ r[k] = Handle(t, lines[k].text, lines[k].value)
      BY <2>1, <2>2, <2>10, PairHandled
    <3>2. k \in Pairs /\ t.section = Sect(k)
      BY <2>3, <2>4, <2>10, <3>1
    <3>3. MakeKey(t.section, lines[k].text) = K(k)
      BY <2>7, <3>2
    <3>4. lines[k].text \in Texts /\ lines[k].value \in Texts
      BY <2>1, LineKinds
    <3> DEFINE h == Handle(t, lines[k].text, lines[k].value)
    <3>5. h.section = t.section
      BY <3>4, HandleKeeps
    <3>6. /\ ToSet(ValueOf(h, K(k))) \cup {NoText}
               = ToSet(ValueOf(t, K(k))) \cup {lines[k].value, NoText}
          /\ \A key : key # K(k) => ValueOf(h, key) = ValueOf(t, key)
      <4>1. /\ ToSet(ValueOf(h, MakeKey(t.section, lines[k].text))) \cup {NoText}
                 = ToSet(ValueOf(t, MakeKey(t.section, lines[k].text)))
                     \cup {lines[k].value, NoText}
            /\ \A key : key # MakeKey(t.section, lines[k].text) =>
                          ValueOf(h, key) = ValueOf(t, key)
        BY <3>4, HandleShares
      <4> HIDE DEF h
      <4> QED
        BY <3>3, <4>1
    <3>7. r[k] = h
      BY <3>1
    <3> HIDE DEF h
    <3>8. ASSUME NEW key
          PROVE  ToSet(ValueOf(h, key)) \cup {NoText} = said(k, key) \cup {NoText}
      <4>1. ToSet(ValueOf(t, key)) \cup {NoText} = said(k - 1, key) \cup {NoText}
        BY <2>3, <3>1
      <4>2. CASE key = K(k)
        BY <2>8, <3>2, <3>6, <4>1, <4>2
      <4>3. CASE key # K(k)
        BY <2>8, <3>6, <4>1, <4>3
      <4> QED
        BY <4>2, <4>3
    <3> QED
      BY <2>4, <3>2, <3>5, <3>7, <3>8
  <2> QED
    BY <2>9, <2>10
<1>9. \A k \in 0..n : k \in T
  <2> HIDE DEF T
  <2> QED
    BY <1>2, <1>7, <1>8, UpTo
<1>10. ToSet(ValueOf(r[n], K(i))) \cup {NoText} = said(n, K(i)) \cup {NoText}
  <2>1. n \in T
    <3> HIDE DEF T
    <3> QED
      BY <1>2, <1>9
  <2>2. \A key : ToSet(ValueOf(r[n], key)) \cup {NoText} = said(n, key) \cup {NoText}
    BY <2>1
  <2> HIDE DEF r, said, K
  <2> QED
    BY <2>2
<1>11. said(n, K(i)) = {lines[j].value : j \in {k \in Pairs : Alike(lines, i, k)}}
  <2>1. \A j \in Pairs : j <= n
    BY <1>2, <1>4
  <2>2. \A j \in Pairs : K(j) = K(i) <=> Alike(lines, i, j)
    BY DEF MakeKey, Alike
  <2> HIDE DEF Pairs, K, n
  <2> QED
    BY <2>1, <2>2
<1> HIDE DEF said, r, Pairs, Sect
<1> QED
  BY <1>10, <1>11 DEF Get

=============================================================================
