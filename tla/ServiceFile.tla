---------------------------- MODULE ServiceFile -----------------------------
(***************************************************************************)
(* Service files as the daemon sees them through daemon/INIReader.h: the   *)
(* lines of a file become values by section and name.                      *)
(*                                                                         *)
(* A line is a record: its kind, whether it is indented, and its texts.    *)
(* A line of 200 characters or more is returned by fgets as several lines, *)
(* and stands here as these.  Comments and white space around the texts    *)
(* are stripped by the parser and do not occur.                            *)
(***************************************************************************)
EXTENDS Integers, Sequences, SequencesExt, FiniteSetsExt

CONSTANTS
  Texts,      \* section names, names and values
  NoText,     \* the empty text
  Lower,      \* Lower[t]: t in lower case
  Cut,        \* Cut[t]: the first 49 characters of t
  Whole       \* Whole[name]: the text of an indented line "name = ..."

\* "blank": nothing or a comment; "section": [text]; "pair": text = value;
\* "broken": no ']' or no '='.
Line == [kind : {"blank", "section", "pair", "broken"}, indented : BOOLEAN,
         text : Texts, value : Texts]

ASSUME ServiceFileAssumption ==
  /\ NoText \in Texts
  /\ Lower \in [Texts -> Texts] /\ Cut \in [Texts -> Texts]
  /\ Whole \in [Texts -> Texts]
  /\ \A t \in Texts : (Cut[t] = NoText => t = NoText) /\ Whole[t] # NoText

\* Slip: the section is not part of the key.
MakeKeyOfName(section, name) == <<NoText, Lower[name]>>

\* MakeKey: look-ups do not distinguish upper and lower case.
MakeKey(section, name) == <<Lower[section], Lower[name]>>

\* The parser between two lines, and the reader it fills.  A value is the
\* sequence of texts that are joined by line breaks.
Start == [section |-> NoText, previous |-> NoText, number |-> 0, error |-> 0,
          sections |-> {}, values |-> [key \in {} |-> <<>>]]

ValueOf(s, key) == IF key \in DOMAIN s.values THEN s.values[key] ELSE <<>>

\* Slip: a value replaces what is there already.
HandleAnew(s, name, value) ==
  LET key == MakeKey(s.section, name)
  IN  [s EXCEPT !.sections = @ \cup {s.section},
                !.values = [k \in DOMAIN @ \cup {key} |->
                               IF k # key THEN @[k]
                               ELSE IF value = NoText THEN <<>> ELSE <<value>>]]

\* ValueHandler: what is there already is kept, and the section is noted in the
\* case it is written in.
Handle(s, name, value) ==
  LET key    == MakeKey(s.section, name)
      before == ValueOf(s, key)
      after  == IF before = <<>> /\ value = NoText THEN <<>>
                ELSE Append(before, value)
  IN  [s EXCEPT !.sections = @ \cup {s.section},
                !.values = [k \in DOMAIN @ \cup {key} |->
                               IF k = key THEN after ELSE @[k]]]

\* Slip: the last error is kept, not the first.
FailAgain(s) == [s EXCEPT !.error = s.number]

\* error is the number of the first bad line; the parser goes on behind it.
Fail(s) == IF s.error = 0 THEN [s EXCEPT !.error = s.number] ELSE s

\* Slip: indented lines are read like all others.
NeverContinues(s, line) == FALSE

\* An indented line continues the value before it, whatever it looks like.
Continues(s, line) ==
  line.kind # "blank" /\ line.indented /\ s.previous # NoText

ParseLine(s0, line) ==
  LET s == [s0 EXCEPT !.number = @ + 1]
  IN  IF line.kind = "blank" THEN s
      ELSE IF Continues(s, line) THEN Handle(s, s.previous, Whole[line.text])
      ELSE IF line.kind = "section"
      THEN [s EXCEPT !.section = Cut[line.text], !.previous = NoText]
      ELSE IF line.kind = "pair"
      THEN Handle([s EXCEPT !.previous = Cut[line.text]], line.text, line.value)
      ELSE Fail(s)

\* The parser after each number of lines.
Parsing(lines) ==
  LET after[n \in 0..Len(lines)] ==
        IF n = 0 THEN Start ELSE ParseLine(after[n - 1], lines[n])
  IN  after

Parse(lines) == Parsing(lines)[Len(lines)]

ParseError(s) == s.error
Sections(s) == s.sections
Get(s, section, name) == ValueOf(s, MakeKey(section, name))

-----------------------------------------------------------------------------
\* Properties of single files.

Continuation(lines, i) == Continues(Parsing(lines)[i - 1], lines[i])

\* The section line i belongs to, as written; 0 before the first.
SectionLine(lines, i) ==
  Max({0} \cup {j \in 1..i : lines[j].kind = "section"
                             /\ ~Continuation(lines, j)})

\* The pairs of a file, each with the section it stands under.
PairLines(lines) ==
  {i \in DOMAIN lines : lines[i].kind = "pair" /\ ~Continuation(lines, i)}

SectionAt(lines, i) ==
  LET j == SectionLine(lines, i) IN IF j = 0 THEN NoText ELSE lines[j].text

\* No line is indented, and no section name reaches beyond 49 characters.
Straight(lines) ==
  /\ \A i \in DOMAIN lines : ~lines[i].indented
  /\ \A i \in DOMAIN lines : lines[i].kind = "section" =>
        Cut[lines[i].text] = lines[i].text

\* Two pairs that look-ups do not tell apart.
Alike(lines, i, j) ==
  /\ Lower[SectionAt(lines, i)] = Lower[SectionAt(lines, j)]
  /\ Lower[lines[i].text] = Lower[lines[j].text]

\* Nothing is said twice, in upper or lower case.
Plain(lines) ==
  /\ Straight(lines)
  /\ \A i, j \in PairLines(lines) : i # j => ~Alike(lines, i, j)

\* A plain file means what it says: every pair is found under its section with
\* its own value, and there are no other sections.
PlainFilesLoad(lines) ==
  LET s == Parse(lines)
  IN  Plain(lines) =>
        /\ \A i \in PairLines(lines) :
              Get(s, SectionAt(lines, i), lines[i].text) =
                 (IF lines[i].value = NoText THEN <<>> ELSE <<lines[i].value>>)
        /\ Sections(s) = {SectionAt(lines, i) : i \in PairLines(lines)}

\* Sections that differ in case only have one set of values between them: each
\* of them is read with everything that any of them says.
AlikeSectionsShare(lines) ==
  LET s == Parse(lines)
  IN  Straight(lines) =>
        \A i \in PairLines(lines) :
           ToSet(Get(s, SectionAt(lines, i), lines[i].text)) \cup {NoText} =
             {lines[j].value : j \in {k \in PairLines(lines) : Alike(lines, i, k)}}
               \cup {NoText}

\* A file is refused exactly if it has a broken line that is no continuation,
\* and the first of these is reported.
FirstBrokenReported(lines) ==
  LET broken == {i \in DOMAIN lines : lines[i].kind = "broken"
                                      /\ ~Continuation(lines, i)}
  IN  ParseError(Parse(lines)) = IF broken = {} THEN 0 ELSE Min(broken)

\* An indented line is never lost and never opens a section: it becomes part of
\* the value before it, also where it reads like a pair or a section.  (Behind
\* a pair without a name the parser remembers no name to continue.)
IndentedLinesContinue(lines) ==
  \A i \in DOMAIN lines :
     LET before == Parsing(lines)[i - 1]
         after  == Parsing(lines)[i]
         named(k) == lines[k].kind = "pair" /\ lines[k].text # NoText
     IN  lines[i].indented /\ lines[i].kind # "blank"
           /\ (\E j \in 1..i - 1 : named(j)
                 /\ \A k \in j + 1..i - 1 : named(k) \/ lines[k].kind = "blank")
           => /\ after.section = before.section
              /\ after.error = before.error
              /\ \E key \in DOMAIN after.values :
                    after.values[key] # ValueOf(before, key)

=============================================================================
