------------------------------- MODULE PIniFile ------------------------------
(***************************************************************************)
(* The INI file parser, src/lib/pinifile.c, and the trimming of strings it *)
(* rests on, src/lib/pstring.c.  A line is what sscanf() makes of it: a    *)
(* section header, a parameter, or neither.                                *)
(***************************************************************************)
EXTENDS Integers, Sequences, FiniteSets, SequencesExt

CONSTANTS
  SectionNames, ParameterNames, ParameterValues,
  MaxLines,   \* bound on the lines of a file
  Characters, \* of the strings that are trimmed and split: " ", "{", "}", others
  MaxString   \* bound on their length

ASSUME IniAssumption ==
  MaxLines \in Nat /\ MaxString \in Nat /\ {" ", "{", "}"} \subseteq Characters

VARIABLES
  iniRead,     \* the lines read so far
  iniSection,  \* the section being filled: <<>> or a sequence of one section
  iniSections, \* file->sections
  iniParsed,   \* file->is_parsed
  iniString    \* a string for zstrchomp() and zini_file_parameter_list()

iniVars == <<iniRead, iniSection, iniSections, iniParsed, iniString>>

IniLines ==
  [kind : {"section"}, name : SectionNames]
    \cup [kind : {"parameter"}, name : ParameterNames, value : ParameterValues]
    \cup [kind : {"other"}]

IniInit ==
  /\ iniRead = <<>> /\ iniSection = <<>> /\ iniSections = <<>> /\ iniParsed = FALSE
  /\ iniString = <<>>

(* pzini_file_section_new() and pzini_file_parameter_new()                  *)
SectionNew(name) == [name |-> name, keys |-> <<>>]
ParameterNew(name, value) == [name |-> name, value |-> value]

(* A section without parameters is freed, the others are prepended, ...     *)
SectionDone == IF iniSection = <<>> \/ iniSection[1].keys = <<>> THEN <<>> ELSE iniSection

(* Mutant: the parameters of a section are appended.                        *)
WithParameterLast(section, line) ==
  [section EXCEPT !.keys = Append(@, ParameterNew(line.name, line.value))]

WithParameter(section, line) ==
  [section EXCEPT !.keys = <<ParameterNew(line.name, line.value)>> \o @]

(* One turn of the loop of zini_file_parse().  A parameter before the first *)
(* section is ignored.                                                      *)
IniReadLine(line) ==
  /\ ~iniParsed /\ iniString = <<>> /\ Len(iniRead) < MaxLines
  /\ iniRead' = Append(iniRead, line)
  /\ CASE line.kind = "section" ->
            /\ iniSections' = SectionDone \o iniSections
            /\ iniSection' = <<SectionNew(line.name)>>
       [] line.kind = "parameter" /\ iniSection # <<>> ->
            /\ iniSection' = <<WithParameter(iniSection[1], line)>>
            /\ UNCHANGED iniSections
       [] OTHER -> UNCHANGED <<iniSection, iniSections>>
  /\ UNCHANGED <<iniParsed, iniString>>

(* ... except the last one, which is appended.                              *)
IniEndOfFile ==
  /\ ~iniParsed /\ iniString = <<>>
  /\ iniSections' = iniSections \o SectionDone
  /\ iniSection' = <<>>
  /\ iniParsed' = TRUE
  /\ UNCHANGED <<iniRead, iniString>>

FirstNamed(list, name) ==
  IF \E i \in DOMAIN list : list[i].name = name
    THEN <<list[CHOOSE i \in DOMAIN list : list[i].name = name
                  /\ \A j \in 1 .. i - 1 : list[j].name # name]>>
    ELSE <<>>

(* pzini_file_find_parameter(): <<>> for NULL, otherwise the value.         *)
FindParameter(section, key) ==
  LET found == FirstNamed(iniSections, section)
      param == IF found = <<>> THEN <<>> ELSE FirstNamed(found[1].keys, key)
  IN  IF ~iniParsed \/ param = <<>> THEN <<>> ELSE <<param[1].value>>

(* zini_file_is_key_exists()                                                *)
IsKeyExists(section, key) ==
  LET found == FirstNamed(iniSections, section) IN
  /\ iniParsed /\ found # <<>>
  /\ \E i \in DOMAIN found[1].keys : found[1].keys[i].name = key

(* zini_file_sections() and zini_file_keys(): the names, in reverse.        *)
SectionList == IF iniParsed THEN Reverse([i \in DOMAIN iniSections |-> iniSections[i].name]) ELSE <<>>
KeyList(section) ==
  LET found == FirstNamed(iniSections, section) IN
  IF ~iniParsed \/ found = <<>> THEN <<>>
  ELSE Reverse([i \in DOMAIN found[1].keys |-> found[1].keys[i].name])

------------------------------------------------------------------------------
IsSpace(c) == c = " "
Least(S) == CHOOSE i \in S : \A j \in S : i <= j
Most(S) == CHOOSE i \in S : \A j \in S : i >= j

(* zstrchomp(): positions count from 0, as in the code.  The first loop     *)
(* stops at the last character, the second at the first one.                *)
ChompStart(s) ==
  LET end == Len(s) - 1
  IN  Least({i \in 0 .. Len(s) : i >= end \/ ~IsSpace(s[i + 1])})
ChompEnd(s) ==
  LET end == Len(s) - 1
  IN  IF end < 0 THEN end
      ELSE Most({i \in 0 .. end : (i = 0 \/ ~IsSpace(s[i + 1]))})

Chomp(s) ==
  LET start == ChompStart(s)
      end == ChompEnd(s)
  IN  IF end < start \/ (end = start /\ IsSpace(s[end + 1])) THEN <<>>
      ELSE SubSeq(s, start + 1, end + 1)

(* zini_file_parameter_list(): the elements up to the first closing brace.  *)
ParameterList(s) ==
  LET body == SubSeq(s, 2, Least({i \in 2 .. Len(s) : s[i] = "}"}) - 1)
      step(acc, c) ==
        IF ~IsSpace(c) THEN [acc EXCEPT !.buf = Append(@, c)]
        ELSE [ret |-> IF acc.buf = <<>> THEN acc.ret ELSE Append(acc.ret, acc.buf), buf |-> <<>>]
      done == FoldLeft(step, [ret |-> <<>>, buf |-> <<>>], body)
  IN  IF Len(s) < 3 \/ s[1] # "{" \/ s[Len(s)] # "}" THEN <<>>
      ELSE IF done.buf = <<>> THEN done.ret ELSE Append(done.ret, done.buf)

IniExtend(c) ==
  /\ iniRead = <<>> /\ ~iniParsed /\ Len(iniString) < MaxString
  /\ iniString' = Append(iniString, c)
  /\ UNCHANGED <<iniRead, iniSection, iniSections, iniParsed>>

IniDone == (iniParsed \/ Len(iniString) = MaxString) /\ UNCHANGED iniVars

IniNext ==
  \/ \E line \in IniLines : IniReadLine(line)
  \/ IniEndOfFile
  \/ \E c \in Characters : IniExtend(c)
  \/ IniDone

IniSpec == IniInit /\ [][IniNext]_iniVars

------------------------------------------------------------------------------
Headers(name) == {i \in DOMAIN iniRead : iniRead[i].kind = "section" /\ iniRead[i].name = name}
Body(header) ==
  {i \in header + 1 .. Len(iniRead) :
     /\ iniRead[i].kind = "parameter"
     /\ \A j \in header + 1 .. i - 1 : iniRead[j].kind # "section"}
Assigned(header, key) == {i \in Body(header) : iniRead[i].name = key}

HeadersOnce == \A s \in SectionNames : \A i, j \in Headers(s) : i = j

(* "If a section has several values with the same key the last one will be  *)
(* used" and "all the following parameters will belong to that section until *)
(* another section begins" (pinifile.h), for a file that begins each        *)
(* section once: the lookup and the test for a key agree with the file,     *)
(* although lists are built backwards and the last section is put elsewhere *)
(* than the others.                                                         *)
ParametersFound ==
  iniParsed /\ HeadersOnce =>
    \A s \in SectionNames : \A k \in ParameterNames :
      LET lines == UNION {Assigned(h, k) : h \in Headers(s)} IN
      /\ FindParameter(s, k) =
           IF lines = {} THEN <<>> ELSE <<iniRead[Most(lines)].value>>
      /\ IsKeyExists(s, k) <=> lines # {}

(* zini_file_sections() and zini_file_keys(): for such a file the sections  *)
(* are those with parameters, and the keys of a section are in the order of *)
(* its lines.                                                               *)
IniListsAgree ==
  iniParsed /\ HeadersOnce =>
    \A s \in SectionNames :
      /\ (\E i \in DOMAIN SectionList : SectionList[i] = s)
           <=> \E h \in Headers(s) : Body(h) # {}
      /\ \A h \in Headers(s) :
           KeyList(s) = [n \in 1 .. Cardinality(Body(h)) |->
             iniRead[CHOOSE i \in Body(h) : n = Len(SelectSeq([j \in 1 .. i |-> j \in Body(h)],
                                                              LAMBDA b : b))].name]

(* zstrchomp() removes the blanks around a string and nothing else, for the *)
(* empty string, strings of blanks and of one character too.                *)
ChompTrims ==
  LET kept == {i \in DOMAIN iniString : ~IsSpace(iniString[i])} IN
  Chomp(iniString) = IF kept = {} THEN <<>> ELSE SubSeq(iniString, Least(kept), Most(kept))

(* zini_file_parameter_list(): the elements are the words between the       *)
(* braces: they have no blanks, none is empty, and in order they are all of *)
(* the text.                                                                *)
ListComplete ==
  LET words == ParameterList(iniString)
      closing == {i \in 2 .. Len(iniString) : iniString[i] = "}"}
  IN  (Len(iniString) >= 3 /\ iniString[1] = "{" /\ Last(iniString) = "}") =>
        /\ \A i \in DOMAIN words : words[i] # <<>> /\ \A j \in DOMAIN words[i] : ~IsSpace(words[i][j])
        /\ FlattenSeq(words) =
             SelectSeq(SubSeq(iniString, 2, Least(closing) - 1), LAMBDA c : ~IsSpace(c))
==============================================================================
