---------------------------- MODULE ConfigProofs -----------------------------
(***************************************************************************)
(* Proofs about ConfigLoad and IniFile: when a user's file is replaced,    *)
(* for any number of starts, failures and edits; and that the plots have   *)
(* the settings of the file, for any file.                                 *)
(***************************************************************************)
EXTENDS ConfigLoad, IniFile, WellFoundedInduction, SequenceTheorems, TLAPS

-----------------------------------------------------------------------------
(* Which file is read and written                                          *)

LoadState == [step  : {"first", "second", "create", "write", "reread", "config",
                       "loaded", "failed"},
              ini   : Contents \union {"failed"},
              found : [Places -> Contents \union {"unread", "failed"}],
              at    : Places, full : BOOLEAN]

Types == /\ disk \in [Places -> Contents]
         /\ second \in {"home", "cwd", "none"}
         /\ load \in LoadState

\* The two ways in which a user's file comes to be replaced.
Excused(at, found) ==
    \/ found[at] = "failed"
    \/ at = "home" /\ found[at] = "unread" /\ found["cwd"] = "useless"

LossExcused ==
    \A l \in lost : \/ l.found = "failed"
                    \/ l.at = "home" /\ l.found = "unread" /\ l.cwd = "useless"

\* What is known of the places when the second is looked at, when a sample is
\* about to be written, and when it has been.
Known ==
    /\ load.step = "first" => load.found = Looking.found
    /\ load.step = "second" => second # "none"
    /\ load.step = "create" /\ disk[load.at] = "user" => Excused(load.at, load.found)
    /\ load.step = "reread" /\ disk[load.at] = "useless" => load.full
    /\ load.step \in {"config", "loaded"} /\ load.ini = "useless" => load.full

Inv == Types /\ Known /\ LossExcused

LEMMA LookingState == /\ Looking \in LoadState /\ Looking.step = "first"
                      /\ \A p \in Places : Looking.found[p] = "unread"
BY DEF Looking, LoadState, Places, Contents

LEMMA InvInit == ConfigInit => Inv
<1> SUFFICES ASSUME ConfigInit PROVE Inv
  OBVIOUS
<1>1. Types
  BY LookingState DEF ConfigInit, Types, Contents
<1>2. Known /\ LossExcused
  BY LookingState DEF ConfigInit, Known, LossExcused
<1> QED
  BY <1>1, <1>2 DEF Inv

LEMMA UsedOrCreated ==
    ASSUME Types, NEW c \in Contents \union {"failed"},
           NEW found \in [Places -> Contents \union {"unread", "failed"}],
           UseOrCreate(c, found)
    PROVE  /\ load' \in LoadState /\ load'.found = found /\ load'.ini = c
           /\ load'.at = IF second = "none" THEN "cwd" ELSE second
           /\ \/ load'.step = "config" /\ c # "useless"
              \/ load'.step = "create" /\ c \in {"failed", "useless"}
<1> DEFINE at == IF second = "none" THEN "cwd" ELSE second
<1>1. PICK step \in {"config", "create"} :
         /\ step = IF c # "failed" /\ IsValid(c) THEN "config" ELSE "create"
         /\ load' = [load EXCEPT !.found = found, !.ini = c, !.step = step, !.at = at]
  BY DEF UseOrCreate
<1>2. at \in Places
  BY DEF Types, Places
<1> HIDE DEF at
<1> DEFINE h == [load EXCEPT !.found = found, !.ini = c]
<1>3. h \in LoadState /\ h.found = found /\ h.ini = c
  BY DEF Types, LoadState
<1>4. load' = [h EXCEPT !.step = step, !.at = at]
  BY <1>1
<1> HIDE DEF h
<1>5. /\ load' \in LoadState /\ load'.found = found /\ load'.ini = c
      /\ load'.step = step /\ load'.at = at
  BY <1>2, <1>3, <1>4 DEF LoadState
<1> QED
  BY <1>1, <1>5 DEF IsValid, at

LEMMA InvParseFirst == Inv /\ ParseFirst => Inv'
<1> SUFFICES ASSUME Inv, ParseFirst PROVE Inv'
  OBVIOUS
<1>1. PICK c \in Parse("cwd") :
         IF c = "failed" /\ second # "none"
         THEN load' = [load EXCEPT !.step = "second", !.found = Found("cwd", c)]
         ELSE UseOrCreate(c, Found("cwd", c))
  BY DEF ParseFirst
<1>2. /\ load.step = "first" /\ UNCHANGED <<disk, second, lost>>
      /\ disk \in [Places -> Contents] /\ load \in LoadState
      /\ \A p \in Places : load.found[p] = "unread"
  BY LookingState DEF ParseFirst, Inv, Types, Known
<1> DEFINE found == Found("cwd", c)
<1>3. /\ c \in Contents \union {"failed"}
      /\ c # "failed" => c = disk["cwd"]
  BY <1>2 DEF Parse, Contents, Places
<1>4. /\ found \in [Places -> Contents \union {"unread", "failed"}]
      /\ found["home"] = "unread"
      /\ c = "failed" /\ disk["cwd"] = "user" => found["cwd"] = "failed"
      /\ c # "failed" => found["cwd"] = c
  BY <1>2, <1>3 DEF Found, LoadState, Places, Contents
<1> HIDE DEF found
<1>5. CASE c = "failed" /\ second # "none"
  <2>1. load' = [load EXCEPT !.step = "second", !.found = found]
    BY <1>1, <1>5 DEF found
  <2>2. load' \in LoadState /\ load'.step = "second"
    BY <1>2, <1>4, <2>1 DEF LoadState
  <2> QED
    BY <1>2, <1>5, <2>2 DEF Inv, Types, Known, LossExcused
<1>6. CASE ~(c = "failed" /\ second # "none")
  <2>1. UseOrCreate(c, found)
    BY <1>1, <1>6 DEF found
  <2>2. /\ load' \in LoadState /\ load'.found = found /\ load'.ini = c
        /\ load'.at = IF second = "none" THEN "cwd" ELSE second
        /\ \/ load'.step = "config" /\ c # "useless"
           \/ load'.step = "create" /\ c \in {"failed", "useless"}
    BY <1>3, <1>4, <2>1, UsedOrCreated DEF Inv
  <2>3. disk[load'.at] = "user" /\ load'.step = "create" => Excused(load'.at, found)
    <3>1. CASE c = "failed"
      BY <1>4, <1>6, <2>2, <3>1 DEF Excused
    <3>2. CASE c = "useless"
      BY <1>3, <1>4, <2>2, <3>2 DEF Excused, Inv, Types
    <3> QED
      BY <2>2, <3>1, <3>2
  <2> QED
    BY <1>2, <2>2, <2>3 DEF Inv, Types, Known, LossExcused
<1> QED
  BY <1>5, <1>6

LEMMA InvParseSecond == Inv /\ ParseSecond => Inv'
<1> SUFFICES ASSUME Inv, ParseSecond PROVE Inv'
  OBVIOUS
<1>1. PICK c \in Parse(second) : UseOrCreate(c, Found(second, c))
  BY DEF ParseSecond
<1>2. /\ load.step = "second" /\ UNCHANGED <<disk, second, lost>> /\ second \in Places
      /\ disk \in [Places -> Contents] /\ load \in LoadState
  BY DEF ParseSecond, Inv, Types, Known, Places
<1> DEFINE found == Found(second, c)
<1>3. /\ c \in Contents \union {"failed"}
      /\ c # "failed" => c = disk[second]
  BY <1>2 DEF Parse, Contents
<1>4. /\ found \in [Places -> Contents \union {"unread", "failed"}]
      /\ c = "failed" /\ disk[second] = "user" => found[second] = "failed"
  BY <1>2, <1>3 DEF Found, LoadState, Contents
<1> HIDE DEF found
<1>5. /\ load' \in LoadState /\ load'.found = found /\ load'.ini = c /\ load'.at = second
      /\ \/ load'.step = "config" /\ c # "useless"
         \/ load'.step = "create" /\ c \in {"failed", "useless"}
  BY <1>1, <1>2, <1>3, <1>4, UsedOrCreated DEF Inv, Places, found
<1>6. disk[second] = "user" /\ load'.step = "create" => Excused(second, found)
  BY <1>3, <1>4, <1>5 DEF Excused
<1> QED
  BY <1>2, <1>5, <1>6 DEF Inv, Types, Known, LossExcused

LEMMA InvCreateSample == Inv /\ CreateSample => Inv'
<1> SUFFICES ASSUME Inv, CreateSample PROVE Inv'
  OBVIOUS
<1>1. load.step = "create" /\ load.at \in Places /\ UNCHANGED second
  BY DEF CreateSample, Inv, Types, LoadState
<1>2. CASE /\ disk' = [disk EXCEPT ![load.at] = "useless"]
           /\ lost' = IF disk[load.at] # "user" THEN lost
                      ELSE lost \union {[at  |-> load.at, found |-> load.found[load.at],
                                         cwd |-> load.found["cwd"]]}
           /\ load' = [load EXCEPT !.step = "write"]
  <2>1. Types' /\ load'.step = "write"
    BY <1>1, <1>2 DEF Inv, Types, LoadState, Contents
  <2>2. LossExcused'
    <3>1. CASE disk[load.at] # "user"
      BY <1>2, <3>1 DEF Inv, LossExcused
    <3>2. CASE disk[load.at] = "user"
      <4> DEFINE l == [at  |-> load.at, found |-> load.found[load.at],
                       cwd |-> load.found["cwd"]]
      <4>1. \/ l.found = "failed"
            \/ l.at = "home" /\ l.found = "unread" /\ l.cwd = "useless"
        BY <1>1, <3>2 DEF Inv, Known, Excused
      <4>2. lost' = lost \union {l}
        BY <1>2, <3>2
      <4> HIDE DEF l
      <4> QED
        BY <4>1, <4>2 DEF Inv, LossExcused
    <3> QED
      BY <3>1, <3>2
  <2> QED
    BY <2>1, <2>2 DEF Inv, Known
<1>3. CASE load' = [load EXCEPT !.step = "failed"] /\ UNCHANGED <<disk, lost>>
  BY <1>1, <1>3 DEF Inv, Types, LoadState, Known, LossExcused
<1> QED
  BY <1>2, <1>3 DEF CreateSample

LEMMA InvWriteSample == Inv /\ WriteSample => Inv'
<1> SUFFICES ASSUME Inv, WriteSample PROVE Inv'
  OBVIOUS
<1>1. PICK c \in {"sample", "cut", "useless"} :
         /\ disk' = [disk EXCEPT ![load.at] = c]
         /\ load' = [load EXCEPT !.step = "reread", !.full = c # "sample"]
  BY DEF WriteSample
<1>2. PICK full \in BOOLEAN : full = (c # "sample")
  OBVIOUS
<1>3. load' = [load EXCEPT !.step = "reread", !.full = full]
  BY <1>1, <1>2
<1>4. /\ load' \in LoadState /\ load'.step = "reread" /\ load'.at = load.at
      /\ load'.full = full /\ load.at \in Places
  BY <1>3 DEF Inv, Types, LoadState
<1>5. disk' \in [Places -> Contents] /\ disk'[load.at] = c
  BY <1>1, <1>4 DEF Inv, Types, Contents
<1> QED
  BY <1>2, <1>4, <1>5 DEF WriteSample, Inv, Types, Known, LossExcused

LEMMA InvParseSample == Inv /\ ParseSample => Inv'
<1> SUFFICES ASSUME Inv, ParseSample PROVE Inv'
  OBVIOUS
<1>1. PICK c \in Parse(load.at) :
         load' = [load EXCEPT !.step = IF c = "failed" THEN "failed" ELSE "config", !.ini = c]
  BY DEF ParseSample
<1>2. /\ c \in Contents \union {"failed"}
      /\ c # "failed" => c = disk[load.at]
      /\ load.step = "reread" /\ UNCHANGED <<disk, second, lost>>
  BY DEF Parse, ParseSample, Inv, Types, LoadState, Contents
<1>3. PICK step \in {"failed", "config"} :
         /\ step = IF c = "failed" THEN "failed" ELSE "config"
         /\ load' = [load EXCEPT !.step = step, !.ini = c]
  BY <1>1
<1>4. /\ load' \in LoadState /\ load'.step = step /\ load'.ini = c
      /\ load'.full = load.full
  BY <1>2, <1>3 DEF Inv, Types, LoadState
<1> QED
  BY <1>2, <1>3, <1>4 DEF Inv, Types, Known, LossExcused

LEMMA InvTakeConfig == Inv /\ TakeConfig => Inv'
BY DEF TakeConfig, Inv, Types, LoadState, Known, LossExcused

LEMMA InvStartAgain == Inv /\ StartAgain => Inv'
BY LookingState DEF StartAgain, Inv, Types, Known, LossExcused

LEMMA InvUserEdits == ASSUME NEW p \in Places, Inv, UserEdits(p) PROVE Inv'
BY DEF UserEdits, Inv, Types, Contents, Known, LossExcused

LEMMA InvNext == Inv /\ [ConfigNext]_configVars => Inv'
<1>1. Inv /\ UNCHANGED configVars => Inv'
  BY DEF configVars, Inv, Types, Known, LossExcused
<1> QED
  BY <1>1, InvParseFirst, InvParseSecond, InvCreateSample, InvWriteSample, InvParseSample,
     InvTakeConfig, InvStartAgain, InvUserEdits DEF ConfigNext, ConfigStep

\* Over any number of starts, with any files that cannot be read, any full
\* disk and any edits in between, a sample replaces a user's file in the two
\* cases of the property only.
THEOREM UserFileIsKept == ConfigSpec => []UserFileKept
<1>1. Inv => UserFileKept
  BY DEF Inv, Known, LossExcused, UserFileKept
<1> QED
  BY <1>1, InvInit, InvNext, PTL DEF ConfigSpec

-----------------------------------------------------------------------------
(* The lines of the file and the sections made of them                     *)

\* What is read of a pair and of a section.
IniPair    == [key : {"key", "name"}, value : NamesRead]
AllNames   == {"global", "targets"} \union Names
NamesInFile == {Trimmed(n, TRUE) : n \in AllNames} \union {Trimmed(n, FALSE) : n \in AllNames}
IniSection == [name : NamesInFile, pairs : Seq(IniPair)]

\* The file and what has been made of it.
FileTypes == lines \in Seq(FileLines) /\ sections \in Seq(IniSection)

\* A section of that name, or a line in one, has that key.
HasKey(i, section, key) ==
    /\ sections[i].name = section
    /\ \E j \in 1..Len(sections[i].pairs) : sections[i].pairs[j].key = key

TellsKey(l, section, key) ==
    lines[l].type = "pair" /\ lines[l].key = key /\ Within(l, section)

\* The first pair with that key in sections of that name is that of the first
\* such line, if there is one.
FirstPair(section, key, i, j) ==
    /\ i \in 1..Len(sections) /\ HasKey(i, section, key)
    /\ \A m \in 1..(i - 1) : ~HasKey(m, section, key)
    /\ j \in 1..Len(sections[i].pairs) /\ sections[i].pairs[j].key = key
    /\ \A m \in 1..(j - 1) : sections[i].pairs[m].key # key

FirstLine(section, key, l) ==
    /\ l \in 1..Len(lines) /\ TellsKey(l, section, key)
    /\ \A m \in 1..(l - 1) : ~TellsKey(m, section, key)

NoPair(section, key) == \A i \in 1..Len(sections) : ~HasKey(i, section, key)
NoLine(section, key) == \A l \in 1..Len(lines) : ~TellsKey(l, section, key)

SameValue(section, key) ==
    \/ NoPair(section, key) /\ NoLine(section, key)
    \/ \E i, j, l : /\ FirstPair(section, key, i, j) /\ FirstLine(section, key, l)
                    /\ sections[i].pairs[j].value = ValueOf(l)

\* The next line will be in the last section.
InLast == \A s : Within(Len(lines) + 1, s) <=>
                   sections # <<>> /\ sections[Len(sections)].name = s

\* A pair is of a line of its section.
OfLine(i, j) == \E l \in 1..Len(lines) :
    lines[l].type = "pair" /\ ValueOf(l) = sections[i].pairs[j].value /\ Within(l, sections[i].name)

FileInv ==
    /\ FileTypes /\ InLast
    /\ \A s, k : SameValue(s, k)
    /\ \A i \in 1..Len(sections) : \A j \in 1..Len(sections[i].pairs) : OfLine(i, j)

LEMMA FileStarts == IniInit => FileInv
<1> SUFFICES ASSUME IniInit PROVE FileInv
  OBVIOUS
<1>1. lines = <<>> /\ sections = <<>> /\ Len(lines) = 0 /\ Len(sections) = 0
  BY DEF IniInit
<1>2. FileTypes
  BY <1>1 DEF FileTypes
<1>3. InLast
  BY <1>1 DEF InLast, Within
<1>4. ASSUME NEW s, NEW k PROVE SameValue(s, k)
  BY <1>1 DEF SameValue, NoPair, NoLine
<1> QED
  BY <1>1, <1>2, <1>3, <1>4 DEF FileInv

\* What was in a section is there when the next line is read.
LEMMA OldLines ==
    ASSUME lines \in Seq(FileLines), NEW line \in FileLines, lines' = Append(lines, line)
    PROVE  /\ Len(lines') = Len(lines) + 1 /\ lines'[Len(lines) + 1] = line
           /\ \A i \in 1..Len(lines) : lines'[i] = lines[i] /\ ValueOf(i)' = ValueOf(i)
           /\ \A i \in 1..(Len(lines) + 1) : \A s : Within(i, s)' <=> Within(i, s)
           /\ \A i \in 1..Len(lines) : \A s, k : TellsKey(i, s, k)' <=> TellsKey(i, s, k)
<1>1. /\ Len(lines') = Len(lines) + 1 /\ lines'[Len(lines) + 1] = line /\ Len(lines) \in Nat
      /\ \A i \in 1..Len(lines) : lines'[i] = lines[i]
  OBVIOUS
<1>2. ASSUME NEW i \in 1..(Len(lines) + 1), NEW s PROVE Within(i, s)' <=> Within(i, s)
  <2>1. \A j \in 1..(i - 1) : lines'[j] = lines[j]
    BY <1>1
  <2>2. \A j \in 1..(i - 1) : \A k \in (j + 1)..(i - 1) : lines'[k] = lines[k]
    BY <1>1
  <2> QED
    BY <2>1, <2>2 DEF Within
<1>3. ASSUME NEW i \in 1..Len(lines)
      PROVE  ValueOf(i)' = ValueOf(i) /\ \A s, k : TellsKey(i, s, k)' <=> TellsKey(i, s, k)
  <2>1. lines'[i] = lines[i] /\ i \in 1..(Len(lines) + 1)
    BY <1>1
  <2> QED
    BY <1>2, <2>1 DEF ValueOf, TellsKey
<1> QED
  BY <1>1, <1>2, <1>3

\* A line that is not a section leaves the next one in the last section.
LEMMA NextWithin ==
    ASSUME lines \in Seq(FileLines), NEW line \in FileLines, lines' = Append(lines, line), NEW s
    PROVE  Within(Len(lines) + 1, s)' <=>
             IF line.type = "section" THEN Trimmed(line.name, line.blank) = s
             ELSE Within(Len(lines) + 1, s)
<1> PICK n \in Nat : n = Len(lines)
  OBVIOUS
<1>1. /\ Len(lines') = n + 1 /\ lines'[n + 1] = line /\ n \in Nat
      /\ \A i \in 1..n : lines'[i] = lines[i]
  BY OldLines
<1> DEFINE Opens(j) == /\ lines'[j].type = "section"
                       /\ Trimmed(lines'[j].name, lines'[j].blank) = s
<1>2. Within(Len(lines) + 1, s)' <=> \E j \in 1..(n + 1) :
        Opens(j) /\ \A k \in (j + 1)..(n + 1) : lines'[k].type # "section"
  <2>1. PICK m : m = (Len(lines') + 1) - 1
    OBVIOUS
  <2>2. m = n + 1
    BY <1>1, <2>1
  <2>3. Within(Len(lines) + 1, s)' <=> \E j \in 1..m :
          Opens(j) /\ \A k \in (j + 1)..m : lines'[k].type # "section"
    BY <2>1, Zenon DEF Within
  <2> QED
    BY <2>2, <2>3, Zenon
<1>3. Within(n + 1, s) <=> \E j \in 1..n :
        Opens(j) /\ \A k \in (j + 1)..n : lines'[k].type # "section"
  <2>1. PICK m : m = (n + 1) - 1
    OBVIOUS
  <2>2. m = n
    BY <1>1, <2>1
  <2>3. Within(n + 1, s) <=> \E j \in 1..m :
          /\ lines[j].type = "section" /\ Trimmed(lines[j].name, lines[j].blank) = s
          /\ \A k \in (j + 1)..m : lines[k].type # "section"
    BY <2>1, Zenon DEF Within
  <2>4. \A j \in 1..n : \A k \in (j + 1)..n : k \in 1..n
    BY <1>1
  <2> QED
    <3>1. Within(n + 1, s) <=> \E j \in 1..n :
            /\ lines[j].type = "section" /\ Trimmed(lines[j].name, lines[j].blank) = s
            /\ \A k \in (j + 1)..n : lines[k].type # "section"
      BY <2>2, <2>3, Zenon
    <3>2. \A j \in 1..n : lines'[j] = lines[j] /\ \A k \in (j + 1)..n : lines'[k] = lines[k]
      BY <1>1, <2>4
    <3> QED
      BY <3>1, <3>2
<1>4. CASE line.type = "section"
  <2>1. \A j \in 1..n : n + 1 \in (j + 1)..(n + 1)
    BY <1>1
  <2>2. \A j \in 1..(n + 1) : j = n + 1 \/ j \in 1..n
    BY <1>1
  <2>3. n + 1 \in 1..(n + 1) /\ \A k \in (n + 2)..(n + 1) : FALSE
    BY <1>1
  <2>4. (n + 1) + 1 = n + 2
    BY <1>1
  <2> QED
    BY <1>1, <1>2, <1>4, <2>1, <2>2, <2>3, <2>4
<1>5. CASE line.type # "section"
  <2>1. \A j \in 1..(n + 1) : Opens(j) => j \in 1..n
    BY <1>1, <1>5
  <2>2. \A j \in 1..n : j \in 1..(n + 1)
    BY <1>1
  <2>3. ASSUME NEW j \in 1..n
        PROVE  (\A k \in (j + 1)..(n + 1) : lines'[k].type # "section") <=>
               (\A k \in (j + 1)..n : lines'[k].type # "section")
    <3>1. \A k \in (j + 1)..(n + 1) : k = n + 1 \/ k \in (j + 1)..n
      BY <1>1
    <3>2. \A k \in (j + 1)..n : k \in (j + 1)..(n + 1)
      BY <1>1
    <3> QED
      BY <1>1, <1>5, <3>1, <3>2
  <2> QED
    BY <1>2, <1>3, <1>5, <2>1, <2>2, <2>3
<1> QED
  BY <1>4, <1>5

\* The first line stays the first, and the next one is if there was none.
LEMMA LinesGrow ==
    ASSUME lines \in Seq(FileLines), NEW line \in FileLines, lines' = Append(lines, line),
           NEW n \in Nat, n = Len(lines), NEW s, NEW k
    PROVE  /\ NoLine(s, k)' <=> NoLine(s, k) /\ ~TellsKey(n + 1, s, k)'
           /\ \A l : FirstLine(s, k, l) => l \in 1..n /\ FirstLine(s, k, l)'
           /\ NoLine(s, k) /\ TellsKey(n + 1, s, k)' => FirstLine(s, k, n + 1)'
           /\ TellsKey(n + 1, s, k)' <=>
                line.type = "pair" /\ line.key = k /\ Within(n + 1, s)
<1>1. /\ Len(lines') = n + 1 /\ n + 1 \in 1..(n + 1) /\ lines'[n + 1] = line
      /\ \A i \in 1..n : TellsKey(i, s, k)' <=> TellsKey(i, s, k)
      /\ Within(n + 1, s)' <=> Within(n + 1, s)
  BY OldLines
<1>2. \A i : i \in 1..(n + 1) <=> i \in 1..n \/ i = n + 1
  OBVIOUS
<1>3. TellsKey(n + 1, s, k)' <=> line.type = "pair" /\ line.key = k /\ Within(n + 1, s)
  BY <1>1 DEF TellsKey
<1>4. NoLine(s, k)' <=> NoLine(s, k) /\ ~TellsKey(n + 1, s, k)'
  BY <1>1, <1>2, Zenon DEF NoLine
<1>5. ASSUME NEW l, FirstLine(s, k, l) PROVE l \in 1..n /\ FirstLine(s, k, l)'
  <2>1. l \in 1..n /\ TellsKey(l, s, k) /\ \A m \in 1..(l - 1) : ~TellsKey(m, s, k)
    BY <1>5 DEF FirstLine
  <2>2. \A m \in 1..(l - 1) : m \in 1..n
    BY <2>1
  <2>3. /\ l \in 1..(n + 1) /\ TellsKey(l, s, k)'
        /\ \A m \in 1..(l - 1) : ~TellsKey(m, s, k)'
    BY <1>1, <1>2, <2>1, <2>2, Zenon
  <2> QED
    BY <1>1, <2>1, <2>3 DEF FirstLine
<1>6. ASSUME NoLine(s, k), TellsKey(n + 1, s, k)' PROVE FirstLine(s, k, n + 1)'
  <2>1. \A m \in 1..((n + 1) - 1) : m \in 1..n
    OBVIOUS
  <2>2. \A m \in 1..((n + 1) - 1) : ~TellsKey(m, s, k)'
    BY <1>1, <1>6, <2>1, Zenon DEF NoLine
  <2> QED
    BY <1>1, <1>6, <2>2 DEF FirstLine
<1> QED
  BY <1>3, <1>4, <1>5, <1>6, Zenon

\* Sections with pairs that lines before the next one tell.
LEMMA OldPairs ==
    ASSUME FileInv, NEW line \in FileLines, lines' = Append(lines, line),
           NEW i \in 1..Len(sections), NEW j \in 1..Len(sections[i].pairs),
           sections'[i].name = sections[i].name, sections'[i].pairs[j] = sections[i].pairs[j]
    PROVE  OfLine(i, j)'
<1>1. lines \in Seq(FileLines)
  BY DEF FileInv, FileTypes
<1>2. PICK l \in 1..Len(lines) :
        /\ lines[l].type = "pair" /\ ValueOf(l) = sections[i].pairs[j].value
        /\ Within(l, sections[i].name)
  BY DEF FileInv, OfLine
<1>3. /\ l \in 1..Len(lines') /\ lines'[l] = lines[l] /\ ValueOf(l)' = ValueOf(l)
      /\ \A s : Within(l, s)' <=> Within(l, s)
  <2>1. l \in 1..(Len(lines) + 1)
    BY <1>1
  <2> QED
    BY <1>1, <2>1, OldLines
<1>4. Within(l, sections[i].name)'
  <2>1. PICK s : s = sections[i].name
    OBVIOUS
  <2>2. Within(l, s)'
    BY <1>2, <1>3, <2>1
  <2> QED
    BY <2>1, <2>2 DEF Within
<1> QED
  BY <1>2, <1>3, <1>4 DEF OfLine

\* Where there was a first pair, it stays the first; where there was none, there
\* is none if the line tells none.
LEMMA ValueKept ==
    ASSUME FileInv, NEW line \in FileLines, lines' = Append(lines, line),
           NEW n \in Nat, n = Len(lines), NEW s, NEW k,
           \A i, j : FirstPair(s, k, i, j) =>
             FirstPair(s, k, i, j)' /\ sections'[i].pairs[j] = sections[i].pairs[j],
           NoPair(s, k) => NoPair(s, k)' /\ ~TellsKey(n + 1, s, k)'
    PROVE  SameValue(s, k)'
<1>1. lines \in Seq(FileLines) /\ SameValue(s, k)
  BY DEF FileInv, FileTypes
<1>3. CASE NoPair(s, k) /\ NoLine(s, k)
  <2>1. NoLine(s, k)' /\ NoPair(s, k)'
    BY <1>1, <1>3, LinesGrow
  <2> QED
    BY <2>1, Zenon DEF SameValue
<1>4. CASE \E i, j, l : /\ FirstPair(s, k, i, j) /\ FirstLine(s, k, l)
                        /\ sections[i].pairs[j].value = ValueOf(l)
  <2>1. PICK i, j, l : /\ FirstPair(s, k, i, j) /\ FirstLine(s, k, l)
                       /\ sections[i].pairs[j].value = ValueOf(l)
    BY <1>4
  <2>2. FirstLine(s, k, l)' /\ l \in 1..n
    BY <1>1, <2>1, LinesGrow
  <2>3. ValueOf(l)' = ValueOf(l)
    BY <1>1, <2>2, OldLines
  <2>4. FirstPair(s, k, i, j)' /\ sections'[i].pairs[j] = sections[i].pairs[j]
    BY <2>1
  <2> QED
    <3>1. sections'[i].pairs[j].value = ValueOf(l)'
      BY <2>1, <2>3, <2>4
    <3> QED
      BY <2>2, <2>4, <3>1 DEF SameValue
<1> QED
  BY <1>1, <1>3, <1>4, Zenon DEF SameValue

\* A line that is neither leaves all as it is.
LEMMA FileOther ==
    ASSUME FileInv, NEW line \in FileLines, lines' = Append(lines, line),
           line.type = "other" \/ (line.type = "pair" /\ sections = <<>>), UNCHANGED sections
    PROVE  FileInv'
<1> PICK n \in Nat : n = Len(lines)
  BY DEF FileInv, FileTypes
<1>1. lines \in Seq(FileLines) /\ sections \in Seq(IniSection) /\ Len(lines') = n + 1
  BY DEF FileInv, FileTypes
<1>2. FileTypes'
  BY <1>1 DEF FileTypes
<1>3. InLast'
  BY <1>1, NextWithin DEF FileInv, InLast
<1>4. ASSUME NEW s, NEW k PROVE SameValue(s, k)'
  <2>1. ~TellsKey(n + 1, s, k)'
    BY <1>1, LinesGrow DEF FileInv, InLast
  <2>2. NoPair(s, k)' <=> NoPair(s, k)
    BY DEF NoPair, HasKey
  <2>3. \A i, j : FirstPair(s, k, i, j) => FirstPair(s, k, i, j)'
    BY DEF FirstPair, HasKey
  <2> QED
    BY <2>1, <2>2, <2>3, ValueKept
<1>5. ASSUME NEW i \in 1..Len(sections), NEW j \in 1..Len(sections[i].pairs) PROVE OfLine(i, j)'
  BY OldPairs
<1> QED
  BY <1>2, <1>3, <1>4, <1>5 DEF FileInv

\* A section begins without pairs.
LEMMA FileSection ==
    ASSUME FileInv, NEW line \in FileLines, lines' = Append(lines, line),
           line.type = "section", sections' = AddSection(sections, line)
    PROVE  FileInv'
<1> PICK n \in Nat, m \in Nat : n = Len(lines) /\ m = Len(sections)
  BY DEF FileInv, FileTypes
<1>1. lines \in Seq(FileLines) /\ sections \in Seq(IniSection) /\ Len(lines') = n + 1
  BY DEF FileInv, FileTypes
<1> PICK new : new = [name |-> Trimmed(line.name, line.blank), pairs |-> <<>>]
  OBVIOUS
<1>2. new \in IniSection
  <2>1. line.name \in AllNames /\ line.blank \in BOOLEAN
    BY DEF FileLines, Section, Pair, Other, AllNames
  <2>2. Trimmed(line.name, line.blank) \in
          {Trimmed(x, TRUE) : x \in AllNames} \union {Trimmed(x, FALSE) : x \in AllNames}
    <3>1. CASE line.blank = TRUE
      BY <2>1, <3>1
    <3>2. CASE line.blank = FALSE
      BY <2>1, <3>2
    <3> QED
      BY <2>1, <3>1, <3>2
  <2>3. Trimmed(line.name, line.blank) \in NamesInFile
    BY <2>2 DEF NamesInFile
  <2>4. <<>> \in Seq(IniPair)
    OBVIOUS
  <2> QED
    BY <2>3, <2>4 DEF IniSection
<1>3. /\ sections' = Append(sections, new)
      /\ sections' \in Seq(IniSection) /\ Len(sections') = m + 1 /\ sections'[m + 1] = new
      /\ \A i \in 1..m : sections'[i] = sections[i]
  BY <1>1, <1>2 DEF AddSection
<1>4. new.name = Trimmed(line.name, line.blank) /\ new.pairs = <<>>
  OBVIOUS
<1>5. FileTypes'
  BY <1>1, <1>3 DEF FileTypes
<1>6. InLast'
  <2>1. sections' # <<>> /\ sections'[Len(sections')] = new
    BY <1>3
  <2> QED
    BY <1>1, <1>4, <2>1, NextWithin DEF InLast
<1>7. ASSUME NEW s, NEW k PROVE SameValue(s, k)'
  <2>1. ~TellsKey(n + 1, s, k)'
    BY <1>1, LinesGrow
  <2>2. /\ \A i \in 1..m : HasKey(i, s, k)' <=> HasKey(i, s, k)
        /\ ~HasKey(m + 1, s, k)'
    <3>1. Len(sections'[m + 1].pairs) = 0
      BY <1>3, <1>4
    <3> QED
      BY <1>3, <3>1 DEF HasKey
  <2>3. \A i : i \in 1..(m + 1) <=> i \in 1..m \/ i = m + 1
    OBVIOUS
  <2>4. NoPair(s, k) => NoPair(s, k)'
    BY <1>3, <2>2, <2>3 DEF NoPair
  <2>5. ASSUME NEW i, NEW j, FirstPair(s, k, i, j)
        PROVE  FirstPair(s, k, i, j)' /\ sections'[i].pairs[j] = sections[i].pairs[j]
    <3>1. i \in 1..m /\ \A x \in 1..(i - 1) : x \in 1..m
      BY <2>5 DEF FirstPair
    <3> QED
      BY <1>3, <2>2, <2>3, <2>5, <3>1 DEF FirstPair
  <2> QED
    BY <2>1, <2>4, <2>5, ValueKept
<1>8. ASSUME NEW i \in 1..Len(sections'), NEW j \in 1..Len(sections'[i].pairs) PROVE OfLine(i, j)'
  <2>1. i \in 1..m
    BY <1>3, <1>4, <1>8
  <2> QED
    BY <1>3, <2>1, OldPairs
<1> QED
  BY <1>5, <1>6, <1>7, <1>8 DEF FileInv

\* What a pair appended to the last section makes of the sections.
LEMMA PairAdded ==
    ASSUME sections \in Seq(IniSection), NEW m \in Nat, m = Len(sections), m > 0,
           NEW line \in FileLines, line.type = "pair", sections' = AddPair(sections, line),
           NEW p \in Nat, p = Len(sections[m].pairs)
    PROVE  /\ sections' \in Seq(IniSection) /\ Len(sections') = m
           /\ \A i \in 1..m : i # m => sections'[i] = sections[i]
           /\ sections'[m].name = sections[m].name
           /\ Len(sections'[m].pairs) = p + 1
           /\ \A j \in 1..p : sections'[m].pairs[j] = sections[m].pairs[j]
           /\ sections'[m].pairs[p + 1].key = line.key
           /\ sections'[m].pairs[p + 1].value = Trimmed(line.value, line.blank)
<1> PICK pair : pair = [key |-> line.key, value |-> Trimmed(line.value, line.blank)]
  OBVIOUS
<1>1. pair \in IniPair /\ pair.key = line.key /\ pair.value = Trimmed(line.value, line.blank)
  <2>1. line.key \in {"key", "name"} /\ line.value \in Names /\ line.blank \in BOOLEAN
    BY DEF FileLines, Section, Pair, Other
  <2>2. Trimmed(line.value, line.blank) \in NamesRead
    BY <2>1 DEF NamesRead
  <2> QED
    BY <2>1, <2>2 DEF IniPair
<1>2. PICK old \in IniSection : old = sections[m]
  OBVIOUS
<1>3. old.name \in NamesInFile /\ old.pairs \in Seq(IniPair) /\ p = Len(old.pairs)
  BY <1>2 DEF IniSection
<1>4. PICK pairs \in Seq(IniPair) : pairs = Append(old.pairs, pair)
  <2> PICK those \in Seq(IniPair) : those = old.pairs
    BY <1>3
  <2>1. pair \in IniPair
    BY <1>1
  <2> HIDE DEF IniPair
  <2>2. Append(those, pair) \in Seq(IniPair)
    BY <2>1
  <2> QED
    BY <2>2
<1>5. /\ Len(pairs) = p + 1 /\ pairs[p + 1] = pair
      /\ \A j \in 1..p : pairs[j] = old.pairs[j]
  BY <1>1, <1>3, <1>4
<1>6. PICK new : new = [old EXCEPT !.pairs = pairs]
  OBVIOUS
<1>7. new \in IniSection /\ new.name = old.name /\ new.pairs = pairs
  BY <1>4, <1>6 DEF IniSection
<1>8. sections' = [sections EXCEPT ![m] = new]
  BY <1>2, <1>4, <1>6 DEF AddPair
<1>9. /\ sections' \in Seq(IniSection) /\ Len(sections') = m /\ sections'[m] = new
      /\ \A i \in 1..m : i # m => sections'[i] = sections[i]
  BY <1>7, <1>8
<1> QED
  BY <1>1, <1>2, <1>5, <1>7, <1>9

\* A pair is the last of the last section.
LEMMA FilePair ==
    ASSUME FileInv, NEW line \in FileLines, lines' = Append(lines, line),
           line.type = "pair", sections # <<>>, sections' = AddPair(sections, line)
    PROVE  FileInv'
<1> PICK n \in Nat, m \in Nat : n = Len(lines) /\ m = Len(sections)
  BY DEF FileInv, FileTypes
<1>1. /\ lines \in Seq(FileLines) /\ sections \in Seq(IniSection) /\ Len(lines') = n + 1
      /\ lines'[n + 1] = line /\ m > 0
  BY DEF FileInv, FileTypes
<1>2. sections[m].pairs \in Seq(IniPair)
  <2>1. sections[m] \in IniSection
    BY <1>1
  <2> QED
    BY <2>1 DEF IniSection
<1> PICK p \in Nat : p = Len(sections[m].pairs)
  BY <1>2
<1>3. /\ sections' \in Seq(IniSection) /\ Len(sections') = m
      /\ \A i \in 1..m : i # m => sections'[i] = sections[i]
      /\ sections'[m].name = sections[m].name
      /\ Len(sections'[m].pairs) = p + 1
      /\ \A j \in 1..p : sections'[m].pairs[j] = sections[m].pairs[j]
      /\ sections'[m].pairs[p + 1].key = line.key
      /\ sections'[m].pairs[p + 1].value = Trimmed(line.value, line.blank)
  <2>1. sections \in Seq(IniSection)
    BY <1>1
  <2>2. m = Len(sections)
    OBVIOUS
  <2>3. m > 0
    BY <1>1
  <2> QED
    BY <2>1, <2>2, <2>3, PairAdded, SMTT(40)
<1>4. \A s : Within(n + 1, s) <=> sections[m].name = s
  BY <1>1 DEF FileInv, InLast
<1>5. FileTypes'
  BY <1>1, <1>3 DEF FileTypes
<1>6. InLast'
  <2>1. ASSUME NEW s PROVE Within(Len(lines) + 1, s)' <=> sections[m].name = s
    BY <1>1, <1>4, NextWithin
  <2> QED
    BY <1>1, <1>3, <2>1 DEF InLast
<1>7. ASSUME NEW s, NEW k PROVE SameValue(s, k)'
  <2>1. TellsKey(n + 1, s, k)' <=> line.key = k /\ sections[m].name = s
    BY <1>1, <1>4, LinesGrow
  <2>2. \A i \in 1..m : i # m => (HasKey(i, s, k)' <=> HasKey(i, s, k))
    BY <1>3 DEF HasKey
  <2>3. HasKey(m, s, k)' <=> HasKey(m, s, k) \/ (line.key = k /\ sections[m].name = s)
    <3>1. \A j : j \in 1..(p + 1) <=> j \in 1..p \/ j = p + 1
      OBVIOUS
    <3> QED
      BY <1>3, <3>1 DEF HasKey
  <2>4. ASSUME NEW i, NEW j, FirstPair(s, k, i, j)
        PROVE  FirstPair(s, k, i, j)' /\ sections'[i].pairs[j] = sections[i].pairs[j]
    <3>1. /\ i \in 1..m /\ HasKey(i, s, k) /\ j \in 1..Len(sections[i].pairs)
          /\ sections[i].pairs[j].key = k
          /\ \A x \in 1..(i - 1) : ~HasKey(x, s, k)
          /\ \A x \in 1..(j - 1) : sections[i].pairs[x].key # k
      BY <2>4 DEF FirstPair
    <3>2. \A x \in 1..(i - 1) : ~HasKey(x, s, k)'
      <4>1. \A x \in 1..(i - 1) : x \in 1..m /\ x # m
        BY <3>1
      <4> QED
        BY <2>2, <3>1, <4>1
    <3>3. HasKey(i, s, k)'
      BY <2>2, <2>3, <3>1
    <3>4. /\ j \in 1..Len(sections'[i].pairs) /\ sections'[i].pairs[j] = sections[i].pairs[j]
          /\ \A x \in 1..(j - 1) : sections'[i].pairs[x] = sections[i].pairs[x]
      <4>1. CASE i # m
        BY <1>3, <3>1, <4>1
      <4>2. CASE i = m
        <5>1. j \in 1..p /\ j \in 1..(p + 1) /\ \A x \in 1..(j - 1) : x \in 1..p
          BY <3>1, <4>2
        <5> QED
          BY <1>3, <4>2, <5>1, Zenon
      <4> QED
        BY <4>1, <4>2
    <3> QED
      BY <1>3, <3>1, <3>2, <3>3, <3>4 DEF FirstPair
  <2>5. CASE NoPair(s, k) /\ TellsKey(n + 1, s, k)'
    <3>1. NoLine(s, k)
      BY <2>5 DEF FileInv, SameValue, FirstPair, NoPair
    <3>2. FirstLine(s, k, n + 1)'
      BY <1>1, <2>5, <3>1, LinesGrow
    <3>3. FirstPair(s, k, m, p + 1)'
      <4>1. HasKey(m, s, k)' /\ m \in 1..m /\ p + 1 \in 1..(p + 1) /\ line.key = k
        BY <1>1, <2>1, <2>3, <2>5
      <4>2. \A x \in 1..(m - 1) : ~HasKey(x, s, k)'
        BY <2>2, <2>5 DEF NoPair
      <4>3. \A x \in 1..((p + 1) - 1) : sections'[m].pairs[x].key # k
        <5>1. \A x \in 1..p : sections[m].pairs[x].key # k
          BY <1>1, <2>1, <2>5 DEF NoPair, HasKey
        <5>2. \A x \in 1..((p + 1) - 1) : x \in 1..p
          OBVIOUS
        <5> QED
          BY <1>3, <5>1, <5>2
      <4> QED
        BY <1>3, <4>1, <4>2, <4>3 DEF FirstPair
    <3>4. sections'[m].pairs[p + 1].value = ValueOf(n + 1)'
      BY <1>1, <1>3 DEF ValueOf
    <3> QED
      BY <3>2, <3>3, <3>4 DEF SameValue
  <2>6. CASE ~(NoPair(s, k) /\ TellsKey(n + 1, s, k)')
    <3>1. NoPair(s, k) => NoPair(s, k)'
      BY <1>3, <2>1, <2>2, <2>3, <2>6 DEF NoPair
    <3> QED
      BY <2>4, <2>6, <3>1, ValueKept
  <2> QED
    BY <2>5, <2>6
<1>8. ASSUME NEW i \in 1..Len(sections'), NEW j \in 1..Len(sections'[i].pairs) PROVE OfLine(i, j)'
  <2>1. CASE i # m
    <3>1. i \in 1..Len(sections) /\ sections'[i] = sections[i]
      BY <1>3, <2>1
    <3>2. j \in 1..Len(sections[i].pairs)
      BY <3>1
    <3> QED
      BY <3>1, <3>2, OldPairs, SMTT(40)
  <2>2. CASE i = m /\ j \in 1..p
    BY <1>1, <1>3, <2>2, OldPairs
  <2>3. CASE i = m /\ j = p + 1
    <3>1. Within(n + 1, sections[m].name)'
      <4> PICK s : s = sections'[m].name
        OBVIOUS
      <4>1. Within(n + 1, s)'
        <5>1. n + 1 \in 1..(Len(lines) + 1)
          BY <1>1
        <5>2. Within(n + 1, s)' <=> Within(n + 1, s)
          BY <1>1, <5>1, OldLines
        <5> QED
          BY <1>3, <1>4, <5>2
      <4> QED
        BY <4>1 DEF Within
    <3>3. ValueOf(n + 1)' = sections'[m].pairs[p + 1].value
      BY <1>1, <1>3 DEF ValueOf
    <3>4. n + 1 \in 1..Len(lines') /\ lines'[n + 1].type = "pair"
      BY <1>1
    <3> QED
      BY <2>3, <3>1, <3>3, <3>4 DEF OfLine
  <2> QED
    BY <1>3, <2>1, <2>2, <2>3
<1> QED
  BY <1>5, <1>6, <1>7, <1>8 DEF FileInv

\* Whatever the file, and wherever reading it ends.
LEMMA FileKept == FileInv /\ [IniNext]_iniVars => FileInv'
<1> SUFFICES ASSUME FileInv, [IniNext]_iniVars PROVE FileInv'
  OBVIOUS
<1>1. CASE UNCHANGED <<lines, sections>>
  <2>1. FileTypes' /\ (InLast' <=> InLast)
    BY <1>1 DEF FileInv, FileTypes, InLast, Within
  <2>2. ASSUME NEW s, NEW k PROVE SameValue(s, k)' <=> SameValue(s, k)
    <3>1. /\ NoPair(s, k)' <=> NoPair(s, k)
          /\ \A i, j : FirstPair(s, k, i, j)' <=> FirstPair(s, k, i, j)
      BY <1>1 DEF NoPair, FirstPair, HasKey
    <3>2. /\ NoLine(s, k)' <=> NoLine(s, k)
          /\ \A l : FirstLine(s, k, l)' <=> FirstLine(s, k, l)
          /\ \A l : ValueOf(l)' = ValueOf(l)
      BY <1>1 DEF NoLine, FirstLine, TellsKey, Within, ValueOf
    <3> QED
      BY <1>1, <3>1, <3>2 DEF SameValue
  <2>3. \A i, j : OfLine(i, j)' <=> OfLine(i, j)
    BY <1>1 DEF OfLine, Within, ValueOf
  <2> QED
    BY <1>1, <2>1, <2>2, <2>3 DEF FileInv
<1>2. ASSUME NEW line \in FileLines, ReadLine(line) PROVE FileInv'
  <2>1. line.type \in {"section", "pair", "other"}
    BY DEF FileLines, Section, Pair, Other
  <2>2. CASE line.type = "section"
    BY <1>2, <2>2, FileSection DEF ReadLine
  <2>3. CASE line.type = "pair" /\ sections # <<>>
    BY <1>2, <2>3, FilePair DEF ReadLine
  <2>4. CASE line.type = "pair" /\ sections = <<>>
    <3>1. UNCHANGED sections
      BY <1>2, <2>4 DEF ReadLine, AddPair
    <3> QED
      BY <1>2, <2>4, <3>1, FileOther DEF ReadLine
  <2>5. CASE line.type = "other"
    BY <1>2, <2>5, FileOther DEF ReadLine
  <2> QED
    BY <2>1, <2>2, <2>3, <2>4, <2>5
<1>3. IniNext => (\E line \in FileLines : ReadLine(line)) \/ UNCHANGED <<lines, sections>>
  BY DEF IniNext, OutOfMemory, EndOfFile
<1>4. UNCHANGED iniVars => UNCHANGED <<lines, sections>>
  BY DEF iniVars
<1> QED
  BY <1>1, <1>2, <1>3, <1>4

-----------------------------------------------------------------------------
(* Numbers, searches and sequences                                         *)

\* The least of a set of numbers.
LEMMA LeastOf ==
    ASSUME NEW T \in SUBSET Nat, T # {}
    PROVE  \E n \in T : \A m \in T : n <= m
<1>1. PICK n \in T : \A m \in T : ~ (<<m, n>> \in OpToRel(<, Nat))
  BY WFMin, NatLessThanWellFounded, Zenon
<1>2. \A m \in T : ~(m < n)
  BY <1>1, Zenon DEF OpToRel
<1> QED
  BY <1>2

\* A set that has 0, and with each number the next one, has all up to n.
LEMMA Induction ==
    ASSUME NEW n \in Nat, NEW P, 0 \in P, \A i \in 1..n : i - 1 \in P => i \in P
    PROVE  \A i \in 0..n : i \in P
<1> DEFINE T == {i \in 0..n : i \notin P}
<1> SUFFICES ASSUME T # {} PROVE FALSE
  OBVIOUS
<1>1. PICK m \in T : \A k \in T : m <= k
  <2>1. T \in SUBSET Nat /\ T # {}
    OBVIOUS
  <2> HIDE DEF T
  <2> QED
    BY <2>1, LeastOf
<1>2. m \in 1..n /\ m - 1 \in 0..n
  BY <1>1
<1>3. m - 1 \in P
  BY <1>1, <1>2
<1> QED
  BY <1>1, <1>2, <1>3

\* f begins with a and goes on as F tells.
Steps(n, S) == [1..n -> [S -> S]]

Follows(f, n, S, a, F) ==
    f \in [0..n -> S] /\ f[0] = a /\ \A i \in 1..n : f[i] = F[i][f[i - 1]]

LEMMA Recursion ==
    ASSUME NEW n \in Nat, NEW S, NEW a \in S, NEW F \in Steps(n, S)
    PROVE  \E f : Follows(f, n, S, a, F)
<1>0. F \in [1..n -> [S -> S]]
  BY DEF Steps
<1> DEFINE P == {m \in 0..n : \E f \in [0..n -> S] :
                    f[0] = a /\ \A i \in 1..m : f[i] = F[i][f[i - 1]]}
<1>1. 0 \in P
  <2>1. PICK f : f = [i \in 0..n |-> a]
    OBVIOUS
  <2>2. f \in [0..n -> S] /\ f[0] = a
    BY <2>1
  <2>3. \A i \in 1..0 : f[i] = F[i][f[i - 1]]
    OBVIOUS
  <2> QED
    BY <2>2, <2>3
<1>2. ASSUME NEW m \in 1..n, m - 1 \in P PROVE m \in P
  <2>1. PICK f \in [0..n -> S] : f[0] = a /\ \A i \in 1..(m - 1) : f[i] = F[i][f[i - 1]]
    BY <1>2
  <2>2. m - 1 \in 0..n /\ f[m - 1] \in S /\ F[m][f[m - 1]] \in S
    BY <1>0, <2>1
  <2>3. PICK g : g = [f EXCEPT ![m] = F[m][f[m - 1]]]
    OBVIOUS
  <2>4. /\ g \in [0..n -> S] /\ g[m] = F[m][f[m - 1]]
        /\ \A i \in 0..n : i # m => g[i] = f[i]
    BY <2>2, <2>3
  <2>5. g[0] = a
    BY <2>1, <2>4
  <2>6. ASSUME NEW i \in 1..m PROVE g[i] = F[i][g[i - 1]]
    <3>1. g[i - 1] = f[i - 1]
      BY <2>4
    <3>2. CASE i = m
      BY <2>4, <3>1, <3>2
    <3>3. CASE i # m
      BY <2>1, <2>4, <3>1, <3>3
    <3> QED
      BY <3>2, <3>3
  <2> QED
    BY <2>4, <2>5, <2>6
<1>3. n \in P
  <2> HIDE DEF P
  <2>1. \A i \in 0..n : i \in P
    BY <1>1, <1>2, Induction
  <2> QED
    BY <2>1
<1> QED
  BY <1>3, Zenon DEF Follows

LEMMA LeastIs ==
    ASSUME NEW I \in SUBSET Int, NEW j \in I, \A y \in I : j <= y
    PROVE  (CHOOSE x \in I : \A y \in I : x <= y) = j /\ Min(I) = j
<1>1. (CHOOSE x \in I : \A y \in I : x <= y) \in I
  BY Zenon
<1>2. \A y \in I : (CHOOSE x \in I : \A z \in I : x <= z) <= y
  BY Zenon
<1> PICK c : c = CHOOSE x \in I : \A y \in I : x <= y
  OBVIOUS
<1>3. c \in I /\ c <= j
  BY <1>1, <1>2, Zenon
<1>4. c = j
  BY <1>3
<1> QED
  BY <1>4, Zenon DEF Min

\* What a search in a sequence finds.
LEMMA FirstOfKeyFinds ==
    ASSUME NEW pairs, NEW n \in Nat, n = Len(pairs), NEW key, NEW j \in 1..n,
           pairs[j].key = key, \A x \in 1..(j - 1) : pairs[x].key # key
    PROVE  FirstOfKey(pairs, key) = j
<1> DEFINE I == {i \in 1..n : pairs[i].key = key}
<1>1. j \in I /\ I \in SUBSET Int
  OBVIOUS
<1>2. \A y \in I : j <= y
  OBVIOUS
<1>3. FirstOfKey(pairs, key) = Min(I)
  BY <1>1 DEF FirstOfKey, SelectInSeq
<1> HIDE DEF I
<1> QED
  BY <1>1, <1>2, <1>3, LeastIs, Zenon

LEMMA FirstNamedFinds ==
    ASSUME NEW those, NEW n \in Nat, n = Len(those), NEW name, NEW j, j = FirstNamed(those, name)
    PROVE  \/ j = 0 /\ \A i \in 1..n : those[i].name # name
           \/ j \in 1..n /\ those[j].name = name /\ \A i \in 1..(j - 1) : those[i].name # name
<1> DEFINE I == {i \in 1..n : those[i].name = name}
<1>1. I \in SUBSET Nat /\ I \in SUBSET Int
  OBVIOUS
<1>2. j = IF I # {} THEN Min(I) ELSE 0
  BY DEF FirstNamed, SelectInSeq
<1>3. CASE I = {}
  BY <1>2, <1>3
<1>4. CASE I # {}
  <2>1. PICK m \in I : \A y \in I : m <= y
    <3> HIDE DEF I
    <3> QED
      BY <1>1, <1>4, LeastOf
  <2>2. Min(I) = m
    <3> HIDE DEF I
    <3> QED
      BY <1>1, <2>1, LeastIs, Zenon
  <2>3. j = m
    BY <1>2, <1>4, <2>2, Zenon
  <2> QED
    BY <2>1, <2>3
<1> QED
  BY <1>3, <1>4

\* ini_get_value returns what the file tells.
LEMMA GetValueTells ==
    ASSUME FileInv, NEW s, NEW k
    PROVE  /\ \A o : GetValue(s, k, o) = ValueInFile(s, k, o)
           /\ NoPair(s, k) => \A o : ValueInFile(s, k, o) = o
           /\ \/ \A o : ValueInFile(s, k, o) = o
              \/ \E v \in NamesRead : \A o : ValueInFile(s, k, o) = v
<1> PICK n \in Nat, m \in Nat : n = Len(lines) /\ m = Len(sections)
  BY DEF FileInv, FileTypes
<1>1. /\ DOMAIN lines = 1..n /\ DOMAIN sections = 1..m
      /\ \A i \in 1..m : sections[i].pairs \in Seq(IniPair)
  <2>1. \A i \in 1..m : sections[i] \in IniSection
    BY DEF FileInv, FileTypes
  <2> QED
    BY <2>1 DEF FileInv, FileTypes, IniSection
<1> DEFINE has == {i \in DOMAIN sections : sections[i].name = s
                     /\ \E j \in DOMAIN sections[i].pairs : sections[i].pairs[j].key = k}
           told == {l \in DOMAIN lines : /\ lines[l].type = "pair" /\ lines[l].key = k
                                         /\ Within(l, s)}
           i0 == CHOOSE i \in has : \A j \in has : i <= j
           l0 == CHOOSE i \in told : \A j \in told : i <= j
<1>2. \A o : /\ GetValue(s, k, o) =
                  IF has = {} THEN o
                  ELSE sections[i0].pairs[FirstOfKey(sections[i0].pairs, k)].value
             /\ ValueInFile(s, k, o) = IF told = {} THEN o ELSE ValueOf(l0)
  BY DEF GetValue, ValueInFile
<1>3. \A i : i \in has <=> i \in 1..m /\ HasKey(i, s, k)
  <2>1. \A i \in 1..m : DOMAIN sections[i].pairs = 1..Len(sections[i].pairs)
    BY <1>1
  <2> QED
    BY <1>1, <2>1 DEF HasKey
<1>4. \A l : l \in told <=> l \in 1..n /\ TellsKey(l, s, k)
  BY <1>1 DEF TellsKey
<1> HIDE DEF has, told
<1>5. has \in SUBSET Int /\ told \in SUBSET Int
  BY <1>3, <1>4
<1>6. CASE NoPair(s, k) /\ NoLine(s, k)
  <2>1. has = {} /\ told = {}
    BY <1>3, <1>4, <1>6 DEF NoPair, NoLine
  <2> QED
    BY <1>2, <1>6, <2>1, Zenon
<1>7. CASE \E i, j, l : /\ FirstPair(s, k, i, j) /\ FirstLine(s, k, l)
                        /\ sections[i].pairs[j].value = ValueOf(l)
  <2>1. PICK i, j, l : /\ FirstPair(s, k, i, j) /\ FirstLine(s, k, l)
                       /\ sections[i].pairs[j].value = ValueOf(l)
    BY <1>7
  <2>2. i \in has /\ \A y \in has : i <= y
    <3>1. \A y \in 1..m : ~(i <= y) => y \in 1..(i - 1)
      BY <2>1 DEF FirstPair
    <3> QED
      BY <1>3, <2>1, <3>1 DEF FirstPair
  <2>3. l \in told /\ \A y \in told : l <= y
    <3>1. \A y \in 1..n : ~(l <= y) => y \in 1..(l - 1)
      BY <2>1 DEF FirstLine
    <3> QED
      BY <1>4, <2>1, <3>1 DEF FirstLine
  <2>4. i0 = i /\ l0 = l
    BY <1>5, <2>2, <2>3, LeastIs, Zenon
  <2>5. i \in 1..m /\ j \in 1..Len(sections[i].pairs)
    BY <2>1 DEF FirstPair
  <2>6. FirstOfKey(sections[i].pairs, k) = j
    <3> PICK pairs : pairs = sections[i].pairs
      OBVIOUS
    <3> PICK p \in Nat : p = Len(pairs)
      BY <1>1, <2>5
    <3>1. /\ j \in 1..p /\ pairs[j].key = k
          /\ \A x \in 1..(j - 1) : pairs[x].key # k
      BY <2>1 DEF FirstPair
    <3>2. FirstOfKey(pairs, k) = j
      BY <3>1, FirstOfKeyFinds, SMTT(40)
    <3> QED
      BY <3>2
  <2> PICK v : v = ValueOf(l)
    OBVIOUS
  <2>7. v \in NamesRead
    <3>1. sections[i].pairs[j] \in IniPair
      BY <1>1, <2>5
    <3> QED
      BY <2>1, <3>1 DEF IniPair
  <2>8. has # {} /\ told # {}
    BY <2>2, <2>3
  <2>9. \A o : GetValue(s, k, o) = v /\ ValueInFile(s, k, o) = v
    <3> HIDE DEF i0, l0
    <3> QED
      BY <1>2, <2>1, <2>4, <2>6, <2>8
  <2>10. ~NoPair(s, k)
    BY <2>1 DEF NoPair, FirstPair
  <2> QED
    BY <2>7, <2>9, <2>10
<1> QED
  BY <1>6, <1>7 DEF FileInv, SameValue

\* A value is read, or the one that was there stays.
LEMMA ValueIsRead ==
    ASSUME FileInv, NEW s, NEW k, NEW o
    PROVE  /\ GetValue(s, k, o) = ValueInFile(s, k, o)
           /\ ValueInFile(s, k, o) = o \/ ValueInFile(s, k, o) \in NamesRead
           /\ \A c : ValueInFile(s, k, o) = o \/ ValueInFile(s, k, o) = ValueInFile(s, k, c)
<1>1. GetValue(s, k, o) = ValueInFile(s, k, o)
  BY GetValueTells
<1>2. CASE \A c : ValueInFile(s, k, c) = c
  BY <1>1, <1>2
<1>3. CASE \E v \in NamesRead : \A c : ValueInFile(s, k, c) = v
  BY <1>1, <1>3
<1> QED
  BY <1>2, <1>3, GetValueTells

Plot == [target : NamesRead, name : NamesRead, setting : NamesRead \union {"built in"}]

\* The file has that target.
FromTargets(v) == \E l \in DOMAIN lines :
    lines[l].type = "pair" /\ ValueOf(l) = v /\ Within(l, "targets")

Common == ValueInFile("global", "key", "built in")

LEMMA RemovedOne ==
    ASSUME NEW S, NEW s \in Seq(S), NEW i \in 1..Len(s)
    PROVE  /\ RemoveAt(s, i) \in Seq(S)
           /\ \A x \in 1..Len(RemoveAt(s, i)) : \E y \in 1..Len(s) : RemoveAt(s, i)[x] = s[y]
<1> PICK n \in Nat : n = Len(s)
  OBVIOUS
<1>1. PICK a \in Seq(S), b \in Seq(S) :
        /\ a \o b = RemoveAt(s, i) /\ Len(a) = i - 1 /\ Len(b) = n - i
        /\ \A x \in 1..(i - 1) : a[x] = s[x]
        /\ \A x \in 1..(n - i) : b[x] = s[i + x]
  <2> PICK a : a = SubSeq(s, 1, i - 1)
    OBVIOUS
  <2>1. a \in Seq(S) /\ Len(a) = i - 1 /\ \A x \in 1..(i - 1) : a[x] = s[x]
    <3>1. \A x \in 1..(i - 1) : s[x] \in S
      OBVIOUS
    <3> QED
      BY <3>1
  <2> PICK b : b = SubSeq(s, i + 1, n)
    OBVIOUS
  <2>2. b \in Seq(S) /\ Len(b) = n - i /\ \A x \in 1..(n - i) : b[x] = s[i + x]
    <3>1. \A x \in (i + 1)..n : s[x] \in S
      OBVIOUS
    <3> QED
      BY <3>1
  <2>3. a \o b = RemoveAt(s, i)
    BY DEF RemoveAt
  <2> QED
    BY <2>1, <2>2, <2>3, Zenon
<1>2. Len(a) + Len(b) = n - 1
  BY <1>1
<1>3. PICK c \in Seq(S) :
        /\ c = RemoveAt(s, i) /\ Len(c) = n - 1
        /\ \A x \in 1..(n - 1) : c[x] = IF x <= i - 1 THEN a[x] ELSE b[x - (i - 1)]
  <2>1. /\ a \o b \in Seq(S) /\ Len(a \o b) = Len(a) + Len(b)
        /\ \A x \in 1..(Len(a) + Len(b)) : (a \o b)[x] = IF x <= Len(a) THEN a[x] ELSE b[x - Len(a)]
    BY ConcatProperties
  <2>2. /\ Len(a \o b) = n - 1
        /\ \A x \in 1..(n - 1) : (a \o b)[x] = IF x <= i - 1 THEN a[x] ELSE b[x - (i - 1)]
    BY <1>1, <1>2, <2>1, Zenon
  <2> QED
    BY <1>1, <2>1, <2>2, Zenon
<1>4. ASSUME NEW x \in 1..(n - 1) PROVE \E y \in 1..n : c[x] = s[y]
  <2>1. CASE x <= i - 1
    <3>1. c[x] = s[x] /\ x \in 1..n
      BY <1>1, <1>3, <2>1
    <3> QED
      BY <3>1
  <2>2. CASE ~(x <= i - 1)
    <3>1. x - (i - 1) \in 1..(n - i) /\ x + 1 \in 1..n /\ i + (x - (i - 1)) = x + 1
      BY <2>2
    <3>2. c[x] = b[x - (i - 1)] /\ b[x - (i - 1)] = s[i + (x - (i - 1))]
      BY <1>1, <1>3, <2>2, <3>1
    <3> QED
      BY <3>1, <3>2
  <2> QED
    BY <2>1, <2>2
<1> QED
  BY <1>3, <1>4

\* What is left of a sequence, whether or not there is one to leave out.
LEMMA LeftOut ==
    ASSUME NEW S, NEW s \in Seq(S), NEW i
    PROVE  \E r \in Seq(S) : /\ r = IF i \in DOMAIN s THEN RemoveAt(s, i) ELSE s
                             /\ \A x \in 1..Len(r) : \E y \in 1..Len(s) : r[x] = s[y]
<1>1. CASE i \in DOMAIN s
  <2>1. i \in 1..Len(s)
    BY <1>1
  <2> QED
    BY <1>1, <2>1, RemovedOne
<1>2. CASE i \notin DOMAIN s
  BY <1>2
<1> QED
  BY <1>1, <1>2

\* The plots before the sections have been read.
LEMMA TargetPlotsAre ==
    ASSUME FileInv, NEW short \in Nat, NEW t, t = TargetPlots(short)
    PROVE  /\ t \in Seq(Plot)
           /\ \A i \in 1..Len(t) : /\ t[i].name = t[i].target /\ t[i].setting = Common
                                   /\ FromTargets(t[i].target)
<1> PICK m \in Nat : m = Len(sections)
  BY DEF FileInv, FileTypes
<1>1. DOMAIN lines = 1..Len(lines) /\ \A i \in 1..m : sections[i].pairs \in Seq(IniPair)
  <2>1. \A i \in 1..m : sections[i] \in IniSection
    BY DEF FileInv, FileTypes
  <2> QED
    BY <2>1 DEF FileInv, FileTypes, IniSection
<1> PICK n : n = FirstNamed(sections, "targets")
  OBVIOUS
<1>2. PICK all : all = IF n = 0 THEN <<>> ELSE sections[n].pairs
  OBVIOUS
<1>3. all \in Seq(IniPair) /\ \A j \in 1..Len(all) : FromTargets(all[j].value)
  <2>1. CASE n = 0
    BY <1>2, <2>1
  <2>2. CASE n # 0
    <3>1. n \in 1..m /\ sections[n].name = "targets"
      BY <2>2, FirstNamedFinds
    <3>2. \A j \in 1..Len(sections[n].pairs) : OfLine(n, j)
      BY <3>1 DEF FileInv
    <3> QED
      BY <1>1, <1>2, <2>2, <3>1, <3>2 DEF OfLine, FromTargets
  <2> QED
    BY <2>1, <2>2
<1>4. PICK targets \in Seq(IniPair) :
        /\ targets = IF short \in DOMAIN all THEN RemoveAt(all, short) ELSE all
        /\ \A i \in 1..Len(targets) : \E j \in 1..Len(all) : targets[i] = all[j]
  <2>1. all \in Seq(IniPair)
    BY <1>3
  <2> QED
    BY <2>1, LeftOut
<1>5. t = [i \in DOMAIN targets |->
             [target |-> targets[i].value, name |-> targets[i].value,
              setting |-> GetValue("global", "key", "built in")]]
  BY <1>2, <1>4 DEF TargetPlots
<1>6. Common = GetValue("global", "key", "built in") /\ Common \in NamesRead \union {"built in"}
  BY ValueIsRead DEF Common
<1> PICK k \in Nat : k = Len(targets)
  BY <1>4
<1>7. DOMAIN targets = 1..k /\ \A i \in 1..k : targets[i].value \in NamesRead
  <2>1. \A i \in 1..k : targets[i] \in IniPair
    BY <1>4
  <2> QED
    BY <1>4, <2>1 DEF IniPair
<1>8. ASSUME NEW i \in 1..k
      PROVE  /\ t[i] \in Plot /\ t[i].name = t[i].target /\ t[i].setting = Common
             /\ FromTargets(t[i].target)
  <2>1. t[i] = [target |-> targets[i].value, name |-> targets[i].value, setting |-> Common]
    BY <1>5, <1>6, <1>7
  <2>2. FromTargets(targets[i].value)
    BY <1>3, <1>4
  <2> PICK v \in NamesRead : v = targets[i].value
    BY <1>7
  <2> PICK common \in NamesRead \union {"built in"} : common = Common
    BY <1>6
  <2>3. t[i] = [target |-> v, name |-> v, setting |-> common]
    BY <2>1
  <2>4. /\ t[i] \in Plot /\ t[i].target = v /\ t[i].name = v /\ t[i].setting = common
    <3> PICK r : r = [target |-> v, name |-> v, setting |-> common]
      OBVIOUS
    <3>1. r \in Plot /\ r.target = v /\ r.name = v /\ r.setting = common
      BY DEF Plot
    <3> QED
      BY <2>3, <3>1, Zenon
  <2> QED
    BY <2>2, <2>4, Zenon
<1>9. t \in Seq(Plot) /\ Len(t) = k
  <2>1. DOMAIN t = 1..k /\ t = [i \in 1..k |-> t[i]]
    BY <1>5, <1>7
  <2>2. \A i \in 1..k : t[i] \in Plot
    BY <1>8
  <2>3. t \in [1..k -> Plot]
    BY <2>1, <2>2, Zenon
  <2> QED
    BY <2>3
<1> QED
  BY <1>8, <1>9

\* What a section of name s makes of the plots.
AppliedTo(ps, qs, s) ==
    /\ qs \in Seq(Plot) /\ Len(qs) = Len(ps)
    /\ \/ /\ qs = ps
          /\ s \in {"global", "targets"} \/ \A i \in 1..Len(ps) : ps[i].name # s
       \/ \E j \in 1..Len(ps) :
            /\ ps[j].name = s /\ \A x \in 1..(j - 1) : ps[x].name # s
            /\ \A i \in 1..Len(ps) : i # j => qs[i] = ps[i]
            /\ qs[j].target = ps[j].target /\ qs[j].name = ValueInFile(s, "name", s)
            /\ qs[j].setting = ValueInFile(s, "key", ps[j].setting)

LEMMA SectionApplied ==
    ASSUME FileInv, NEW ps \in Seq(Plot), NEW section
    PROVE  AppliedTo(ps, ApplySection(ps, section), section.name)
<1> PICK qs, s : qs = ApplySection(ps, section) /\ s = section.name
  OBVIOUS
<1> SUFFICES AppliedTo(ps, qs, s)
  OBVIOUS
<1> PICK n \in Nat : n = Len(ps)
  OBVIOUS
<1> PICK j : j = FirstNamed(ps, s)
  OBVIOUS
<1>1. \/ j = 0 /\ \A i \in 1..n : ps[i].name # s
      \/ j \in 1..n /\ ps[j].name = s /\ \A i \in 1..(j - 1) : ps[i].name # s
  BY FirstNamedFinds
<1>2. CASE s \in {"global", "targets"} \/ j = 0
  <2>1. qs = ps
    BY <1>2 DEF ApplySection
  <2> QED
    BY <1>1, <1>2, <2>1 DEF AppliedTo
<1>3. CASE ~(s \in {"global", "targets"} \/ j = 0)
  <2>1. j \in 1..n /\ ps[j].name = s /\ \A i \in 1..(j - 1) : ps[i].name # s
    BY <1>1, <1>3
  <2> PICK old \in Plot : old = ps[j]
    BY <2>1
  <2>2. qs = [ps EXCEPT ![j] = Configured(old, s)]
    BY <1>3 DEF ApplySection
  <2> PICK name, setting : /\ name = ValueInFile(s, "name", s)
                           /\ setting = ValueInFile(s, "key", old.setting)
    OBVIOUS
  <2>3. name \in NamesRead /\ setting \in NamesRead \union {"built in"}
    <3>1. old.name = s /\ s \in NamesRead /\ old.setting \in NamesRead \union {"built in"}
      BY <2>1 DEF Plot
    <3>2. \A k : \A o : ValueInFile(s, k, o) = o \/ ValueInFile(s, k, o) \in NamesRead
      BY ValueIsRead, Zenon
    <3>3. name = s \/ name \in NamesRead
      BY <3>2, Zenon
    <3>4. setting = old.setting \/ setting \in NamesRead
      BY <3>2, Zenon
    <3> QED
      BY <3>1, <3>3, <3>4
  <2> PICK new : new = [target |-> old.target, name |-> name, setting |-> setting]
    OBVIOUS
  <2>4. new \in Plot /\ new.target = old.target /\ new.name = name /\ new.setting = setting
    BY <2>3 DEF Plot
  <2>5. Configured(old, s) = new
    <3>1. GetValue(s, "name", old.name) = name /\ GetValue(s, "key", old.setting) = setting
      <4>1. old.name = s
        BY <2>1
      <4>2. /\ GetValue(s, "name", old.name) = ValueInFile(s, "name", old.name)
            /\ GetValue(s, "key", old.setting) = ValueInFile(s, "key", old.setting)
        BY ValueIsRead
      <4> QED
        BY <4>1, <4>2
    <3>2. Configured(old, s) = [old EXCEPT !.name = name, !.setting = setting]
      BY <3>1, Zenon DEF Configured
    <3> QED
      BY <3>2 DEF Plot
  <2>6. /\ qs \in Seq(Plot) /\ Len(qs) = n /\ qs[j] = new
        /\ \A i \in 1..n : i # j => qs[i] = ps[i]
    BY <2>1, <2>2, <2>4, <2>5
  <2> QED
    BY <2>1, <2>4, <2>6 DEF AppliedTo
<1> QED
  BY <1>2, <1>3

-----------------------------------------------------------------------------
(* From the sections to the plots                                          *)

\* A target before this one has the same name.
Earlier(t, i) == \E j \in 1..(i - 1) : t[j].target = t[i].target

NoneRenamed == \A n \in NamesRead : ~Renamed(n)

\* What a plot can come to be called.
PossibleNames(v) == {v} \union {ValueInFile(z, "name", z) : z \in NamesRead}

\* The setting of plot i after m sections, when none renames a plot.
Given(t, i, m) ==
    IF Earlier(t, i) \/ \A k \in 1..m : sections[k].name # t[i].target THEN Common
    ELSE ValueInFile(t[i].target, "key", Common)

\* What can have become of a plot of the target v.
PlotAfter(p, v) ==
    /\ p.target = v /\ p.name \in PossibleNames(v)
    /\ p.setting = Common \/ \E x \in PossibleNames(v) : p.setting = ValueInFile(x, "key", Common)

\* ps are what has become of the plots t after m sections.
After(ps, t, m) ==
    /\ ps \in Seq(Plot) /\ Len(ps) = Len(t)
    /\ \A i \in 1..Len(t) : PlotAfter(ps[i], t[i].target)
    /\ NoneRenamed =>
         \A i \in 1..Len(t) : ps[i].name = t[i].target /\ ps[i].setting = Given(t, i, m)

LEMMA AfterNone ==
    ASSUME NEW t \in Seq(Plot),
           \A i \in 1..Len(t) : t[i].name = t[i].target /\ t[i].setting = Common
    PROVE  After(t, t, 0)
BY DEF After, PlotAfter, PossibleNames, Given

LEMMA GivenOther ==
    ASSUME NEW t, NEW i, NEW m \in Nat, m > 0, sections[m].name # t[i].target
    PROVE  Given(t, i, m) = Given(t, i, m - 1)
<1>1. \A k : k \in 1..m <=> k \in 1..(m - 1) \/ k = m
  OBVIOUS
<1>2. (\A k \in 1..m : sections[k].name # t[i].target) <=>
      (\A k \in 1..(m - 1) : sections[k].name # t[i].target)
  BY <1>1
<1> QED
  BY <1>2, Zenon DEF Given

LEMMA AfterSection ==
    ASSUME FileInv, NEW t, NEW m \in 1..Len(sections), NEW ps, After(ps, t, m - 1),
           t \in Seq(Plot), NEW qs, qs = ApplySection(ps, sections[m])
    PROVE  After(qs, t, m)
<1> PICK n \in Nat : n = Len(t)
  OBVIOUS
<1> PICK section \in IniSection : section = sections[m]
  BY DEF FileInv, FileTypes
<1> PICK s : s = section.name
  OBVIOUS
<1>1. /\ ps \in Seq(Plot) /\ Len(ps) = n
      /\ \A i \in 1..n : PlotAfter(ps[i], t[i].target)
      /\ NoneRenamed =>
           \A i \in 1..n : ps[i].name = t[i].target /\ ps[i].setting = Given(t, i, m - 1)
  BY DEF After
<1>2. /\ qs \in Seq(Plot) /\ Len(qs) = n
      /\ \/ qs = ps /\ (s \in {"global", "targets"} \/ \A i \in 1..n : ps[i].name # s)
         \/ \E j \in 1..n :
              /\ ps[j].name = s /\ \A x \in 1..(j - 1) : ps[x].name # s
              /\ \A i \in 1..n : i # j => qs[i] = ps[i]
              /\ qs[j].target = ps[j].target /\ qs[j].name = ValueInFile(s, "name", s)
              /\ qs[j].setting = ValueInFile(s, "key", ps[j].setting)
  <2>1. ps \in Seq(Plot) /\ Len(ps) = n
    BY <1>1
  <2>2. AppliedTo(ps, ApplySection(ps, section), section.name)
    BY <2>1, SectionApplied
  <2>3. AppliedTo(ps, qs, s)
    BY <2>2
  <2> QED
    BY <2>1, <2>3 DEF AppliedTo
<1>3. \A i \in 1..n : s # t[i].target => Given(t, i, m) = Given(t, i, m - 1)
  <2>1. m \in Nat /\ m > 0
    BY DEF FileInv, FileTypes
  <2> QED
    BY <2>1, GivenOther
<1>4. CASE qs = ps /\ (s \in {"global", "targets"} \/ \A i \in 1..n : ps[i].name # s)
  <2>1. ASSUME NoneRenamed, NEW i \in 1..n PROVE s # t[i].target
    <3>1. t[i].target \in NamesRead
      <4>1. t[i] \in Plot
        OBVIOUS
      <4> QED
        BY <4>1 DEF Plot
    <3> QED
      BY <1>1, <1>4, <2>1, <3>1, IniAssumption
  <2> QED
    BY <1>1, <1>2, <1>3, <1>4, <2>1 DEF After
<1>5. ASSUME NEW j \in 1..n,
             ps[j].name = s, \A x \in 1..(j - 1) : ps[x].name # s,
             \A i \in 1..n : i # j => qs[i] = ps[i],
             qs[j].target = ps[j].target, qs[j].name = ValueInFile(s, "name", s),
             qs[j].setting = ValueInFile(s, "key", ps[j].setting)
      PROVE  After(qs, t, m)
  <2>1. s \in NamesRead
    <3>1. ps[j] \in Plot
      BY <1>1
    <3> QED
      BY <1>5, <3>1 DEF Plot
  <2>2. \A o : \/ ValueInFile(s, "key", o) = o
               \/ ValueInFile(s, "key", o) = ValueInFile(s, "key", Common)
    BY ValueIsRead
  <2>3. PlotAfter(qs[j], t[j].target)
    <3> PICK v : v = t[j].target
      OBVIOUS
    <3>1. PlotAfter(ps[j], v)
      BY <1>1
    <3>2. s \in PossibleNames(v) /\ ValueInFile(s, "name", s) \in PossibleNames(v)
      BY <1>5, <2>1, <3>1 DEF PlotAfter, PossibleNames
    <3> QED
      BY <1>5, <2>2, <3>1, <3>2 DEF PlotAfter
  <2>4. ASSUME NoneRenamed, NEW i \in 1..n
        PROVE  qs[i].name = t[i].target /\ qs[i].setting = Given(t, i, m)
    <3>1. \A x \in 1..n : ps[x].name = t[x].target /\ ps[x].setting = Given(t, x, m - 1)
      BY <1>1, <2>4
    <3>2. s = t[j].target /\ \A x \in 1..(j - 1) : t[x].target # s
      <4>1. \A x \in 1..(j - 1) : x \in 1..n
        OBVIOUS
      <4> QED
        BY <1>5, <3>1, <4>1
    <3>3. CASE i # j /\ t[i].target # s
      BY <1>3, <1>5, <3>1, <3>3
    <3>4. CASE i # j /\ t[i].target = s
      <4>1. j \in 1..(i - 1)
        BY <3>2, <3>4
      <4>2. Earlier(t, i)
        BY <3>2, <3>4, <4>1 DEF Earlier
      <4> QED
        BY <1>5, <3>1, <3>4, <4>2 DEF Given
    <3>5. CASE i = j
      <4>1. ValueInFile(s, "name", s) = s
        BY <2>1, <2>4 DEF NoneRenamed, Renamed
      <4>2. ~Earlier(t, j)
        BY <3>2 DEF Earlier
      <4>3. Given(t, j, m) = ValueInFile(s, "key", Common)
        <5>1. m \in 1..m
          BY DEF FileInv, FileTypes
        <5> QED
          BY <3>2, <4>2, <5>1 DEF Given
      <4>4. ps[j].setting \in {Common, ValueInFile(s, "key", Common)}
        BY <3>1, <3>2 DEF Given
      <4>5. ValueInFile(s, "key", ps[j].setting) = ValueInFile(s, "key", Common)
        <5>1. CASE ps[j].setting = Common
          BY <5>1
        <5>2. CASE ps[j].setting = ValueInFile(s, "key", Common)
          BY <2>2, <5>2, Zenon
        <5> QED
          BY <4>4, <5>1, <5>2
      <4> QED
        BY <1>5, <3>2, <3>5, <4>1, <4>3, <4>5
    <3> QED
      BY <3>3, <3>4, <3>5
  <2> QED
    BY <1>1, <1>2, <1>5, <2>3, <2>4 DEF After
<1> QED
  BY <1>2, <1>4, <1>5

\* All sections, one after the other.
LEMMA AllPlotsAre ==
    ASSUME FileInv, NEW t \in Seq(Plot), NEW short, t = TargetPlots(short),
           \A i \in 1..Len(t) : t[i].name = t[i].target /\ t[i].setting = Common
    PROVE  After(AllPlots(short), t, Len(sections))
<1> PICK n \in Nat : n = Len(sections)
  BY DEF FileInv, FileTypes
<1> DEFINE S == Seq(Plot)
           F == [i \in 1..n |-> [ps \in S |-> ApplySection(ps, sections[i])]]
<1>1. PICK f : Follows(f, n, S, t, F)
  <2>1. ASSUME NEW i \in 1..n, NEW ps \in S PROVE ApplySection(ps, sections[i]) \in S
    <3> PICK section : section = sections[i]
      OBVIOUS
    <3>1. ApplySection(ps, section) \in S
      BY SectionApplied DEF AppliedTo
    <3> QED
      BY <3>1
  <2>2. F \in Steps(n, S)
    <3> HIDE DEF S
    <3> QED
      BY <2>1 DEF Steps
  <2>3. t \in S
    OBVIOUS
  <2> HIDE DEF F, S
  <2> QED
    BY <2>2, <2>3, Recursion
<1>2. \A i \in 1..n : i - 1 \in 0..n /\ f[i - 1] \in S /\ f[i] = ApplySection(f[i - 1], sections[i])
  <2>1. f \in [0..n -> S] /\ \A i \in 1..n : f[i] = F[i][f[i - 1]]
    BY <1>1 DEF Follows
  <2>2. \A i \in 1..n : i - 1 \in 0..n
    OBVIOUS
  <2> HIDE DEF S
  <2> QED
    BY <2>1, <2>2
<1>3. f = [i \in 0..n |-> IF i = 0 THEN TargetPlots(short) ELSE ApplySection(f[i - 1], sections[i])]
  <2>1. f = [i \in 0..n |-> f[i]] /\ f[0] = t
    BY <1>1 DEF Follows
  <2>2. \A i \in 0..n : i = 0 \/ i \in 1..n
    OBVIOUS
  <2> HIDE DEF S, F
  <2> QED
    BY <1>2, <2>1, <2>2
<1> DEFINE after[i \in 0..n] ==
             IF i = 0 THEN TargetPlots(short) ELSE ApplySection(after[i - 1], sections[i])
<1>4. after = [i \in 0..n |-> IF i = 0 THEN TargetPlots(short)
                              ELSE ApplySection(after[i - 1], sections[i])]
  BY <1>3
<1>5. AllPlots(short) = after[n]
  BY DEF AllPlots
<1> HIDE DEF after
<1>6. after[0] = t /\ \A i \in 1..n : after[i] = ApplySection(after[i - 1], sections[i])
  BY <1>4
<1> DEFINE P == {i \in 0..n : After(after[i], t, i)}
<1>7. 0 \in P
  BY <1>6, AfterNone
<1>8. ASSUME NEW m \in 1..n, m - 1 \in P PROVE m \in P
  <2> PICK ps, qs : ps = after[m - 1] /\ qs = after[m]
    OBVIOUS
  <2>1. After(ps, t, m - 1) /\ qs = ApplySection(ps, sections[m])
    BY <1>6, <1>8
  <2>2. After(qs, t, m)
    BY <2>1, AfterSection
  <2> QED
    BY <2>2
<1>9. n \in P
  <2> HIDE DEF P
  <2>1. \A i \in 0..n : i \in P
    BY <1>7, <1>8, Induction
  <2> QED
    BY <2>1
<1> QED
  BY <1>5, <1>9

\* What the property says of the plots ps.
Told(ps) ==
    \A i \in DOMAIN ps :
        /\ FromTargets(ps[i].target)
        /\ NoneRenamed =>
             /\ ps[i].name = ps[i].target
             /\ ps[i].setting = IF \E j \in 1..(i - 1) : ps[j].target = ps[i].target THEN Common
                                ELSE ValueInFile(ps[i].target, "key", Common)
        /\ \/ ps[i].setting = Common
           \/ \E x \in PossibleNames(ps[i].target) : ps[i].setting = ValueInFile(x, "key", Common)

LEMMA PropertyTells == SettingsReachTheirPlot <=> (stage = "done" => Told(plots))
BY Zenon DEF SettingsReachTheirPlot, Told, FromTargets, NoneRenamed, PossibleNames, Common

LEMMA PlotsAreTold ==
    ASSUME FileInv, NEW short \in Nat
    PROVE  Told(AllPlots(short))
<1> PICK t : t = TargetPlots(short)
  OBVIOUS
<1> PICK ps : ps = AllPlots(short)
  OBVIOUS
<1>1. /\ t \in Seq(Plot)
      /\ \A i \in 1..Len(t) : /\ t[i].name = t[i].target /\ t[i].setting = Common
                              /\ FromTargets(t[i].target)
  BY TargetPlotsAre
<1>2. After(ps, t, Len(sections))
  BY <1>1, AllPlotsAre
<1> PICK n \in Nat : n = Len(t)
  BY <1>1
<1>3. /\ DOMAIN ps = 1..n
      /\ \A i \in 1..n : PlotAfter(ps[i], t[i].target)
      /\ NoneRenamed =>
           \A i \in 1..n : ps[i].name = t[i].target /\ ps[i].setting = Given(t, i, Len(sections))
  BY <1>2 DEF After
<1>4. \A i \in 1..n : ps[i].target = t[i].target
  BY <1>3 DEF PlotAfter
<1>5. ASSUME NEW i \in 1..n
      PROVE  Given(t, i, Len(sections)) =
               IF \E j \in 1..(i - 1) : ps[j].target = ps[i].target THEN Common
               ELSE ValueInFile(ps[i].target, "key", Common)
  <2>1. Earlier(t, i) <=> \E j \in 1..(i - 1) : ps[j].target = ps[i].target
    <3>1. \A j \in 1..(i - 1) : j \in 1..n
      OBVIOUS
    <3> QED
      BY <1>4, <3>1 DEF Earlier
  <2>2. ASSUME \A k \in 1..Len(sections) : sections[k].name # t[i].target
        PROVE  ValueInFile(t[i].target, "key", Common) = Common
    <3>1. NoPair(t[i].target, "key")
      BY <2>2 DEF NoPair, HasKey
    <3> QED
      BY <3>1, GetValueTells
  <2> QED
    BY <1>4, <2>1, <2>2 DEF Given
<1>6. ASSUME NEW i \in DOMAIN ps
      PROVE  /\ FromTargets(ps[i].target)
             /\ NoneRenamed =>
                  /\ ps[i].name = ps[i].target
                  /\ ps[i].setting =
                       IF \E j \in 1..(i - 1) : ps[j].target = ps[i].target THEN Common
                       ELSE ValueInFile(ps[i].target, "key", Common)
             /\ \/ ps[i].setting = Common
                \/ \E x \in PossibleNames(ps[i].target) :
                      ps[i].setting = ValueInFile(x, "key", Common)
  <2>0. i \in 1..n
    BY <1>3
  <2>1. FromTargets(ps[i].target)
    BY <1>1, <1>4, <2>0
  <2>2. NoneRenamed =>
          /\ ps[i].name = ps[i].target
          /\ ps[i].setting = IF \E j \in 1..(i - 1) : ps[j].target = ps[i].target THEN Common
                             ELSE ValueInFile(ps[i].target, "key", Common)
    BY <1>3, <1>4, <1>5, <2>0
  <2> QED
    BY <1>3, <1>4, <2>0, <2>1, <2>2 DEF PlotAfter
<1> QED
  BY <1>6, Zenon DEF Told

\* The lines that tell a key, and the first value they tell.
KeyLines(s, k) == {i \in DOMAIN lines : /\ lines[i].type = "pair" /\ lines[i].key = k
                                        /\ Within(i, s)}
FirstValue(s, k) == ValueOf(CHOOSE i \in KeyLines(s, k) : \A j \in KeyLines(s, k) : i <= j)

\* Told is about the lines.
LEMMA LinesTell ==
    ASSUME UNCHANGED lines, NEW ps
    PROVE  Told(ps)' <=> Told(ps)
<1>1. ASSUME NEW s, NEW k
      PROVE  KeyLines(s, k)' = KeyLines(s, k) /\ FirstValue(s, k)' = FirstValue(s, k)
  <2>1. KeyLines(s, k)' = KeyLines(s, k)
    BY DEF KeyLines, Within
  <2> PICK S : S = KeyLines(s, k)
    OBVIOUS
  <2> PICK i : i = CHOOSE x \in S : \A j \in S : x <= j
    OBVIOUS
  <2>2. FirstValue(s, k) = ValueOf(i)
    BY DEF FirstValue
  <2>3. FirstValue(s, k)' = ValueOf(i)'
    <3>1. FirstValue(s, k)' =
            ValueOf(CHOOSE x \in KeyLines(s, k) : \A j \in KeyLines(s, k) : x <= j)'
      BY DEF FirstValue
    <3>2. i = CHOOSE x \in KeyLines(s, k)' : \A j \in KeyLines(s, k)' : x <= j
      BY <2>1
    <3> QED
      BY <3>1, <3>2 DEF ValueOf
  <2>4. ValueOf(i)' = ValueOf(i)
    BY DEF ValueOf
  <2> QED
    BY <2>1, <2>2, <2>3, <2>4
<1>2. ASSUME NEW s, NEW k, NEW o PROVE ValueInFile(s, k, o)' = ValueInFile(s, k, o)
  <2>1. ValueInFile(s, k, o) = IF KeyLines(s, k) = {} THEN o ELSE FirstValue(s, k)
    BY Zenon DEF ValueInFile, KeyLines, FirstValue
  <2>2. ValueInFile(s, k, o)' = IF KeyLines(s, k)' = {} THEN o ELSE FirstValue(s, k)'
    BY Zenon DEF ValueInFile, KeyLines, FirstValue
  <2> QED
    BY <1>1, <2>1, <2>2
<1>3. \A v : FromTargets(v)' <=> FromTargets(v)
  BY DEF FromTargets, ValueOf, Within
<1>4. /\ Common' = Common /\ (NoneRenamed' <=> NoneRenamed)
      /\ \A v : PossibleNames(v)' = PossibleNames(v)
  BY <1>2 DEF Common, NoneRenamed, Renamed, PossibleNames
<1>5. ASSUME NEW v PROVE ValueInFile(v, "key", Common)' = ValueInFile(v, "key", Common)
  <2> PICK c : c = Common
    OBVIOUS
  <2>1. ValueInFile(v, "key", c)' = ValueInFile(v, "key", c)
    BY <1>2
  <2> QED
    BY <1>4, <2>1
<1> QED
  BY <1>3, <1>4, <1>5 DEF Told

\* Each plot is of a target and has the setting that the file gives it, whatever
\* the file (ini_parse_file of ini_parser.c, config_load of config.c).
THEOREM SettingsAreThoseOfTheFile == IniSpec => []SettingsReachTheirPlot
<1>1. IniInit => FileInv /\ SettingsReachTheirPlot
  BY FileStarts, PropertyTells DEF IniInit
<1>2. (SettingsReachTheirPlot <=> (stage = "done" => Told(plots)))'
  BY PropertyTells, PTL
<1>3. ASSUME FileInv, SettingsReachTheirPlot, [IniNext]_iniVars
      PROVE  SettingsReachTheirPlot'
  <2>1. CASE stage' # "done"
    BY <1>2, <2>1
  <2>2. CASE UNCHANGED iniVars
    <3>1. (stage = "done" => Told(plots)) <=> SettingsReachTheirPlot
      BY PropertyTells
    <3> QED
      BY <1>2, <1>3, <2>2, <3>1, LinesTell DEF iniVars
  <2>3. CASE EndOfFile /\ stage' = "done"
    <3>1. PICK short \in 0..Len(lines) : plots' = AllPlots(short) /\ lines' = lines
      BY <2>3 DEF EndOfFile
    <3> PICK ps : ps = plots'
      OBVIOUS
    <3>2. Told(ps)
      <4>1. short \in Nat
        BY <1>3 DEF FileInv, FileTypes
      <4> QED
        BY <1>3, <3>1, <4>1, PlotsAreTold
    <3>3. Told(ps)'
      BY <3>1, <3>2, LinesTell
    <3>4. Told(plots)'
      BY <3>3 DEF Told
    <3> QED
      BY <1>2, <3>4
  <2>4. IniNext /\ stage' = "done" => EndOfFile
    BY DEF IniNext, ReadLine, OutOfMemory
  <2> QED
    BY <1>3, <2>1, <2>2, <2>3, <2>4
<1> QED
  BY <1>1, <1>3, FileKept, PTL DEF IniSpec

=============================================================================
