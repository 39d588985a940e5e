------------------------------ MODULE IniFile ------------------------------
(***************************************************************************)
(* What is in the configuration file: ini_parse_file of ini_parser.c line  *)
(* by line, and the plots that config_load makes of its sections: one for  *)
(* each pair of [targets], with the settings of [global], of the section   *)
(* of its name, and of what else has come to be its name.                  *)
(*                                                                         *)
(* What trim_whitespace is given may begin with a blank: an indented line, *)
(* or "key = value", or "[ section ]".                                     *)
(*                                                                         *)
(* A pair is a key and a value.  "key" stands for the type of a target in  *)
(* [targets], and for a setting such as line_color elsewhere; "name" is    *)
(* the setting that renames a plot.  A plot is first named by its type and *)
(* target, which is here the value of its pair.                            *)
(***************************************************************************)
EXTENDS Integers, Sequences, SequencesExt

CONSTANTS Names,     \* values, and names of plots
          Openings,  \* how a file may begin
          MaxLines   \* bound on the lines that follow

\* trim_whitespace: a text that began with blanks is not ended where it ends after
\* they have gone, but where it did: its last characters are there twice.
Trimmed(text, blank) == IF blank THEN text \o "~" ELSE text

NamesRead == {Trimmed(n, b) : n \in Names, b \in BOOLEAN}

ASSUME IniAssumption ==
    MaxLines \in Nat /\ NamesRead \cap {"global", "targets", "built in"} = {}

Section(s, b) == [type |-> "section", name |-> s, blank |-> b]
Pair(k, v, b) == [type |-> "pair", key |-> k, value |-> v, blank |-> b]
Other      == [type |-> "other"]   \* blank, a comment, or neither of the two above

FileLines == {Section(s, b) : s \in {"global", "targets"} \union Names, b \in BOOLEAN}
               \union {Pair(k, v, b) : k \in {"key", "name"}, v \in Names, b \in BOOLEAN}
               \union {Other}

VARIABLES
    stage,     \* "parse", "done", "failed" (NULL is returned) or "crashed"
    lines,     \* the lines read so far
    sections,  \* ini_file_t
    plots      \* config->plots

iniVars == <<stage, lines, sections, plots>>

IniInit ==
    /\ stage = "parse" /\ sections = <<>> /\ plots = <<>> /\ lines = <<>>

-----------------------------------------------------------------------------
(* ini_parse_file                                                          *)

\* Mutant: a pair goes to the first section.
AddPairFirst(those, line) ==
    IF those = <<>> THEN those
    ELSE [those EXCEPT ![1].pairs =
            Append(@, [key |-> line.key, value |-> Trimmed(line.value, line.blank)])]

\* A pair belongs to the last section; before the first one it is ignored.
AddPair(those, line) ==
    IF those = <<>> THEN those
    ELSE [those EXCEPT ![Len(those)].pairs =
            Append(@, [key |-> line.key, value |-> Trimmed(line.value, line.blank)])]

AddSection(those, line) ==
    Append(those, [name |-> Trimmed(line.name, line.blank), pairs |-> <<>>])

ReadLine(line) ==
    /\ stage = "parse"
    /\ lines' = Append(lines, line)
    /\ sections' = CASE line.type = "section" -> AddSection(sections, line)
                     [] line.type = "pair"    -> AddPair(sections, line)
                     [] line.type = "other"   -> sections
    /\ UNCHANGED <<stage, plots>>

\* There is no memory for a section or a pair that has been counted already:
\* ini_free then visits it, whatever is or is not there.
OutOfMemory(line) ==
    /\ stage = "parse"
    /\ line.type = "section" \/ (line.type = "pair" /\ sections # <<>>)
    /\ stage' \in {"failed", "crashed"}
    /\ UNCHANGED <<lines, sections, plots>>

-----------------------------------------------------------------------------
(* config_load                                                             *)

\* The index of the first of a sequence with that key, or that name; 0 for none.
FirstOfKey(pairs, key)   == SelectInSeq(pairs, LAMBDA p : p.key = key)
FirstNamed(those, name)  == SelectInSeq(those, LAMBDA r : r.name = name)

\* ini_get_value: the first in the file, of all sections of that name.
GetValue(section, key, otherwise) ==
    LET has == {i \in DOMAIN sections : sections[i].name = section
                   /\ \E j \in DOMAIN sections[i].pairs : sections[i].pairs[j].key = key}
        at(i) == sections[i].pairs[FirstOfKey(sections[i].pairs, key)]
    IN IF has = {} THEN otherwise ELSE at(CHOOSE i \in has : \A j \in has : i <= j).value

\* The plots of the first section [targets], as parse_type_target makes them;
\* for one of them there may be no memory: it is left out.
TargetPlots(short) ==
    LET n == FirstNamed(sections, "targets")
        all == IF n = 0 THEN <<>> ELSE sections[n].pairs
        targets == IF short \in DOMAIN all THEN RemoveAt(all, short) ELSE all
    IN [i \in DOMAIN targets |->
          [target |-> targets[i].value, name |-> targets[i].value,
           setting |-> GetValue("global", "key", "built in")]]

\* parse_plot_config.
Configured(plot, section) ==
    [plot EXCEPT !.name = GetValue(section, "name", @), !.setting = GetValue(section, "key", @)]

\* A section is for the first plot that has its name by then.
ApplySection(those, section) ==
    LET j == FirstNamed(those, section.name)
    IN IF section.name \in {"global", "targets"} \/ j = 0 THEN those
       ELSE [those EXCEPT ![j] = Configured(@, section.name)]

\* The sections one after the other.
AllPlots(short) ==
    LET after[i \in 0..Len(sections)] ==
          IF i = 0 THEN TargetPlots(short) ELSE ApplySection(after[i - 1], sections[i])
    IN after[Len(sections)]

\* The end of the file, and the rest of config_load.
EndOfFile ==
    /\ stage = "parse"
    /\ \/ (\E short \in 0..Len(lines) : plots' = AllPlots(short)) /\ stage' = "done"
       \/ stage' = "failed" /\ UNCHANGED plots
    /\ UNCHANGED <<lines, sections>>

\* The file begins with one of the openings.
MayFollow(line) ==
    \E o \in Openings : /\ Len(lines) < Len(o) + MaxLines
                       /\ \/ IsPrefix(Append(lines, line), o)
                          \/ IsStrictPrefix(o, Append(lines, line))

IniNext == \/ \E line \in FileLines : MayFollow(line) /\ (ReadLine(line) \/ OutOfMemory(line))
           \/ EndOfFile

IniSpec == IniInit /\ [][IniNext]_iniVars

-----------------------------------------------------------------------------
(* Properties                                                              *)

\* Is line i of the file in this section?
Within(i, section) ==
    \E j \in 1..(i - 1) :
        /\ lines[j].type = "section" /\ Trimmed(lines[j].name, lines[j].blank) = section
        /\ \A k \in (j + 1)..(i - 1) : lines[k].type # "section"

ValueOf(i) == Trimmed(lines[i].value, lines[i].blank)

\* The first value of a key in a section, wherever in the file.
ValueInFile(section, key, otherwise) ==
    LET has == {i \in DOMAIN lines : /\ lines[i].type = "pair" /\ lines[i].key = key
                                     /\ Within(i, section)}
    IN IF has = {} THEN otherwise ELSE ValueOf(CHOOSE i \in has : \A j \in has : i <= j)

Renamed(n) == ValueInFile(n, "name", n) # n

\* Every plot is a target of the file, and has the setting that the file gives
\* it: the first in any section of its name, else that of [global], else the one
\* built in; only the first of two plots of one name has the section's.  Once
\* sections rename plots to the names of others, a plot can also get what was
\* meant for the plot whose name it has come to have (config.c:384).  All names
\* and values are as they are read: with a blank before it, in "key = value" for
\* example, each is another one, whose end is there twice (ini_parser.c:12).
SettingsReachTheirPlot ==
    stage = "done" => \A i \in DOMAIN plots :
        LET p == plots[i]
            common == ValueInFile("global", "key", "built in")
            earlier == \E j \in 1..(i - 1) : plots[j].target = p.target
        IN /\ \E l \in DOMAIN lines : /\ lines[l].type = "pair" /\ ValueOf(l) = p.target
                                      /\ Within(l, "targets")
           /\ (\A n \in NamesRead : ~Renamed(n)) =>
                /\ p.name = p.target
                /\ p.setting = IF earlier THEN common ELSE ValueInFile(p.target, "key", common)
           /\ \/ p.setting = common
              \/ \E n \in {p.target} \union {ValueInFile(m, "name", m) : m \in NamesRead} :
                    p.setting = ValueInFile(n, "key", common)
=============================================================================
