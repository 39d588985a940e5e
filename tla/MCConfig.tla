------------------------------ MODULE MCConfig ------------------------------
(***************************************************************************)
(* Small instances of the two sides of the configuration: which file is    *)
(* read or written (ConfigLoad), and what is made of it (IniFile).         *)
(***************************************************************************)
EXTENDS ConfigLoad, IniFile

TwoTargets == <<[type |-> "section", name |-> "targets", blank |-> FALSE],
                [type |-> "pair", key |-> "key", value |-> "a", blank |-> FALSE],
                [type |-> "pair", key |-> "key", value |-> "b", blank |-> FALSE]>>

OpeningValues == {<<>>, TwoTargets}

NoIni  == stage = "none" /\ lines = <<>> /\ sections = <<>> /\ plots = <<>>
NoLoad == /\ disk = [p \in Places |-> "none"] /\ writable = [p \in Places |-> FALSE]
          /\ second = "none" /\ load = [Looking EXCEPT !.step = "none"]
          /\ starts = MaxStarts /\ lost = {}

Init == (ConfigInit /\ NoIni) \/ (IniInit /\ NoLoad)

Next == \/ stage = "none" /\ ConfigNext /\ UNCHANGED iniVars
        \/ stage # "none" /\ IniNext /\ UNCHANGED configVars

Spec == Init /\ [][Next]_<<configVars, iniVars>>

\* The file alone.
FileSpec == (ConfigInit /\ NoIni)
            /\ [][ConfigNext /\ UNCHANGED iniVars]_<<configVars, iniVars>>

=============================================================================
