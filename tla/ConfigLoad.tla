----------------------------- MODULE ConfigLoad -----------------------------
(***************************************************************************)
(* The configuration file: config_load of config.c and ini_parse_file of   *)
(* ini_parser.c.  The file is looked for by its name, in the current       *)
(* directory, then in the user's configuration directory; if neither is of *)
(* use, a sample is written.                                               *)
(*                                                                         *)
(* A file is what loading it comes to: a user's own, or the sample, both   *)
(* with all that they should have; "cut", the beginning of a sample as far *)
(* as the section [global]; "useless", without that section, an empty one  *)
(* for example.  A file may be there and fail to be read (permissions,     *)
(* memory); the disk may fill up while the sample is written, which        *)
(* nothing checks; the program may be killed, and started again.           *)
(***************************************************************************)
EXTENDS Integers

CONSTANT MaxStarts  \* bound on how often the program is started

ASSUME StartsAssumption == MaxStarts \in Nat

Places   == {"cwd", "home"}
Contents == {"none", "user", "sample", "cut", "useless"}

VARIABLES
    disk,    \* the file in each place
    writable, \* can a file be created in each place: its directory may be missing
    second,  \* os_get_config_path: "home", "cwd" (the name itself), "none" (no HOME)
    load,    \* config_load: its step, the content of ini, what each parse found
             \* in this start, where the sample goes, and was the disk full then
    starts,  \* starts of the program
    lost     \* the user's files that a sample has replaced: where, what was
             \* known of the file then, and of the one in the current directory

configVars == <<disk, writable, second, load, starts, lost>>

Looking == [step |-> "first", ini |-> "none", found |-> [p \in Places |-> "unread"],
            at |-> "cwd", full |-> FALSE]

ConfigInit ==
    /\ disk \in [Places -> {"none", "user", "useless"}]
    /\ writable \in [Places -> BOOLEAN]
    /\ second \in {"home", "cwd", "none"}
    /\ load = Looking /\ starts = 1 /\ lost = {}

\* ini_parse_file: NULL, or what the file holds.
Parse(p) == {"failed"} \union (IF disk[p] = "none" THEN {} ELSE {disk[p]})

Found(p, c) == [load.found EXCEPT ![p] = IF c = "failed" /\ disk[p] = "none" THEN "none" ELSE c]

\* Mutant: any file that can be read will do.
IsValidAny(c) == TRUE

\* is_config_valid: there is a section [global].
IsValid(c) == c # "useless"

UseOrCreate(c, found) ==
    load' = [load EXCEPT !.found = found, !.ini = c,
               !.step = IF c # "failed" /\ IsValid(c) THEN "config" ELSE "create",
               !.at   = IF second = "none" THEN "cwd" ELSE second]

\* The file by its name.
ParseFirst ==
    /\ load.step = "first"
    /\ \E c \in Parse("cwd") :
         IF c = "failed" /\ second # "none"
         THEN load' = [load EXCEPT !.step = "second", !.found = Found("cwd", c)]
         ELSE UseOrCreate(c, Found("cwd", c))
    /\ UNCHANGED <<disk, writable, second, starts, lost>>

\* The file in the platform's place, if the first could not be read.
ParseSecond ==
    /\ load.step = "second"
    /\ \E c \in Parse(second) : UseOrCreate(c, Found(second, c))
    /\ UNCHANGED <<disk, writable, second, starts, lost>>

\* create_default_config_file: fopen truncates what is there.
CreateSample ==
    /\ load.step = "create"
    /\ \/ /\ writable[load.at]
          /\ disk' = [disk EXCEPT ![load.at] = "useless"]
          /\ lost' = IF disk[load.at] # "user" THEN lost
                     ELSE lost \union {[at  |-> load.at, found |-> load.found[load.at],
                                        cwd |-> load.found["cwd"]]}
          /\ load' = [load EXCEPT !.step = "write"]
       \/ load' = [load EXCEPT !.step = "failed"] /\ UNCHANGED <<disk, lost>>
    /\ UNCHANGED <<writable, second, starts>>

\* fprintf, fclose: the end is missing if the disk is full.
WriteSample ==
    /\ load.step = "write"
    /\ \E c \in {"sample", "cut", "useless"} :
         /\ disk' = [disk EXCEPT ![load.at] = c]
         /\ load' = [load EXCEPT !.step = "reread", !.full = c # "sample"]
    /\ UNCHANGED <<writable, second, starts, lost>>

\* The sample is read again, and used whatever is in it.
ParseSample ==
    /\ load.step = "reread"
    /\ \E c \in Parse(load.at) :
         load' = [load EXCEPT !.step = IF c = "failed" THEN "failed" ELSE "config", !.ini = c]
    /\ UNCHANGED <<disk, writable, second, starts, lost>>

\* The values are taken from ini; there may be no memory for them.
TakeConfig ==
    /\ load.step = "config"
    /\ \E s \in {"loaded", "failed"} : load' = [load EXCEPT !.step = s]
    /\ UNCHANGED <<disk, writable, second, starts, lost>>

ConfigStep == \/ ParseFirst \/ ParseSecond \/ CreateSample \/ WriteSample
              \/ ParseSample \/ TakeConfig

\* The program is killed, or ends, and is started again.  A sample that
\* was being written is an empty file: it is smaller than a buffer of stdio.
StartAgain ==
    /\ starts < MaxStarts /\ starts' = starts + 1
    /\ load' = Looking
    /\ UNCHANGED <<disk, writable, second, lost>>

\* The user repairs or removes a file between two starts.
UserEdits(p) ==
    /\ load.step = "first" /\ load.found = Looking.found
    /\ starts > 1 /\ disk[p] # "user"
    /\ \E c \in {"none", "user"} : disk[p] # c /\ disk' = [disk EXCEPT ![p] = c]
    /\ UNCHANGED <<writable, second, load, starts, lost>>

ConfigNext == ConfigStep \/ StartAgain \/ \E p \in Places : UserEdits(p)

ConfigSpec == ConfigInit /\ [][ConfigNext]_configVars

-----------------------------------------------------------------------------
(* Properties                                                              *)

\* A sample replaces a file of the user's in two cases only: the file was there
\* but could not be read in this start, or it is the one in the configuration
\* directory, and has not been looked at because the file in the current
\* directory has no section [global] (config.c:227).  A start goes on with a
\* file without that section only when it has just written it to a full disk,
\* and repairs it the next time.
UserFileKept ==
    /\ \A l \in lost : \/ l.found = "failed"
                       \/ l.at = "home" /\ l.found = "unread" /\ l.cwd = "useless"
    /\ load.step \in {"config", "loaded"} /\ load.ini = "useless" => load.full

\* README.md, "Config file": "If `sng.ini` doesnt exist the app will create you
\* a sample one on start", after a look in the current directory and then in
\* the configuration directories: a user's file that is there, and that nothing
\* kept from being read, is not replaced by a sample.
SampleOnlyIfMissing == \A l \in lost : l.found = "failed"

=============================================================================
