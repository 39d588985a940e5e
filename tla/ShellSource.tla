---------------------------- MODULE ShellSource -----------------------------
(***************************************************************************)
(* The shell data source (ds/shell.c): a command that runs beside the      *)
(* program and writes lines into a pipe, from which every collection takes *)
(* what is there and shows the number in the last line.  A command that    *)
(* has ended is started again.                                             *)
(*                                                                         *)
(* The stream is unbuffered (setvbuf), so that select knows all there is.  *)
(* Lines are numbered in the order in which commands write them; they fit  *)
(* into the 1024 characters of a buffer.  feof is never true when a        *)
(* collection starts: each path that meets the end clears it or reopens.   *)
(***************************************************************************)
EXTENDS DataSource

CONSTANTS MaxLines,  \* bound on the lines that all commands write
          MaxRuns    \* bound on how often the command is started

ASSUME ShellAssumption == {MaxLines, MaxRuns} \subseteq Nat

\* The variables of DataSource:
\*   system  "shell"
\*   ctx     shell_context_t: is fp open
\*   pc      "rest", "drain", "close" in pclose, "settle" after a new start
\*   wait    the collection: last_line, or none
\*   sample  the line whose number was pushed last, or none
\*   world   pipe: the lines in it; part: does the beginning of another follow;
\*           command: "running", "closed" when it has closed its output, "ended",
\*           "none"; written, runs: lines and starts so far; children: commands
\*           that have not been waited for; read: the last line read

NoLine == [n |-> 0, number |-> FALSE]

Started(w) == [w EXCEPT !.command = "running", !.runs = @ + 1, !.children = @ + 1]

\* shell_init: a command that cannot be started leaves no source.
ShellInit ==
    /\ system = "shell"
    /\ ctx = [open |-> TRUE] /\ pc = "rest" /\ wait = NoLine /\ sample = 0
    /\ world = Started([pipe |-> <<>>, part |-> FALSE, command |-> "none", written |-> 0,
                        runs |-> 0, children |-> 0, read |-> 0])

Readable == world.pipe # <<>> \/ world.part \/ world.command # "running"

-----------------------------------------------------------------------------
(* The collector thread                                                    *)

ShellReturns(n) == pc' = "rest" /\ wait' = NoLine /\ sample' = n

\* open_command: popen may fail.
OpenCommand(w, next) ==
    \/ /\ world.runs < MaxRuns
       /\ world' = Started(w) /\ ctx' = [open |-> TRUE]
       /\ pc' = next /\ UNCHANGED <<wait, sample>>
    \/ /\ world' = [w EXCEPT !.command = "none"] /\ ctx' = [open |-> FALSE]
       /\ ShellReturns(0)

\* shell_collect.
ShellCollect ==
    /\ pc = "rest"
    /\ IF ctx.open THEN pc' = "drain" /\ UNCHANGED <<ctx, wait, sample, world>>
                   ELSE OpenCommand(world, "drain")
    /\ UNCHANGED system

\* A later line replaces the one read before.
LastLine(line) == line

\* fgets returns a line; it waits for the end of one that has begun.
ReadLine ==
    /\ pc = "drain" /\ world.pipe # <<>>
    /\ wait' = LastLine(Head(world.pipe))
    /\ world' = [world EXCEPT !.pipe = Tail(@), !.read = Head(world.pipe).n]
    /\ UNCHANGED <<system, ctx, pc, sample>>

\* Nothing is left to read: the last line's first number is the sample.
NumberIn(line) == IF line.number THEN line.n ELSE 0

Drained ==
    /\ pc = "drain" /\ world.pipe = <<>> /\ ~world.part
    /\ world.command = "running" \/ wait # NoLine
    /\ ShellReturns(NumberIn(wait))
    /\ UNCHANGED <<system, ctx, world>>

\* The end of the output, and no line before it in this collection.
AtEnd ==
    /\ pc = "drain" /\ world.pipe = <<>> /\ ~world.part
    /\ world.command # "running" /\ wait = NoLine
    /\ pc' = "close"
    /\ UNCHANGED <<system, ctx, wait, sample, world>>

\* Mutant: the old stream is forgotten, and its command with it.
WaitedForNot(w) == w

WaitedFor(w) == [w EXCEPT !.children = @ - 1]

\* pclose waits for the command to end, then it is started again.
Reopen ==
    /\ pc = "close" /\ world.command = "ended"
    /\ OpenCommand(WaitedFor(world), "settle")
    /\ UNCHANGED system

\* The new command gets a tenth of a second to write something.
Settle ==
    /\ pc = "settle"
    /\ \/ Readable /\ pc' = "drain" /\ UNCHANGED <<wait, sample>>
       \/ ~Readable /\ ShellReturns(0)
    /\ UNCHANGED <<system, ctx, world>>

-----------------------------------------------------------------------------
(* The command                                                             *)

WriteLine(number) ==
    /\ world.command = "running" /\ world.written < MaxLines
    /\ world' = [world EXCEPT !.written = @ + 1, !.part = FALSE,
                              !.pipe = Append(@, [n |-> world.written + 1, number |-> number])]
    /\ UNCHANGED <<system, ctx, pc, wait, sample>>

WritePart ==
    /\ world.command = "running" /\ ~world.part /\ world.written < MaxLines
    /\ world' = [world EXCEPT !.part = TRUE]
    /\ UNCHANGED <<system, ctx, pc, wait, sample>>

\* What has been written of a line is a line when the output is closed.
CloseOutput(number) ==
    /\ world.command = "running"
    /\ world' = IF world.part
                THEN [world EXCEPT !.command = "closed", !.part = FALSE, !.written = @ + 1,
                          !.pipe = Append(@, [n |-> world.written + 1, number |-> number])]
                ELSE [world EXCEPT !.command = "closed"]
    /\ UNCHANGED <<system, ctx, pc, wait, sample>>

CommandEnds ==
    /\ world.command = "closed"
    /\ world' = [world EXCEPT !.command = "ended"]
    /\ UNCHANGED <<system, ctx, pc, wait, sample>>

ShellNext == \/ ShellCollect \/ ReadLine \/ Drained \/ AtEnd \/ Reopen \/ Settle
             \/ \E number \in BOOLEAN : WriteLine(number) \/ CloseOutput(number)
             \/ WritePart \/ CommandEnds

-----------------------------------------------------------------------------
(* Properties                                                              *)

\* A sample is the number of the newest line there was when the pipe was found
\* empty, never one that a later line has replaced, through any number of
\* restarts; and what has ended is waited for before it is started again.
NewestLineShown == system = "shell" =>
    /\ world.children <= 1
    /\ sample # 0 => \A i \in DOMAIN world.pipe : world.pipe[i].n > sample
    /\ pc = "rest" /\ sample # 0 => sample = world.read

=============================================================================
