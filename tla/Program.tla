------------------------------ MODULE Program ------------------------------
(***************************************************************************)
(* main, the threads it starts and the http server together: the server is *)
(* started last and stopped without being waited for, and works with the   *)
(* configuration and the buffers that main owns.                           *)
(***************************************************************************)
EXTENDS Startup, HttpServer

vars == <<startVars, httpVars>>

Init == StartInit /\ HttpInit

\* What a page or an image is made from.
ServerNeeds ==
    IF server.at = "answer"
    THEN {The("config")} \union UNION {Needs(i) \ {The("os")} : i \in Plots}
    ELSE {}

Serve ==
    /\ ServerStep
    /\ touched' = touched \union (ServerNeeds \ heap)
    /\ UNCHANGED <<config, main, signalled, heap, source, thread, misused>>

Httpd == \E started \in BOOLEAN : StartHttp(started) /\ HttpdStart(started)

\* Mutant: the end waits for the server's thread.
StopJoining == server.at = "none" /\ Stop /\ HttpdStop

StopAll == Stop /\ HttpdStop

Ending == (Exit \/ Return \/ (Update /\ ~signalled)) /\ HttpdExit

Main == \/ MainStep /\ UNCHANGED httpVars
        \/ Update /\ signalled /\ UNCHANGED httpVars
        \/ Httpd \/ StopAll \/ Ending

Threads == (ThreadStep \/ Signal) /\ UNCHANGED httpVars

Network == \E c \in Clients : ClientStep(c) /\ UNCHANGED startVars

Next == Main \/ Threads \/ Serve \/ Network

\* Main and the server go on when they can; accept gets a connection some time;
\* the user need not quit, so that Update is fair only after a signal.
Fairness ==
    /\ WF_vars(MainStep /\ UNCHANGED httpVars)
    /\ WF_vars(Update /\ signalled /\ UNCHANGED httpVars)
    /\ WF_vars(Httpd) /\ WF_vars(StopAll)
    /\ WF_vars((Exit \/ Return) /\ HttpdExit)
    /\ WF_vars(Serve) /\ SF_vars(Accept /\ UNCHANGED startVars)
    /\ \A c \in Polite : WF_vars(SendMore(c) /\ UNCHANGED startVars)
                      /\ WF_vars(Read(c) /\ UNCHANGED startVars)

Spec == Init /\ [][Next]_vars /\ Fairness

-----------------------------------------------------------------------------

\* A client in the backlog is answered in full and its connection closed,
\* unless it hangs up or the program ends, provided that no client that sends
\* nothing or reads nothing holds the only thread for ever: the server waits
\* for each of them without a limit (httpd.c:689, httpd.c:757).
ClientsAnswered ==
    []<>~Held => \A c \in Polite :
        (net[c].at = "queued") ~> (net[c].at \in {"closed", "reset"} \/ net[c].gone)

\* A signal ends the program, whatever the threads are doing: nothing waits for
\* a collection, nor for the server and its client (main.c:144-149).
SignalEnds == signalled ~> Ended

=============================================================================
