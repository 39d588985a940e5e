------------------------------ MODULE Startup ------------------------------
(***************************************************************************)
(* The life of the program: what main acquires, the sources and buffers of *)
(* data_collector_create, the threads of data_collector_start, the ways    *)
(* out of each of these when something cannot be had, the loop, and the    *)
(* end.  Nobody joins the threads: they run until the process is gone,     *)
(* and use what main may have freed by then.                               *)
(*                                                                         *)
(* An object is <<kind, plot>>, with 0 for what there is one of.  The two  *)
(* strings of a source are one object, as are the collector and its array  *)
(* of sources.                                                             *)
(***************************************************************************)
EXTENDS Integers, Sequences

CONSTANT MaxPlots   \* bound on the plots of a configuration

ASSUME StartupAssumption == MaxPlots \in Nat

\* What main acquires, in this order; the last five in plot_system_create.
Resources == <<"os", "graphics", "config", "system", "plots", "window", "renderer", "font">>

The(kind) == <<kind, 0>>

VARIABLES
    config,  \* of config_t: plot_count, and http_enabled with -w
    main,     \* main's step, the resource, source or thread it is at, has a start failed
    signalled, \* running = 0
    heap,     \* the objects that there are
    source,   \* datasource_create: "missing" is NULL; "dual" has two values
    thread,   \* the thread of each source
    misused,  \* objects that were freed though they were not there
    touched   \* objects that a thread used though they had been freed

startVars == <<config, main, signalled, heap, source, thread, misused, touched>>

Plots == 1..config.plots

StartInit ==
    /\ config \in [plots : 0..MaxPlots, http : BOOLEAN]
    /\ main = [at |-> "acquire", i |-> 1, failed |-> FALSE]
    /\ signalled = FALSE
    /\ heap = {} /\ misused = {} /\ touched = {}
    /\ source = [i \in Plots |-> "none"]
    /\ thread = [i \in Plots |-> "none"]

Ended == main.at \in {"returned", "exited"}

GoTo(step) == main' = [main EXCEPT !.at = step, !.i = 1]
Fail(step) == main' = [main EXCEPT !.at = step, !.failed = TRUE]

\* free: first one set of objects, then another.
FreeOf(have, first, then) ==
    /\ heap' = have \ (first \union then)
    /\ misused' = misused \union (first \ have) \union (then \ (have \ first))

-----------------------------------------------------------------------------
(* Creation                                                                *)

Acquire ==
    /\ main.at = "acquire"
    /\ \/ /\ heap' = heap \union {The(Resources[main.i])}
          /\ IF main.i < Len(Resources)
             THEN main' = [main EXCEPT !.i = main.i + 1]
             ELSE GoTo("collector")
       \/ Fail("unwind") /\ UNCHANGED heap
    /\ UNCHANGED <<config, signalled, source, thread, misused, touched>>

CreateCollector ==
    /\ main.at = "collector"
    /\ \/ GoTo("source") /\ heap' = heap \union {The("collector")}
       \/ Fail("unwind") /\ UNCHANGED heap
    /\ UNCHANGED <<config, signalled, source, thread, misused, touched>>

\* Mutant: the sources up to this one.
EarlierAndThis(kinds) == kinds \X (1..main.i)

\* The sources created before this one.
Earlier(kinds) == kinds \X (1..(main.i - 1))

Seconds(those) == {o \in those : source[o[2]] = "dual"}

\* One of the strings cannot be had: the earlier buffers stay.
NamesFail ==
    /\ \E left \in SUBSET {<<"names", main.i>>} :
         FreeOf(heap \union left, Earlier({"names"}), {The("collector")})
    /\ Fail("unwind") /\ UNCHANGED source

BufferFails ==
    /\ \E made \in SUBSET {<<"datasource", main.i>>} :
         FreeOf(heap \union {<<"names", main.i>>} \union made,
                Earlier({"names", "buffer"}), {The("collector")})
    /\ Fail("unwind") /\ UNCHANGED source

SecondFails ==
    /\ FreeOf(heap \union ({"names", "datasource", "buffer"} \X {main.i}),
              {<<"buffer", main.i>>},
              Earlier({"names", "buffer"}) \union Seconds(Earlier({"second"}))
                \union {The("collector")})
    /\ Fail("unwind") /\ UNCHANGED source

CreateOne ==
    /\ \E s \in {"missing", "single", "dual"} :
         /\ source' = [source EXCEPT ![main.i] = s]
         /\ heap' = heap \union
              ((CASE s = "missing" -> {"names", "buffer"}
                  [] s = "single"  -> {"names", "buffer", "datasource"}
                  [] s = "dual"    -> {"names", "buffer", "datasource", "second"}) \X {main.i})
    /\ main' = [main EXCEPT !.i = main.i + 1]
    /\ UNCHANGED misused

\* The loop of data_collector_create, then plot_system_connect_data_buffers.
CreateSource ==
    /\ main.at = "source"
    /\ \/ main.i \in Plots /\ (NamesFail \/ BufferFails \/ SecondFails \/ CreateOne)
       \/ main.i \notin Plots /\ GoTo("start") /\ UNCHANGED <<heap, source, misused>>
    /\ UNCHANGED <<config, signalled, thread, touched>>

-----------------------------------------------------------------------------
(* Threads                                                                 *)

\* The loop of data_collector_start.
StartThread ==
    /\ main.at = "start"
    /\ IF main.i \in Plots
       THEN \/ /\ thread' = [thread EXCEPT ![main.i] = "begun"]
               /\ main' = [main EXCEPT !.i = main.i + 1]
            \/ Fail("destroy") /\ UNCHANGED thread
       ELSE GoTo(IF config.http THEN "http" ELSE "loop") /\ UNCHANGED thread
    /\ UNCHANGED <<config, signalled, heap, source, misused, touched>>

\* What the thread of source i works with.
Needs(i) ==
    {The("collector"), The("os"), <<"buffer", i>>}
      \union (IF source[i] = "missing" THEN {} ELSE {<<"datasource", i>>})
      \union (IF source[i] = "dual" THEN {<<"second", i>>} ELSE {})

\* The thread reads its source and makes a timer, or ends if it gets none.
ThreadBegins(i) ==
    /\ ~Ended /\ thread[i] = "begun"
    /\ \E t \in {"runs", "gone"} : thread' = [thread EXCEPT ![i] = t]
    /\ touched' = touched \union ({The("collector")} \ heap)
    /\ UNCHANGED <<config, main, signalled, heap, source, misused>>

\* A collection and its pushes.
Collect(i) ==
    /\ ~Ended /\ thread[i] = "runs"
    /\ touched' = touched \union (Needs(i) \ heap)
    /\ UNCHANGED <<config, main, signalled, heap, source, thread, misused>>

-----------------------------------------------------------------------------
(* The loop and the end                                                    *)

\* httpd_start: a socket, a port or a thread may not be to be had.
StartHttp(started) ==
    /\ main.at = "http"
    /\ IF started THEN GoTo("loop") ELSE Fail("destroy")
    /\ UNCHANGED <<config, signalled, heap, source, thread, misused, touched>>

\* signal_handler.
Signal ==
    /\ ~Ended /\ ~signalled /\ signalled' = TRUE
    /\ UNCHANGED <<config, main, heap, source, thread, misused, touched>>

\* plot_system_update goes on, or returns 0: exit(0).
Update ==
    /\ main.at = "loop"
    /\ IF signalled THEN GoTo("stop") ELSE GoTo("exited")
    /\ UNCHANGED <<config, signalled, heap, source, thread, misused, touched>>

\* httpd_stop, graphics_cleanup, os_cleanup.
Stop ==
    /\ main.at = "stop" /\ GoTo("stopped")
    /\ heap' = heap \ {The("graphics"), The("os")}
    /\ UNCHANGED <<config, signalled, source, thread, misused, touched>>

Exit ==
    /\ main.at = "stopped" /\ GoTo("exited")
    /\ UNCHANGED <<config, signalled, heap, source, thread, misused, touched>>

\* data_collector_destroy, with the threads that were started still running.
Destroy ==
    /\ main.at = "destroy"
    /\ FreeOf(heap, ({"names", "buffer"} \X Plots) \union Seconds({"second"} \X Plots)
                      \union {o \in {"datasource"} \X Plots : source[o[2]] # "missing"},
              {The("collector")})
    /\ main' = [main EXCEPT !.at = "unwind"]
    /\ UNCHANGED <<config, signalled, source, thread, touched>>

\* The end of plot_system_create or _destroy, config_destroy, graphics_cleanup,
\* os_cleanup, for as much as there is.
Unwind ==
    /\ main.at = "unwind"
    /\ heap' = {o \in heap : \A k \in 1..Len(Resources) : o # The(Resources[k])}
    /\ main' = [main EXCEPT !.at = "unwound"]
    /\ UNCHANGED <<config, signalled, source, thread, misused, touched>>

Return ==
    /\ main.at = "unwound" /\ main' = [main EXCEPT !.at = "returned"]
    /\ UNCHANGED <<config, signalled, heap, source, thread, misused, touched>>

ThreadStep == \E i \in Plots : ThreadBegins(i) \/ Collect(i)

\* Steps of main that the http server does not see.
MainStep == \/ Acquire \/ CreateCollector \/ CreateSource \/ StartThread
            \/ Destroy \/ Unwind

-----------------------------------------------------------------------------
(* Properties                                                              *)

\* Nothing is freed twice, or without having been allocated, on any way out of a
\* start; and no thread uses what is freed, except while main gives up a start
\* in which a later thread could not be created (main.c:108, main.c:120), and
\* except for what os_cleanup closes at the end (main.c:147).  The loop starts
\* only with every thread started, and with all that drawing and collecting
\* need; and a start that fails releases all that main had acquired, and the
\* collector: sources, names and buffers may be left.
MemoryOfThreads ==
    /\ misused = {}
    /\ \/ touched = {} \/ main.failed
       \/ touched = {The("os")} /\ main.at \in {"stopped", "exited"}
    /\ main.at = "loop" =>
         /\ \A i \in Plots : thread[i] # "none" /\ Needs(i) \subseteq heap
         /\ \A k \in 1..Len(Resources) : The(Resources[k]) \in heap
    /\ main.at = "returned" =>
         heap \subseteq ({"names", "datasource", "buffer", "second"} \X Plots)

=============================================================================
