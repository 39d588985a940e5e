----------------------------- MODULE SourceText -----------------------------
(***************************************************************************)
(* The text under a plot: the last value, or both of a dual plot, as the   *)
(* source's get_stats finds them in the context that its collector is      *)
(* storing to, with no lock between the two threads.  Each source stores   *)
(* in an order of its own, and a count tells whether there is anything to  *)
(* show.  Minima, maxima and averages, which no plot shows, are left out,  *)
(* and so are collections that fail, which store nothing.  The values of   *)
(* the n-th collection are the number n.                                   *)
(***************************************************************************)
EXTENDS DataSource

CONSTANT MaxCollections  \* bound on the collections that give a value

ASSUME TextAssumption == MaxCollections \in Nat

\* The variables of DataSource:
\*   system  "text"
\*   ctx     source; the fields last, secondary, count and, of ping, jitter_count
\*   pc      the drawing thread: "rest", or the field that it reads next
\*   wait    todo: the fields the collector has yet to store; text: what the
\*           drawing thread has read
\*   sample  the text that was drawn last: nothing if the count was 0; and from and
\*           to, the collections that had ended when it began to read, and that
\*           had begun when it ended
\*   world   begun, done: the collections that have begun to store, and that have ended

\* The clock has a module of its own, ClockSource.
DualSources == {"ping", "cpu", "snmp", "if_thr"}
RateSources == {"snmp", "if_thr"}
TextSources == DualSources \union {"tcp", "shell", "memory", "loadavg"}

NoText == [nothing |-> TRUE, last |-> 0, secondary |-> 0, from |-> 0, to |-> 0]

\* memory_init, loadavg_init and those of the other sources.
TextInit ==
    /\ system = "text"
    /\ \E name \in TextSources :
         ctx = [source |-> name, last |-> 0, secondary |-> 0, count |-> 0, jitter_count |-> 0]
    /\ pc = "rest" /\ wait = [todo |-> <<>>, text |-> NoText] /\ sample = NoText
    /\ world = [begun |-> 0, done |-> 0]

-----------------------------------------------------------------------------
(* The collector thread                                                    *)

\* Mutant: it has been counted before it is there.
SingleStoresCountFirst == <<"count", "last">>

\* memory_collect, loadavg_collect, and the end of tcp_collect and shell_collect.
SingleStores == <<"last", "count">>

\* There is a jitter from the second trip on, and a count of its own for it.
PingStores(n) == <<"last", "count">> \o IF n = 1 THEN <<>> ELSE <<"secondary", "jitter_count">>

CpuStores == <<"last", "secondary", "count">>

\* The first collection, whose rates are 0, is not counted.
RateStores(n) == (IF n = 1 THEN <<>> ELSE <<"count">>) \o <<"last", "secondary">>

Stores(n) == CASE ctx.source = "ping"         -> PingStores(n)
               [] ctx.source = "cpu"          -> CpuStores
               [] ctx.source \in RateSources  -> RateStores(n)
               [] OTHER                       -> SingleStores

CollectGood ==
    /\ wait.todo = <<>> /\ world.begun < MaxCollections
    /\ wait' = [wait EXCEPT !.todo = Stores(world.begun + 1)]
    /\ world' = [world EXCEPT !.begun = @ + 1]
    /\ UNCHANGED <<system, ctx, pc, sample>>

StoreField ==
    /\ wait.todo # <<>>
    /\ LET field == Head(wait.todo)
       IN  ctx' = [ctx EXCEPT ![field] = IF field \in {"last", "secondary"} THEN world.begun ELSE @ + 1]
    /\ wait' = [wait EXCEPT !.todo = Tail(@)]
    /\ world' = IF wait'.todo = <<>> THEN [world EXCEPT !.done = world.begun] ELSE world
    /\ UNCHANGED <<system, pc, sample>>

-----------------------------------------------------------------------------
(* A drawing thread                                                        *)

TextEnds(text) ==
    /\ pc' = "rest" /\ sample' = [text EXCEPT !.to = world.begun]
    /\ wait' = [wait EXCEPT !.text = NoText]

TextReads(text, next) == pc' = next /\ wait' = [wait EXCEPT !.text = text] /\ UNCHANGED sample

\* get_stats begins with the count: there may be nothing to show.
ReadCount ==
    /\ pc = "rest"
    /\ LET text == [NoText EXCEPT !.from = world.done]
       IN  IF ctx.count = 0 THEN TextEnds(text)
           ELSE TextReads([text EXCEPT !.nothing = FALSE], "last")
    /\ UNCHANGED <<system, ctx, world>>

ReadLast ==
    /\ pc = "last"
    /\ LET text == [wait.text EXCEPT !.last = ctx.last]
       IN  IF ctx.source \notin DualSources THEN TextEnds(text)
           ELSE TextReads(text, IF ctx.source = "ping" THEN "jitter_count" ELSE "secondary")
    /\ UNCHANGED <<system, ctx, world>>

\* ping_get_stats: a jitter of 0 is shown before the first.
ReadJitterCount ==
    /\ pc = "jitter_count"
    /\ IF ctx.jitter_count = 0 THEN TextEnds(wait.text) ELSE TextReads(wait.text, "secondary")
    /\ UNCHANGED <<system, ctx, world>>

ReadSecondary ==
    /\ pc = "secondary"
    /\ TextEnds([wait.text EXCEPT !.secondary = ctx.secondary])
    /\ UNCHANGED <<system, ctx, world>>

TextNext == CollectGood \/ StoreField \/ ReadCount \/ ReadLast \/ ReadJitterCount \/ ReadSecondary

-----------------------------------------------------------------------------
(* Properties                                                              *)

\* What a text shows was measured, and lately: never what a field held before
\* the first collection, and nothing older than the collections that had ended
\* when get_stats was called.  The two halves may be of two collections, of those
\* that ended or began in the meantime.  Nothing is shown before the first end,
\* of a bandwidth the second, and no jitter before the second.
TextIsMeasured == system = "text" =>
    LET Lately(n) == n \in (IF sample.from = 0 THEN 1 ELSE sample.from)..sample.to
    IN  /\ sample.nothing => sample.from <= IF ctx.source \in RateSources THEN 1 ELSE 0
        /\ ~sample.nothing => Lately(sample.last)
        /\ ~sample.nothing /\ ctx.source \in DualSources =>
             \/ Lately(sample.secondary)
             \/ ctx.source = "ping" /\ sample.secondary = 0 /\ sample.from <= 1

=============================================================================
