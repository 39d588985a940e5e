----------------------------- MODULE TcpSource ------------------------------
(***************************************************************************)
(* The tcp data source (ds/tcp.c): how long a connection takes to be       *)
(* established, with a socket that does not block and select.  The name    *)
(* may fail to resolve, the host may refuse, stay silent or answer late,   *)
(* and the clock that times out and measures may be set.                   *)
(***************************************************************************)
EXTENDS DataSource

\* The variables of DataSource:
\*   system  "tcp"
\*   ctx     tcp_context_t: resolved, and the clock since last_retry
\*   pc      "rest", "connect" when a socket is open, "wait" in select, "ready" after it
\*   wait    the attempt: real time, the clock's time, and until select returns;
\*           has the clock been set meanwhile
\*   sample  what was pushed last, and the attempt it was measured with
\*   world   resolvable: would the name resolve now; fds: open sockets; answer:
\*           what the host made of the attempt; jumps, rest, untried, setback
\*           as in PingSource

NoAttempt    == [real |-> 0, clock |-> 0, left |-> 0, set |-> FALSE]
NoConnection == [value |-> -1, trip |-> 0, set |-> FALSE, accepted |-> FALSE]
fd           == "fd"

\* tcp_init, tcp_resolve.
TcpInit ==
    /\ system = "tcp"
    /\ \E up \in BOOLEAN :
         /\ ctx = [resolved |-> up, since |-> 0]
         /\ world = [resolvable |-> up, fds |-> {}, answer |-> "none", jumps |-> 0, rest |-> 0,
                     untried |-> 0, setback |-> 0]
    /\ pc = "rest" /\ wait = NoAttempt /\ sample = NoConnection

-----------------------------------------------------------------------------
(* The collector thread                                                    *)

Close(w) == [w EXCEPT !.fds = @ \ {fd}, !.answer = "none"]

\* A collection that ends without a value, with the socket closed.
GiveUp(w) ==
    /\ pc' = "rest" /\ wait' = NoAttempt /\ sample' = NoConnection
    /\ world' = Close(w)

\* tcp_collect, as far as the socket.  There may be none left.
Open(w) ==
    \/ pc' = "connect" /\ world' = [w EXCEPT !.fds = @ \union {fd}] /\ UNCHANGED <<wait, sample>>
    \/ GiveUp(w)

TcpCollect ==
    /\ pc = "rest"
    /\ LET w     == [world EXCEPT !.rest = 0]
           tried == [w EXCEPT !.untried = 0, !.setback = 0]
       IN  \/ ctx.resolved /\ Open(w) /\ UNCHANGED ctx
           \/ ~ctx.resolved /\ ~RetryDue(ctx.since) /\ GiveUp(w) /\ UNCHANGED ctx
           \/ /\ ~ctx.resolved /\ RetryDue(ctx.since)
              /\ ctx' = [resolved |-> world.resolvable, since |-> 0]
              /\ IF world.resolvable THEN Open(tried) ELSE GiveUp(tried)
    /\ UNCHANGED system

TcpElapsed == wait.clock % ClockWord

\* select is called for what is left of the timeout.
Select ==
    IF TcpElapsed >= TcpTimeout THEN GiveUp(world)
    ELSE /\ pc' = "wait" /\ wait' = [wait EXCEPT !.left = TcpTimeout - TcpElapsed]
         /\ UNCHANGED <<sample, world>>

\* connect: done at once, on its way, or refused at once.
Connect ==
    /\ pc = "connect"
    /\ \/ /\ pc' = "ready" /\ world' = [world EXCEPT !.answer = "accept"]
          /\ UNCHANGED <<wait, sample>>
       \/ Select
       \/ GiveUp(world)
    /\ UNCHANGED <<system, ctx>>

\* Mutant: a socket that is writable is taken for connected.
ConnectFailedIgnored(answer) == FALSE

\* The except set, or SO_ERROR once the socket is writable.
ConnectFailed(answer) == answer = "refuse"

\* select finds the socket ready.
Ready ==
    /\ pc = "wait" /\ world.answer # "none"
    /\ IF ConnectFailed(world.answer) THEN GiveUp(world)
       ELSE pc' = "ready" /\ UNCHANGED <<wait, sample, world>>
    /\ UNCHANGED <<system, ctx>>

\* A signal interrupts select, which is called again for what is left.
Interrupted ==
    /\ pc = "wait" /\ world.answer = "none" /\ wait.left > 0
    /\ Select
    /\ UNCHANGED <<system, ctx>>

TcpTimeOut ==
    /\ pc = "wait" /\ world.answer = "none" /\ wait.left = 0
    /\ GiveUp(world)
    /\ UNCHANGED <<system, ctx>>

\* The time is taken, and the socket closed.
Measure ==
    /\ pc = "ready"
    /\ sample' = [value |-> TcpElapsed, trip |-> wait.real, set |-> wait.set,
                  accepted |-> world.answer = "accept"]
    /\ pc' = "rest" /\ wait' = NoAttempt
    /\ world' = Close(world)
    /\ UNCHANGED <<system, ctx>>

-----------------------------------------------------------------------------
(* The network and the clock                                               *)

Answer(a) ==
    /\ pc = "wait" /\ world.answer = "none"
    /\ world' = [world EXCEPT !.answer = a]
    /\ UNCHANGED <<system, ctx, pc, wait, sample>>

TcpTick ==
    /\ \/ pc = "rest" /\ world.rest < Interval
       \/ pc = "wait" /\ wait.left > 0 /\ world.answer = "none"
    /\ wait' = IF pc = "rest" THEN wait
               ELSE [wait EXCEPT !.real = @ + 1, !.clock = @ + 1, !.left = @ - 1]
    /\ ctx' = IF ctx.resolved THEN ctx ELSE [ctx EXCEPT !.since = @ + 1]
    /\ world' = [world EXCEPT !.rest = IF pc = "rest" THEN @ + 1 ELSE 0,
                              !.untried = IF ctx.resolved THEN 0 ELSE @ + 1]
    /\ UNCHANGED <<system, pc, sample>>

TcpSetClock(j) ==
    /\ world.jumps < MaxJumps
    /\ wait' = IF pc = "rest" THEN wait ELSE [wait EXCEPT !.clock = @ + j, !.set = TRUE]
    /\ ctx' = IF ctx.resolved THEN ctx ELSE [ctx EXCEPT !.since = @ + j]
    /\ world' = [world EXCEPT !.jumps = @ + 1,
                              !.setback = IF ~ctx.resolved /\ j < 0 THEN @ - j ELSE @]
    /\ UNCHANGED <<system, pc, sample>>

TcpReachable ==
    /\ world' = [world EXCEPT !.resolvable = ~@]
    /\ UNCHANGED <<system, ctx, pc, wait, sample>>

TcpNext == \/ TcpCollect \/ Connect \/ Ready \/ Interrupted \/ TcpTimeOut \/ Measure
           \/ \E a \in {"accept", "refuse"} : Answer(a)
           \/ TcpTick \/ TcpReachable
           \/ \E j \in Jumps : TcpSetClock(j)

-----------------------------------------------------------------------------
(* Properties                                                              *)

\* A collection leaves no socket open, on any of its paths, and reports a time
\* only of a connection that the host accepted: its real time, unless the
\* clock was set meanwhile.
ConnectIsTrue == system = "tcp" =>
    /\ pc = "rest" => world.fds = {}
    /\ sample.value >= 0 =>
         /\ sample.accepted
         /\ sample.set \/ (sample.value = sample.trip /\ sample.value <= TcpTimeout)

=============================================================================
