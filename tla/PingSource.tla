----------------------------- MODULE PingSource -----------------------------
(***************************************************************************)
(* The ping data source (ds/ping.c) on the echo functions of the operating *)
(* system: os/unix-ping.c and os/icmp_ping.c, which wait on a raw or a     *)
(* datagram socket for a reply that matches, and os/win32.c, where the     *)
(* system does the matching.                                               *)
(*                                                                         *)
(* Several ping plots may watch the same target, each with a collector     *)
(* thread and a context of its own.  Replies may be lost, overtake each    *)
(* other and come after the wait for them has ended; names may fail to     *)
(* resolve; the clock that times out and measures may be set.              *)
(*                                                                         *)
(* A thread that can go on does so before time passes.  An unused field    *)
(* has a fixed value.                                                      *)
(***************************************************************************)
EXTENDS DataSource

CONSTANTS PingPlots,    \* the ping plots of one target
          PingSystems,  \* "unix-ping", "icmp_ping", "IcmpSendEcho"
          MaxTrip,      \* ticks after which a reply counts as lost
          MaxEchoes     \* bound on the echoes of a plot

ASSUME PingAssumption ==
    /\ PingSystems \subseteq {"unix-ping", "icmp_ping", "IcmpSendEcho"}
    /\ {MaxTrip, MaxEchoes} \subseteq Nat

\* The variables of DataSource:
\*   system  whose os_ping_send
\*   ctx     ping_context_t: is there a ping_ctx, and its next echo number;
\*           the clock since last_dns_retry; permanent_error
\*   pc      ctx's thread: "rest" until the timer ends, or "wait" in select
\*   wait    the wait: real time, the clock's time, and until select returns; has
\*           the clock been set meanwhile
\*   sample  what was pushed last, and the reply it was measured with
\*   world   raw: are the sockets raw; creatable: would os_ping_create succeed
\*           now; net: echoes on their way; inbox: replies in each socket;
\*           jumps: how often the clock was set; late: echoes of each plot
\*           that were not sent or answered in time; rest: time since the last
\*           collection; untried, setback: real time since the last attempt
\*           to create, and by how much the clock was set back since

NoPing   == [real |-> 0, clock |-> 0, left |-> 0, set |-> FALSE]
NoTrip == [value |-> -1, lag |-> 0, by |-> "none", trip |-> 0, set |-> FALSE]

\* ping_init, with a first attempt to create the context.
PingInit ==
    /\ system \in PingSystems
    /\ \E raw, up \in BOOLEAN :
         /\ raw \/ system # "unix-ping"
         /\ LET Zeros == [p \in PingPlots |-> 0]
            IN  world = [raw |-> raw, creatable |-> up, net |-> {}, jumps |-> 0,
                         inbox |-> [p \in PingPlots |-> <<>>], late |-> Zeros, rest |-> Zeros,
                         untried |-> Zeros, setback |-> Zeros]
         /\ \E bad \in [PingPlots -> BOOLEAN] :
              ctx = [p \in PingPlots |-> [permanent_error |-> bad[p], open |-> up /\ ~bad[p],
                                      seq |-> 0, since |-> 0]]
    /\ pc     = [p \in PingPlots |-> "rest"]
    /\ wait   = [p \in PingPlots |-> NoPing]
    /\ sample = [p \in PingPlots |-> NoTrip]

Unresolved(p) == ~ctx[p].open /\ ~ctx[p].permanent_error

-----------------------------------------------------------------------------
(* The collector threads                                                   *)

PingFails(p) == sample' = [sample EXCEPT ![p] = NoTrip]

\* os_ping_send: an echo leaves, and the wait for its reply begins.
Send(p, w) ==
    /\ ctx[p].seq < MaxEchoes
    /\ world' = [w EXCEPT !.net = @ \union {[by |-> p, seq |-> ctx[p].seq, age |-> 0]}]
    /\ ctx'   = [ctx EXCEPT ![p].seq = @ + 1, ![p].open = TRUE, ![p].since = 0]
    /\ pc'    = [pc EXCEPT ![p] = "wait"]
    /\ wait'  = [wait EXCEPT ![p].left = PingTimeout]
    /\ UNCHANGED sample

\* sendto fails: no route, for example.
SendFails(p, w) ==
    /\ PingFails(p)
    /\ world' = [w EXCEPT !.late[p] = @ + 1]
    /\ ctx' = [ctx EXCEPT ![p].seq = @ + 1, ![p].open = TRUE, ![p].since = 0]
    /\ ctx[p].seq < MaxEchoes
    /\ UNCHANGED <<pc, wait>>

\* ping_collect: the context is created if it is time to try again.
PingCollect(p) ==
    /\ pc[p] = "rest"
    /\ LET w == [world EXCEPT !.rest[p] = 0]
           tried == [w EXCEPT !.untried[p] = 0, !.setback[p] = 0]
       IN  \/ ctx[p].open /\ (Send(p, w) \/ SendFails(p, w))
           \/ /\ Unresolved(p) /\ RetryDue(ctx[p].since) /\ world.creatable
              /\ (Send(p, tried) \/ SendFails(p, tried))
           \/ /\ Unresolved(p) /\ RetryDue(ctx[p].since) /\ ~world.creatable
              /\ ctx' = [ctx EXCEPT ![p].since = 0]
              /\ world' = tried
              /\ PingFails(p) /\ UNCHANGED <<pc, wait>>
           \/ /\ Unresolved(p) => ~RetryDue(ctx[p].since)
              /\ ~ctx[p].open
              /\ world' = w
              /\ PingFails(p) /\ UNCHANGED <<ctx, pc, wait>>
    /\ UNCHANGED system

\* The number of the echo that p waits for.
Current(p) == ctx[p].seq - 1

PingElapsed(p) == wait[p].clock % ClockWord

PingRests(p) ==
    /\ pc' = [pc EXCEPT ![p] = "rest"]
    /\ wait' = [wait EXCEPT ![p] = NoPing]

\* The wait ends with the reply r, and a value.
Answered(p, r, value) ==
    /\ sample' = [sample EXCEPT ![p] =
                     [value |-> value, lag |-> Current(p) - r.seq, by |-> r.by,
                      trip  |-> r.trip, set |-> wait[p].set]]
    /\ PingRests(p)
    /\ world' = [world EXCEPT !.inbox[p] = Tail(@)]

\* A packet is dropped, and the wait goes on with what is left of it.
Dropped(p) ==
    \/ /\ PingElapsed(p) < PingTimeout
       /\ wait' = [wait EXCEPT ![p].left = PingTimeout - PingElapsed(p)]
       /\ world' = [world EXCEPT !.inbox[p] = Tail(@)]
       /\ UNCHANGED <<pc, sample>>
    \/ /\ PingElapsed(p) >= PingTimeout
       /\ PingFails(p) /\ PingRests(p)
       /\ world' = [world EXCEPT !.inbox[p] = Tail(@), !.late[p] = @ + 1]

\* os_ping_send of unix-ping.c: a reply with the context's identifier, measured
\* by the clock, whatever its number.
UnixReceive(p) ==
    /\ system = "unix-ping" /\ pc[p] = "wait" /\ world.inbox[p] # <<>>
    /\ LET r == Head(world.inbox[p])
       IN  IF r.by = p THEN Answered(p, r, PingElapsed(p)) ELSE Dropped(p)
    /\ UNCHANGED <<system, ctx>>

\* Mutant: any echo reply from the target will do.
IcmpAnswersAny(p, r) == TRUE

IcmpAnswers(p, r) == r.seq = Current(p)

\* os_ping_send of icmp_ping.c: a reply with the number of the echo, whatever
\* its identifier.
IcmpReceive(p) ==
    /\ system = "icmp_ping" /\ pc[p] = "wait" /\ world.inbox[p] # <<>>
    /\ LET r == Head(world.inbox[p])
       IN  IF IcmpAnswers(p, r) THEN Answered(p, r, PingElapsed(p)) ELSE Dropped(p)
    /\ UNCHANGED <<system, ctx>>

\* os_ping_send of win32.c: IcmpSendEcho finds the reply to this echo, and says
\* how long it took.
Win32Receive(p) ==
    /\ system = "IcmpSendEcho" /\ pc[p] = "wait" /\ world.inbox[p] # <<>>
    /\ LET r == Head(world.inbox[p]) IN Answered(p, r, r.trip)
    /\ UNCHANGED <<system, ctx>>

\* select returns without a packet.
PingTimeOut(p) ==
    /\ pc[p] = "wait" /\ wait[p].left = 0 /\ world.inbox[p] = <<>>
    /\ PingFails(p) /\ PingRests(p)
    /\ world' = [world EXCEPT !.late[p] = @ + 1]
    /\ UNCHANGED <<system, ctx>>

-----------------------------------------------------------------------------
(* The network and the clock                                               *)

\* A raw socket gets every reply that arrives at the machine, a datagram
\* socket its own; win32 drops what nobody waits for.
Hears(p, r) ==
    /\ ctx[p].open
    /\ world.raw \/ r.by = p
    /\ system = "IcmpSendEcho" => pc[p] = "wait" /\ r.by = p /\ r.seq = Current(p)

Arrive(r) ==
    LET reply == [by |-> r.by, seq |-> r.seq, trip |-> r.age]
    IN  /\ world' = [world EXCEPT !.net = @ \ {r},
                       !.inbox = [p \in PingPlots |-> IF Hears(p, r) THEN Append(@[p], reply)
                                                                 ELSE @[p]]]
        /\ UNCHANGED <<system, ctx, pc, wait, sample>>

PingTick ==
    /\ \A p \in PingPlots :
         IF pc[p] = "rest" THEN world.rest[p] < Interval
         ELSE wait[p].left > 0 /\ world.inbox[p] = <<>>
    /\ wait' = [p \in PingPlots |->
                  IF pc[p] = "rest" THEN NoPing
                  ELSE [wait[p] EXCEPT !.real = @ + 1, !.clock = @ + 1, !.left = @ - 1]]
    /\ ctx' = [p \in PingPlots |->
                 IF Unresolved(p) THEN [ctx[p] EXCEPT !.since = @ + 1] ELSE ctx[p]]
    /\ world' = [world EXCEPT
                   !.net     = {[r EXCEPT !.age = @ + 1] : r \in {q \in @ : q.age < MaxTrip}},
                   !.rest    = [p \in PingPlots |-> IF pc[p] = "rest" THEN @[p] + 1 ELSE 0],
                   !.untried = [p \in PingPlots |-> IF Unresolved(p) THEN @[p] + 1 ELSE 0]]
    /\ UNCHANGED <<system, pc, sample>>

PingSetClock(j) ==
    /\ world.jumps < MaxJumps
    /\ wait' = [p \in PingPlots |->
                  IF pc[p] = "wait" THEN [wait[p] EXCEPT !.clock = @ + j, !.set = TRUE]
                                    ELSE wait[p]]
    /\ ctx' = [p \in PingPlots |->
                 IF Unresolved(p) THEN [ctx[p] EXCEPT !.since = @ + j] ELSE ctx[p]]
    /\ world' = [world EXCEPT !.jumps = @ + 1,
                   !.setback = [p \in PingPlots |->
                                  IF Unresolved(p) /\ j < 0 THEN @[p] - j ELSE @[p]]]
    /\ UNCHANGED <<system, pc, sample>>

PingReachable ==
    /\ world' = [world EXCEPT !.creatable = ~@]
    /\ UNCHANGED <<system, ctx, pc, wait, sample>>

PingNext == \/ \E p \in PingPlots :
                   \/ PingCollect(p) \/ PingTimeOut(p)
                   \/ UnixReceive(p) \/ IcmpReceive(p) \/ Win32Receive(p)
            \/ \E r \in world.net : Arrive(r)
            \/ PingTick \/ PingReachable
            \/ \E j \in Jumps : PingSetClock(j)

-----------------------------------------------------------------------------
(* Properties                                                              *)

\* What a successful collection reports is the trip of a reply to this echo.
\* Only three things falsify it.  With unix-ping.c a reply that came too late
\* answers a later echo, so that the replies may lag from the first echo on
\* that was missed (by more than were missed, if they overtake each other);
\* with icmp_ping.c and raw sockets the reply may be to the echo of the same
\* number of another plot; and the clock may be set during the wait.
TripIsOfThisEcho == system \in PingSystems =>
    \A p \in PingPlots : LET s == sample[p] IN
        s.value >= 0 =>
            /\ s.by = p \/ (system = "icmp_ping" /\ world.raw)
            /\ s.lag = 0 \/ (system = "unix-ping" /\ s.lag > 0 /\ world.late[p] > 0)
            /\ s.by = p /\ s.lag = 0 /\ ~s.set => s.value = s.trip
            /\ s.value <= PingTimeout \/ s.set

=============================================================================
