---------------------------- MODULE SourceProofs ----------------------------
(***************************************************************************)
(* Proofs about the data sources: for any timeouts and retry times, any    *)
(* number of plots, and any jumps of the clock.                            *)
(***************************************************************************)
EXTENDS Sources, SequenceTheorems, TLAPS

(***************************************************************************)
(* The source stays the same one, so that a step of the program is a step  *)
(* of that source.                                                         *)
(***************************************************************************)
LEMMA Alone ==
    /\ Init => /\ system \in PingSystems => PingInit
               /\ system = "tcp" => TcpInit
               /\ system \in {"snmp", "if_thr"} => RateInit
               /\ system = "shell" => ShellInit
               /\ system \in CpuPorts => CpuInit
               /\ system = "clock" => ClockInit
               /\ system = "text" => TextInit
               /\ system = "snmp client" => SnmpClientInit
    /\ [Next]_source => /\ system \in PingSystems => [PingNext]_source
                        /\ system = "tcp" => [TcpNext]_source
                        /\ system \in {"snmp", "if_thr"} => [RateNext]_source
                        /\ system = "shell" => [ShellNext]_source
                        /\ system \in CpuPorts => [CpuNext]_source
                        /\ system = "clock" => [ClockNext]_source
                        /\ system = "text" => [TextNext]_source
                        /\ system = "snmp client" => [SnmpClientNext]_source
<1>1. ASSUME Init
      PROVE  /\ system \in PingSystems => PingInit
             /\ system = "tcp" => TcpInit
             /\ system \in {"snmp", "if_thr"} => RateInit
             /\ system = "shell" => ShellInit
             /\ system \in CpuPorts => CpuInit
             /\ system = "clock" => ClockInit
             /\ system = "text" => TextInit
             /\ system = "snmp client" => SnmpClientInit
  <2>1. /\ PingInit => system \in {"unix-ping", "icmp_ping", "IcmpSendEcho"}
        /\ TcpInit => system = "tcp"
        /\ RateInit => system \in {"snmp", "if_thr"}
        /\ SnmpClientInit => system = "snmp client"
        /\ ShellInit => system = "shell"
        /\ CpuInit => system \in CpuPorts
        /\ ClockInit => system = "clock"
        /\ TextInit => system = "text"
    BY PingAssumption
       DEF PingInit, TcpInit, RateInit, SnmpClientInit, ShellInit, CpuInit, ClockInit, TextInit
  <2> QED
    BY <1>1, <2>1, PingAssumption, CpuAssumption DEF Init
<1>2. ASSUME [Next]_source
      PROVE  /\ system \in PingSystems => [PingNext]_source
             /\ system = "tcp" => [TcpNext]_source
             /\ system \in {"snmp", "if_thr"} => [RateNext]_source
             /\ system = "shell" => [ShellNext]_source
             /\ system \in CpuPorts => [CpuNext]_source
             /\ system = "clock" => [ClockNext]_source
             /\ system = "text" => [TextNext]_source
             /\ system = "snmp client" => [SnmpClientNext]_source
  BY <1>2, PingAssumption, CpuAssumption DEF Next
<1> QED
  BY <1>1, <1>2

LEMMA SystemStays == [Next]_source => system' = system
<1> SUFFICES ASSUME [Next]_source PROVE system' = system
  OBVIOUS
<1>1. CASE PingNext
  BY <1>1 DEF PingNext, PingCollect, PingTimeOut, UnixReceive, IcmpReceive, Win32Receive,
              Arrive, PingTick, PingReachable, PingSetClock
<1>2. CASE TcpNext
  BY <1>2 DEF TcpNext, TcpCollect, Connect, Ready, Interrupted, TcpTimeOut, Measure, Answer,
              TcpTick, TcpReachable, TcpSetClock
<1>3. CASE RateNext
  BY <1>3 DEF RateNext, RateBegin, SnmpGet, IfThrGet, SnmpFinish, IfThrFinish, RateFinish,
              Traffic, Restart, RateTick, RateSetClock
<1>4. CASE ShellNext
  BY <1>4 DEF ShellNext, ShellCollect, ReadLine, Drained, AtEnd, Reopen, Settle, WriteLine,
              WritePart, CloseOutput, CommandEnds
<1>5. CASE CpuNext
  BY <1>5 DEF CpuNext, ReadTicks, CannotRead, Compute, StoreIdle, StoreTotal, CpuTick,
              ProcessEnds
<1>6. CASE SnmpClientNext
  BY <1>6 DEF SnmpClientNext, AskFails, SnmpAsk, SnmpReceive, SnmpTimeOut, AgentAnswers,
              SnmpLoss
<1>7. CASE ClockNext
  BY <1>7 DEF ClockNext, ClockCollect, ClockText, ClockTick
<1>8. CASE TextNext
  BY <1>8 DEF TextNext, CollectGood, StoreField, ReadCount, ReadLast, ReadJitterCount,
              ReadSecondary
<1>9. CASE UNCHANGED source
  BY <1>9 DEF source
<1> QED
  BY <1>1, <1>2, <1>3, <1>4, <1>5, <1>6, <1>7, <1>8, <1>9 DEF Next

-----------------------------------------------------------------------------
(* The tcp source                                                          *)

\* A name that is not resolved is only looked at while the thread rests; how
\* long no attempt was made is what the clock says of it, but for what the
\* clock was set back by.
TcpRetries ==
    /\ world.rest <= Interval
    /\ ~ctx.resolved => /\ pc = "rest"
                        /\ world.untried <= ctx.since + world.setback
                        /\ world.untried <= Retry + world.setback + world.rest

\* An attempt has a socket, and as long as the clock is not set it waits no
\* longer than the timeout.
TcpAttempt ==
    /\ pc = "rest" => world.fds = {} /\ wait = NoAttempt
    /\ pc = "connect" => wait.real = 0
    /\ pc = "ready" => world.answer = "accept"
    /\ ~wait.set => /\ wait.clock = wait.real
                    /\ wait.real <= TcpTimeout
                    /\ pc = "wait" => wait.real + wait.left = TcpTimeout

TcpWorld == [resolvable : BOOLEAN, fds : SUBSET {fd}, answer : {"none", "accept", "refuse"},
             jumps : Nat, rest : Nat, untried : Nat, setback : Nat]

TcpTypes ==
    /\ pc \in {"rest", "connect", "wait", "ready"}
    /\ ctx \in [resolved : BOOLEAN, since : Int]
    /\ wait \in [real : Nat, clock : Int, left : Nat, set : BOOLEAN]
    /\ world \in TcpWorld

TcpInv == TcpTypes /\ TcpRetries /\ TcpAttempt /\ ConnectIsTrue

LEMMA TcpStarts == TcpInit => TcpInv
BY ClockAssumption
   DEF TcpInit, TcpInv, TcpTypes, TcpWorld, TcpRetries, TcpAttempt, ConnectIsTrue,
       NoAttempt, NoConnection

LEMMA NoWord == \A n \in Nat : n < ClockWord => n % ClockWord = n
BY ClockAssumption, SMT

LEMMA ElapsedNat == ASSUME TcpTypes PROVE TcpElapsed \in Nat
<1>1. wait.clock \in Int
  BY DEF TcpTypes
<1> QED
  BY <1>1, ClockAssumption DEF TcpElapsed

\* While the clock is not set, it tells how long the attempt has taken.
LEMMA ElapsedTrue == ASSUME TcpTypes, TcpAttempt, ~wait.set PROVE TcpElapsed = wait.real
<1>1. /\ wait.real \in Nat /\ wait.clock = wait.real /\ wait.real < ClockWord
  BY ClockAssumption DEF TcpTypes, TcpAttempt
<1> QED
  BY <1>1, NoWord DEF TcpElapsed

\* Where a collection is given up: no socket is left, and no value comes of it.
LEMMA GaveUp ==
    ASSUME NEW w \in TcpWorld, GiveUp(w)
    PROVE  /\ pc' = "rest" /\ wait' = NoAttempt /\ sample'.value = -1
           /\ world' \in TcpWorld /\ world'.fds = {}
           /\ world'.rest = w.rest /\ world'.untried = w.untried
           /\ world'.setback = w.setback
BY DEF GiveUp, Close, NoConnection, TcpWorld

LEMMA Opened ==
    ASSUME NEW w \in TcpWorld, Open(w)
    PROVE  /\ \/ pc' = "rest" /\ wait' = NoAttempt /\ world'.fds = {} /\ sample'.value = -1
              \/ pc' = "connect" /\ UNCHANGED <<wait, sample>>
           /\ world' \in TcpWorld
           /\ world'.rest = w.rest /\ world'.untried = w.untried
           /\ world'.setback = w.setback
<1>1. CASE GiveUp(w)
  BY <1>1, GaveUp
<1>2. CASE /\ pc' = "connect" /\ world' = [w EXCEPT !.fds = @ \union {fd}]
           /\ UNCHANGED <<wait, sample>>
  BY <1>2 DEF TcpWorld
<1> QED
  BY <1>1, <1>2 DEF Open

\* ConnectIsTrue, of a sample.
TrueOf(s) == s.value >= 0 => /\ s.accepted
                             /\ s.set \/ (s.value = s.trip /\ s.value <= TcpTimeout)

LEMMA InvTcpCollect == TcpInv /\ system = "tcp" /\ TcpCollect => TcpInv'
<1> SUFFICES ASSUME TcpInv, system = "tcp", TcpCollect PROVE TcpInv'
  OBVIOUS
<1> DEFINE w     == [world EXCEPT !.rest = 0]
           tried == [w EXCEPT !.untried = 0, !.setback = 0]
<1>1. /\ w \in TcpWorld /\ w.rest = 0 /\ w.untried = world.untried
      /\ w.setback = world.setback /\ w.fds = world.fds
  BY DEF TcpInv, TcpTypes, TcpWorld
<1>2. tried \in TcpWorld /\ tried.rest = 0 /\ tried.untried = 0 /\ tried.setback = 0
  <2> HIDE DEF w
  <2> QED
    BY <1>1 DEF TcpWorld
<1>3. /\ pc = "rest" /\ wait = NoAttempt /\ world.fds = {} /\ wait.real = 0 /\ wait.set = FALSE
      /\ wait.clock = 0 /\ wait \in [real : Nat, clock : Int, left : Nat, set : BOOLEAN]
      /\ ctx \in [resolved : BOOLEAN, since : Int] /\ world \in TcpWorld
  BY DEF TcpInv, TcpTypes, TcpAttempt, TcpCollect, NoAttempt
<1>4. \/ ctx.resolved /\ Open(w) /\ ctx' = ctx
      \/ ~ctx.resolved /\ ~RetryDue(ctx.since) /\ GiveUp(w) /\ ctx' = ctx
      \/ /\ ~ctx.resolved /\ RetryDue(ctx.since)
         /\ ctx' = [resolved |-> world.resolvable, since |-> 0]
         /\ \/ world.resolvable /\ Open(tried)
            \/ ~world.resolvable /\ GiveUp(tried)
  BY DEF TcpCollect
<1> HIDE DEF w, tried
<1>5. /\ world' \in TcpWorld /\ world'.rest = 0
      /\ \/ pc' = "rest" /\ wait' = NoAttempt /\ world'.fds = {} /\ sample'.value = -1
         \/ pc' = "connect" /\ wait' = wait /\ sample' = sample
  BY <1>1, <1>2, <1>4, Opened, GaveUp
<1>6. TcpTypes'
  <2>1. ctx' \in [resolved : BOOLEAN, since : Int]
    BY <1>3, <1>4 DEF TcpWorld
  <2> QED
    BY <2>1, <1>3, <1>5 DEF TcpTypes
<1>7. TcpAttempt'
  BY <1>3, <1>5, ClockAssumption DEF TcpAttempt, NoAttempt
<1>8. TcpRetries'
  <2>1. CASE ctx.resolved
    BY <2>1, <1>4, <1>5, ClockAssumption DEF TcpRetries
  <2>2. CASE ~ctx.resolved /\ ~RetryDue(ctx.since)
    <3>1. /\ GiveUp(w) /\ ctx' = ctx
      BY <2>2, <1>4
    <3>2. pc' = "rest" /\ world'.untried = world.untried /\ world'.setback = world.setback
      BY <3>1, <1>1, GaveUp
    <3> QED
      BY <2>2, <3>1, <3>2, <1>3, <1>5, ClockAssumption
         DEF TcpInv, TcpRetries, RetryDue, TcpWorld
  <2>3. CASE ~ctx.resolved /\ RetryDue(ctx.since)
    <3>1. ~ctx'.resolved => GiveUp(tried)
      BY <2>3, <1>4
    <3>2. ~ctx'.resolved => pc' = "rest" /\ world'.untried = 0 /\ world'.setback = 0
      BY <3>1, <1>2, GaveUp
    <3>3. ctx'.since = 0
      BY <2>3, <1>4
    <3> QED
      BY <3>2, <3>3, <1>5, ClockAssumption DEF TcpRetries
  <2> QED
    BY <2>1, <2>2, <2>3
<1>9. ConnectIsTrue'
  <2>1. TrueOf(sample) /\ system' = "tcp"
    BY DEF TcpInv, ConnectIsTrue, TrueOf, TcpCollect
  <2>2. sample'.value = -1 \/ sample' = sample
    BY <1>5
  <2>3. TrueOf(sample)'
    BY <2>1, <2>2 DEF TrueOf
  <2> QED
    BY <2>3, <1>7 DEF ConnectIsTrue, TrueOf, TcpAttempt
<1> QED
  BY <1>6, <1>7, <1>8, <1>9 DEF TcpInv

\* A collection that ends without a value preserves all of it.
LEMMA InvGaveUp == TcpInv /\ system = "tcp" /\ GiveUp(world) /\ UNCHANGED <<system, ctx>> => TcpInv'
<1> SUFFICES ASSUME TcpInv, system = "tcp", GiveUp(world), UNCHANGED <<system, ctx>> PROVE TcpInv'
  OBVIOUS
<1>1. /\ pc' = "rest" /\ wait' = NoAttempt /\ sample'.value = -1
      /\ world' \in TcpWorld /\ world'.fds = {}
      /\ world'.rest = world.rest /\ world'.untried = world.untried
      /\ world'.setback = world.setback
  BY GaveUp DEF TcpInv, TcpTypes
<1>2. TcpTypes' /\ TcpAttempt'
  BY <1>1, ClockAssumption DEF TcpInv, TcpTypes, TcpAttempt, NoAttempt
<1>3. TcpRetries'
  BY <1>1 DEF TcpInv, TcpRetries
<1>4. ConnectIsTrue'
  BY <1>1 DEF ConnectIsTrue
<1> QED
  BY <1>2, <1>3, <1>4 DEF TcpInv

LEMMA InvSelect ==
    ASSUME TcpInv, system = "tcp", pc \in {"connect", "wait"}, Select, UNCHANGED <<system, ctx>>
    PROVE  TcpInv'
<1>1. CASE TcpElapsed >= TcpTimeout
  BY <1>1, InvGaveUp DEF Select
<1>2. CASE ~(TcpElapsed >= TcpTimeout)
  <2>1. /\ pc' = "wait" /\ wait' = [wait EXCEPT !.left = TcpTimeout - TcpElapsed]
        /\ UNCHANGED <<sample, world>>
    BY <1>2 DEF Select
  <2>2. TcpElapsed \in Nat /\ TcpTimeout \in Nat
    BY ElapsedNat, ClockAssumption DEF TcpInv
  <2>3. TcpTypes'
    BY <1>2, <2>1, <2>2 DEF TcpInv, TcpTypes
  <2>4. ~wait.set => TcpElapsed = wait.real
    BY ElapsedTrue DEF TcpInv
  <2>5. TcpAttempt'
    BY <1>2, <2>1, <2>2, <2>4 DEF TcpInv, TcpTypes, TcpAttempt
  <2>6. TcpRetries'
    BY <2>1 DEF TcpInv, TcpRetries
  <2>7. ConnectIsTrue'
    BY <2>1 DEF TcpInv, ConnectIsTrue
  <2> QED
    BY <2>3, <2>5, <2>6, <2>7 DEF TcpInv
<1> QED
  BY <1>1, <1>2

LEMMA InvConnect == TcpInv /\ system = "tcp" /\ Connect => TcpInv'
<1> SUFFICES ASSUME TcpInv, system = "tcp", Connect PROVE TcpInv'
  OBVIOUS
<1>1. CASE Select \/ GiveUp(world)
  BY <1>1, InvSelect, InvGaveUp DEF Connect
<1>2. CASE /\ pc' = "ready" /\ world' = [world EXCEPT !.answer = "accept"]
           /\ UNCHANGED <<wait, sample>>
  <2>1. TcpTypes'
    BY <1>2 DEF Connect, TcpInv, TcpTypes, TcpWorld
  <2>2. TcpAttempt'
    BY <1>2 DEF Connect, TcpInv, TcpTypes, TcpWorld, TcpAttempt
  <2>3. TcpRetries'
    BY <1>2 DEF Connect, TcpInv, TcpTypes, TcpWorld, TcpRetries
  <2>4. ConnectIsTrue'
    BY <1>2 DEF Connect, TcpInv, ConnectIsTrue
  <2> QED
    BY <2>1, <2>2, <2>3, <2>4 DEF TcpInv
<1> QED
  BY <1>1, <1>2 DEF Connect

LEMMA InvReady == TcpInv /\ system = "tcp" /\ Ready => TcpInv'
<1> SUFFICES ASSUME TcpInv, system = "tcp", Ready PROVE TcpInv'
  OBVIOUS
<1>1. CASE GiveUp(world)
  BY <1>1, InvGaveUp DEF Ready
<1>2. CASE world.answer # "refuse" /\ pc' = "ready" /\ UNCHANGED <<wait, sample, world>>
  <2>1. TcpTypes' /\ TcpAttempt'
    BY <1>2 DEF Ready, TcpInv, TcpTypes, TcpWorld, TcpAttempt
  <2>2. TcpRetries' /\ ConnectIsTrue'
    BY <1>2 DEF Ready, TcpInv, TcpRetries, ConnectIsTrue
  <2> QED
    BY <2>1, <2>2 DEF TcpInv
<1> QED
  BY <1>1, <1>2 DEF Ready, ConnectFailed

LEMMA InvMeasure == TcpInv /\ system = "tcp" /\ Measure => TcpInv'
<1> SUFFICES ASSUME TcpInv, system = "tcp", Measure PROVE TcpInv'
  OBVIOUS
<1>1. /\ pc' = "rest" /\ wait' = NoAttempt /\ world' \in TcpWorld /\ world'.fds = {}
      /\ world'.rest = world.rest /\ world'.untried = world.untried
      /\ world'.setback = world.setback
  BY DEF Measure, Close, TcpInv, TcpTypes, TcpWorld
<1>2. TcpTypes' /\ TcpAttempt'
  BY <1>1, ClockAssumption DEF Measure, TcpInv, TcpTypes, TcpAttempt, NoAttempt
<1>3. TcpRetries'
  BY <1>1 DEF Measure, TcpInv, TcpRetries
<1>4. ConnectIsTrue'
  <2>1. /\ sample'.value = TcpElapsed /\ sample'.trip = wait.real /\ sample'.set = wait.set
        /\ sample'.accepted = (world.answer = "accept")
    BY DEF Measure
  <2>2. world.answer = "accept" /\ (~wait.set => TcpElapsed = wait.real /\ wait.real <= TcpTimeout)
    BY ElapsedTrue DEF Measure, TcpInv, TcpAttempt
  <2> QED
    BY <1>1, <2>1, <2>2 DEF ConnectIsTrue
<1> QED
  BY <1>2, <1>3, <1>4 DEF TcpInv

LEMMA InvTcpTick == TcpInv /\ system = "tcp" /\ TcpTick => TcpInv'
<1> SUFFICES ASSUME TcpInv, system = "tcp", TcpTick PROVE TcpInv'
  OBVIOUS
<1>1. /\ world' \in TcpWorld /\ world'.fds = world.fds /\ world'.answer = world.answer
      /\ world'.setback = world.setback
      /\ world'.rest = IF pc = "rest" THEN world.rest + 1 ELSE 0
      /\ world'.untried = IF ctx.resolved THEN 0 ELSE world.untried + 1
  <2> DEFINE rest    == IF pc = "rest" THEN world.rest + 1 ELSE 0
             untried == IF ctx.resolved THEN 0 ELSE world.untried + 1
  <2>1. rest \in Nat /\ untried \in Nat /\ world \in TcpWorld
    BY DEF TcpInv, TcpTypes, TcpWorld
  <2>2. world' = [world EXCEPT !.rest = rest, !.untried = untried]
    BY DEF TcpTick
  <2> HIDE DEF rest, untried
  <2>3. /\ world' \in TcpWorld /\ world'.fds = world.fds /\ world'.answer = world.answer
        /\ world'.setback = world.setback /\ world'.rest = rest /\ world'.untried = untried
    BY <2>1, <2>2 DEF TcpWorld
  <2> QED
    BY <2>3 DEF rest, untried
<1>2. /\ ctx' \in [resolved : BOOLEAN, since : Int] /\ ctx'.resolved = ctx.resolved
      /\ ~ctx.resolved => ctx'.since = ctx.since + 1
  BY DEF TcpTick, TcpInv, TcpTypes
<1>3. CASE pc = "rest"
  <2>1. wait' = wait /\ pc' = pc
    BY <1>3 DEF TcpTick
  <2>2. TcpTypes' /\ TcpAttempt'
    BY <1>1, <1>2, <1>3, <2>1 DEF TcpInv, TcpTypes, TcpAttempt
  <2>3. TcpRetries'
    BY <1>1, <1>2, <1>3, <2>1, ClockAssumption DEF TcpTick, TcpInv, TcpTypes, TcpWorld, TcpRetries
  <2>4. ConnectIsTrue'
    BY <1>1, <2>1 DEF TcpTick, TcpInv, ConnectIsTrue
  <2> QED
    BY <2>2, <2>3, <2>4 DEF TcpInv
<1>4. CASE pc = "wait" /\ wait.left > 0
  <2>1. /\ wait' \in [real : Nat, clock : Int, left : Nat, set : BOOLEAN] /\ pc' = pc
        /\ wait'.set = wait.set /\ wait'.real = wait.real + 1
        /\ wait'.clock = wait.clock + 1 /\ wait'.left = wait.left - 1
    <3> DEFINE real == wait.real + 1
               clock == wait.clock + 1
               h == [wait EXCEPT !.real = real, !.clock = clock]
    <3>0. /\ real \in Nat /\ clock \in Int
          /\ wait \in [real : Nat, clock : Int, left : Nat, set : BOOLEAN]
      BY DEF TcpInv, TcpTypes
    <3> HIDE DEF real, clock
    <3>1. /\ h \in [real : Nat, clock : Int, left : Nat, set : BOOLEAN]
          /\ h.set = wait.set /\ h.real = real
          /\ h.clock = clock /\ h.left = wait.left
      BY <3>0
    <3>2. wait' = [h EXCEPT !.left = @ - 1] /\ pc' = pc
      BY <1>4 DEF TcpTick, real, clock
    <3> HIDE DEF h
    <3> QED
      BY <1>4, <3>1, <3>2 DEF real, clock
  <2>2. TcpTypes'
    BY <1>1, <1>2, <2>1 DEF TcpInv, TcpTypes
  <2>3. TcpAttempt'
    BY <1>1, <1>4, <2>1, ClockAssumption DEF TcpInv, TcpTypes, TcpAttempt
  <2>4. TcpRetries'
    BY <1>1, <1>2, <1>4, <2>1, ClockAssumption DEF TcpInv, TcpTypes, TcpWorld, TcpRetries
  <2>5. ConnectIsTrue'
    BY <1>4, <2>1 DEF TcpTick, TcpInv, ConnectIsTrue
  <2> QED
    BY <2>2, <2>3, <2>4, <2>5 DEF TcpInv
<1> QED
  BY <1>3, <1>4 DEF TcpTick

LEMMA InvTcpSetClock ==
    ASSUME TcpInv, system = "tcp", NEW j \in Jumps, TcpSetClock(j) PROVE TcpInv'
<1>0. j \in Int
  BY ClockAssumption
<1>1. /\ world' \in TcpWorld /\ world'.fds = world.fds /\ world'.answer = world.answer
      /\ world'.rest = world.rest /\ world'.untried = world.untried
      /\ world'.setback = IF ~ctx.resolved /\ j < 0 THEN world.setback - j ELSE world.setback
  <2> DEFINE setback == IF ~ctx.resolved /\ j < 0 THEN world.setback - j ELSE world.setback
  <2>1. setback \in Nat /\ world \in TcpWorld
    BY <1>0 DEF TcpInv, TcpTypes, TcpWorld
  <2> DEFINE jumps == world.jumps + 1
  <2>2. world' = [world EXCEPT !.jumps = jumps, !.setback = setback] /\ jumps \in Nat
    BY <2>1 DEF TcpSetClock, TcpWorld
  <2> HIDE DEF setback, jumps
  <2>3. /\ world' \in TcpWorld /\ world'.fds = world.fds /\ world'.answer = world.answer
        /\ world'.rest = world.rest /\ world'.untried = world.untried /\ world'.setback = setback
    BY <2>1, <2>2 DEF TcpWorld
  <2> QED
    BY <2>3 DEF setback
<1>2. /\ ctx' \in [resolved : BOOLEAN, since : Int] /\ ctx'.resolved = ctx.resolved
      /\ ~ctx.resolved => ctx'.since = ctx.since + j
  BY <1>0 DEF TcpSetClock, TcpInv, TcpTypes
<1>3. pc' = pc /\ sample' = sample /\ system' = system
  BY DEF TcpSetClock
<1>4. /\ wait' \in [real : Nat, clock : Int, left : Nat, set : BOOLEAN]
      /\ wait'.real = wait.real /\ wait'.left = wait.left
      /\ pc = "rest" => wait' = wait
      /\ ~wait'.set => wait' = wait
  <2>1. wait \in [real : Nat, clock : Int, left : Nat, set : BOOLEAN]
    BY DEF TcpInv, TcpTypes
  <2>2. wait' = wait \/ (pc # "rest" /\ wait' = [wait EXCEPT !.clock = @ + j, !.set = TRUE])
    BY DEF TcpSetClock
  <2>3. CASE pc # "rest" /\ wait' = [wait EXCEPT !.clock = @ + j, !.set = TRUE]
    <3>1. wait'.set = TRUE /\ wait'.real = wait.real /\ wait'.left = wait.left
      BY <2>1, <2>3
    <3>2. wait' \in [real : Nat, clock : Int, left : Nat, set : BOOLEAN]
      <4> DEFINE clock == wait.clock + j
      <4>1. clock \in Int /\ wait' = [wait EXCEPT !.clock = clock, !.set = TRUE]
        BY <1>0, <2>1, <2>3
      <4> HIDE DEF clock
      <4> QED
        BY <2>1, <4>1
    <3> QED
      BY <2>3, <3>1, <3>2
  <2> QED
    BY <2>1, <2>2, <2>3
<1>5. TcpTypes' /\ TcpAttempt'
  BY <1>1, <1>2, <1>3, <1>4 DEF TcpInv, TcpTypes, TcpAttempt
<1>6. TcpRetries'
  BY <1>0, <1>1, <1>2, <1>3, ClockAssumption DEF TcpInv, TcpTypes, TcpWorld, TcpRetries
<1>7. ConnectIsTrue'
  BY <1>1, <1>3 DEF TcpInv, ConnectIsTrue
<1> QED
  BY <1>5, <1>6, <1>7 DEF TcpInv

\* The rest of the world: the host's answer, and whether the name is known.
LEMMA InvTcpWorld ==
    ASSUME TcpInv, system = "tcp",
           TcpReachable \/ \E a \in {"accept", "refuse"} : Answer(a)
    PROVE  TcpInv'
<1>1. /\ world' \in TcpWorld /\ world'.fds = world.fds /\ world'.rest = world.rest
      /\ world'.untried = world.untried /\ world'.setback = world.setback
      /\ world'.answer = world.answer \/ pc = "wait"
      /\ UNCHANGED <<system, ctx, pc, wait, sample>>
  BY ZenonT(60) DEF TcpReachable, Answer, TcpInv, TcpTypes, TcpWorld
<1> QED
  BY <1>1 DEF TcpInv, TcpTypes, TcpAttempt, TcpRetries, ConnectIsTrue

LEMMA TcpSteps == TcpInv /\ system = "tcp" /\ [TcpNext]_source => TcpInv'
<1> SUFFICES ASSUME TcpInv, system = "tcp", [TcpNext]_source PROVE TcpInv'
  OBVIOUS
<1>1. CASE Interrupted \/ TcpTimeOut
  BY <1>1, InvSelect, InvGaveUp DEF Interrupted, TcpTimeOut
<1>2. CASE UNCHANGED source
  BY <1>2 DEF source, TcpInv, TcpTypes, TcpAttempt, TcpRetries, ConnectIsTrue
<1> QED
  BY <1>1, <1>2, InvTcpCollect, InvConnect, InvReady, InvMeasure, InvTcpTick, InvTcpSetClock,
     InvTcpWorld DEF TcpNext

\* The invariant holds of the program while its source is this one.
LEMMA TcpHolds == Spec => [](system = "tcp" => TcpInv)
<1>1. Init => (system = "tcp" => TcpInv)
  BY Alone, TcpStarts
<1>2. (system = "tcp" => TcpInv) /\ [Next]_source => (system = "tcp" => TcpInv)'
  BY Alone, SystemStays, TcpSteps
<1> QED
  BY <1>1, <1>2, PTL DEF Spec

\* A collection of the tcp source leaves no socket open, on any of its paths
\* through resolving, connect, select and its interruptions, and it reports a
\* time only of a connection that the host accepted, which is the time that it
\* took unless the clock was set meanwhile (tcp_collect of ds/tcp.c).
THEOREM ConnectAlways == Spec => []ConnectIsTrue
<1>1. (system = "tcp" => TcpInv) => ConnectIsTrue
  BY DEF TcpInv, ConnectIsTrue
<1> QED
  BY <1>1, TcpHolds, PTL

-----------------------------------------------------------------------------
(* The bandwidth sources                                                   *)

\* A number is its quotient and its remainder.
LEMMA Division ==
    ASSUME NEW n \in Int, n > 0, NEW a \in Int, NEW q \in Int, q = a \div n
    PROVE  a = n * q + (a % n)
OBVIOUS

\* The difference of two counters is what passed between them, if that is less
\* than what wraps.
LEMMA DifferenceTrue ==
    ASSUME NEW a \in Int, NEW b \in Int, 0 <= a - b, a - b < CounterWord
    PROVE  Difference(a % CounterWord, b % CounterWord) = a - b
<1> DEFINE W == CounterWord
<1>1. W \in Int /\ W > 0
  BY RateAssumption
<1>2. PICK q \in Int, r \in Int : q = a \div W /\ r = a % W
  BY <1>1
<1>3. PICK p \in Int, s \in Int : p = b \div W /\ s = b % W
  BY <1>1
<1>4. a = W * q + r /\ b = W * p + s
  BY <1>1, <1>2, <1>3, Division
<1> DEFINE k == p - q
           x == a - b
<1>5. r - s = x + W * k /\ k \in Int /\ x \in Int /\ 0 <= x /\ x < W
  BY <1>1, <1>4
<1> HIDE DEF k, x
<1>6. (x + W * k) % W = x
  BY <1>1, <1>5
<1> QED
  BY <1>2, <1>3, <1>5, <1>6 DEF Difference, x

Dirs == [in : Int, out : Int]

RateContext == [dual : BOOLEAN, first_sample : BOOLEAN, prev : Dirs, since : Int, last : Dirs,
                combined : Int]

RateWorld == [in : Int, out : Int, base : Dirs, counted : Dirs, from : Dirs, offset : Dirs,
              restarted : BOOLEAN, jumps : Nat]

RateTypes ==
    /\ pc \in {"rest", "in", "out", "rates"}
    /\ ctx \in RateContext
    /\ wait \in [time_diff : Int, in : Int, out : Int, read : Dirs]
    /\ world \in RateWorld

\* The counters that a collection has read.
HasRead == CASE pc = "out"   -> {"in"}
             [] pc = "rates" -> Directions
             [] OTHER        -> {}

\* The baseline is what the counters were when its bytes had passed, unless
\* the agent has started over, and what a collection has read is what they
\* were at some time since.
RateInv ==
    /\ RateTypes
    /\ \A d \in Directions :
         /\ world.base[d] <= world[d]
         /\ world.counted[d] = world.base[d] - world.from[d]
         /\ ~ctx.first_sample /\ ~world.restarted =>
              ctx.prev[d] = (world.base[d] - world.offset[d]) % CounterWord
    /\ \A d \in HasRead :
         /\ wait[d] = (wait.read[d] - world.offset[d]) % CounterWord
         /\ world.base[d] <= wait.read[d] /\ wait.read[d] <= world[d]

LEMMA RateStarts == RateInit => RateInv
BY DEF RateInit, RateInv, RateTypes, RateContext, RateWorld, HasRead, Directions, Dirs, Both,
       NoReading

LEMMA CounterInt == RateTypes => \A d \in Directions : Counter(d) \in Int
BY RateAssumption DEF RateTypes, RateWorld, Counter, Directions, Dirs

\* Reading leaves the other counter as it was.
LEMMA CountersRead ==
    ASSUME RateTypes, NEW ds \in SUBSET Directions, NEW w, w = ReadCounters(ds)
    PROVE  /\ w \in [time_diff : Int, in : Int, out : Int, read : Dirs]
           /\ \A d \in ds : w[d] = Counter(d) /\ w.read[d] = world[d]
           /\ \A d \in Directions \ ds : w[d] = wait[d] /\ w.read[d] = wait.read[d]
<1> DEFINE i == IF "in" \in ds THEN Counter("in") ELSE wait.in
           o == IF "out" \in ds THEN Counter("out") ELSE wait.out
           r == [d \in Directions |-> IF d \in ds THEN world[d] ELSE wait.read[d]]
<1>1. i \in Int /\ o \in Int
  BY CounterInt DEF RateTypes, Directions
<1>2. r \in Dirs /\ \A d \in Directions : r[d] = IF d \in ds THEN world[d] ELSE wait.read[d]
  BY DEF RateTypes, RateWorld, Dirs, Directions
<1>3. w = [wait EXCEPT !.in = i, !.out = o, !.read = r]
  BY DEF ReadCounters
<1>4. wait \in [time_diff : Int, in : Int, out : Int, read : Dirs]
  BY DEF RateTypes
<1>5. /\ w \in [time_diff : Int, in : Int, out : Int, read : Dirs]
      /\ w.in = i /\ w.out = o /\ w.read = r
  <2> HIDE DEF i, o, r
  <2> DEFINE h == [wait EXCEPT !.in = i, !.out = o]
  <2>1. h \in [time_diff : Int, in : Int, out : Int, read : Dirs] /\ h.in = i /\ h.out = o
    BY <1>1, <1>4
  <2>2. w = [h EXCEPT !.read = r]
    BY <1>3
  <2> HIDE DEF h
  <2> QED
    BY <1>2, <2>1, <2>2
<1> QED
  BY <1>2, <1>5 DEF Directions

LEMMA InvRateBegin == RateInv /\ RateBegin => RateInv'
<1> SUFFICES ASSUME RateInv, RateBegin PROVE RateInv'
  OBVIOUS
<1>1. SecondsSince(ctx.since) \in Int
  BY RateAssumption DEF RateInv, RateTypes, RateContext, SecondsSince
<1>2. RateTypes'
  BY <1>1 DEF RateBegin, RateInv, RateTypes, NoReading, Both, Dirs
<1>3. HasRead' = {}
  BY DEF RateBegin, HasRead
<1> QED
  BY <1>2, <1>3 DEF RateBegin, RateInv

LEMMA InvRateFails ==
    RateInv /\ RateFails(ctx) /\ UNCHANGED <<system, world>> => RateInv'
<1> SUFFICES ASSUME RateInv, RateFails(ctx), UNCHANGED <<system, world>> PROVE RateInv'
  OBVIOUS
<1>1. RateTypes'
  BY DEF RateFails, RateInv, RateTypes, NoReading, Both, Dirs
<1>2. HasRead' = {}
  BY DEF RateFails, HasRead
<1> QED
  BY <1>1, <1>2 DEF RateFails, RateInv

\* A counter or both are read.
LEMMA InvRateReads ==
    ASSUME RateInv, NEW ds \in SUBSET Directions, wait' = ReadCounters(ds),
           HasRead' = HasRead \union ds, pc' \in {"out", "rates"},
           UNCHANGED <<ctx, sample, system, world>>
    PROVE  RateInv'
<1>1. RateTypes'
  BY CountersRead DEF RateInv, RateTypes
<1>2. ASSUME NEW d \in HasRead'
      PROVE  /\ wait'[d] = (wait'.read[d] - world.offset[d]) % CounterWord
             /\ world.base[d] <= wait'.read[d] /\ wait'.read[d] <= world[d]
  <2>0. d \in Directions
    BY <1>2 DEF HasRead, Directions
  <2>1. CASE d \in ds
    <3>1. wait'[d] = Counter(d) /\ wait'.read[d] = world[d]
      BY <2>1, CountersRead DEF RateInv
    <3>2. world.base[d] <= world[d] /\ world[d] <= world[d]
      BY <2>0 DEF RateInv, RateTypes, RateWorld, Directions
    <3> QED
      BY <3>1, <3>2 DEF Counter
  <2>2. CASE d \notin ds
    <3>1. wait'[d] = wait[d] /\ wait'.read[d] = wait.read[d] /\ d \in HasRead
      BY <2>0, <2>2, <1>2, CountersRead DEF RateInv
    <3> QED
      BY <3>1 DEF RateInv
  <2> QED
    BY <2>1, <2>2
<1> QED
  BY <1>1, <1>2 DEF RateInv

LEMMA InvRateGet == RateInv /\ (SnmpGet \/ IfThrGet) => RateInv'
<1> SUFFICES ASSUME RateInv, SnmpGet \/ IfThrGet PROVE RateInv'
  OBVIOUS
<1>1. CASE RateFails(ctx)
  BY <1>1, InvRateFails DEF SnmpGet, IfThrGet
<1>2. CASE /\ pc = "in" /\ pc' = "out" /\ wait' = ReadCounters({"in"})
           /\ UNCHANGED <<ctx, sample, system, world>>
  <2>1. HasRead' = HasRead \union {"in"}
    BY <1>2 DEF HasRead
  <2> QED
    BY <1>2, <2>1, InvRateReads DEF Directions
<1>3. CASE /\ pc = "out" /\ pc' = "rates" /\ wait' = ReadCounters({"out"})
           /\ UNCHANGED <<ctx, sample, system, world>>
  <2>1. HasRead' = HasRead \union {"out"}
    BY <1>3 DEF HasRead, Directions
  <2> QED
    BY <1>3, <2>1, InvRateReads DEF Directions
<1>4. CASE /\ pc = "in" /\ pc' = "rates" /\ wait' = ReadCounters(Directions)
           /\ UNCHANGED <<ctx, sample, system, world>>
  <2>1. HasRead' = HasRead \union Directions
    BY <1>4 DEF HasRead, Directions
  <2> QED
    BY <1>4, <2>1, InvRateReads DEF Directions
<1> QED
  BY <1>1, <1>2, <1>3, <1>4 DEF SnmpGet, IfThrGet, SnmpFails

\* What a baseline is set to, and what becomes of the bytes it stands for.
LEMMA Accounted ==
    ASSUME RateInv, pc = "rates", NEW c \in RateContext, NEW w, w = Account,
           c.prev = Both(wait.in, wait.out)
    PROVE  /\ w \in RateWorld
           /\ \A d \in Directions :
                /\ w.base[d] <= w[d]
                /\ w.counted[d] = w.base[d] - w.from[d]
                /\ c.prev[d] = (w.base[d] - w.offset[d]) % CounterWord
<1>1. PICK clear \in BOOLEAN :
           clear = (/\ ~ctx.first_sample /\ ~world.restarted
                    /\ \A d \in Directions : wait.read[d] - world.base[d] < CounterWord)
  OBVIOUS
<1> DEFINE from    == IF clear THEN world.from ELSE wait.read
           counted == [d \in Directions |->
                         IF clear THEN world.counted[d] + Difference(wait[d], ctx.prev[d]) ELSE 0]
<1>2. w = [world EXCEPT !.base = wait.read, !.restarted = FALSE, !.from = from, !.counted = counted]
  BY <1>1, Zenon DEF Account
<1>3. world \in RateWorld /\ wait.read \in Dirs
  BY DEF RateInv, RateTypes
<1>4. ASSUME NEW d \in Directions
      PROVE  /\ counted[d] \in Int
             /\ counted[d] = wait.read[d] - from[d]
  <2>1. /\ world.base[d] \in Int /\ wait.read[d] \in Int /\ world.offset[d] \in Int
        /\ world.counted[d] \in Int /\ world.from[d] \in Int
    BY DEF RateInv, RateTypes, RateWorld, Dirs, Directions
  <2>2. CASE clear
    <3>1. counted[d] = world.counted[d] + Difference(wait[d], ctx.prev[d]) /\ from = world.from
      BY <2>2
    <3>2. /\ wait[d] = (wait.read[d] - world.offset[d]) % CounterWord
          /\ ctx.prev[d] = (world.base[d] - world.offset[d]) % CounterWord
          /\ world.base[d] <= wait.read[d] /\ wait.read[d] - world.base[d] < CounterWord
          /\ world.counted[d] = world.base[d] - world.from[d]
      BY <1>1, <2>2 DEF RateInv, HasRead
    <3> HIDE DEF from, counted
    <3> DEFINE a == wait.read[d] - world.offset[d]
               b == world.base[d] - world.offset[d]
    <3>3. /\ a \in Int /\ b \in Int /\ 0 <= a - b /\ a - b < CounterWord
          /\ a - b = wait.read[d] - world.base[d]
      BY <2>1, <3>2, RateAssumption
    <3>4. wait[d] = a % CounterWord /\ ctx.prev[d] = b % CounterWord
      BY <3>2
    <3> HIDE DEF a, b
    <3>5. Difference(wait[d], ctx.prev[d]) = a - b
      BY <3>3, <3>4, DifferenceTrue
    <3> QED
      BY <2>1, <3>1, <3>2, <3>3, <3>5
  <2>3. CASE ~clear
    BY <2>1, <2>3
  <2> QED
    BY <2>2, <2>3
<1>5. from \in Dirs
  BY DEF RateInv, RateTypes, RateWorld
<1>6. counted \in Dirs
  <2>1. counted["in"] \in Int /\ counted["out"] \in Int
    BY <1>4 DEF Directions
  <2> QED
    BY <2>1 DEF Dirs, Directions
<1> HIDE DEF from, counted
<1> DEFINE h == [world EXCEPT !.base = wait.read, !.restarted = FALSE]
<1>7. /\ h \in RateWorld /\ h.base = wait.read /\ h.restarted = FALSE /\ h.in = world.in
      /\ h.out = world.out /\ h.offset = world.offset
  BY <1>3 DEF RateWorld
<1>8. w = [h EXCEPT !.from = from, !.counted = counted]
  BY <1>2
<1> HIDE DEF h
<1>9. /\ w \in RateWorld /\ w.base = wait.read /\ w.in = world.in /\ w.out = world.out
      /\ w.offset = world.offset /\ w.from = from /\ w.counted = counted
  BY <1>5, <1>6, <1>7, <1>8 DEF RateWorld
<1>10. ASSUME NEW d \in Directions
       PROVE  /\ w.base[d] <= w[d]
              /\ w.counted[d] = w.base[d] - w.from[d]
              /\ c.prev[d] = (w.base[d] - w.offset[d]) % CounterWord
  <2>1. w[d] = world[d] /\ c.prev[d] = wait[d]
    BY <1>9 DEF Both, Directions
  <2>2. /\ wait[d] = (wait.read[d] - world.offset[d]) % CounterWord
        /\ wait.read[d] <= world[d]
    BY DEF RateInv, HasRead
  <2> QED
    BY <1>4, <1>9, <2>1, <2>2
<1> QED
  BY <1>9, <1>10

LEMMA BaselineOf ==
    ASSUME RateTypes, NEW c, c = Baseline(ctx)
    PROVE  c \in RateContext /\ c.prev = Both(wait.in, wait.out) /\ c.first_sample = FALSE
<1> DEFINE prev  == Both(wait.in, wait.out)
           since == ctx.since - Second * wait.time_diff
<1>1. prev \in Dirs /\ since \in Int
  BY RateAssumption DEF RateTypes, RateContext, Dirs, Both
<1> DEFINE h == [ctx EXCEPT !.first_sample = FALSE, !.prev = prev]
<1>2. c = [h EXCEPT !.since = since]
  BY DEF Baseline
<1> HIDE DEF prev, since
<1>3. h \in RateContext /\ h.prev = prev /\ h.first_sample = FALSE
  BY <1>1 DEF RateTypes, RateContext
<1> HIDE DEF h
<1> QED
  BY <1>1, <1>2, <1>3 DEF RateContext, prev

LEMMA InvRateFinish == RateInv /\ RateFinish => RateInv'
<1> SUFFICES ASSUME RateInv, RateFinish PROVE RateInv'
  OBVIOUS
<1>1. HasRead' = {} /\ pc = "rates" /\ pc' = "rest"
  BY DEF RateFinish, HasRead
<1>2. wait' \in [time_diff : Int, in : Int, out : Int, read : Dirs]
  BY DEF RateFinish, NoReading, Both, Dirs
<1>3. CASE ~ctx.first_sample /\ wait.time_diff <= 0
  <2>1. ctx' = ctx /\ world' = world
    BY <1>3 DEF RateFinish, RateInv, RateTypes
  <2> QED
    BY <1>1, <1>2, <2>1 DEF RateInv, RateTypes
<1>4. CASE ctx.first_sample \/ wait.time_diff > 0
  <2> DEFINE c == Baseline(ctx)
  <2>1. c \in RateContext /\ c.prev = Both(wait.in, wait.out) /\ c.first_sample = FALSE
    BY BaselineOf DEF RateInv
  <2>2. \E last \in Dirs, combined \in Int : ctx' = [c EXCEPT !.last = last, !.combined = combined]
    <3>1. CASE ctx.first_sample
      <4>1. ctx' = [c EXCEPT !.last = Both(0, 0), !.combined = 0]
        BY <3>1 DEF RateFinish
      <4>2. Both(0, 0) \in Dirs /\ 0 \in Int
        BY DEF Both, Dirs
      <4> QED
        BY <4>1, <4>2, Zenon
    <3>2. CASE ~ctx.first_sample /\ wait.time_diff > 0
      <4> DEFINE i == Difference(wait.in, ctx.prev.in) \div wait.time_diff
                 o == Difference(wait.out, ctx.prev.out) \div wait.time_diff
      <4>1. ctx' = [c EXCEPT !.last = Both(i, o), !.combined = (i + o) % CounterWord]
        BY <3>2 DEF RateFinish, Rates, RateInv, RateTypes
      <4>2. i \in Int /\ o \in Int
        <5>1. /\ wait.in \in Int /\ wait.out \in Int /\ ctx.prev.in \in Int /\ ctx.prev.out \in Int
              /\ wait.time_diff \in Int
          BY DEF RateInv, RateTypes, RateContext, Dirs
        <5>2. Difference(wait.in, ctx.prev.in) \in Int /\ Difference(wait.out, ctx.prev.out) \in Int
          BY <5>1, RateAssumption DEF Difference
        <5> QED
          BY <3>2, <5>1, <5>2
      <4> HIDE DEF i, o
      <4>3. Both(i, o) \in Dirs /\ (i + o) % CounterWord \in Int
        BY <4>2, RateAssumption DEF Both, Dirs
      <4> QED
        BY <4>1, <4>3
    <3> QED
      BY <1>4, <3>1, <3>2
  <2> HIDE DEF c
  <2>3. /\ ctx' \in RateContext /\ ctx'.prev = Both(wait.in, wait.out)
        /\ ctx'.first_sample = FALSE
    BY <2>1, <2>2 DEF RateContext
  <2>4. world' = Account
    BY <1>4 DEF RateFinish
  <2>5. /\ world' \in RateWorld
        /\ \A d \in Directions :
             /\ world'.base[d] <= world'[d]
             /\ world'.counted[d] = world'.base[d] - world'.from[d]
             /\ ctx'.prev[d] = (world'.base[d] - world'.offset[d]) % CounterWord
    BY <1>1, <2>3, <2>4, Accounted
  <2> QED
    BY <1>1, <1>2, <2>3, <2>5 DEF RateInv, RateTypes
<1> QED
  BY <1>3, <1>4 DEF RateInv, RateTypes

LEMMA InvTraffic ==
    ASSUME RateInv, NEW e \in Directions, NEW b \in Bursts, Traffic(e, b)
    PROVE  RateInv'
<1>1. b \in Nat
  BY RateAssumption
<1>2. /\ world' \in RateWorld /\ world'.base = world.base /\ world'.counted = world.counted
      /\ world'.from = world.from /\ world'.offset = world.offset
      /\ world'.restarted = world.restarted
      /\ \A d \in Directions : world'[d] >= world[d] /\ world[d] \in Int /\ world'[d] \in Int
  BY <1>1 DEF Traffic, RateInv, RateTypes, RateWorld, Directions
<1>3. ASSUME NEW d \in Directions
      PROVE  world'.base[d] <= world'[d] /\ world.base[d] \in Int
  BY <1>2 DEF RateInv, RateTypes, RateWorld, Dirs, Directions
<1>4. UNCHANGED <<system, ctx, pc, wait, sample>> /\ HasRead' = HasRead
  BY DEF Traffic, HasRead
<1>5. ASSUME NEW d \in HasRead PROVE wait.read[d] <= world'[d]
  <2>1. d \in Directions
    BY DEF HasRead, Directions
  <2>2. wait.read[d] \in Int /\ wait.read[d] <= world[d]
    BY <2>1 DEF RateInv, RateTypes, Dirs, Directions
  <2> QED
    BY <1>2, <2>1, <2>2
<1> QED
  BY <1>2, <1>3, <1>4, <1>5 DEF RateInv, RateTypes

LEMMA InvRestart == RateInv /\ Restart => RateInv'
<1> SUFFICES ASSUME RateInv, Restart PROVE RateInv'
  OBVIOUS
<1>1. /\ world' \in RateWorld /\ world'.base = world.base /\ world'.counted = world.counted
      /\ world'.from = world.from /\ world'.restarted = TRUE
      /\ world'.in = world.in /\ world'.out = world.out
  BY DEF Restart, RateInv, RateTypes, RateWorld, Both, Dirs
<1>2. HasRead' = {} /\ UNCHANGED <<system, ctx, pc, wait, sample>>
  BY DEF Restart, HasRead
<1> QED
  BY <1>1, <1>2 DEF RateInv, RateTypes, Directions

LEMMA InvRateTime ==
    ASSUME RateInv, RateTick \/ \E j \in Jumps : RateSetClock(j) PROVE RateInv'
<1>1. PICK j \in Int : ctx' = [ctx EXCEPT !.since = @ + j]
  BY ClockAssumption DEF RateTick, RateSetClock
<1>2. ctx' \in RateContext /\ ctx'.first_sample = ctx.first_sample /\ ctx'.prev = ctx.prev
  BY <1>1 DEF RateInv, RateTypes, RateContext
<1>3. /\ world' \in RateWorld /\ world'.base = world.base /\ world'.counted = world.counted
      /\ world'.from = world.from /\ world'.offset = world.offset
      /\ world'.restarted = world.restarted /\ world'.in = world.in /\ world'.out = world.out
  BY DEF RateTick, RateSetClock, RateInv, RateTypes, RateWorld
<1>4. HasRead' = HasRead /\ HasRead \subseteq Directions /\ UNCHANGED <<pc, wait>>
  BY DEF RateTick, RateSetClock, HasRead, Directions
<1> QED
  BY <1>2, <1>3, <1>4 DEF RateInv, RateTypes, Directions

LEMMA RateSteps == RateInv /\ [RateNext]_source => RateInv'
<1> SUFFICES ASSUME RateInv, [RateNext]_source PROVE RateInv'
  OBVIOUS
<1>1. CASE UNCHANGED source
  BY <1>1 DEF source, RateInv, RateTypes, HasRead
<1> QED
  BY <1>1, InvRateBegin, InvRateGet, InvRateFinish, InvTraffic, InvRestart, InvRateTime
     DEF RateNext, SnmpFinish, IfThrFinish

LEMMA RateHolds == Spec => [](system \in {"snmp", "if_thr"} => RateInv)
<1>1. Init => (system \in {"snmp", "if_thr"} => RateInv)
  BY Alone, RateStarts
<1>2. /\ system \in {"snmp", "if_thr"} => RateInv
      /\ [Next]_source
      => (system \in {"snmp", "if_thr"} => RateInv)'
  BY Alone, SystemStays, RateSteps
<1> QED
  BY <1>1, <1>2, PTL DEF Spec

\* Every byte that passes through an interface enters exactly one rate, for
\* any traffic and any width of the counters: through wraps, requests of which
\* one fails, and collections between which the clock has not moved or was set
\* (snmp_collect of ds/snmp.c, if_thr_collect of ds/if_thr.c).
THEOREM EveryByteOnce == Spec => []BytesAccountedOnce
<1>1. (system \in {"snmp", "if_thr"} => RateInv) => BytesAccountedOnce
  BY DEF RateInv, BytesAccountedOnce
<1> QED
  BY <1>1, RateHolds, PTL

-----------------------------------------------------------------------------
(* The shell source                                                        *)

Line == [n : Nat, number : BOOLEAN]

\* The lines s are in the order in which they were written, after line a and
\* up to line b.
Ascending(s, a, b) ==
    \A i \in DOMAIN s : /\ a < s[i].n /\ s[i].n <= b
                        /\ \A j \in DOMAIN s : i < j => s[i].n < s[j].n

ShellWorld == [pipe : Seq(Line), part : BOOLEAN, command : {"running", "closed", "ended", "none"},
               written : Nat, runs : Nat, children : Int, read : Nat]

ShellTypes ==
    /\ pc \in {"rest", "drain", "close", "settle"}
    /\ ctx \in [open : BOOLEAN] /\ wait \in Line /\ sample \in Nat
    /\ world \in ShellWorld

\* A child is there while the stream is open, and it is open while a
\* collection reads from it.  The lines in the pipe come after the last one
\* read, which is the one that a collection keeps.
ShellInv ==
    /\ ShellTypes
    /\ world.children = IF ctx.open THEN 1 ELSE 0
    /\ pc # "rest" => ctx.open
    /\ Ascending(world.pipe, world.read, world.written) /\ world.read <= world.written
    /\ wait # NoLine => pc = "drain" /\ wait.n = world.read
    /\ sample <= world.read
    /\ pc = "rest" /\ sample # 0 => sample = world.read

LEMMA StartedFrom ==
    ASSUME NEW w \in ShellWorld, NEW v, v = Started(w)
    PROVE  /\ v \in ShellWorld /\ v.children = w.children + 1
           /\ v.pipe = w.pipe /\ v.read = w.read /\ v.written = w.written
<1> DEFINE runs == w.runs + 1
           h    == [w EXCEPT !.command = "running", !.runs = runs]
<1>1. runs \in Nat
  BY DEF ShellWorld
<1>2. v = [h EXCEPT !.children = @ + 1]
  BY DEF Started
<1> HIDE DEF runs
<1>3. /\ h \in ShellWorld /\ h.pipe = w.pipe /\ h.children = w.children /\ h.read = w.read
      /\ h.written = w.written
  BY <1>1 DEF ShellWorld
<1> HIDE DEF h
<1> QED
  BY <1>2, <1>3 DEF ShellWorld

LEMMA ShellStarts == ShellInit => ShellInv
<1> SUFFICES ASSUME ShellInit PROVE ShellInv
  OBVIOUS
<1> DEFINE w == [pipe |-> <<>>, part |-> FALSE, command |-> "none", written |-> 0,
                 runs |-> 0, children |-> 0, read |-> 0]
<1>1. w \in ShellWorld /\ w.pipe = <<>> /\ w.children = 0 /\ w.read = 0 /\ w.written = 0
  BY DEF ShellWorld
<1>2. world = Started(w)
  BY DEF ShellInit
<1> HIDE DEF w
<1>3. /\ world \in ShellWorld /\ world.pipe = <<>> /\ world.children = 1 /\ world.read = 0
      /\ world.written = 0
  BY <1>1, <1>2, StartedFrom
<1> QED
  BY <1>3 DEF ShellInit, ShellInv, ShellTypes, NoLine, Line, Ascending

\* open_command, when no child is left.
LEMMA InvOpenCommand ==
    ASSUME ShellInv, NEW w \in ShellWorld, w.children = 0, w.pipe = world.pipe,
           w.read = world.read, w.written = world.written, wait = NoLine,
           NEW next \in {"drain", "settle"}, OpenCommand(w, next)
    PROVE  ShellInv'
<1>1. CASE /\ world' = Started(w) /\ ctx' = [open |-> TRUE]
           /\ pc' = next /\ UNCHANGED <<wait, sample>>
  <2>1. /\ world' \in ShellWorld /\ world'.children = 1 /\ world'.pipe = world.pipe
        /\ world'.read = world.read /\ world'.written = world.written
    BY <1>1, StartedFrom
  <2> QED
    BY <1>1, <2>1 DEF ShellInv, ShellTypes
<1>2. CASE /\ world' = [w EXCEPT !.command = "none"] /\ ctx' = [open |-> FALSE]
           /\ ShellReturns(0)
  <2>1. /\ world' \in ShellWorld /\ world'.children = 0 /\ world'.pipe = world.pipe
        /\ world'.read = world.read /\ world'.written = world.written
    BY <1>2 DEF ShellWorld
  <2>2. pc' = "rest" /\ wait' = NoLine /\ sample' = 0 /\ wait' \in Line
    BY <1>2 DEF ShellReturns, NoLine, Line
  <2>3. world.read \in Nat
    BY DEF ShellInv, ShellTypes, ShellWorld
  <2> QED
    BY <1>2, <2>1, <2>2, <2>3 DEF ShellInv, ShellTypes
<1> QED
  BY <1>1, <1>2 DEF OpenCommand

LEMMA InvShellCollect == ShellInv /\ ShellCollect => ShellInv'
<1> SUFFICES ASSUME ShellInv, ShellCollect PROVE ShellInv'
  OBVIOUS
<1>1. CASE ctx.open
  BY <1>1 DEF ShellCollect, ShellInv, ShellTypes
<1>2. CASE ~ctx.open
  BY <1>2, InvOpenCommand DEF ShellCollect, ShellInv, ShellTypes
<1> QED
  BY <1>1, <1>2

LEMMA InvReopen == ShellInv /\ Reopen => ShellInv'
<1> SUFFICES ASSUME ShellInv, Reopen PROVE ShellInv'
  OBVIOUS
<1> DEFINE w == WaitedFor(world)
<1>1. /\ w \in ShellWorld /\ w.children = 0 /\ w.pipe = world.pipe /\ w.read = world.read
      /\ w.written = world.written
  BY DEF WaitedFor, Reopen, ShellInv, ShellTypes, ShellWorld
<1>2. wait = NoLine
  BY DEF Reopen, ShellInv
<1> HIDE DEF w
<1> QED
  BY <1>1, <1>2, InvOpenCommand DEF Reopen, w

\* The first line of the pipe is the next one read.
LEMMA TailAscends ==
    ASSUME NEW s \in Seq(Line), s # <<>>, NEW a \in Nat, NEW b \in Nat, Ascending(s, a, b)
    PROVE  /\ Head(s) \in Line /\ Tail(s) \in Seq(Line)
           /\ a < Head(s).n /\ Head(s).n <= b /\ Ascending(Tail(s), Head(s).n, b)
<1>1. /\ Head(s) = s[1] /\ Len(s) \in Nat /\ Len(s) >= 1 /\ DOMAIN s = 1..Len(s)
      /\ 1 \in DOMAIN s /\ \A i \in DOMAIN s : s[i] \in Line
  OBVIOUS
<1>2. /\ Tail(s) \in Seq(Line) /\ DOMAIN Tail(s) = 1..(Len(s) - 1)
      /\ \A i \in 1..(Len(s) - 1) : Tail(s)[i] = s[i + 1]
  OBVIOUS
<1>3. \A i \in 1..(Len(s) - 1) : i + 1 \in DOMAIN s /\ 1 < i + 1
  BY <1>1
<1> QED
  BY <1>1, <1>2, <1>3 DEF Ascending

LEMMA AppendAscends ==
    ASSUME NEW s \in Seq(Line), NEW a \in Nat, NEW b \in Nat, a <= b, Ascending(s, a, b),
           NEW number \in BOOLEAN, NEW l, l = [n |-> b + 1, number |-> number]
    PROVE  Append(s, l) \in Seq(Line) /\ Ascending(Append(s, l), a, b + 1)
<1>1. l \in Line /\ l.n = b + 1
  BY DEF Line
<1>2. /\ Append(s, l) \in Seq(Line) /\ DOMAIN s = 1..Len(s) /\ Len(s) \in Nat
      /\ DOMAIN Append(s, l) = 1..(Len(s) + 1)
      /\ Append(s, l)[Len(s) + 1] = l
      /\ \A i \in 1..Len(s) : Append(s, l)[i] = s[i] /\ s[i].n \in Nat
  <2>1. /\ Append(s, l) \in Seq(Line) /\ DOMAIN s = 1..Len(s) /\ Len(s) \in Nat
        /\ DOMAIN Append(s, l) = 1..(Len(s) + 1)
        /\ Append(s, l)[Len(s) + 1] = l
        /\ \A i \in 1..Len(s) : Append(s, l)[i] = s[i] /\ s[i] \in Line
    BY <1>1
  <2> QED
    BY <2>1 DEF Line
<1> DEFINE t == Append(s, l)
<1> HIDE DEF t
<1>3. ASSUME NEW i \in 1..(Len(s) + 1)
      PROVE  /\ a < t[i].n /\ t[i].n <= b + 1
             /\ \A j \in 1..(Len(s) + 1) : i < j => t[i].n < t[j].n
  <2>1. CASE i = Len(s) + 1
    BY <1>1, <1>2, <2>1 DEF t
  <2>2. CASE i \in 1..Len(s)
    <3>1. t[i].n = s[i].n /\ s[i].n \in Nat /\ a < s[i].n /\ s[i].n <= b
      BY <1>2, <2>2 DEF Ascending, t
    <3>2. ASSUME NEW j \in 1..(Len(s) + 1), i < j PROVE t[i].n < t[j].n
      <4>1. CASE j = Len(s) + 1
        BY <1>1, <1>2, <3>1, <4>1 DEF t
      <4>2. CASE j \in 1..Len(s)
        BY <1>2, <2>2, <3>1, <3>2, <4>2 DEF Ascending, t
      <4> QED
        BY <1>2, <4>1, <4>2
    <3> QED
      BY <3>1, <3>2
  <2> QED
    BY <1>2, <2>1, <2>2
<1> QED
  BY <1>2, <1>3 DEF Ascending, t

LEMMA InvReadLine == ShellInv /\ ReadLine => ShellInv'
<1> SUFFICES ASSUME ShellInv, ReadLine PROVE ShellInv'
  OBVIOUS
<1> DEFINE s == world.pipe
<1>1. /\ s \in Seq(Line) /\ s # <<>> /\ world.read \in Nat /\ world.written \in Nat
      /\ Ascending(s, world.read, world.written) /\ world \in ShellWorld
  BY DEF ReadLine, ShellInv, ShellTypes, ShellWorld
<1>2. /\ Head(s) \in Line /\ Tail(s) \in Seq(Line) /\ world.read < Head(s).n
      /\ Head(s).n <= world.written /\ Ascending(Tail(s), Head(s).n, world.written)
  BY <1>1, TailAscends
<1>3. /\ world' \in ShellWorld /\ world'.pipe = Tail(s) /\ world'.read = Head(s).n
      /\ world'.written = world.written /\ world'.children = world.children
  <2>1. PICK t \in Seq(Line), n \in Nat : t = Tail(s) /\ n = Head(s).n
    BY <1>2 DEF Line
  <2>2. world' = [world EXCEPT !.pipe = t, !.read = n]
    BY <2>1 DEF ReadLine
  <2> QED
    BY <1>1, <2>1, <2>2 DEF ShellWorld
<1>4. wait' = Head(s) /\ UNCHANGED <<system, ctx, pc, sample>> /\ pc = "drain"
  BY DEF ReadLine, LastLine
<1>5. sample <= Head(s).n
  BY <1>1, <1>2 DEF ShellInv, ShellTypes, Line
<1> QED
  BY <1>2, <1>3, <1>4, <1>5 DEF ShellInv, ShellTypes

\* The command writes the rest of a line, or a whole one.
LEMMA LineWritten ==
    ASSUME ShellInv, NEW command \in {"running", "closed"}, NEW number \in BOOLEAN,
           world' = [world EXCEPT !.command = command, !.part = FALSE, !.written = @ + 1,
                        !.pipe = Append(@, [n |-> world.written + 1, number |-> number])],
           UNCHANGED <<system, ctx, pc, wait, sample>>
    PROVE  ShellInv'
<1> DEFINE l == [n |-> world.written + 1, number |-> number]
<1>1. /\ world.pipe \in Seq(Line) /\ world.read \in Nat /\ world.written \in Nat
      /\ Ascending(world.pipe, world.read, world.written) /\ world \in ShellWorld
      /\ world.read <= world.written
  BY DEF ShellInv, ShellTypes, ShellWorld
<1> DEFINE t == Append(world.pipe, l)
           n == world.written + 1
<1>2. t \in Seq(Line) /\ n \in Nat /\ Ascending(t, world.read, n)
  BY <1>1, AppendAscends
<1> DEFINE h == [world EXCEPT !.command = command, !.part = FALSE]
<1>3. /\ h \in ShellWorld /\ h.pipe = world.pipe /\ h.read = world.read
      /\ h.written = world.written /\ h.children = world.children
  BY <1>1 DEF ShellWorld
<1>4. world' = [h EXCEPT !.written = n, !.pipe = t] /\ world.written <= n
  BY <1>1
<1> HIDE DEF h, t, n
<1>5. /\ world' \in ShellWorld /\ world'.pipe = t /\ world'.written = n
      /\ world'.read = world.read /\ world'.children = world.children
  BY <1>2, <1>3, <1>4 DEF ShellWorld
<1>6. ShellTypes'
  BY <1>5 DEF ShellInv, ShellTypes
<1>7. world.read <= n
  BY <1>1, <1>2, <1>4
<1> QED
  BY <1>2, <1>5, <1>6, <1>7 DEF ShellInv

LEMMA InvCommand ==
    ASSUME ShellInv, WritePart \/ CommandEnds
                     \/ \E number \in BOOLEAN : WriteLine(number) \/ CloseOutput(number)
    PROVE  ShellInv'
<1>0. world \in ShellWorld
  BY DEF ShellInv, ShellTypes
<1>1. CASE \E part \in BOOLEAN, command \in {"closed", "ended", "running"} :
             /\ world' = [world EXCEPT !.part = part, !.command = command]
             /\ UNCHANGED <<system, ctx, pc, wait, sample>>
  <2>1. /\ world' \in ShellWorld /\ world'.pipe = world.pipe /\ world'.written = world.written
        /\ world'.read = world.read /\ world'.children = world.children
    BY <1>0, <1>1, ZenonT(60) DEF ShellWorld
  <2> QED
    BY <1>1, <2>1 DEF ShellInv, ShellTypes
<1>2. WritePart => world' = [world EXCEPT !.part = TRUE, !.command = "running"]
  BY <1>0 DEF WritePart, ShellWorld
<1>3. CommandEnds => world' = [world EXCEPT !.part = world.part, !.command = "ended"]
  BY <1>0 DEF CommandEnds, ShellWorld
<1>4. CASE WritePart
  BY <1>1, <1>2, <1>4 DEF WritePart
<1>5. CASE CommandEnds
  BY <1>0, <1>1, <1>3, <1>5 DEF CommandEnds, ShellWorld
<1>6. ASSUME NEW number \in BOOLEAN, WriteLine(number) PROVE ShellInv'
  <2>1. world' = [world EXCEPT !.command = "running", !.part = FALSE, !.written = @ + 1,
                     !.pipe = Append(@, [n |-> world.written + 1, number |-> number])]
    BY <1>0, <1>6 DEF WriteLine, ShellWorld
  <2> QED
    BY <1>6, <2>1, LineWritten DEF WriteLine
<1>7. ASSUME NEW number \in BOOLEAN, CloseOutput(number) PROVE ShellInv'
  <2>1. CASE world.part
    BY <1>7, <2>1, LineWritten DEF CloseOutput
  <2>2. CASE ~world.part
    <3>1. world' = [world EXCEPT !.part = FALSE, !.command = "closed"]
      BY <1>0, <1>7, <2>2 DEF CloseOutput, ShellWorld
    <3> QED
      BY <1>1, <1>7, <3>1 DEF CloseOutput
  <2> QED
    BY <2>1, <2>2
<1> QED
  BY <1>4, <1>5, <1>6, <1>7

LEMMA ShellSteps == ShellInv /\ [ShellNext]_source => ShellInv'
<1> SUFFICES ASSUME ShellInv, [ShellNext]_source PROVE ShellInv'
  OBVIOUS
<1>1. CASE Drained
  <2>1. /\ pc' = "rest" /\ wait' = NoLine /\ sample' = NumberIn(wait)
        /\ UNCHANGED <<system, ctx, world>>
    BY <1>1 DEF Drained, ShellReturns
  <2>2. wait = NoLine \/ wait.n = world.read
    BY DEF ShellInv
  <2>3. NumberIn(wait) = 0 \/ NumberIn(wait) = world.read
    BY <2>2 DEF NumberIn, NoLine
  <2>4. wait' \in Line /\ world.read \in Nat
    BY <2>1 DEF NoLine, Line, ShellInv, ShellTypes, ShellWorld
  <2> QED
    BY <2>1, <2>3, <2>4 DEF ShellInv, ShellTypes
<1>2. CASE AtEnd
  BY <1>2 DEF AtEnd, ShellInv, ShellTypes
<1>3. CASE Settle
  <2>1. world.read \in Nat /\ NoLine \in Line
    BY DEF ShellInv, ShellTypes, ShellWorld, NoLine, Line
  <2> QED
    BY <1>3, <2>1 DEF Settle, ShellReturns, ShellInv, ShellTypes
<1>4. CASE UNCHANGED source
  BY <1>4 DEF source, ShellInv, ShellTypes
<1> QED
  BY <1>1, <1>2, <1>3, <1>4, InvShellCollect, InvReopen, InvReadLine, InvCommand DEF ShellNext

LEMMA ShellHolds == Spec => [](system = "shell" => ShellInv)
<1>1. Init => (system = "shell" => ShellInv)
  BY Alone, ShellStarts
<1>2. (system = "shell" => ShellInv) /\ [Next]_source => (system = "shell" => ShellInv)'
  BY Alone, SystemStays, ShellSteps
<1> QED
  BY <1>1, <1>2, PTL DEF Spec

\* The shell source shows the newest line there was when it found the pipe
\* empty, through any number of starts and lines, and waits for each command
\* before it starts the next (shell_collect of ds/shell.c).
THEOREM NewestLineAlways == Spec => []NewestLineShown
<1>1. ASSUME system = "shell" => ShellInv PROVE NewestLineShown
  <2>1. ASSUME ShellInv
        PROVE  /\ world.children <= 1
               /\ sample # 0 => \A i \in DOMAIN world.pipe : world.pipe[i].n > sample
               /\ pc = "rest" /\ sample # 0 => sample = world.read
    <3>1. /\ sample \in Nat /\ world.read \in Nat /\ world.pipe \in Seq(Line)
          /\ sample <= world.read /\ Ascending(world.pipe, world.read, world.written)
      BY <2>1 DEF ShellInv, ShellTypes, ShellWorld
    <3>2. \A i \in DOMAIN world.pipe : world.pipe[i].n \in Nat /\ world.read < world.pipe[i].n
      <4>1. \A i \in DOMAIN world.pipe : world.pipe[i] \in Line
        BY <3>1
      <4> QED
        BY <3>1, <4>1 DEF Ascending, Line
    <3>3. world.children <= 1
      BY <2>1 DEF ShellInv
    <3>4. pc = "rest" /\ sample # 0 => sample = world.read
      BY <2>1 DEF ShellInv
    <3> QED
      BY <3>1, <3>2, <3>3, <3>4
  <2> QED
    BY <1>1, <2>1 DEF NewestLineShown
<1> QED
  BY <1>1, ShellHolds, PTL

-----------------------------------------------------------------------------
(* The text under a plot: the clock                                        *)

Day == 0..1439

\* What is stored of the last collection is its minute on the scale.
ClockInv ==
    /\ ctx \in [mode : {12, 24}, last_minutes : Int, sample_count : {0, 1}]
    /\ world \in [time : Day, ran : Nat, collected : {0} \union Day]
    /\ ctx.sample_count = 1 => ctx.last_minutes = ScaledMinutes(ctx.mode, world.collected)
    /\ sample.drawn => \/ GuessedWrong(ctx.mode, sample.at, Minute(sample.collected))
                       \/ /\ sample.hour = Hours(ctx.mode, sample.at)
                          /\ sample.minute \in {Minute(sample.collected) - 1,
                                                Minute(sample.collected)}

LEMMA ClockStarts == ClockInit => ClockInv
<1> SUFFICES ASSUME ClockInit PROVE ClockInv
  OBVIOUS
<1>1. world \in [time : Day, ran : Nat, collected : {0} \union Day]
  <2>1. StartTimes \subseteq Day /\ 0 \in Nat
    BY TimeAssumption DEF Day
  <2>2. world \in [time : StartTimes, ran : {0}, collected : {0}]
    BY DEF ClockInit
  <2>3. \A v \in [time : StartTimes, ran : {0}, collected : {0}] :
          v \in [time : Day, ran : Nat, collected : {0} \union Day]
    BY <2>1
  <2> QED
    BY <2>2, <2>3
<1> QED
  BY <1>1 DEF ClockInit, ClockInv

\* On its own scale a minute comes back as it was, or as the one before.
LEMMA UnscaledRight ==
    ASSUME NEW mode \in {12, 24}, NEW m \in 0..59
    PROVE  Unscaled(mode * m, mode) \subseteq {m - 1, m}
<1>1. (12 * m) \div 12 = m /\ (24 * m) \div 24 = m
  OBVIOUS
<1> QED
  BY <1>1 DEF Unscaled

\* The scale is guessed wrong only where GuessedWrong says so.
LEMMA ScaleRight ==
    ASSUME NEW mode \in {12, 24}, NEW at \in Day, NEW m \in 0..59,
           ~GuessedWrong(mode, at, m)
    PROVE  Scale(Hours(mode, at), Minute(at), mode * m) = mode
<1> DEFINE h == at \div 60
<1>1. h \in 0..23 /\ at = 60 * h + Minute(at) /\ Minute(at) \in 0..59
  BY DEF Day, Minute
<1> HIDE DEF h
<1>2. Hour(at) = h
  BY DEF Hour, h
<1>3. CASE mode = 24
  <2>1. Hours(24, at) = h
    BY <1>2 DEF Hours
  <2>2. at > 12 * 60 \/ m > 30
    BY <1>3 DEF GuessedWrong, Day
  <2>3. h > 12 \/ (h = 12 /\ Minute(at) > 0) \/ 24 * m > 12 * 60
    BY <1>1, <2>2 DEF Day
  <2> QED
    BY <1>3, <2>1, <2>3 DEF Scale
<1>4. CASE mode = 12
  <2>1. Hours(12, at) \in 1..12
    BY <1>1, <1>2 DEF Hours
  <2>2. ~(Hours(12, at) = 12 /\ Minute(at) > 0)
    BY <1>4 DEF GuessedWrong
  <2>3. ~(12 * m > 12 * 60)
    OBVIOUS
  <2> QED
    BY <1>4, <2>1, <2>2, <2>3 DEF Scale
<1> QED
  BY <1>3, <1>4

\* The minute after one of a day is one of a day.
LEMMA NextMinute == ASSUME NEW a \in Day PROVE (a + 1) % 1440 \in Day
BY DEF Day

LEMMA ClockSteps == ClockInv /\ [ClockNext]_source => ClockInv'
<1> SUFFICES ASSUME ClockInv, [ClockNext]_source PROVE ClockInv'
  OBVIOUS
<1>1. CASE ClockCollect
  <2>1. ScaledMinutes(ctx.mode, world.time) \in Int
    BY SMTT(60) DEF ClockInv, ScaledMinutes, Minute, Day
  <2>2. /\ ctx' \in [mode : {12, 24}, last_minutes : Int, sample_count : {0, 1}]
        /\ ctx'.mode = ctx.mode /\ ctx'.last_minutes = ScaledMinutes(ctx.mode, world.time)
    BY <1>1, <2>1 DEF ClockCollect, ClockInv
  <2>3. /\ world' \in [time : Day, ran : Nat, collected : {0} \union Day]
        /\ world'.collected = world.time
    BY <1>1 DEF ClockCollect, ClockInv
  <2> QED
    BY <1>1, <2>2, <2>3 DEF ClockCollect, ClockInv
<1>2. CASE ClockText
  <2> DEFINE hour == Hours(ctx.mode, world.time)
             text == [drawn |-> TRUE, hour |-> hour, minute |-> 0, at |-> world.time,
                      collected |-> world.collected]
             m    == Minute(world.collected)
  <2>1. CASE ctx.sample_count = 0
    <3>1. sample' = [text EXCEPT !.drawn = FALSE, !.hour = 0] /\ UNCHANGED <<ctx, world>>
      BY <1>2, <2>1 DEF ClockText
    <3> QED
      BY <3>1 DEF ClockInv
  <2>2. CASE ctx.sample_count # 0
    <3>1. PICK minute \in Unscaled(ctx.last_minutes,
                                   Scale(hour, Minute(world.time), ctx.last_minutes)) :
               sample' = [text EXCEPT !.minute = minute]
      BY <1>2, <2>2 DEF ClockText
    <3>2. /\ sample'.hour = hour /\ sample'.at = world.time /\ sample'.collected = world.collected
          /\ sample'.minute = minute
      BY <3>1
    <3>3. UNCHANGED <<ctx, world>>
      BY <1>2 DEF ClockText
    <3>4. /\ m \in 0..59 /\ ctx.mode \in {12, 24} /\ world.time \in Day
          /\ ctx.last_minutes = ctx.mode * m
      <4>1. PICK c \in Int : c = world.collected
        BY SMTT(60) DEF ClockInv, Day
      <4>2. m \in 0..59
        BY <4>1 DEF Minute
      <4>3. ctx.mode \in {12, 24} /\ world.time \in Day
        BY DEF ClockInv
      <4>4. ctx.sample_count = 1
        BY <2>2 DEF ClockInv
      <4> QED
        BY <4>2, <4>3, <4>4 DEF ClockInv, ScaledMinutes
    <3>5. ~GuessedWrong(ctx.mode, world.time, m) => minute \in {m - 1, m}
      <4> HIDE DEF m
      <4> QED
        BY <3>1, <3>4, ScaleRight, UnscaledRight
    <3> QED
      BY <3>2, <3>3, <3>5 DEF ClockInv
  <2> QED
    BY <2>1, <2>2
<1>3. CASE ClockTick
  <2> DEFINE time == (world.time + 1) % 1440
             ran  == world.ran + 1
  <2>1. time \in Day /\ ran \in Nat /\ world' = [world EXCEPT !.time = time, !.ran = ran]
    <3>1. world \in [time : Day, ran : Nat, collected : {0} \union Day]
      BY DEF ClockInv
    <3>2. world.time \in Day /\ world.ran \in Nat
      BY <3>1
    <3>3. time \in Day
      BY <3>2, NextMinute
    <3>4. ran \in Nat
      BY <3>2
    <3> QED
      BY <1>3, <3>3, <3>4 DEF ClockTick
  <2> HIDE DEF time, ran
  <2>2. /\ world' \in [time : Day, ran : Nat, collected : {0} \union Day]
        /\ world'.collected = world.collected
    BY <2>1 DEF ClockInv
  <2> QED
    BY <1>3, <2>2 DEF ClockTick, ClockInv
<1>4. CASE UNCHANGED source
  BY <1>4 DEF source, ClockInv
<1> QED
  BY <1>1, <1>2, <1>3, <1>4 DEF ClockNext

-----------------------------------------------------------------------------
(* The text under a plot: the other sources                                *)

TextFields == {"last", "secondary", "count", "jitter_count"}

\* Which of the fields that are stored after the n-th collection a field is,
\* counted from the end; 0 if it is not stored.
Places(n) ==
    LET Of(last, secondary, count, jitter_count) ==
          [last |-> last, secondary |-> secondary, count |-> count, jitter_count |-> jitter_count]
    IN  IF ctx.source = "ping" THEN IF n = 1 THEN Of(2, 0, 1, 0) ELSE Of(4, 2, 3, 1)
        ELSE IF ctx.source = "cpu" THEN Of(3, 2, 1, 0)
        ELSE IF ctx.source \in RateSources THEN IF n = 1 THEN Of(2, 1, 0, 0) ELSE Of(2, 1, 3, 0)
        ELSE Of(2, 0, 1, 0)

\* A field that the collector has yet to store.
Due(f) == Places(world.begun)[f] \in 1..Len(wait.todo)

InPlace(todo, n) ==
    \A i \in 1..Len(todo) : Places(n)[todo[i]] = Len(todo) - i + 1

LEMMA StoresInPlace ==
    ASSUME NEW n \in Nat, ctx.source \in TextSources
    PROVE  /\ Stores(n) \in Seq(TextFields) /\ InPlace(Stores(n), n)
           /\ Len(Stores(n)) >= 2
           /\ \A f \in TextFields : Places(n)[f] \in 0..Len(Stores(n))
<1>1. CASE ctx.source = "ping" /\ n = 1
  <2>1. Stores(n) = <<"last", "count">> \o <<>>
    BY <1>1 DEF Stores, PingStores, RateSources
  <2>2. <<"last", "count">> \o <<>> = <<"last", "count">>
    OBVIOUS
  <2>3. Places(n) = [last |-> 2, secondary |-> 0, count |-> 1, jitter_count |-> 0]
    BY <1>1 DEF Places
  <2> QED
    BY <2>1, <2>2, <2>3 DEF InPlace, TextFields
<1>2. CASE ctx.source = "ping" /\ n # 1
  <2>1. Stores(n) = <<"last", "count">> \o <<"secondary", "jitter_count">>
    BY <1>2 DEF Stores, PingStores, RateSources
  <2> DEFINE s == <<"last", "count">> \o <<"secondary", "jitter_count">>
  <2>2. /\ s \in Seq(TextFields) /\ Len(s) = 4
    BY DEF TextFields
  <2>3. s[1] = "last" /\ s[2] = "count" /\ s[3] = "secondary" /\ s[4] = "jitter_count"
    OBVIOUS
  <2>4. Places(n) = [last |-> 4, secondary |-> 2, count |-> 3, jitter_count |-> 1]
    BY <1>2 DEF Places, RateSources
  <2> HIDE DEF s
  <2> QED
    BY <2>1, <2>2, <2>3, <2>4 DEF InPlace, TextFields, s
<1>3. CASE ctx.source = "cpu"
  <2> DEFINE s == <<"last", "secondary", "count">>
  <2>1. Stores(n) = s
    BY <1>3 DEF Stores, CpuStores, RateSources
  <2>2. s \in Seq(TextFields) /\ Len(s) = 3
    BY DEF TextFields
  <2>3. s[1] = "last" /\ s[2] = "secondary" /\ s[3] = "count"
    OBVIOUS
  <2>4. Places(n) = [last |-> 3, secondary |-> 2, count |-> 1, jitter_count |-> 0]
    BY <1>3 DEF Places, RateSources
  <2> HIDE DEF s
  <2> QED
    BY <2>1, <2>2, <2>3, <2>4 DEF InPlace, TextFields
<1>4. CASE ctx.source \in RateSources /\ n = 1
  <2> DEFINE s == <<>> \o <<"last", "secondary">>
  <2>1. Stores(n) = s
    BY <1>4 DEF Stores, RateStores, RateSources
  <2>2. s \in Seq(TextFields) /\ Len(s) = 2
    BY DEF TextFields
  <2>3. s[1] = "last" /\ s[2] = "secondary"
    OBVIOUS
  <2>4. Places(n) = [last |-> 2, secondary |-> 1, count |-> 0, jitter_count |-> 0]
    BY <1>4 DEF Places, RateSources
  <2> HIDE DEF s
  <2> QED
    BY <2>1, <2>2, <2>3, <2>4 DEF InPlace, TextFields
<1>5. CASE ctx.source \in RateSources /\ n # 1
  <2> DEFINE s == <<"count">> \o <<"last", "secondary">>
  <2>1. Stores(n) = s
    BY <1>5 DEF Stores, RateStores, RateSources
  <2>2. s \in Seq(TextFields) /\ Len(s) = 3
    BY DEF TextFields
  <2>3. s[1] = "count" /\ s[2] = "last" /\ s[3] = "secondary"
    OBVIOUS
  <2>4. Places(n) = [last |-> 2, secondary |-> 1, count |-> 3, jitter_count |-> 0]
    BY <1>5 DEF Places, RateSources
  <2> HIDE DEF s
  <2> QED
    BY <2>1, <2>2, <2>3, <2>4 DEF InPlace, TextFields
<1>6. CASE ctx.source \notin {"ping", "cpu"} \union RateSources
  <2> DEFINE s == <<"last", "count">>
  <2>1. Stores(n) = s
    BY <1>6 DEF Stores, SingleStores, RateSources
  <2>2. s \in Seq(TextFields) /\ Len(s) = 2
    BY DEF TextFields
  <2>3. s[1] = "last" /\ s[2] = "count"
    OBVIOUS
  <2>4. Places(n) = [last |-> 2, secondary |-> 0, count |-> 1, jitter_count |-> 0]
    BY <1>6 DEF Places, RateSources
  <2> HIDE DEF s
  <2> QED
    BY <2>1, <2>2, <2>3, <2>4 DEF InPlace, TextFields
<1> QED
  BY <1>1, <1>2, <1>3, <1>4, <1>5, <1>6

\* What a field holds when n collections have stored it.
Value(f, n) ==
    LET FromSecond == IF n = 0 THEN 0 ELSE n - 1
    IN  IF f = "last" THEN n
        ELSE IF f = "count" THEN IF ctx.source \in RateSources THEN FromSecond ELSE n
        ELSE IF f = "jitter_count" THEN IF ctx.source = "ping" THEN FromSecond ELSE 0
        ELSE IF ctx.source = "ping" THEN IF n = 1 THEN 0 ELSE n
        ELSE IF ctx.source \in DualSources THEN n ELSE 0

Text == [nothing : BOOLEAN, last : Nat, secondary : Nat, from : Nat, to : Nat]

TextTypes ==
    /\ pc \in {"rest", "last", "jitter_count", "secondary"}
    /\ ctx \in [source : TextSources, last : Nat, secondary : Nat, count : Nat, jitter_count : Nat]
    /\ wait \in [todo : Seq(TextFields), text : Text]
    /\ world \in [begun : Nat, done : Nat] /\ sample \in Text

\* The fields hold what the last collection stored, or the one before if they
\* are due.
FieldsStored ==
    /\ InPlace(wait.todo, world.begun)
    /\ world.begun = 0 => wait.todo = <<>>
    /\ world.done = IF wait.todo = <<>> THEN world.begun ELSE world.begun - 1
    /\ \A f \in TextFields : ctx[f] = Value(f, IF Due(f) THEN world.begun - 1 ELSE world.begun)

\* Recent enough for a text that was begun after so many collections.
Recent(n, from, to) == from <= n /\ n <= to /\ n >= 1

\* What the drawing thread knows at each field.
TextRead ==
    /\ pc # "rest" => /\ ~wait.text.nothing /\ wait.text.from <= world.done /\ ctx.count >= 1
                      /\ wait.text.secondary = 0
    /\ pc \in {"jitter_count", "secondary"} =>
         Recent(wait.text.last, wait.text.from, world.begun)
    /\ pc = "jitter_count" => ctx.source = "ping"
    /\ pc = "secondary" => /\ ctx.source \in DualSources
                           /\ ctx.source = "ping" => ctx.jitter_count >= 1

\* TextIsMeasured, of any text.
Measured(t) ==
    /\ t.nothing => t.from <= IF ctx.source \in RateSources THEN 1 ELSE 0
    /\ ~t.nothing => Recent(t.last, t.from, t.to)
    /\ ~t.nothing /\ ctx.source \in DualSources =>
         \/ Recent(t.secondary, t.from, t.to)
         \/ ctx.source = "ping" /\ t.secondary = 0 /\ t.from <= 1

TextInv == TextTypes /\ FieldsStored /\ TextRead /\ Measured(sample)

LEMMA TextStarts == TextInit => TextInv
<1> SUFFICES ASSUME TextInit PROVE TextInv
  OBVIOUS
<1>1. PICK name \in TextSources :
        ctx = [source |-> name, last |-> 0, secondary |-> 0, count |-> 0, jitter_count |-> 0]
  BY DEF TextInit
<1>2. TextTypes
  BY <1>1 DEF TextInit, TextTypes, NoText, Text
<1>3. FieldsStored
  <2>1. wait.todo = <<>> /\ world.begun = 0 /\ world.done = 0 /\ Len(wait.todo) = 0
    BY DEF TextInit
  <2>2. \A f \in TextFields : ctx[f] = 0 /\ ~Due(f) /\ Value(f, 0) = 0
    BY <1>1, <2>1 DEF TextFields, Due, Value
  <2> QED
    BY <2>1, <2>2 DEF FieldsStored, InPlace
<1>4. TextRead /\ Measured(sample)
  BY DEF TextInit, TextRead, Measured, NoText
<1> QED
  BY <1>2, <1>3, <1>4 DEF TextInv

\* No two fields are stored at once, and all in an order.
LEMMA PlacesDistinct ==
    \A n \in Nat : \A f, g \in TextFields :
      Places(n)[f] \in Nat /\ (f # g /\ Places(n)[f] = Places(n)[g] => Places(n)[f] = 0)
BY DEF Places, TextFields, RateSources

\* What a collection changes a field to, and that it leaves the others alone.
LEMMA ValueStored ==
    ASSUME NEW n \in Nat, NEW f \in TextFields, ctx.source \in TextSources
    PROVE  IF Places(n + 1)[f] = 0 THEN Value(f, n + 1) = Value(f, n)
           ELSE Value(f, n + 1) = IF f \in {"last", "secondary"} THEN n + 1 ELSE Value(f, n) + 1
BY DEF Places, Value, TextFields, RateSources, DualSources, TextSources

LEMMA InvCollectGood == TextInv /\ CollectGood => TextInv'
<1> SUFFICES ASSUME TextInv, CollectGood PROVE TextInv'
  OBVIOUS
<1> DEFINE b == world.begun
<1>1. /\ b \in Nat /\ wait.todo = <<>> /\ world.done = b
      /\ ctx.source \in TextSources
  BY DEF CollectGood, TextInv, TextTypes, FieldsStored
<1>2. /\ Stores(b + 1) \in Seq(TextFields) /\ InPlace(Stores(b + 1), b + 1)
      /\ Len(Stores(b + 1)) >= 2
      /\ \A f \in TextFields : Places(b + 1)[f] \in 0..Len(Stores(b + 1))
  <2>1. b + 1 \in Nat
    BY <1>1
  <2> QED
    BY <1>1, <2>1, StoresInPlace
<1>3. UNCHANGED <<system, ctx, pc, sample>>
  BY DEF CollectGood
<1>4. /\ wait' \in [todo : Seq(TextFields), text : Text] /\ wait'.todo = Stores(b + 1)
      /\ wait'.text = wait.text
      /\ world' \in [begun : Nat, done : Nat] /\ world'.begun = b + 1 /\ world'.done = b
  <2>1. /\ wait' = [wait EXCEPT !.todo = Stores(b + 1)]
        /\ world' = [world EXCEPT !.begun = b + 1]
    BY DEF CollectGood
  <2>2. wait \in [todo : Seq(TextFields), text : Text] /\ world \in [begun : Nat, done : Nat]
    BY DEF TextInv, TextTypes
  <2>3. b + 1 \in Nat
    BY <1>1
  <2> QED
    BY <1>1, <1>2, <2>1, <2>2, <2>3
<1>5. FieldsStored'
  <2>1. InPlace(wait.todo, world.begun)'
    BY <1>4, <1>3, <1>2 DEF InPlace, Places
  <2>2. world'.done = world'.begun - 1 /\ wait'.todo # <<>>
    BY <1>1, <1>4, <1>2
  <2>3. ASSUME NEW f \in TextFields
        PROVE  ctx'[f] = Value(f, IF Due(f) THEN world.begun - 1 ELSE world.begun)'
    <3>1. ctx[f] = Value(f, b)
      BY <1>1, <2>3 DEF TextInv, FieldsStored, Due
    <3>2. Due(f)' <=> Places(b + 1)[f] # 0
      BY <1>4, <1>3, <1>2, <2>3 DEF Due, Places
    <3>3. CASE Places(b + 1)[f] # 0
      <4>1. Value(f, IF Due(f) THEN world.begun - 1 ELSE world.begun)' = Value(f, b)
        BY <1>1, <1>4, <1>3, <3>2, <3>3 DEF Value
      <4> QED
        BY <1>3, <3>1, <4>1
    <3>4. CASE Places(b + 1)[f] = 0
      <4>1. Value(f, IF Due(f) THEN world.begun - 1 ELSE world.begun)' = Value(f, b + 1)
        BY <1>1, <1>4, <1>3, <3>2, <3>4 DEF Value
      <4> QED
        BY <1>1, <1>3, <2>3, <3>1, <3>4, <4>1, ValueStored
    <3> QED
      BY <3>3, <3>4
  <2> QED
    BY <1>1, <1>4, <2>1, <2>2, <2>3 DEF FieldsStored
<1>6. TextTypes'
  BY <1>4, <1>3 DEF TextInv, TextTypes
<1>7. TextRead'
  BY <1>1, <1>4, <1>3 DEF TextInv, TextTypes, TextRead, Recent, Text
<1>8. Measured(sample)'
  BY <1>3 DEF TextInv, Measured
<1> QED
  BY <1>5, <1>6, <1>7, <1>8 DEF TextInv

\* What the fields say of each other.
LEMMA FieldsTell ==
    ASSUME TextTypes, FieldsStored
    PROVE  /\ world.done <= ctx.last /\ ctx.last <= world.begun
           /\ world.done <= world.begun /\ ctx.secondary <= world.begun
           /\ ctx.count = 0 => world.done <= IF ctx.source \in RateSources THEN 1 ELSE 0
           /\ ctx.count >= 1 => ctx.last >= 1
           /\ ctx.count >= 1 /\ ctx.source \in DualSources \ {"ping"} =>
                ctx.secondary >= 1 /\ world.done <= ctx.secondary
           /\ ctx.source = "ping" =>
                /\ ctx.jitter_count = 0 => world.done <= 1
                /\ ctx.jitter_count >= 1 => ctx.secondary >= 1 /\ world.done <= ctx.secondary
<1> DEFINE b == world.begun
           k == Len(wait.todo)
<1>1. /\ b \in Nat /\ k \in Nat /\ (b = 0 => k = 0) /\ world.done = IF k = 0 THEN b ELSE b - 1
      /\ ctx.source \in TextSources
  BY DEF TextTypes, FieldsStored
<1>2. \A f \in TextFields : ctx[f] = Value(f, IF Places(b)[f] \in 1..k THEN b - 1 ELSE b)
  BY DEF FieldsStored, Due
<1> HIDE DEF b, k
<1>3. /\ ctx.last = IF Places(b).last \in 1..k THEN b - 1 ELSE b
      /\ ctx.count = Value("count", IF Places(b).count \in 1..k THEN b - 1 ELSE b)
      /\ ctx.secondary = Value("secondary", IF Places(b).secondary \in 1..k THEN b - 1 ELSE b)
      /\ ctx.jitter_count = Value("jitter_count",
                                  IF Places(b).jitter_count \in 1..k THEN b - 1 ELSE b)
  BY <1>2 DEF TextFields, Value
<1>4. CASE ctx.source = "ping"
  BY <1>1, <1>3, <1>4 DEF Places, Value, RateSources, b
<1>5. CASE ctx.source = "cpu"
  BY <1>1, <1>3, <1>5 DEF Places, Value, RateSources, DualSources, b
<1>6. CASE ctx.source \in RateSources
  BY <1>1, <1>3, <1>6 DEF Places, Value, RateSources, DualSources, b
<1>7. CASE ctx.source \notin {"ping", "cpu"} \union RateSources
  BY <1>1, <1>3, <1>7 DEF Places, Value, RateSources, DualSources, b
<1> QED
  BY <1>4, <1>5, <1>6, <1>7

LEMMA InvStoreField == TextInv /\ StoreField => TextInv'
<1> SUFFICES ASSUME TextInv, StoreField PROVE TextInv'
  OBVIOUS
<1> DEFINE b == world.begun
           s == wait.todo
           h == Head(s)
<1> DEFINE Tellers == [source : TextSources, last : Nat, secondary : Nat, count : Nat,
                       jitter_count : Nat]
<1>1. /\ b \in Nat /\ s \in Seq(TextFields) /\ s # <<>> /\ world.done = b - 1 /\ b # 0
      /\ ctx.source \in TextSources
      /\ ctx \in Tellers
      /\ InPlace(s, b)
  BY DEF StoreField, TextInv, TextTypes, FieldsStored
<1>2. /\ h \in TextFields /\ Len(s) \in Nat /\ Len(s) >= 1 /\ h = s[1]
      /\ Tail(s) \in Seq(TextFields) /\ Len(Tail(s)) = Len(s) - 1
      /\ \A i \in 1..(Len(s) - 1) : Tail(s)[i] = s[i + 1]
  BY <1>1
<1>3. Places(b)[h] = Len(s) /\ InPlace(Tail(s), b)
  <2>1. \A i \in 1..Len(s) : Places(b)[s[i]] = Len(s) - i + 1
    BY <1>1 DEF InPlace
  <2>2. \A i \in 1..(Len(s) - 1) : i + 1 \in 1..Len(s)
    BY <1>2
  <2> QED
    BY <1>2, <2>1, <2>2 DEF InPlace
<1>4. /\ wait' \in [todo : Seq(TextFields), text : Text] /\ wait'.todo = Tail(s)
      /\ wait'.text = wait.text
  BY <1>2 DEF StoreField, TextInv, TextTypes
<1>5. /\ world' \in [begun : Nat, done : Nat] /\ world'.begun = b
      /\ world'.done = IF Tail(s) = <<>> THEN b ELSE b - 1
  BY <1>1, <1>4 DEF StoreField, TextInv, TextTypes
<1>6. /\ ctx' \in Tellers
      /\ ctx'.source = ctx.source
      /\ ctx'[h] = IF h \in {"last", "secondary"} THEN b ELSE ctx[h] + 1
      /\ \A f \in TextFields : f # h => ctx'[f] = ctx[f]
  <2> DEFINE v == IF h \in {"last", "secondary"} THEN b ELSE ctx[h] + 1
  <2>1. v \in Nat /\ ctx' = [ctx EXCEPT ![h] = v]
    BY <1>1, <1>2 DEF StoreField, TextFields
  <2> HIDE DEF v, h
  <2>2. /\ ctx' \in Tellers
        /\ ctx'.source = ctx.source /\ ctx'[h] = v
        /\ \A f \in TextFields : f # h => ctx'[f] = ctx[f]
    BY <1>1, <1>2, <2>1 DEF TextFields
  <2> QED
    BY <2>2 DEF v
<1>7. UNCHANGED <<pc, sample>>
  BY DEF StoreField
<1> HIDE DEF b, s, h
<1>8. FieldsStored'
  <2>1. InPlace(wait.todo, world.begun)'
    BY <1>3, <1>4, <1>5, <1>6 DEF InPlace, Places
  <2>2. ASSUME NEW f \in TextFields
        PROVE  ctx'[f] = Value(f, IF Due(f) THEN world.begun - 1 ELSE world.begun)'
    <3>1. ctx[f] = Value(f, IF Places(b)[f] \in 1..Len(s) THEN b - 1 ELSE b)
      BY <2>2 DEF TextInv, FieldsStored, Due, b, s
    <3>2. Due(f)' <=> Places(b)[f] \in 1..(Len(s) - 1)
      BY <1>2, <1>4, <1>5, <1>6 DEF Due, Places
    <3>3. CASE f = h
      <4>1. ~Due(f)'
        BY <1>2, <1>3, <3>2, <3>3
      <4>2. Value(f, IF Due(f) THEN world.begun - 1 ELSE world.begun)' = Value(f, b)
        BY <1>5, <1>6, <4>1 DEF Value
      <4>3. ctx[f] = Value(f, b - 1)
        BY <1>2, <1>3, <3>1, <3>3
      <4>4. PICK n \in Nat : b - 1 = n /\ n + 1 = b
        BY <1>1
      <4>5. Places(n + 1)[f] # 0
        BY <1>2, <1>3, <3>3, <4>4
      <4>6. Value(f, n + 1) = IF f \in {"last", "secondary"} THEN n + 1 ELSE Value(f, n) + 1
        BY <1>1, <2>2, <4>5, ValueStored
      <4> QED
        BY <1>6, <3>3, <4>2, <4>3, <4>4, <4>6
    <3>4. CASE f # h
      <4>1. Places(b)[f] \in Nat /\ Places(b)[f] # Len(s)
        BY <1>1, <1>2, <1>3, <2>2, <3>4, PlacesDistinct, SMTT(60)
      <4>2. Due(f)' <=> Places(b)[f] \in 1..Len(s)
        BY <1>2, <3>2, <4>1
      <4>3. Value(f, IF Due(f) THEN world.begun - 1 ELSE world.begun)'
              = Value(f, IF Places(b)[f] \in 1..Len(s) THEN b - 1 ELSE b)
        BY <1>5, <1>6, <4>2 DEF Value
      <4> QED
        BY <1>6, <2>2, <3>1, <3>4, <4>3
    <3> QED
      BY <3>3, <3>4
  <2> QED
    BY <1>1, <1>4, <1>5, <2>1, <2>2 DEF FieldsStored
<1>9. TextTypes'
  BY <1>4, <1>5, <1>6, <1>7 DEF TextInv, TextTypes
<1>10. TextRead'
  <2>1. /\ ctx.count >= 1 => ctx'.count >= 1
        /\ ctx.jitter_count >= 1 => ctx'.jitter_count >= 1
    BY <1>1, <1>2, <1>6 DEF TextFields
  <2>2. ASSUME wait.text.from <= world.done PROVE wait.text.from <= world'.done
    <3>1. wait.text.from \in Nat
      BY DEF TextInv, TextTypes, Text
    <3> QED
      BY <1>1, <1>5, <2>2, <3>1
  <2> QED
    BY <1>4, <1>5, <1>6, <1>7, <2>1, <2>2 DEF TextInv, TextRead, b
<1>11. Measured(sample)'
  BY <1>6, <1>7 DEF TextInv, Measured
<1> QED
  BY <1>8, <1>9, <1>10, <1>11 DEF TextInv

LEMMA FieldsKept ==
    FieldsStored /\ wait'.todo = wait.todo /\ UNCHANGED <<ctx, world>> => FieldsStored'
BY SMTT(60) DEF FieldsStored, InPlace, Places, Due, Value

\* The end of a text, which is drawn as it is now.
LEMMA TextEnded ==
    ASSUME TextInv, NEW text \in Text, TextEnds(text), UNCHANGED <<system, ctx, world>>,
           NEW t, t = [text EXCEPT !.to = world.begun], Measured(t)
    PROVE  TextInv'
<1>1. pc' = "rest" /\ sample' = t /\ t \in Text
  BY DEF TextEnds, TextInv, TextTypes, Text
<1>2. NoText \in Text
  BY DEF NoText, Text
<1>3. wait' \in [todo : Seq(TextFields), text : Text] /\ wait'.todo = wait.todo
  BY <1>2 DEF TextEnds, TextInv, TextTypes
<1>4. TextTypes'
  BY <1>1, <1>3 DEF TextInv, TextTypes
<1>5. FieldsStored'
  BY <1>3, FieldsKept DEF TextInv
<1>6. TextRead'
  BY <1>1 DEF TextRead
<1>7. Measured(sample)'
  BY <1>1 DEF Measured
<1> QED
  BY <1>4, <1>5, <1>6, <1>7 DEF TextInv

\* A text that goes on with another field.
LEMMA TextGoesOn ==
    ASSUME TextInv, NEW text \in Text, NEW next \in {"last", "jitter_count", "secondary"},
           TextReads(text, next), UNCHANGED <<system, ctx, world>>,
           ~text.nothing, text.from <= world.done, ctx.count >= 1, text.secondary = 0,
           next \in {"jitter_count", "secondary"} =>
             /\ Recent(text.last, text.from, world.begun)
             /\ ctx.source \in DualSources,
           next = "jitter_count" => ctx.source = "ping",
           next = "secondary" /\ ctx.source = "ping" => ctx.jitter_count >= 1
    PROVE  TextInv'
<1>1. pc' = next /\ sample' = sample /\ wait' = [wait EXCEPT !.text = text]
  BY DEF TextReads
<1>2. /\ wait' \in [todo : Seq(TextFields), text : Text] /\ wait'.todo = wait.todo
      /\ wait'.text = text
  BY <1>1 DEF TextInv, TextTypes
<1>3. TextTypes'
  BY <1>1, <1>2 DEF TextInv, TextTypes
<1>4. FieldsStored'
  BY <1>2, FieldsKept DEF TextInv
<1>5. TextRead'
  BY <1>1, <1>2 DEF TextRead
<1>6. Measured(sample)'
  BY <1>1 DEF TextInv, Measured
<1> QED
  BY <1>3, <1>4, <1>5, <1>6 DEF TextInv

LEMMA InvReadCount == TextInv /\ ReadCount => TextInv'
<1> SUFFICES ASSUME TextInv, ReadCount PROVE TextInv'
  OBVIOUS
<1> DEFINE text == [NoText EXCEPT !.from = world.done]
<1>1. /\ world.done \in Nat /\ world.begun \in Nat /\ ctx.count \in Nat
      /\ ctx.source \in TextSources
  BY DEF TextInv, TextTypes
<1>2. /\ text \in Text /\ text.from = world.done /\ text.nothing = TRUE /\ text.last = 0
      /\ text.secondary = 0 /\ text.to = 0
  BY <1>1 DEF NoText, Text
<1>3. ctx.count = 0 => world.done <= IF ctx.source \in RateSources THEN 1 ELSE 0
  BY FieldsTell DEF TextInv
<1> HIDE DEF text
<1>4. CASE ctx.count = 0
  <2> DEFINE t == [text EXCEPT !.to = world.begun]
  <2>1. t.nothing = TRUE /\ t.from = world.done
    BY <1>2 DEF Text
  <2>2. Measured(t)
    BY <1>3, <1>4, <2>1 DEF Measured
  <2>3. TextEnds(text) /\ UNCHANGED <<system, ctx, world>>
    BY <1>4 DEF ReadCount, text
  <2> QED
    BY <1>2, <2>2, <2>3, TextEnded
<1>5. CASE ctx.count # 0
  <2> DEFINE t == [text EXCEPT !.nothing = FALSE]
  <2>1. t \in Text /\ t.nothing = FALSE /\ t.from = world.done /\ t.secondary = 0
    BY <1>2 DEF Text
  <2>2. TextReads(t, "last") /\ UNCHANGED <<system, ctx, world>>
    BY <1>5 DEF ReadCount, text
  <2> HIDE DEF t
  <2> QED
    BY <1>1, <1>5, <2>1, <2>2, TextGoesOn
<1> QED
  BY <1>4, <1>5

LEMMA InvReadLast == TextInv /\ ReadLast => TextInv'
<1> SUFFICES ASSUME TextInv, ReadLast PROVE TextInv'
  OBVIOUS
<1> DEFINE text == [wait.text EXCEPT !.last = ctx.last]
<1>1. /\ world.done \in Nat /\ world.begun \in Nat /\ ctx.count \in Nat /\ ctx.last \in Nat
      /\ ctx.source \in TextSources /\ wait.text \in Text
  BY DEF TextInv, TextTypes
<1>2. /\ text \in Text /\ text.from = wait.text.from /\ text.nothing = wait.text.nothing
      /\ text.last = ctx.last /\ text.secondary = wait.text.secondary
  BY <1>1 DEF Text
<1>3. /\ ~text.nothing /\ text.from <= world.done /\ ctx.count >= 1 /\ text.from \in Nat
  BY <1>1, <1>2 DEF ReadLast, TextInv, TextRead, Text
<1>4. Recent(ctx.last, text.from, world.begun)
  BY <1>1, <1>3, FieldsTell DEF TextInv, Recent
<1> HIDE DEF text
<1>5. CASE ctx.source \notin DualSources
  <2> DEFINE t == [text EXCEPT !.to = world.begun]
  <2>1. /\ t.nothing = text.nothing /\ t.from = text.from /\ t.last = ctx.last
        /\ t.to = world.begun
    BY <1>2 DEF Text
  <2>2. Measured(t)
    <3> HIDE DEF t
    <3> QED
      BY <1>3, <1>4, <1>5, <2>1 DEF Measured
  <2>3. TextEnds(text) /\ UNCHANGED <<system, ctx, world>>
    BY <1>5 DEF ReadLast, text
  <2> QED
    BY <1>2, <2>2, <2>3, TextEnded
<1>6. CASE ctx.source \in DualSources
  <2> DEFINE next == IF ctx.source = "ping" THEN "jitter_count" ELSE "secondary"
  <2>1. TextReads(text, next) /\ UNCHANGED <<system, ctx, world>>
    BY <1>6 DEF ReadLast, text
  <2>2. text.secondary = 0
    BY <1>2 DEF ReadLast, TextInv, TextRead
  <2>3. Recent(text.last, text.from, world.begun)
    BY <1>2, <1>4
  <2> QED
    BY <1>2, <1>3, <1>6, <2>1, <2>2, <2>3, TextGoesOn
<1> QED
  BY <1>5, <1>6

LEMMA InvReadJitterCount == TextInv /\ ReadJitterCount => TextInv'
<1> SUFFICES ASSUME TextInv, ReadJitterCount PROVE TextInv'
  OBVIOUS
<1> DEFINE text == wait.text
<1>1. /\ world.done \in Nat /\ world.begun \in Nat /\ ctx.jitter_count \in Nat
      /\ text \in Text /\ ctx.source = "ping" /\ "ping" \in DualSources
  BY DEF ReadJitterCount, TextInv, TextTypes, TextRead, DualSources
<1>2. /\ ~text.nothing /\ text.from <= world.done /\ ctx.count >= 1 /\ text.secondary = 0
      /\ Recent(text.last, text.from, world.begun) /\ text.from \in Nat
  BY <1>1 DEF ReadJitterCount, TextInv, TextRead, Text
<1>3. CASE ctx.jitter_count = 0
  <2> DEFINE t == [text EXCEPT !.to = world.begun]
  <2>1. /\ t.nothing = text.nothing /\ t.from = text.from /\ t.last = text.last
        /\ t.to = world.begun /\ t.secondary = 0
    BY <1>1, <1>2 DEF Text
  <2>2. text.from <= 1
    BY <1>1, <1>2, <1>3, FieldsTell DEF TextInv
  <2>3. Measured(t)
    <3> HIDE DEF t
    <3> QED
      BY <1>1, <1>2, <2>1, <2>2 DEF Measured
  <2>4. TextEnds(text) /\ UNCHANGED <<system, ctx, world>>
    BY <1>3 DEF ReadJitterCount
  <2> QED
    BY <1>1, <2>3, <2>4, TextEnded
<1>4. CASE ctx.jitter_count # 0
  <2>1. TextReads(text, "secondary") /\ UNCHANGED <<system, ctx, world>>
    BY <1>4 DEF ReadJitterCount
  <2> QED
    BY <1>1, <1>2, <1>4, <2>1, TextGoesOn
<1> QED
  BY <1>3, <1>4

LEMMA InvReadSecondary == TextInv /\ ReadSecondary => TextInv'
<1> SUFFICES ASSUME TextInv, ReadSecondary PROVE TextInv'
  OBVIOUS
<1> DEFINE text == [wait.text EXCEPT !.secondary = ctx.secondary]
           t    == [text EXCEPT !.to = world.begun]
<1>1. /\ world.done \in Nat /\ world.begun \in Nat /\ ctx.secondary \in Nat
      /\ wait.text \in Text /\ ctx.source \in DualSources
  BY DEF ReadSecondary, TextInv, TextTypes, TextRead
<1>2. /\ text \in Text /\ text.nothing = wait.text.nothing /\ text.from = wait.text.from
      /\ text.last = wait.text.last /\ text.secondary = ctx.secondary
  BY <1>1 DEF Text
<1>3. TextEnds(text) /\ UNCHANGED <<system, ctx, world>>
  BY DEF ReadSecondary
<1> HIDE DEF text
<1>4. /\ t.nothing = text.nothing /\ t.from = text.from /\ t.last = text.last
      /\ t.to = world.begun /\ t.secondary = ctx.secondary
  BY <1>2 DEF Text
<1>5. /\ ~text.nothing /\ text.from <= world.done /\ ctx.count >= 1 /\ text.from \in Nat
      /\ Recent(text.last, text.from, world.begun)
  BY <1>1, <1>2 DEF ReadSecondary, TextInv, TextRead, Text
<1>6. Recent(ctx.secondary, text.from, world.begun)
  <2>1. /\ ctx.secondary >= 1 /\ world.done <= ctx.secondary /\ ctx.secondary <= world.begun
    <3>1. ctx.source = "ping" => ctx.jitter_count >= 1
      BY DEF ReadSecondary, TextInv, TextRead
    <3> QED
      BY <1>1, <1>5, <3>1, FieldsTell DEF TextInv
  <2> QED
    BY <1>1, <1>5, <2>1 DEF Recent
<1>7. Measured(t)
  <2> HIDE DEF t
  <2> QED
    BY <1>4, <1>5, <1>6 DEF Measured
<1> QED
  BY <1>2, <1>3, <1>7, TextEnded

LEMMA TextSteps == TextInv /\ [TextNext]_source => TextInv'
<1> SUFFICES ASSUME TextInv, [TextNext]_source PROVE TextInv'
  OBVIOUS
<1>1. CASE UNCHANGED source
  <2>1. UNCHANGED <<ctx, pc, wait, sample, world>>
    BY <1>1 DEF source
  <2>2. FieldsStored'
    BY <2>1, FieldsKept DEF TextInv
  <2> QED
    BY <2>1, <2>2 DEF TextInv, TextTypes, TextRead, Measured
<1> QED
  BY <1>1, InvCollectGood, InvStoreField, InvReadCount, InvReadLast, InvReadJitterCount,
     InvReadSecondary DEF TextNext

LEMMA TextHolds == Spec => [](/\ system = "clock" => ClockInv
                              /\ system = "text" => TextInv)
<1> DEFINE I == /\ system = "clock" => ClockInv
                /\ system = "text" => TextInv
<1>1. Init => I
  BY Alone, ClockStarts, TextStarts
<1>2. I /\ [Next]_source => I'
  BY Alone, SystemStays, ClockSteps, TextSteps
<1> QED
  BY <1>1, <1>2, PTL DEF Spec

\* What the text under a plot shows was measured, and no longer ago than the
\* collection that had ended when the text was begun, whatever the collector
\* stores in the meantime, and in whichever order it does; and the text of a
\* clock tells the time of the last collection, where the scale is guessed
\* right (the get_stats functions of ds/, clock_format_dual_stats).
THEOREM TextAlways == Spec => []TextTellsSource
<1>1. ASSUME system = "text" => TextInv PROVE TextIsMeasured
  <2>1. ASSUME TextInv
        PROVE  LET Lately(n) == n \in (IF sample.from = 0 THEN 1 ELSE sample.from)..sample.to
               IN  /\ sample.nothing => sample.from <= IF ctx.source \in RateSources THEN 1 ELSE 0
                   /\ ~sample.nothing => Lately(sample.last)
                   /\ ~sample.nothing /\ ctx.source \in DualSources =>
                        \/ Lately(sample.secondary)
                        \/ ctx.source = "ping" /\ sample.secondary = 0 /\ sample.from <= 1
    BY <2>1, SMTT(60) DEF TextInv, TextTypes, Measured, Recent, Text
  <2> QED
    BY <1>1, <2>1 DEF TextIsMeasured
<1>2. ASSUME system = "clock" => ClockInv PROVE ClockTellsTime
  BY <1>2 DEF ClockInv, ClockTellsTime
<1>3. /\ system = "clock" => ClockInv
      /\ system = "text" => TextInv
      => TextTellsSource
  BY <1>1, <1>2 DEF TextTellsSource
<1> QED
  BY <1>3, TextHolds, PTL

-----------------------------------------------------------------------------
(* The cpu source                                                          *)

Counts    == [idle : Nat, total : Nat, sys : Nat]
Baselines == [idle : Nat, total : Nat, sys : Nat, first : BOOLEAN]
Loads     == [busy : Int, sys : Int, of : Int]
Usages    == [read : Counts, value : Loads, period : Loads, sound : BOOLEAN]
CpuWorld  == [idle : Nat, sys : Nat, user : Nat, gone : Nat, dual : [CpuPlots -> BOOLEAN],
              done : Nat, last : [CpuFunctions -> Counts],
              crossed : [CpuFunctions -> BOOLEAN]]

CpuTypes ==
    /\ system \in CpuPorts
    /\ ctx \in [CpuFunctions -> Baselines]
    /\ pc \in [CpuPlots -> {"rest", "compute", "idle", "total"}]
    /\ wait \in [CpuPlots -> Usages]
    /\ world \in CpuWorld
    /\ world.idle >= 1
    /\ Total <= MaxTicks \/ Total = 1

\* What was read before is not more than has passed, in any state.
Past(c) ==
    /\ c.total <= Total
    /\ system = "vms" => c.sys = 0
    /\ system # "vms" => /\ c.idle <= world.idle
                         /\ c.sys <= world.sys
                         /\ c.total - c.idle - c.sys <= world.user

\* The ticks n were read after those of o.
Later(n, o) ==
    /\ 0 <= n.total - o.total
    /\ n.total - o.total < TickWord
    /\ system = "vms" => n.sys = o.sys
    /\ system # "vms" => /\ o.idle <= n.idle
                         /\ o.sys <= n.sys
                         /\ n.sys - o.sys <= (n.total - o.total) - (n.idle - o.idle)

\* The ticks from o to n, of which a dual plot shows those of the system.
Elapsed(n, o)     == Share((n.total - o.total) - (n.idle - o.idle), 0, n.total - o.total)
ElapsedDual(n, o) == [Elapsed(n, o) EXCEPT !.sys = n.sys - o.sys]

On(p, f) == Collecting(p) /\ Static(p) = f

\* When no collection of a function has crossed the last one, that one is the
\* only one there may be, it has read what is kept of it here, and between
\* collections the static variables are what it read.
Settled(f) == ~world.crossed[f] =>
    /\ world.last[f].total >= 1
    /\ \A p \in CpuPlots : On(p, f) =>
         /\ wait[p].read = world.last[f]
         /\ pc[p] = "total" => ctx[f].idle = world.last[f].idle
         /\ \A q \in CpuPlots : On(q, f) => q = p
    /\ (\A p \in CpuPlots : ~On(p, f)) =>
         /\ ctx[f].idle = world.last[f].idle
         /\ ctx[f].total = world.last[f].total
         /\ ctx[f].sys = world.last[f].sys
         /\ ~ctx[f].first

\* As CpuShareOfPeriod says of a value v for the period t.
Fair(v, t) == (/\ t.of > 0
               /\ t.busy >= 0
               /\ system = "unixware" => 1000 * t.of + t.of \div 2 < TickWord)
                 => IsShare(v, t)

\* A collection that can be right computes its value from the baseline that
\* its period begins with.
Judged(p) == Collecting(p) /\ wait[p].sound =>
    /\ ~world.crossed[Static(p)]
    /\ pc[p] = "compute" =>
         LET o == ctx[Static(p)]
             n == wait[p].read
         IN  /\ Later(n, o)
             /\ o.total >= 1
             /\ ~o.first
             /\ wait[p].period = IF world.dual[p] THEN ElapsedDual(n, o) ELSE Elapsed(n, o)
    /\ pc[p] # "compute" => Fair(wait[p].value, wait[p].period)

CpuInv ==
    /\ CpuTypes
    /\ \A f \in CpuFunctions : Past(world.last[f]) /\ Settled(f)
    /\ \A p \in CpuPlots : Judged(p)
    /\ CpuShareOfPeriod

\* A step that leaves alone what is judged of a collection.
LEMMA JudgedKept ==
    ASSUME NEW q \in CpuPlots, Judged(q), system' = system, Static(q)' = Static(q),
           ctx'[Static(q)] = ctx[Static(q)], pc'[q] = pc[q], wait'[q] = wait[q],
           world'.dual[q] = world.dual[q],
           world'.crossed[Static(q)] = world.crossed[Static(q)]
    PROVE  Judged(q)'
<1>1. Collecting(q)' <=> Collecting(q)
  BY DEF Collecting
<1>2. /\ \A m, o : Later(m, o) => Later(m, o)'
      /\ \A v, t : Fair(v, t) => Fair(v, t)'
  BY DEF Later, Fair, IsShare
<1> QED
  BY <1>1, <1>2, Zenon DEF Judged

LEMMA NoTickWrap == \A n \in Nat : n < TickWord => n % TickWord = n
BY CpuAssumption

\* What the ports make of two readings that no port takes for a first one.
LEMMA SinceTrue ==
    ASSUME NEW n \in Counts, NEW o \in Baselines, Later(n, o), system # "vms"
    PROVE  /\ Since(n, o) = Elapsed(n, o)
           /\ Minus(n.total, o.total) = n.total - o.total
           /\ Minus(n.idle, o.idle) = n.idle - o.idle
           /\ Minus(n.sys, o.sys) = n.sys - o.sys
<1>1. /\ n.total - o.total \in Nat
      /\ n.total - o.total < TickWord
      /\ n.idle - o.idle \in Nat
      /\ n.sys - o.sys \in Nat
      /\ (n.total - o.total) - (n.idle - o.idle) \in Nat
      /\ n.idle - o.idle < TickWord
      /\ n.sys - o.sys < TickWord
      /\ (n.total - o.total) - (n.idle - o.idle) < TickWord
  BY CpuAssumption DEF Later, Counts, Baselines
<1>2. /\ Minus(n.total, o.total) = n.total - o.total
      /\ Minus(n.idle, o.idle) = n.idle - o.idle
      /\ Minus(n.sys, o.sys) = n.sys - o.sys
      /\ Minus(n.total - o.total, n.idle - o.idle) = (n.total - o.total) - (n.idle - o.idle)
  BY <1>1, NoTickWrap DEF Minus
<1> QED
  BY <1>2 DEF Since, Elapsed

LEMMA SystemTrue ==
    ASSUME NEW n \in Counts, NEW o \in Baselines, Later(n, o), system # "vms"
    PROVE  WithSystem(Elapsed(n, o), n, o) = ElapsedDual(n, o)
<1> DEFINE v == Elapsed(n, o)
           b == (n.total - o.total) - (n.idle - o.idle)
           s == n.sys - o.sys
           t == n.total - o.total
<1>1. Minus(n.sys, o.sys) = s
  BY SinceTrue
<1>2. /\ v = [busy |-> b, sys |-> 0, of |-> t]
      /\ ElapsedDual(n, o) = [busy |-> b, sys |-> s, of |-> t]
  BY DEF Elapsed, ElapsedDual, Share
<1>3. b \in Int /\ s \in Int /\ t \in Int /\ 0 <= s /\ s <= b
  BY DEF Later, Counts, Baselines
<1>4. WithSystem(v, n, o) = IF v = NoLoad THEN v ELSE [v EXCEPT !.sys = s]
  BY <1>1 DEF WithSystem
<1> HIDE DEF b, s, t, v
<1>5. ASSUME v = NoLoad PROVE WithSystem(v, n, o) = ElapsedDual(n, o)
  <2>1. v.busy = b /\ v.busy = 0
    BY <1>2, <1>5 DEF NoLoad, Share
  <2>2. s = 0
    BY <1>3, <2>1
  <2> QED
    BY <1>2, <1>4, <1>5, <2>2
<1>6. ASSUME v # NoLoad PROVE WithSystem(v, n, o) = ElapsedDual(n, o)
  BY <1>2, <1>4, <1>6
<1>7. WithSystem(v, n, o) = ElapsedDual(n, o)
  BY <1>5, <1>6
<1> QED
  BY <1>7 DEF v

\* A share is its own share.
LEMMA SameShare ==
    ASSUME NEW t \in Loads, t.of > 0 PROVE IsShare(t, t)
<1>1. PICK a \in Int, b \in Int, n \in Nat : a = t.busy /\ b = t.sys /\ n = t.of
  BY DEF Loads
<1>2. a * n - a * n = 0 /\ b * n - b * n = 0
  BY <1>1
<1>3. 2 * Abs(0) = 0
  BY DEF Abs
<1>4. /\ 2 * Abs(t.busy * t.of - t.busy * t.of) = 0
      /\ 2 * Abs(t.sys * t.of - t.sys * t.of) = 0
  BY <1>1, <1>2, <1>3
<1>5. \A e \in {2 * Abs(t.busy * t.of - t.busy * t.of), 2 * Abs(t.sys * t.of - t.sys * t.of)} :
        e <= IF system = "unixware" THEN t.of ELSE 0
  BY <1>1, <1>4
<1> QED
  BY <1>5 DEF IsShare

\* The ports that take the difference of two readings.
LEMMA PortsTrue ==
    ASSUME NEW n \in Counts, NEW o \in Baselines, Later(n, o), o.total >= 1, ~o.first,
           n.total - o.total > 0, system # "vms"
    PROVE  /\ LinuxCpu(n, o) = Elapsed(n, o)
           /\ LinuxCpuDual(n, o) = ElapsedDual(n, o)
           /\ DarwinCpu(n, o) = Elapsed(n, o)
           /\ DarwinCpuDual(n, o) = ElapsedDual(n, o)
           /\ SunosCpu(n, o) = Elapsed(n, o)
           /\ SunosCpuDual(n, o) = ElapsedDual(n, o)
           /\ IrixCpu(n, o) = Elapsed(n, o)
           /\ IrixCpuDual(n, o) = ElapsedDual(n, o)
<1>1. /\ o.total # 0
      /\ n.total > o.total
      /\ n.total # o.total
      /\ Minus(n.total, o.total) > 0
  <2>1. Minus(n.total, o.total) = n.total - o.total
    BY SinceTrue
  <2> QED
    BY <2>1 DEF Counts, Baselines
<1>2. /\ LinuxCpu(n, o) = Since(n, o)
      /\ DarwinCpu(n, o) = Since(n, o)
      /\ SunosCpu(n, o) = Since(n, o)
      /\ IrixCpu(n, o) = Since(n, o)
  BY <1>1 DEF LinuxCpu, DarwinCpu, SunosCpu, IrixCpu
<1> QED
  BY <1>2, SinceTrue, SystemTrue DEF LinuxCpuDual, DarwinCpuDual, SunosCpuDual, IrixCpuDual

\* The quotient q of d thousandths of t is right to half of one.
Rounded(q, d, t) == /\ q \in Int
                    /\ 2 * (q * t - d * 1000) <= t
                    /\ 2 * (d * 1000 - q * t) <= t

\* unixware: d ticks of t in tenths of a percent.
LEMMA RoundedTrue ==
    ASSUME NEW d \in Nat, NEW t \in Nat, d <= t, t > 0, 1000 * t + t \div 2 < TickWord
    PROVE  Rounded(Permille(d, t), d, t)
<1> DEFINE h == t \div 2
           x == 1000 * d + h
<1>1. h \in Nat /\ 2 * h <= t /\ t <= 2 * h + 1
  OBVIOUS
<1> HIDE DEF h
<1>2. x \in Nat /\ x < TickWord
  BY <1>1, CpuAssumption DEF h
<1> HIDE DEF x
<1>a. PICK q \in Int, r \in Int : q = x \div t /\ r = x % t
  BY <1>2
<1>3. Permille(d, t) = q
  <2>1. x % TickWord = x
    BY <1>2, NoTickWrap
  <2> QED
    BY <2>1, <1>a DEF Permille, h, x
<1>4. 0 <= r /\ r < t
  BY <1>2, <1>a
<1>5. x = t * q + r
  BY <1>2, <1>a, Division
<1> DEFINE k == t * q
<1>6. k \in Int /\ k = q * t
  BY <1>a
<1>7. k = 1000 * d + h - r
  BY <1>4, <1>5, <1>6, <1>1 DEF x
<1> HIDE DEF k
<1>8. 2 * (k - d * 1000) <= t /\ 2 * (d * 1000 - k) <= t
  BY <1>1, <1>4, <1>7, <1>6
<1> QED
  BY <1>3, <1>6, <1>8 DEF Rounded

LEMMA UnixwareTrue ==
    ASSUME NEW n \in Counts, NEW o \in Baselines, Later(n, o), system = "unixware"
    PROVE  /\ Fair(UnixwareCpu(n, o), Elapsed(n, o))
           /\ Fair(UnixwareCpuDual(n, o), ElapsedDual(n, o))
<1> DEFINE t == n.total - o.total
           i == n.idle - o.idle
           s == n.sys - o.sys
<1>1. t \in Nat /\ i \in Nat /\ s \in Nat /\ i <= t /\ s <= t
  BY DEF Later, Counts, Baselines
<1>2. /\ Minus(n.total, o.total) = t
      /\ Minus(n.idle, o.idle) = i
      /\ Minus(n.sys, o.sys) = s
  BY SinceTrue
<1> HIDE DEF t, i, s
<1>3. /\ UnixwareCpu(n, o) = [busy |-> 1000 - Permille(i, t), sys |-> 0, of |-> 1000]
      /\ UnixwareCpuDual(n, o) =
           [busy |-> 1000 - Permille(i, t), sys |-> Permille(s, t), of |-> 1000]
  BY <1>2 DEF UnixwareCpu, UnixwareCpuDual, Share
<1>4. /\ Elapsed(n, o) = [busy |-> t - i, sys |-> 0, of |-> t]
      /\ ElapsedDual(n, o) = [busy |-> t - i, sys |-> s, of |-> t]
  BY DEF Elapsed, ElapsedDual, Share, t, i, s
<1>0. Elapsed(n, o).of = t /\ ElapsedDual(n, o).of = t
  BY <1>4
<1> SUFFICES ASSUME t > 0, 1000 * t + t \div 2 < TickWord
             PROVE  /\ IsShare(UnixwareCpu(n, o), Elapsed(n, o))
                    /\ IsShare(UnixwareCpuDual(n, o), ElapsedDual(n, o))
  BY <1>0 DEF Fair
<1>5. Rounded(Permille(i, t), i, t) /\ Rounded(Permille(s, t), s, t)
  BY <1>1, RoundedTrue, ZenonT(60)
<1>6. PICK a \in Int, b \in Int : a = Permille(i, t) /\ b = Permille(s, t)
  BY <1>5 DEF Rounded
<1> DEFINE k == a * t
           l == b * t
<1>a. /\ k \in Int /\ 2 * (k - i * 1000) <= t /\ 2 * (i * 1000 - k) <= t
      /\ l \in Int /\ 2 * (l - s * 1000) <= t /\ 2 * (s * 1000 - l) <= t
  BY <1>1, <1>5, <1>6 DEF Rounded
<1>8. 2 * Abs((1000 - a) * t - (t - i) * 1000) <= t
  <2>1. (1000 - a) * t - (t - i) * 1000 = i * 1000 - k
    BY <1>1
  <2> HIDE DEF k
  <2>2. 2 * Abs(i * 1000 - k) <= t
    BY <1>1, <1>a DEF Abs
  <2> QED
    BY <2>1, <2>2
<1>9. 2 * Abs(b * t - s * 1000) <= t
  <2> HIDE DEF l
  <2>1. 2 * Abs(l - s * 1000) <= t
    BY <1>1, <1>a DEF Abs
  <2> QED
    BY <2>1 DEF l
<1>7. 2 * Abs(0 * t - 0 * 1000) <= t
  BY <1>1 DEF Abs
<1> QED
  BY <1>3, <1>4, <1>5, <1>6, <1>7, <1>8, <1>9 DEF IsShare

LEMMA VmsTrue ==
    ASSUME NEW n \in Counts, NEW o \in Baselines, Later(n, o), ~o.first, system = "vms"
    PROVE  /\ Fair(VmsCpuDual(n, o), Elapsed(n, o))
           /\ Fair(VmsCpuDual(n, o), ElapsedDual(n, o))
<1> DEFINE v == VmsCpuDual(n, o)
           t == Elapsed(n, o)
<1>1. t = [busy |-> (n.total - o.total) - (n.idle - o.idle), sys |-> 0,
           of |-> n.total - o.total]
  BY DEF Elapsed, Share
<1>2. ElapsedDual(n, o) = t
  <2>1. n.sys - o.sys = 0
    BY DEF Later, Counts, Baselines
  <2> HIDE DEF t
  <2> QED
    BY <1>1, <2>1 DEF ElapsedDual, t
<1> SUFFICES ASSUME t.of > 0, t.busy >= 0 PROVE IsShare(v, t)
  BY <1>2 DEF Fair
<1>3. t \in Loads
  BY <1>1 DEF Loads, Counts, Baselines
<1>4. v = t
  BY <1>1 DEF VmsCpuDual, Share, Counts, Baselines
<1> HIDE DEF t, v
<1> QED
  BY <1>3, <1>4, SameShare

\* What a collection computes is the share of the period.
LEMMA ShareTrue ==
    ASSUME NEW n \in Counts, NEW o \in Baselines, Later(n, o), o.total >= 1, ~o.first,
           system \in CpuPorts
    PROVE  /\ Fair(CpuSingle(n, o), Elapsed(n, o))
           /\ Fair(CpuDual(n, o), ElapsedDual(n, o))
<1>1. CASE system = "vms"
  <2>1. CpuDual(n, o) = VmsCpuDual(n, o) /\ CpuSingle(n, o) = VmsCpuDual(n, o)
    BY <1>1 DEF CpuDual, CpuSingle, VmsCpu
  <2> QED
    BY <1>1, <2>1, VmsTrue
<1>2. CASE system = "unixware"
  <2>1. CpuDual(n, o) = UnixwareCpuDual(n, o) /\ CpuSingle(n, o) = UnixwareCpu(n, o)
    BY <1>2 DEF CpuDual, CpuSingle
  <2> QED
    BY <1>2, <2>1, UnixwareTrue
<1>3. CASE system \notin {"vms", "unixware"} /\ n.total - o.total > 0
  <2>1. /\ Elapsed(n, o) \in Loads /\ ElapsedDual(n, o) \in Loads
        /\ Elapsed(n, o).of > 0 /\ ElapsedDual(n, o).of > 0
    BY <1>3 DEF Elapsed, ElapsedDual, Share, Loads, Counts, Baselines
  <2>2. CASE system \in {"linux", "unix", "freebsd", "win32"}
    <3>1. CpuDual(n, o) = LinuxCpuDual(n, o) /\ CpuSingle(n, o) = LinuxCpu(n, o)
      BY <2>2 DEF CpuDual, CpuSingle, UnixCpu, UnixCpuDual, FreebsdCpu, FreebsdCpuDual,
                  Win32Cpu, Win32CpuDual, LinuxCpuDual
    <3> QED
      BY <1>3, <2>1, <3>1, PortsTrue, SameShare DEF Fair
  <2>3. CASE system = "darwin"
    <3>1. CpuDual(n, o) = DarwinCpuDual(n, o) /\ CpuSingle(n, o) = DarwinCpu(n, o)
      BY <2>3 DEF CpuDual, CpuSingle
    <3> QED
      BY <1>3, <2>1, <3>1, PortsTrue, SameShare DEF Fair
  <2>4. CASE system \in {"sunos", "hpux", "aix"}
    <3>1. CpuDual(n, o) = SunosCpuDual(n, o) /\ CpuSingle(n, o) = SunosCpu(n, o)
      BY <2>4 DEF CpuDual, CpuSingle, HpuxCpu, HpuxCpuDual, AixCpu, AixCpuDual, SunosCpuDual
    <3> QED
      BY <1>3, <2>1, <3>1, PortsTrue, SameShare DEF Fair
  <2>5. CASE system \in {"irix65", "decosf1"}
    <3>1. CpuDual(n, o) = IrixCpuDual(n, o) /\ CpuSingle(n, o) = IrixCpu(n, o)
      BY <2>5 DEF CpuDual, CpuSingle, OsfCpu, OsfCpuDual, IrixCpuDual
    <3> QED
      BY <1>3, <2>1, <3>1, PortsTrue, SameShare DEF Fair
  <2> QED
    BY <1>3, <2>2, <2>3, <2>4, <2>5, CpuAssumption
<1>4. CASE ~(n.total - o.total > 0)
  BY <1>4 DEF Fair, Elapsed, ElapsedDual, Share
<1> QED
  BY <1>1, <1>2, <1>3, <1>4

LEMMA CpuStarts == CpuInit => CpuInv
<1> SUFFICES ASSUME CpuInit PROVE CpuInv
  OBVIOUS
<1>1. PICK dual \in [CpuPlots -> BOOLEAN] :
        world = [idle |-> 1, sys |-> 0, user |-> 0, gone |-> 0, dual |-> dual, done |-> 0,
                 last    |-> [f \in CpuFunctions |-> TickCounts(0, 0, 0)],
                 crossed |-> [f \in CpuFunctions |-> TRUE]]
  BY DEF CpuInit
<1>2. world \in CpuWorld /\ Total = 1
  BY <1>1 DEF CpuWorld, Total, Counts, TickCounts
<1>3. ctx \in [CpuFunctions -> Baselines]
  BY DEF CpuInit, Never, Baselines
<1>4. wait \in [CpuPlots -> Usages]
  BY DEF CpuInit, NoUsage, Usages, Counts, TickCounts, NoLoad, Share, Loads
<1>a. pc \in [CpuPlots -> {"rest", "compute", "idle", "total"}] /\ system \in CpuPorts
  BY DEF CpuInit
<1>b. world.idle = 1
  BY <1>1
<1>5. CpuTypes
  BY <1>2, <1>3, <1>4, <1>a, <1>b DEF CpuTypes
<1>6. ASSUME NEW f \in CpuFunctions PROVE Past(world.last[f]) /\ Settled(f)
  BY <1>1, <1>2 DEF Past, TickCounts, Settled
<1>7. ASSUME NEW p \in CpuPlots PROVE Judged(p)
  BY DEF CpuInit, Judged, Collecting
<1>8. CpuShareOfPeriod
  BY DEF CpuInit, CpuShareOfPeriod, NoUsage
<1> QED
  BY <1>5, <1>6, <1>7, <1>8 DEF CpuInv

LEMMA StaticFunction == CpuTypes => \A p \in CpuPlots : Static(p) \in CpuFunctions
BY DEF Static, Function, CpuFunctions

\* The ticks that are read now are past ones, after those of any past reading.
LEMMA TicksRead ==
    ASSUME CpuTypes, NEW n \in Counts, NEW l \in Counts, Past(l),
           n = IF system = "vms" THEN TickCounts(world.idle + world.gone, Total, 0)
                                 ELSE TickCounts(world.idle, Total, world.sys)
    PROVE  /\ Past(n)
           /\ n.total >= 1
           /\ l.total >= 1 => Later(n, l)
<1>1. PICK i \in Nat, s \in Nat, u \in Nat, g \in Nat :
        i = world.idle /\ s = world.sys /\ u = world.user /\ g = world.gone
  BY DEF CpuTypes, CpuWorld
<1>2. Total = i + s + u /\ i >= 1 /\ (Total <= MaxTicks \/ Total = 1)
  BY <1>1 DEF CpuTypes, Total
<1>3. Past(n) /\ n.total >= 1
  BY <1>1, <1>2 DEF Past, TickCounts
<1>4. ASSUME l.total >= 1 PROVE Later(n, l)
  <2>1. n.total - l.total < TickWord /\ 0 <= n.total - l.total
    BY <1>1, <1>2, <1>4, CpuAssumption DEF Past, TickCounts, Counts
  <2> QED
    BY <1>1, <1>2, <2>1 DEF Later, Past, TickCounts, Counts
<1> QED
  BY <1>3, <1>4

LEMMA InvReadTicks ==
    ASSUME CpuInv, NEW p \in CpuPlots, ReadTicks(p) PROVE CpuInv'
<1> DEFINE f == Static(p)
           l == world.last[f]
           n == IF system = "vms" THEN TickCounts(world.idle + world.gone, Total, 0)
                                  ELSE TickCounts(world.idle, Total, world.sys)
           t == Share((n.total - l.total) - (n.idle - l.idle),
                      IF world.dual[p] THEN n.sys - l.sys ELSE 0, n.total - l.total)
<1>1. CpuTypes /\ f \in CpuFunctions /\ l \in Counts /\ Past(l)
  BY StaticFunction DEF CpuInv, CpuTypes, CpuWorld
<1>2. n \in Counts
  BY <1>1 DEF CpuTypes, CpuWorld, TickCounts, Counts, Total
<1>3. Past(n) /\ n.total >= 1 /\ (l.total >= 1 => Later(n, l))
  BY <1>1, <1>2, TicksRead
<1>4. PICK c \in BOOLEAN : c = Crosses(p)
  <2>1. Crosses(p) \in BOOLEAN
    BY DEF Crosses
  <2> QED
    BY <2>1, Zenon
<1>5. PICK s \in BOOLEAN : s = (~Crosses(p) /\ ~world.crossed[f])
  <2>1. PICK d \in BOOLEAN : d = world.crossed[f]
    BY <1>1 DEF CpuTypes, CpuWorld
  <2>2. PICK s \in BOOLEAN : s = (~c /\ ~d)
    OBVIOUS
  <2> QED
    BY <1>4, <2>1, <2>2, Zenon
<1> DEFINE la == [world.last EXCEPT ![f] = n]
           cr == [world.crossed EXCEPT ![f] = c]
           dn == world.done + 1
<1>6. t \in Loads
  BY <1>1, <1>2 DEF Loads, Share, Counts
<1>7. /\ la \in [CpuFunctions -> Counts] /\ la[f] = n
      /\ cr \in [CpuFunctions -> BOOLEAN] /\ cr[f] = c
      /\ \A g \in CpuFunctions \ {f} : la[g] = world.last[g] /\ cr[g] = world.crossed[g]
      /\ dn \in Nat
  BY <1>1, <1>2 DEF CpuTypes, CpuWorld
<1>8. world' = [world EXCEPT !.done = dn, !.last = la, !.crossed = cr]
  BY <1>4 DEF ReadTicks
<1>9. /\ wait'[p] = [read |-> n, value |-> NoLoad, period |-> t, sound |-> s]
      /\ wait' = [q \in CpuPlots |->
                    IF q = p THEN [read |-> n, value |-> NoLoad, period |-> t, sound |-> s]
                    ELSE IF c /\ Static(q) = f THEN [wait[q] EXCEPT !.sound = FALSE]
                    ELSE wait[q]]
  BY <1>4, <1>5 DEF ReadTicks
<1>10. /\ pc[p] = "rest" /\ pc' = [pc EXCEPT ![p] = "compute"]
       /\ UNCHANGED <<system, ctx, sample>>
  BY DEF ReadTicks
<1> HIDE DEF la, cr, dn
<1>11. /\ world' \in CpuWorld
       /\ world'.idle = world.idle /\ world'.sys = world.sys /\ world'.user = world.user
       /\ world'.dual = world.dual /\ world'.last = la /\ world'.crossed = cr
  BY <1>1, <1>7, <1>8 DEF CpuTypes, CpuWorld
<1>12. Total' = Total
  BY <1>11 DEF Total
<1> HIDE DEF n, t
<1>13. ASSUME NEW q \in CpuPlots, q # p
       PROVE  /\ wait'[q] \in Usages
              /\ wait'[q].read = wait[q].read
              /\ wait'[q].value = wait[q].value
              /\ wait'[q].period = wait[q].period
              /\ wait'[q].sound => wait[q].sound /\ ~(c /\ Static(q) = f)
              /\ pc'[q] = pc[q]
  <2>1. wait[q] \in Usages
    BY <1>1 DEF CpuTypes
  <2>2. CASE c /\ Static(q) = f
    <3>1. wait'[q] = [wait[q] EXCEPT !.sound = FALSE]
      BY <1>9, <1>13, <2>2
    <3> QED
      BY <1>1, <1>10, <1>13, <2>1, <3>1 DEF Usages, CpuTypes
  <2>3. CASE ~(c /\ Static(q) = f)
    <3>1. wait'[q] = wait[q]
      BY <1>9, <1>13, <2>3
    <3> QED
      BY <1>1, <1>10, <1>13, <2>1, <2>3, <3>1 DEF CpuTypes
  <2> QED
    BY <2>2, <2>3
<1>14. CpuTypes'
  <2>1. wait'[p] \in Usages
    BY <1>2, <1>6, <1>9 DEF Usages, NoLoad, Share, Loads
  <2>2. wait' \in [CpuPlots -> Usages]
    BY <1>9, <1>13, <2>1
  <2> QED
    BY <1>1, <1>10, <1>11, <1>12, <2>2 DEF CpuTypes
<1>15. pc'[p] = "compute" /\ Collecting(p)' /\ ~Collecting(p)
  BY <1>1, <1>10 DEF CpuTypes, Collecting
<1>16. \A q \in CpuPlots : Static(q)' = Static(q)
  BY <1>10, <1>11 DEF Static, Function
<1>17. ASSUME NEW q \in CpuPlots, q # p PROVE Collecting(q)' <=> Collecting(q)
  BY <1>13, <1>17 DEF Collecting
<1>18. ASSUME NEW q \in CpuPlots, q # p, ~c PROVE ~On(q, f)
  BY <1>4, <1>18 DEF Crosses, On
<1> HIDE DEF f
<1>19. ASSUME NEW g \in CpuFunctions PROVE Past(world.last[g])' /\ Settled(g)'
  <2>1. CASE g # f
    <3>1. /\ world'.last[g] = world.last[g] /\ world'.crossed[g] = world.crossed[g]
          /\ Past(world.last[g]) /\ Settled(g)
      BY <1>7, <1>11, <1>19, <2>1 DEF CpuInv
    <3>2. Past(world.last[g])'
      BY <1>10, <1>11, <1>12, <3>1 DEF Past
    <3>3. \A q \in CpuPlots : On(q, g)' <=> On(q, g)
      BY <1>15, <1>16, <1>17, <2>1 DEF On, f
    <3>4. \A q \in CpuPlots : On(q, g) => q # p
      BY <2>1 DEF On, f
    <3> QED
      BY <1>10, <1>13, <3>1, <3>2, <3>3, <3>4 DEF Settled
  <2>2. CASE g = f
    <3>1. world'.last[g] = n /\ (world'.crossed[g] <=> c)
      BY <1>7, <1>11, <2>2
    <3>2. Past(world.last[g])'
      BY <1>3, <1>10, <1>11, <1>12, <3>1 DEF Past
    <3>3. On(p, g)'
      BY <1>15, <1>16, <2>2 DEF On, f
    <3>4. ASSUME ~c, NEW q \in CpuPlots, On(q, g)' PROVE q = p
      BY <1>16, <1>17, <1>18, <2>2, <3>4 DEF On
    <3>5. wait'[p].read = n
      BY <1>9
    <3> QED
      BY <1>3, <1>15, <3>1, <3>2, <3>3, <3>4, <3>5 DEF Settled
  <2> QED
    BY <2>1, <2>2
<1>20. ASSUME NEW q \in CpuPlots PROVE Judged(q)'
  <2>1. CASE q = p
    <3> SUFFICES ASSUME s PROVE Judged(p)'
      BY <1>9, <2>1 DEF Judged
    <3>1. ~c /\ ~world.crossed[f]
      BY <1>4, <1>5
    <3>2. \A r \in CpuPlots : ~On(r, f)
      BY <1>15, <1>18, <3>1 DEF On
    <3>3. Settled(f)
      BY <1>1 DEF CpuInv
    <3>a. ctx[f] \in Baselines
      BY <1>1 DEF CpuTypes
    <3>b. PICK o \in Baselines, N \in Counts : o = ctx[f] /\ N = n
      BY <1>2, <3>a
    <3>4. /\ N.total >= 1 /\ (l.total >= 1 => Later(N, l)) /\ l.total >= 1
          /\ o.idle = l.idle /\ o.total = l.total /\ o.sys = l.sys /\ ~o.first
      BY <1>3, <3>1, <3>2, <3>3, <3>b DEF Settled
    <3>5. Later(N, o)
      BY <3>4 DEF Later
    <3>6. t = IF world.dual[p] THEN ElapsedDual(N, o) ELSE Elapsed(N, o)
      <4>1. Elapsed(N, o) = [busy |-> (n.total - l.total) - (n.idle - l.idle), sys |-> 0,
                             of |-> n.total - l.total]
        BY <3>4, <3>b DEF Elapsed, Share
      <4>2. ElapsedDual(N, o) = [busy |-> (n.total - l.total) - (n.idle - l.idle),
                                 sys |-> n.sys - l.sys, of |-> n.total - l.total]
        BY <3>4, <3>b, <4>1 DEF ElapsedDual
      <4> QED
        BY <4>1, <4>2 DEF t, Share
    <3>7. /\ wait'[p].read = N
          /\ wait'[p].period = IF world'.dual[p] THEN ElapsedDual(N, o) ELSE Elapsed(N, o)
          /\ Static(p)' \in CpuFunctions
          /\ ctx'[Static(p)'] = o
          /\ ~world'.crossed[Static(p)']
      BY <1>1, <1>7, <1>9, <1>10, <1>11, <1>16, <3>1, <3>6, <3>b DEF f
    <3>8. Later(N, o)'
      BY <1>10, <3>5 DEF Later
    <3> QED
      BY <1>15, <3>4, <3>7, <3>8 DEF Judged
  <2>2. CASE q # p
    <3> SUFFICES ASSUME Collecting(q)', wait'[q].sound PROVE Judged(q)'
      BY DEF Judged
    <3>1. /\ wait'[q].read = wait[q].read /\ wait'[q].value = wait[q].value
          /\ wait'[q].period = wait[q].period /\ wait[q].sound /\ pc'[q] = pc[q]
          /\ ~(c /\ Static(q) = f) /\ Collecting(q) /\ Judged(q)
      BY <1>13, <1>17, <2>2 DEF CpuInv
    <3>2. Static(q) # f
      BY <1>18, <2>2, <3>1 DEF On
    <3>3. Static(q) \in CpuFunctions /\ world'.crossed[Static(q)] = world.crossed[Static(q)]
      BY <1>1, <1>7, <1>11, <3>2, StaticFunction
    <3> QED
      BY <1>10, <1>11, <1>16, <3>1, <3>3
         DEF Judged, Later, Fair, IsShare, Elapsed, ElapsedDual, Share
  <2> QED
    BY <2>1, <2>2
<1>21. CpuShareOfPeriod'
  BY <1>10 DEF CpuInv, CpuShareOfPeriod, IsShare
<1> QED
  BY <1>14, <1>19, <1>20, <1>21 DEF CpuInv

\* A port shows numbers whatever was read.
LEMMA LoadsShown ==
    ASSUME NEW n \in Counts, NEW o \in Baselines, system \in CpuPorts
    PROVE  CpuSingle(n, o) \in Loads /\ CpuDual(n, o) \in Loads
<1>1. ASSUME NEW a \in Int, NEW b \in Int PROVE Minus(a, b) \in Int
  BY CpuAssumption DEF Minus
<1>2. Since(n, o) \in Loads /\ NoLoad \in Loads /\ Full \in Loads
  BY <1>1 DEF Since, Share, NoLoad, Full, Loads, Counts, Baselines
<1>3. ASSUME NEW v \in Loads PROVE WithSystem(v, n, o) \in Loads
  BY <1>1 DEF WithSystem, Loads, Counts, Baselines
<1>4. LinuxCpu(n, o) \in Loads /\ LinuxCpuDual(n, o) \in Loads
  BY <1>2, <1>3 DEF LinuxCpu, LinuxCpuDual
<1>5. DarwinCpu(n, o) \in Loads /\ DarwinCpuDual(n, o) \in Loads
  BY <1>2, <1>3 DEF DarwinCpu, DarwinCpuDual
<1>6. SunosCpu(n, o) \in Loads /\ SunosCpuDual(n, o) \in Loads
  BY <1>2, <1>3 DEF SunosCpu, SunosCpuDual
<1>7. IrixCpu(n, o) \in Loads /\ IrixCpuDual(n, o) \in Loads
  BY <1>2, <1>3 DEF IrixCpu, IrixCpuDual
<1>8. UnixwareCpu(n, o) \in Loads /\ UnixwareCpuDual(n, o) \in Loads
  <2>1. ASSUME NEW d \in Int, NEW t \in Int, t >= 0 PROVE Permille(d, t) \in Int
    <3>1. t = 0 \/ t > 0
      BY <2>1
    <3>2. (1000 * d + t \div 2) % TickWord \in Int
      BY CpuAssumption
    <3> QED
      BY <3>1, <3>2 DEF Permille
  <2>2. ASSUME NEW a \in Int, NEW b \in Int PROVE Minus(a, b) >= 0
    BY CpuAssumption DEF Minus
  <2>3. /\ Permille(Minus(n.idle, o.idle), Minus(n.total, o.total)) \in Int
        /\ Permille(Minus(n.sys, o.sys), Minus(n.total, o.total)) \in Int
    <3>1. /\ n.idle \in Int /\ n.total \in Int /\ n.sys \in Int
          /\ o.idle \in Int /\ o.total \in Int /\ o.sys \in Int
      BY DEF Counts, Baselines
    <3> QED
      BY <3>1, <1>1, <2>1, <2>2
  <2> QED
    BY <2>3 DEF UnixwareCpu, UnixwareCpuDual, Share, Loads
<1>9. VmsCpuDual(n, o) \in Loads
  BY <1>2 DEF VmsCpuDual, Share, Loads, Counts, Baselines
<1> QED
  <2>1. CASE system \in {"linux", "unix", "freebsd", "win32"}
    BY <1>4, <2>1 DEF CpuDual, CpuSingle, UnixCpu, UnixCpuDual, FreebsdCpu, FreebsdCpuDual,
                      Win32Cpu, Win32CpuDual, LinuxCpuDual
  <2>2. CASE system = "darwin"
    BY <1>5, <2>2 DEF CpuDual, CpuSingle
  <2>3. CASE system \in {"sunos", "hpux", "aix"}
    BY <1>6, <2>3 DEF CpuDual, CpuSingle, HpuxCpu, HpuxCpuDual, AixCpu, AixCpuDual, SunosCpuDual
  <2>4. CASE system \in {"irix65", "decosf1"}
    BY <1>7, <2>4 DEF CpuDual, CpuSingle, OsfCpu, OsfCpuDual, IrixCpuDual
  <2>5. CASE system = "unixware"
    BY <1>8, <2>5 DEF CpuDual, CpuSingle
  <2>6. CASE system = "vms"
    BY <1>9, <2>6 DEF CpuDual, CpuSingle, VmsCpu
  <2> QED
    BY <2>1, <2>2, <2>3, <2>4, <2>5, <2>6, CpuAssumption

LEMMA InvCompute ==
    ASSUME CpuInv, NEW p \in CpuPlots, Compute(p) PROVE CpuInv'
<1> DEFINE f == Static(p)
<1>1. CpuTypes /\ f \in CpuFunctions
  BY StaticFunction DEF CpuInv
<1>2. PICK n \in Counts, o \in Baselines : n = wait[p].read /\ o = ctx[f]
  BY <1>1 DEF CpuTypes, Usages
<1> DEFINE v == IF world.dual[p] THEN CpuDual(n, o) ELSE CpuSingle(n, o)
<1>3. v \in Loads
  BY <1>1, LoadsShown DEF CpuTypes
<1>4. /\ pc[p] = "compute" /\ pc' = [pc EXCEPT ![p] = "idle"]
      /\ wait' = [wait EXCEPT ![p].value = v]
      /\ UNCHANGED <<system, ctx, sample, world>>
  BY <1>2 DEF Compute
<1> HIDE DEF v
<1>5. /\ wait' \in [CpuPlots -> Usages]
      /\ wait'[p].value = v /\ wait'[p].period = wait[p].period /\ wait'[p].read = wait[p].read
      /\ wait'[p].sound = wait[p].sound /\ pc'[p] = "idle"
      /\ \A q \in CpuPlots \ {p} : wait'[q] = wait[q] /\ pc'[q] = pc[q]
  BY <1>1, <1>3, <1>4 DEF CpuTypes, Usages
<1>6. CpuTypes'
  BY <1>1, <1>4, <1>5 DEF CpuTypes, Total
<1>7. \A q \in CpuPlots : /\ Static(q)' = Static(q)
                          /\ Collecting(q)' <=> Collecting(q)
  BY <1>4, <1>5 DEF Static, Function, Collecting
<1>8. ASSUME NEW g \in CpuFunctions PROVE Past(world.last[g])' /\ Settled(g)'
  <2>1. \A q \in CpuPlots : /\ On(q, g)' <=> On(q, g)
                            /\ wait'[q].read = wait[q].read
                            /\ pc'[q] = "total" => pc[q] = "total"
    BY <1>5, <1>7 DEF On
  <2> QED
    BY <1>4, <2>1 DEF CpuInv, Past, Total, Settled
<1>9. ASSUME NEW q \in CpuPlots PROVE Judged(q)'
  <2>1. CASE q = p
    <3> SUFFICES ASSUME wait[p].sound PROVE Judged(p)'
      BY <1>5, <2>1 DEF Judged
    <3>1. /\ ~world.crossed[f]
          /\ Later(n, o)
          /\ o.total >= 1
          /\ ~o.first
          /\ wait[p].period = IF world.dual[p] THEN ElapsedDual(n, o) ELSE Elapsed(n, o)
      BY <1>2, <1>4 DEF CpuInv, Judged, Collecting
    <3>2. Fair(CpuSingle(n, o), Elapsed(n, o)) /\ Fair(CpuDual(n, o), ElapsedDual(n, o))
      BY <1>1, <3>1, ShareTrue DEF CpuTypes
    <3>3. PICK t : t = wait[p].period
      OBVIOUS
    <3>4. Fair(v, t)
      BY <3>1, <3>2, <3>3 DEF v
    <3>5. PICK w : w = v
      OBVIOUS
    <3>6. Fair(w, t)'
      BY <1>4, <3>4, <3>5 DEF Fair, IsShare
    <3> QED
      BY <1>4, <1>5, <1>7, <3>1, <3>3, <3>5, <3>6 DEF Judged
  <2>2. CASE q # p
    BY <1>4, <1>5, <1>7, <2>2
       DEF CpuInv, Judged, Later, Fair, IsShare, Elapsed, ElapsedDual, Share
  <2> QED
    BY <2>1, <2>2
<1>10. CpuShareOfPeriod'
  BY <1>4 DEF CpuInv, CpuShareOfPeriod, IsShare
<1> QED
  BY <1>6, <1>8, <1>9, <1>10 DEF CpuInv

\* What a collection stores is seen by no other that can be right.
LEMMA StoreSeen ==
    ASSUME CpuInv, NEW p \in CpuPlots, Collecting(p), NEW q \in CpuPlots, q # p,
           Collecting(q), wait[q].sound
    PROVE  Static(q) # Static(p)
<1>1. Settled(Static(p)) /\ Settled(Static(q)) /\ Judged(q)
  BY StaticFunction DEF CpuInv
<1> QED
  BY <1>1 DEF Judged, Settled, On

LEMMA InvStoreIdle ==
    ASSUME CpuInv, NEW p \in CpuPlots, StoreIdle(p) PROVE CpuInv'
<1> DEFINE f == Static(p)
<1>1. CpuTypes /\ f \in CpuFunctions
  BY StaticFunction DEF CpuInv
<1>2. PICK n \in Counts : n = wait[p].read
  BY <1>1 DEF CpuTypes, Usages
<1>3. /\ pc[p] = "idle" /\ pc' = [pc EXCEPT ![p] = "total"]
      /\ ctx' = [ctx EXCEPT ![f].idle = n.idle]
      /\ UNCHANGED <<system, wait, sample, world>>
  BY <1>2 DEF StoreIdle
<1> HIDE DEF f
<1>4. /\ ctx' \in [CpuFunctions -> Baselines] /\ ctx'[f].idle = n.idle
      /\ \A g \in CpuFunctions \ {f} : ctx'[g] = ctx[g]
      /\ pc'[p] = "total"
      /\ \A q \in CpuPlots \ {p} : pc'[q] = pc[q]
  BY <1>1, <1>3 DEF CpuTypes, Baselines, Counts
<1>5. CpuTypes'
  BY <1>1, <1>3, <1>4 DEF CpuTypes, Total
<1>6. \A q \in CpuPlots : /\ Static(q)' = Static(q)
                          /\ Collecting(q)' <=> Collecting(q)
  BY <1>3, <1>4 DEF Static, Function, Collecting
<1>7. Collecting(p)
  BY <1>3 DEF Collecting
<1>8. ASSUME NEW g \in CpuFunctions PROVE Past(world.last[g])' /\ Settled(g)'
  <2>1. Past(world.last[g])'
    BY <1>3 DEF CpuInv, Past, Total
  <2>2. \A q \in CpuPlots : On(q, g)' <=> On(q, g)
    BY <1>6 DEF On
  <2>3. Settled(g)
    BY DEF CpuInv
  <2>4. CASE g = f
    <3>1. On(p, g)
      BY <1>7, <2>4 DEF On, f
    <3> QED
      BY <1>2, <1>3, <1>4, <2>1, <2>2, <2>3, <2>4, <3>1 DEF Settled
  <2>5. CASE g # f
    <3>1. ~On(p, g)
      BY <2>5 DEF On, f
    <3> QED
      BY <1>3, <1>4, <2>1, <2>2, <2>3, <2>5, <3>1 DEF Settled
  <2> QED
    BY <2>4, <2>5
<1>9. ASSUME NEW q \in CpuPlots PROVE Judged(q)'
  <2>1. CASE q = p
    BY <1>3, <1>4, <1>6, <1>7, <2>1 DEF CpuInv, Judged, Fair, IsShare
  <2>2. CASE q # p
    <3> SUFFICES ASSUME Collecting(q), wait[q].sound PROVE Judged(q)'
      BY <1>3, <1>6 DEF Judged
    <3>1. Static(q) # f /\ Static(q) \in CpuFunctions
      BY <1>1, <1>7, <2>2, StoreSeen, StaticFunction DEF f
    <3>2. /\ Static(q)' = Static(q) /\ ctx'[Static(q)] = ctx[Static(q)] /\ pc'[q] = pc[q]
          /\ wait' = wait /\ world' = world /\ system' = system /\ Judged(q)
      BY <1>3, <1>4, <1>6, <2>2, <3>1 DEF CpuInv
    <3> QED
      BY <3>2, JudgedKept, Zenon
  <2> QED
    BY <2>1, <2>2
<1>10. CpuShareOfPeriod'
  BY <1>3 DEF CpuInv, CpuShareOfPeriod, IsShare
<1> QED
  BY <1>5, <1>8, <1>9, <1>10 DEF CpuInv

LEMMA InvStoreTotal ==
    ASSUME CpuInv, NEW p \in CpuPlots, StoreTotal(p) PROVE CpuInv'
<1> DEFINE f == Static(p)
<1>1. CpuTypes /\ f \in CpuFunctions
  BY StaticFunction DEF CpuInv
<1>2. PICK n \in Counts, o \in Baselines : n = wait[p].read /\ o = ctx[f]
  BY <1>1 DEF CpuTypes, Usages
<1> DEFINE b == NewBaseline(o, n)
<1>3. /\ pc[p] = "total" /\ pc' = [pc EXCEPT ![p] = "rest"]
      /\ ctx' = [ctx EXCEPT ![f] = b]
      /\ sample' = [wait[p] EXCEPT !.read = NoUsage.read]
      /\ wait' = [wait EXCEPT ![p] = NoUsage]
      /\ UNCHANGED <<system, world>>
  BY <1>2 DEF StoreTotal
<1>4. /\ b = [idle |-> o.idle, total |-> n.total, sys |-> n.sys, first |-> FALSE]
      /\ b \in Baselines
  <2> DEFINE h == [o EXCEPT !.total = n.total, !.sys = n.sys]
  <2>1. h \in Baselines /\ h.idle = o.idle /\ h.total = n.total /\ h.sys = n.sys
    BY DEF Baselines, Counts
  <2>2. b = [h EXCEPT !.first = FALSE]
    BY DEF NewBaseline, Baselines
  <2> HIDE DEF h, b
  <2> QED
    BY <2>1, <2>2 DEF Baselines, Counts
<1> HIDE DEF f, b
<1>5. NoUsage \in Usages
  BY DEF NoUsage, Usages, Counts, TickCounts, NoLoad, Share, Loads
<1>6. /\ ctx' \in [CpuFunctions -> Baselines] /\ ctx'[f] = b
      /\ \A g \in CpuFunctions \ {f} : ctx'[g] = ctx[g]
      /\ wait' \in [CpuPlots -> Usages]
      /\ pc'[p] = "rest"
      /\ \A q \in CpuPlots \ {p} : pc'[q] = pc[q] /\ wait'[q] = wait[q]
  BY <1>1, <1>3, <1>4, <1>5 DEF CpuTypes
<1>7. CpuTypes'
  BY <1>1, <1>3, <1>6 DEF CpuTypes, Total
<1>8. /\ \A q \in CpuPlots : Static(q)' = Static(q)
      /\ \A q \in CpuPlots \ {p} : Collecting(q)' <=> Collecting(q)
      /\ Collecting(p) /\ ~Collecting(p)'
  BY <1>3, <1>6 DEF Static, Function, Collecting
<1>9. ASSUME NEW g \in CpuFunctions PROVE Past(world.last[g])' /\ Settled(g)'
  <2>1. Past(world.last[g])'
    BY <1>3 DEF CpuInv, Past, Total
  <2>2. /\ \A q \in CpuPlots \ {p} : On(q, g)' <=> On(q, g)
        /\ ~On(p, g)'
    BY <1>8 DEF On
  <2>3. Settled(g)
    BY DEF CpuInv
  <2>4. CASE g = f
    <3>1. On(p, g)
      BY <1>8, <2>4 DEF On, f
    <3> QED
      BY <1>2, <1>3, <1>4, <1>6, <2>1, <2>2, <2>3, <2>4, <3>1 DEF Settled
  <2>5. CASE g # f
    <3>1. ~On(p, g)
      BY <2>5 DEF On, f
    <3> QED
      BY <1>3, <1>6, <2>1, <2>2, <2>3, <2>5, <3>1 DEF Settled
  <2> QED
    BY <2>4, <2>5
<1>10. ASSUME NEW q \in CpuPlots PROVE Judged(q)'
  <2>1. CASE q = p
    BY <1>8, <2>1 DEF Judged
  <2>2. CASE q # p
    <3> SUFFICES ASSUME Collecting(q), wait[q].sound PROVE Judged(q)'
      BY <1>6, <1>8, <2>2 DEF Judged
    <3>1. Static(q) # f /\ Static(q) \in CpuFunctions
      BY <1>1, <1>8, <2>2, StoreSeen, StaticFunction DEF f
    <3>2. /\ Static(q)' = Static(q) /\ ctx'[Static(q)] = ctx[Static(q)] /\ pc'[q] = pc[q]
          /\ wait'[q] = wait[q] /\ world'.dual = world.dual /\ system' = system /\ Judged(q)
          /\ world'.crossed[Static(q)] = world.crossed[Static(q)]
      BY <1>3, <1>6, <1>8, <2>2, <3>1 DEF CpuInv
    <3> QED
      BY <3>2, JudgedKept, Zenon
  <2> QED
    BY <2>1, <2>2
<1>11. CpuShareOfPeriod'
  <2>1. /\ sample'.value = wait[p].value /\ sample'.period = wait[p].period
        /\ sample'.sound = wait[p].sound
    BY <1>1, <1>3 DEF CpuTypes, Usages
  <2>2. wait[p].sound => Fair(wait[p].value, wait[p].period)
    BY <1>3, <1>8 DEF CpuInv, Judged
  <2> QED
    BY <1>3, <2>1, <2>2 DEF CpuShareOfPeriod, Fair, IsShare
<1> QED
  BY <1>7, <1>9, <1>10, <1>11 DEF CpuInv

\* Steps of the machine only move on from what was read.
LEMMA InvMachine ==
    ASSUME CpuInv, UNCHANGED <<system, ctx, pc, wait, sample>>, world' \in CpuWorld,
           UNCHANGED <<world.dual, world.last, world.crossed>>,
           world.idle <= world'.idle, world.sys <= world'.sys, world.user <= world'.user,
           Total' = Total \/ Total' <= MaxTicks
    PROVE  CpuInv'
<1>1. CpuTypes
  BY DEF CpuInv
<1>2. /\ world.idle \in Nat /\ world.sys \in Nat /\ world.user \in Nat
      /\ world'.idle \in Nat /\ world'.sys \in Nat /\ world'.user \in Nat
      /\ world.idle >= 1 /\ Total <= Total'
  BY <1>1 DEF CpuTypes, CpuWorld, Total
<1>3. CpuTypes'
  BY <1>1, <1>2 DEF CpuTypes
<1>4. \A q \in CpuPlots : /\ Static(q)' = Static(q)
                          /\ Collecting(q)' <=> Collecting(q)
  BY DEF Static, Function, Collecting
<1>5. ASSUME NEW g \in CpuFunctions PROVE Past(world.last[g])' /\ Settled(g)'
  <2>1. PICK l \in Counts : l = world.last[g] /\ Past(l)
    BY <1>1 DEF CpuInv, CpuTypes, CpuWorld
  <2>2. Total \in Nat /\ Total' \in Nat
    BY <1>2 DEF Total
  <2>3. Past(l)'
    BY <1>2, <2>1, <2>2 DEF Past, Counts
  <2>4. Settled(g)'
    BY <1>4 DEF CpuInv, Settled, On
  <2> QED
    BY <2>1, <2>3, <2>4 DEF Past
<1>6. ASSUME NEW q \in CpuPlots PROVE Judged(q)'
  BY <1>4, JudgedKept, Zenon DEF CpuInv
<1>7. CpuShareOfPeriod'
  BY DEF CpuInv, CpuShareOfPeriod, IsShare
<1> QED
  BY <1>3, <1>5, <1>6, <1>7 DEF CpuInv

LEMMA InvCpuTick ==
    ASSUME CpuInv, NEW state \in {"idle", "sys", "user"}, CpuTick(state) PROVE CpuInv'
<1>1. CpuTypes
  BY DEF CpuInv
<1> DEFINE m == world[state] + 1
<1>2. m \in Nat
  BY <1>1 DEF CpuTypes, CpuWorld
<1>3. world' = [world EXCEPT ![state] = m] /\ UNCHANGED <<system, ctx, pc, wait, sample>>
  BY DEF CpuTick
<1> HIDE DEF m
<1>4. world' \in CpuWorld /\ UNCHANGED <<world.dual, world.last, world.crossed>>
  BY <1>1, <1>2, <1>3 DEF CpuTypes, CpuWorld
<1>5. /\ world.idle <= world'.idle /\ world.sys <= world'.sys /\ world.user <= world'.user
      /\ Total' = Total + 1
  <2>1. CASE state = "idle"
    BY <1>1, <1>3, <2>1 DEF CpuTypes, CpuWorld, Total, m
  <2>2. CASE state = "sys"
    BY <1>1, <1>3, <2>2 DEF CpuTypes, CpuWorld, Total, m
  <2>3. CASE state = "user"
    BY <1>1, <1>3, <2>3 DEF CpuTypes, CpuWorld, Total, m
  <2> QED
    BY <2>1, <2>2, <2>3
<1>6. Total' <= MaxTicks
  BY <1>1, <1>5, CpuAssumption DEF CpuTick, Total, CpuTypes, CpuWorld
<1> QED
  BY <1>3, <1>4, <1>5, <1>6, InvMachine

LEMMA CpuSteps == CpuInv /\ [CpuNext]_source => CpuInv'
<1> SUFFICES ASSUME CpuInv, [CpuNext]_source PROVE CpuInv'
  OBVIOUS
<1>1. ASSUME NEW p \in CpuPlots, CannotRead(p) PROVE CpuInv'
  <2>1. /\ UNCHANGED <<system, ctx, pc, wait, world>>
        /\ \E v \in Unreadable : sample' = [NoUsage EXCEPT !.value = v]
    BY <1>1 DEF CannotRead
  <2>2. ~sample'.sound
    BY <2>1 DEF NoUsage
  <2>3. CpuShareOfPeriod'
    BY <2>2 DEF CpuShareOfPeriod
  <2>4. CpuTypes' /\ \A f \in CpuFunctions : Past(world.last[f])' /\ Settled(f)'
    BY <2>1 DEF CpuInv, CpuTypes, Past, Total, Settled, On, Collecting, Static, Function
  <2>5. ASSUME NEW q \in CpuPlots PROVE Judged(q)'
    <3>1. Judged(q) /\ UNCHANGED <<system, ctx, pc, wait, world>>
      BY <2>1 DEF CpuInv
    <3>2. Static(q)' = Static(q)
      BY <3>1 DEF Static, Function
    <3> QED
      BY <3>1, <3>2, JudgedKept, Zenon
  <2> QED
    BY <2>3, <2>4, <2>5 DEF CpuInv
<1>2. CASE ProcessEnds
  <2>1. CpuTypes
    BY DEF CpuInv
  <2> DEFINE g == world.gone + 1
  <2>2. /\ g \in Nat /\ world' = [world EXCEPT !.gone = g]
        /\ UNCHANGED <<system, ctx, pc, wait, sample>>
    BY <1>2, <2>1 DEF CpuTypes, CpuWorld, ProcessEnds
  <2> HIDE DEF g
  <2>3. /\ world' \in CpuWorld /\ UNCHANGED <<world.dual, world.last, world.crossed>>
        /\ UNCHANGED <<world.idle, world.sys, world.user>> /\ Total' = Total
    BY <2>1, <2>2 DEF CpuTypes, CpuWorld, Total
  <2>4. world.idle <= world'.idle /\ world.sys <= world'.sys /\ world.user <= world'.user
    BY <2>1, <2>3 DEF CpuTypes, CpuWorld
  <2> QED
    BY <2>2, <2>3, <2>4, InvMachine
<1>3. CASE UNCHANGED source
  <2>1. UNCHANGED <<system, ctx, pc, wait, sample, world>> /\ world \in CpuWorld
    BY <1>3 DEF source, CpuInv, CpuTypes
  <2>2. /\ world' \in CpuWorld /\ UNCHANGED <<world.dual, world.last, world.crossed>>
        /\ UNCHANGED <<world.idle, world.sys, world.user>> /\ Total' = Total
    BY <2>1 DEF Total
  <2>3. world.idle <= world'.idle /\ world.sys <= world'.sys /\ world.user <= world'.user
    BY <2>1, <2>2 DEF CpuWorld
  <2> QED
    BY <2>1, <2>2, <2>3, InvMachine
<1> QED
  BY <1>1, <1>2, <1>3, InvReadTicks, InvCompute, InvStoreIdle, InvStoreTotal, InvCpuTick
     DEF CpuNext

LEMMA CpuHolds == Spec => [](system \in CpuPorts => CpuInv)
<1>1. Init => (system \in CpuPorts => CpuInv)
  BY Alone, CpuStarts
<1>2. (system \in CpuPorts => CpuInv) /\ [Next]_source => (system \in CpuPorts => CpuInv)'
  BY Alone, SystemStays, CpuSteps
<1> QED
  BY <1>1, <1>2, PTL DEF Spec

\* A cpu plot shows the busy part of the time since the last collection that
\* used its static variables, on every port, with any number of plots, unless
\* collections cross each other or have just done so; on unixware to half a
\* tenth of a percent, as long as the ticks fit (cpu_collect, os_cpu_get_stats).
THEOREM CpuShareAlways == Spec => []CpuShareOfPeriod
<1>1. (system \in CpuPorts => CpuInv) => CpuShareOfPeriod
  BY DEF CpuInv, CpuShareOfPeriod
<1> QED
  BY <1>1, CpuHolds, PTL

-----------------------------------------------------------------------------
(* The ping source                                                         *)

Echoes       == [by : PingPlots, seq : Nat, age : Nat]
Replies      == [by : PingPlots, seq : Nat, trip : Nat]
PingContexts == [permanent_error : BOOLEAN, open : BOOLEAN, seq : Nat, since : Int]
PingWaits    == [real : Nat, clock : Int, left : Int, set : BOOLEAN]
Trips        == [value : Int, lag : Int, by : PingPlots \union {"none"}, trip : Nat, set : BOOLEAN]
PingWorld    == [raw : BOOLEAN, creatable : BOOLEAN, net : SUBSET Echoes, jumps : Nat,
                 inbox : [PingPlots -> Seq(Replies)], late : [PingPlots -> Nat],
                 rest : [PingPlots -> Nat], untried : [PingPlots -> Nat],
                 setback : [PingPlots -> Nat]]

PingTypes ==
    /\ system \in PingSystems
    /\ ctx \in [PingPlots -> PingContexts]
    /\ pc \in [PingPlots -> {"rest", "wait"}]
    /\ wait \in [PingPlots -> PingWaits]
    /\ sample \in [PingPlots -> Trips]
    /\ world \in PingWorld

\* An echo of p was sent before, and is either on its way or its reply is in
\* the inbox, once.
Mail(p) ==
    /\ \A e \in world.net : e.by = p =>
         /\ e.seq < ctx[p].seq
         /\ \A d \in world.net : d.by = p /\ d.seq = e.seq => d = e
    /\ \A i \in 1..Len(world.inbox[p]) :
         LET r == world.inbox[p][i] IN
           /\ world.raw \/ r.by = p
           /\ r.by = p =>
                /\ r.seq < ctx[p].seq
                /\ \A e \in world.net : e.by = p => e.seq # r.seq
                /\ \A k \in 1..Len(world.inbox[p]) :
                     world.inbox[p][k].by = p /\ world.inbox[p][k].seq = r.seq => k = i

\* While p waits, the current echo is as old as the wait, which the clock
\* measures unless it is set.
Waits(p) ==
    /\ pc[p] = "rest" => wait[p] = NoPing
    /\ pc[p] = "wait" =>
         /\ wait[p].left >= 0
         /\ ~wait[p].set => /\ wait[p].clock = wait[p].real
                            /\ wait[p].real + wait[p].left = PingTimeout
         /\ \A e \in world.net :
              e.by = p /\ e.seq = Current(p) => e.age = wait[p].real
         /\ \A i \in 1..Len(world.inbox[p]) :
              LET r == world.inbox[p][i] IN
                r.by = p /\ r.seq = Current(p) => r.trip = wait[p].real

\* Where the number of a reply is not looked at there is only the current echo,
\* unless one was missed.
Only(p) ==
    /\ system = "unix-ping" /\ world.late[p] = 0 =>
         /\ \A e \in world.net : e.by = p => pc[p] = "wait" /\ e.seq = Current(p)
         /\ \A i \in 1..Len(world.inbox[p]) :
              LET r == world.inbox[p][i] IN r.by = p => pc[p] = "wait" /\ r.seq = Current(p)
    /\ system = "IcmpSendEcho" =>
         \A i \in 1..Len(world.inbox[p]) :
           LET r == world.inbox[p][i] IN
             r.by = p /\ pc[p] = "wait" /\ r.seq = Current(p)

PingRetries(p) ==
    /\ world.rest[p] <= Interval
    /\ Unresolved(p) => /\ pc[p] = "rest"
                        /\ world.untried[p] <= ctx[p].since + world.setback[p]
                        /\ world.untried[p] <= Retry + world.setback[p] + world.rest[p]

\* As TripIsOfThisEcho says of one plot.
TripTrue(p) ==
    LET s == sample[p] IN
        s.value >= 0 =>
            /\ s.by = p \/ (system = "icmp_ping" /\ world.raw)
            /\ s.lag = 0 \/ (system = "unix-ping" /\ s.lag > 0 /\ world.late[p] > 0)
            /\ s.by = p /\ s.lag = 0 /\ ~s.set => s.value = s.trip
            /\ s.value <= PingTimeout \/ s.set

PingInv ==
    /\ PingTypes
    /\ \A p \in PingPlots : Mail(p) /\ Waits(p) /\ Only(p) /\ PingRetries(p) /\ TripTrue(p)

LEMMA PingStarts == PingInit => PingInv
<1> SUFFICES ASSUME PingInit PROVE PingInv
  OBVIOUS
<1> DEFINE Zeros == [p \in PingPlots |-> 0]
<1>0. PICK raw \in BOOLEAN, up \in BOOLEAN :
        /\ world = [raw |-> raw, creatable |-> up, net |-> {}, jumps |-> 0,
                    inbox |-> [p \in PingPlots |-> <<>>], late |-> Zeros, rest |-> Zeros,
                    untried |-> Zeros, setback |-> Zeros]
        /\ \E bad \in [PingPlots -> BOOLEAN] :
             ctx = [p \in PingPlots |-> [permanent_error |-> bad[p], open |-> up /\ ~bad[p],
                                        seq |-> 0, since |-> 0]]
  BY Zenon DEF PingInit
<1>1. /\ world = [raw |-> raw, creatable |-> up, net |-> {}, jumps |-> 0,
                  inbox |-> [p \in PingPlots |-> <<>>], late |-> Zeros, rest |-> Zeros,
                  untried |-> Zeros, setback |-> Zeros]
      /\ \E bad \in [PingPlots -> BOOLEAN] :
           ctx = [p \in PingPlots |-> [permanent_error |-> bad[p], open |-> up /\ ~bad[p],
                                      seq |-> 0, since |-> 0]]
  BY <1>0
<1>2. Zeros \in [PingPlots -> Nat] /\ [p \in PingPlots |-> <<>>] \in [PingPlots -> Seq(Replies)]
  OBVIOUS
<1>3. world \in PingWorld
  <2> HIDE DEF Zeros
  <2> QED
    BY <1>1, <1>2 DEF PingWorld
<1>4. ctx \in [PingPlots -> PingContexts]
  BY <1>1 DEF PingContexts
<1>5. /\ pc = [p \in PingPlots |-> "rest"]
      /\ wait = [p \in PingPlots |-> NoPing]
      /\ sample = [p \in PingPlots |-> NoTrip]
      /\ system \in PingSystems
  BY DEF PingInit
<1>6. NoPing \in PingWaits /\ NoTrip \in Trips
  BY DEF NoPing, NoTrip, PingWaits, Trips
<1>7. PingTypes
  BY <1>3, <1>4, <1>5, <1>6 DEF PingTypes
<1>8. ASSUME NEW p \in PingPlots
      PROVE  Mail(p) /\ Waits(p) /\ Only(p) /\ PingRetries(p) /\ TripTrue(p)
  <2>1. /\ world.net = {} /\ world.inbox[p] = <<>> /\ world.rest[p] = 0
        /\ world.untried[p] = 0 /\ world.setback[p] = 0 /\ ctx[p].since = 0
        /\ pc[p] = "rest" /\ wait[p] = NoPing /\ sample[p].value = -1
    BY <1>1, <1>5 DEF NoTrip
  <2> QED
    BY <2>1, ClockAssumption DEF Mail, Waits, Only, PingRetries, TripTrue
<1> QED
  BY <1>7, <1>8 DEF PingInv

LEMMA PingElapsedNat ==
    ASSUME PingTypes, NEW p \in PingPlots PROVE PingElapsed(p) \in Nat
<1>1. PICK c \in Int : c = wait[p].clock
  BY DEF PingTypes, PingWaits
<1>2. c % ClockWord \in Nat
  BY ClockAssumption
<1> QED
  BY <1>1, <1>2 DEF PingElapsed

LEMMA PingElapsedTrue ==
    ASSUME PingTypes, NEW p \in PingPlots, Waits(p), pc[p] = "wait", ~wait[p].set
    PROVE  PingElapsed(p) = wait[p].real /\ wait[p].real <= PingTimeout
<1>1. PICK r \in Nat, l \in Int : r = wait[p].real /\ l = wait[p].left
  BY DEF PingTypes, PingWaits
<1>2. wait[p].clock = r /\ r <= PingTimeout /\ r < ClockWord
  BY <1>1, ClockAssumption DEF Waits
<1>3. r % ClockWord = r
  BY <1>2, NoWord
<1> QED
  BY <1>1, <1>2, <1>3 DEF PingElapsed

LEMMA InboxTaken ==
    ASSUME NEW s \in Seq(Replies), s # <<>>
    PROVE  /\ 1 \in 1..Len(s) /\ Head(s) = s[1] /\ Head(s) \in Replies
           /\ Tail(s) \in Seq(Replies)
           /\ \A i \in 1..Len(Tail(s)) : i + 1 \in 2..Len(s) /\ Tail(s)[i] = s[i + 1]
OBVIOUS

\* A reply is taken out of the inbox of p.
LEMMA MailTaken ==
    ASSUME PingInv, NEW p \in PingPlots, world.inbox[p] # <<>>,
           UNCHANGED <<ctx, world.net, world.raw>>,
           world'.inbox = [world.inbox EXCEPT ![p] = Tail(@)]
    PROVE  \A q \in PingPlots : Mail(q)'
<1>1. PingTypes
  BY DEF PingInv
<1> TAKE q \in PingPlots
<1>2. Mail(q)
  BY DEF PingInv
<1>3. CASE q # p
  <2>1. world'.inbox[q] = world.inbox[q]
    BY <1>1, <1>3 DEF PingTypes, PingWorld
  <2> QED
    BY <1>2, <2>1, SMTT(60) DEF Mail
<1>4. CASE q = p
  <2> DEFINE s == world.inbox[p]
  <2>1. world'.inbox[p] = Tail(s) /\ s \in Seq(Replies)
    BY <1>1 DEF PingTypes, PingWorld
  <2>2. \A i \in 1..Len(Tail(s)) : i + 1 \in 1..Len(s) /\ Tail(s)[i] = s[i + 1]
    BY <2>1, InboxTaken
  <2>3. PICK t \in Seq(Replies) : t = Tail(s)
    BY <2>1, InboxTaken
  <2>a. Len(t) \in Nat
    OBVIOUS
  <2>4. \A i \in 1..Len(t) : i + 1 \in 1..Len(s) /\ t[i] = s[i + 1]
    BY <2>2, <2>3
  <2>5. ASSUME NEW i \in 1..Len(t)
        PROVE  LET r == t[i] IN
                 /\ world.raw \/ r.by = p
                 /\ r.by = p =>
                      /\ r.seq < ctx[p].seq
                      /\ \A e \in world.net : e.by = p => e.seq # r.seq
                      /\ \A k \in 1..Len(t) : t[k].by = p /\ t[k].seq = r.seq => k = i
    <3>1. PICK j \in 1..Len(s) : j = i + 1 /\ t[i] = s[j]
      BY <2>4
    <3>2. ASSUME NEW k \in 1..Len(t), t[i].by = p, t[k].by = p, t[k].seq = t[i].seq
          PROVE  k = i
      <4>1. PICK l \in 1..Len(s) : l = k + 1 /\ t[k] = s[l]
        BY <2>4
      <4>2. l = j
        BY <1>2, <1>4, <3>1, <3>2, <4>1 DEF Mail
      <4> QED
        BY <2>a, <3>1, <4>1, <4>2
    <3> QED
      BY <1>2, <1>4, <3>1, <3>2 DEF Mail
  <2> QED
    BY <1>2, <1>4, <2>1, <2>3, <2>5 DEF Mail
<1> QED
  BY <1>3, <1>4

\* Nothing changes for a plot that is not concerned.
LEMMA OthersKeep ==
    ASSUME PingInv, NEW q \in PingPlots, UNCHANGED <<system, world.net, world.raw>>,
           ctx'[q] = ctx[q], pc'[q] = pc[q], wait'[q] = wait[q], sample'[q] = sample[q],
           world'.inbox[q] = world.inbox[q], world'.late[q] = world.late[q],
           world'.rest[q] = world.rest[q], world'.untried[q] = world.untried[q],
           world'.setback[q] = world.setback[q]
    PROVE  Mail(q)' /\ Waits(q)' /\ Only(q)' /\ PingRetries(q)' /\ TripTrue(q)'
<1>1. Mail(q) /\ Waits(q) /\ Only(q) /\ PingRetries(q) /\ TripTrue(q)
  BY DEF PingInv
<1> QED
  BY <1>1 DEF Mail, Waits, Only, PingRetries, TripTrue, Current, Unresolved

\* The wait ends with a reply, which is that of the current echo if there is
\* no other.
LEMMA InvAnswered ==
    ASSUME PingInv, NEW p \in PingPlots, pc[p] = "wait", world.inbox[p] # <<>>,
           UNCHANGED <<system, ctx>>, NEW value \in Int,
           Answered(p, Head(world.inbox[p]), value),
           system # "icmp_ping" => Head(world.inbox[p]).by = p,
           TripTrue(p)'
    PROVE  PingInv'
<1> DEFINE s == world.inbox[p]
           r == Head(s)
           b == [world.inbox EXCEPT ![p] = Tail(s)]
<1>1. PingTypes /\ s \in Seq(Replies) /\ r \in Replies /\ Tail(s) \in Seq(Replies)
  BY InboxTaken DEF PingInv, PingTypes, PingWorld
<1>2. b \in [PingPlots -> Seq(Replies)] /\ b[p] = Tail(s)
      /\ \A q \in PingPlots \ {p} : b[q] = world.inbox[q]
  BY <1>1 DEF PingTypes, PingWorld
<1>3. world' = [world EXCEPT !.inbox = b]
  BY DEF Answered
<1> HIDE DEF b
<1>4. /\ world' \in PingWorld /\ world'.inbox = b
      /\ UNCHANGED <<world.net, world.raw, world.late, world.rest, world.untried, world.setback>>
  BY <1>1, <1>2, <1>3 DEF PingTypes, PingWorld
<1> DEFINE t == [value |-> value, lag |-> Current(p) - r.seq, by |-> r.by, trip |-> r.trip,
                 set |-> wait[p].set]
<1>5. t \in Trips
  <2>1. /\ r.seq \in Nat /\ r.by \in PingPlots /\ r.trip \in Nat
        /\ ctx[p].seq \in Nat /\ wait[p].set \in BOOLEAN
    BY <1>1 DEF Replies, PingTypes, PingContexts, PingWaits
  <2>2. Current(p) - r.seq \in Int
    BY <2>1 DEF Current
  <2> HIDE DEF r
  <2> QED
    BY <2>1, <2>2 DEF Trips
<1>6. /\ sample' = [sample EXCEPT ![p] = t]
      /\ pc' = [pc EXCEPT ![p] = "rest"] /\ wait' = [wait EXCEPT ![p] = NoPing]
  BY DEF Answered, PingRests
<1> HIDE DEF t
<1>7. NoPing \in PingWaits
  BY DEF NoPing, PingWaits
<1>8. PingTypes'
  BY <1>1, <1>4, <1>5, <1>6, <1>7 DEF PingTypes
<1>9. ASSUME NEW q \in PingPlots, q # p
      PROVE  Mail(q)' /\ Waits(q)' /\ Only(q)' /\ PingRetries(q)' /\ TripTrue(q)'
  <2>1. /\ pc'[q] = pc[q] /\ wait'[q] = wait[q] /\ sample'[q] = sample[q]
        /\ world'.inbox[q] = world.inbox[q]
    BY <1>1, <1>2, <1>4, <1>6, <1>9 DEF PingTypes
  <2> QED
    BY <1>4, <2>1, OthersKeep
<1>10. pc'[p] = "rest" /\ wait'[p] = NoPing
  BY <1>1, <1>6 DEF PingTypes
<1>11. Mail(p)'
  BY <1>4, MailTaken DEF b
<1>12. Waits(p)'
  BY <1>10 DEF Waits
<1>13. PingRetries(p)'
  BY <1>4, <1>10 DEF PingInv, PingRetries, Unresolved
<1>14. Only(p)'
  <2>1. Mail(p) /\ Only(p)
    BY DEF PingInv
  <2>2. 1 \in 1..Len(s) /\ r = s[1]
    BY <1>1, InboxTaken
  <2>3. PICK u \in Seq(Replies) : u = Tail(s)
    BY <1>1
  <2>4. \A i \in 1..Len(u) : i + 1 \in 2..Len(s) /\ u[i] = s[i + 1]
    BY <1>1, <2>3, InboxTaken
  <2>5. ASSUME NEW i \in 1..Len(u), r.by = p, r.seq = Current(p), u[i].by = p
        PROVE  u[i].seq # Current(p)
    <3>1. PICK j \in 2..Len(s) : u[i] = s[j]
      BY <2>4
    <3>2. j \in 1..Len(s) /\ j # 1
      BY <1>1, <3>1
    <3> QED
      BY <2>1, <2>2, <2>5, <3>1, <3>2 DEF Mail
  <2>6. CASE system = "unix-ping"
    <3> SUFFICES ASSUME world.late[p] = 0
                 PROVE  /\ \A e \in world.net : e.by # p
                        /\ \A i \in 1..Len(u) : u[i].by # p
      BY <1>2, <1>4, <2>3, <2>6 DEF Only
    <3>1. r.by = p /\ r.seq = Current(p)
      BY <2>1, <2>2, <2>6 DEF Only
    <3>2. \A e \in world.net : e.by # p
      BY <2>1, <2>2, <2>6, <3>1 DEF Only, Mail
    <3>3. ASSUME NEW i \in 1..Len(u), u[i].by = p PROVE FALSE
      <4>1. PICK j \in 2..Len(s) : u[i] = s[j]
        BY <2>4
      <4>2. j \in 1..Len(s)
        BY <1>1, <4>1
      <4>3. u[i].seq = Current(p)
        BY <2>1, <2>6, <3>3, <4>1, <4>2 DEF Only
      <4> QED
        BY <2>5, <3>1, <3>3, <4>3
    <3> QED
      BY <3>2, <3>3
  <2>7. CASE system = "IcmpSendEcho"
    <3>1. r.by = p /\ r.seq = Current(p)
      BY <2>1, <2>2, <2>7 DEF Only
    <3>2. ASSUME NEW i \in 1..Len(u) PROVE FALSE
      <4>1. PICK j \in 2..Len(s) : u[i] = s[j]
        BY <2>4
      <4>2. j \in 1..Len(s)
        BY <1>1, <4>1
      <4>3. u[i].by = p /\ u[i].seq = Current(p)
        BY <2>1, <2>7, <4>1, <4>2 DEF Only
      <4> QED
        BY <2>5, <3>1, <4>3
    <3> QED
      BY <1>2, <1>4, <2>3, <2>7, <3>2 DEF Only
  <2>8. CASE system \notin {"unix-ping", "IcmpSendEcho"}
    BY <2>8 DEF Only
  <2> QED
    BY <2>6, <2>7, <2>8
<1>15. ASSUME NEW q \in PingPlots
       PROVE  Mail(q)' /\ Waits(q)' /\ Only(q)' /\ PingRetries(q)' /\ TripTrue(q)'
  BY <1>9, <1>11, <1>12, <1>13, <1>14
<1> QED
  BY <1>8, <1>15 DEF PingInv

\* The wait ends without an answer, or goes on with what the clock leaves of it.
LEMMA InvDropped ==
    ASSUME PingInv, NEW p \in PingPlots, pc[p] = "wait", world.inbox[p] # <<>>,
           UNCHANGED <<system, ctx>>, system # "IcmpSendEcho", Dropped(p),
           Head(world.inbox[p]).by # p \/ Head(world.inbox[p]).seq # Current(p)
    PROVE  PingInv'
<1> DEFINE s == world.inbox[p]
           b == [world.inbox EXCEPT ![p] = Tail(s)]
           x == PingTimeout - PingElapsed(p)
           l == [world.late EXCEPT ![p] = @ + 1]
<1>1. PingTypes /\ s \in Seq(Replies) /\ Tail(s) \in Seq(Replies)
  BY InboxTaken DEF PingInv, PingTypes, PingWorld
<1>2. b \in [PingPlots -> Seq(Replies)] /\ b[p] = Tail(s)
      /\ \A q \in PingPlots \ {p} : b[q] = world.inbox[q]
  BY <1>1 DEF PingTypes, PingWorld
<1>3. l \in [PingPlots -> Nat] /\ l[p] > 0 /\ \A q \in PingPlots \ {p} : l[q] = world.late[q]
  BY <1>1 DEF PingTypes, PingWorld
<1>4. PICK u \in Seq(Replies) : u = Tail(s)
  BY <1>1
<1>5. /\ Len(u) \in Nat
      /\ \A i \in 1..Len(u) : i + 1 \in 1..Len(s) /\ u[i] = s[i + 1]
  BY <1>1, <1>4, InboxTaken
<1>6. CASE /\ PingElapsed(p) < PingTimeout
           /\ wait' = [wait EXCEPT ![p].left = x]
           /\ world' = [world EXCEPT !.inbox[p] = Tail(@)]
           /\ UNCHANGED <<pc, sample>>
  <2>1. world' = [world EXCEPT !.inbox = b]
    BY <1>6
  <2>2. x \in Int /\ x >= 0
    BY <1>1, <1>6, PingElapsedNat, ClockAssumption
  <2> HIDE DEF b, x
  <2>3. /\ world' \in PingWorld /\ world'.inbox = b
        /\ UNCHANGED <<world.net, world.raw, world.late, world.rest, world.untried, world.setback>>
    BY <1>1, <1>2, <2>1 DEF PingTypes, PingWorld
  <2>4. /\ wait' \in [PingPlots -> PingWaits]
        /\ wait'[p].left = x /\ wait'[p].real = wait[p].real /\ wait'[p].clock = wait[p].clock
        /\ wait'[p].set = wait[p].set
        /\ \A q \in PingPlots \ {p} : wait'[q] = wait[q]
    BY <1>1, <1>6, <2>2 DEF PingTypes, PingWaits
  <2>5. PingTypes'
    BY <1>1, <1>6, <2>3, <2>4 DEF PingTypes
  <2>6. ASSUME NEW q \in PingPlots, q # p
        PROVE  Mail(q)' /\ Waits(q)' /\ Only(q)' /\ PingRetries(q)' /\ TripTrue(q)'
    <3>1. wait'[q] = wait[q] /\ world'.inbox[q] = world.inbox[q]
      BY <1>2, <2>3, <2>4, <2>6
    <3> QED
      BY <1>6, <2>3, <3>1, OthersKeep
  <2>7. Mail(p)'
    BY <2>3, MailTaken DEF b
  <2>8. Waits(p)'
    <3>1. Waits(p)
      BY DEF PingInv
    <3>2. ~wait[p].set => wait[p].real + x = PingTimeout /\ wait[p].clock = wait[p].real
      <4> SUFFICES ASSUME ~wait[p].set
                   PROVE  wait[p].real + x = PingTimeout /\ wait[p].clock = wait[p].real
        OBVIOUS
      <4>1. PICK r \in Nat, e \in Nat : r = wait[p].real /\ e = PingElapsed(p)
        BY <1>1, PingElapsedNat DEF PingTypes, PingWaits
      <4>2. e = r
        BY <1>1, <3>1, <4>1, PingElapsedTrue
      <4> QED
        BY <3>1, <4>1, <4>2, ClockAssumption DEF x, Waits
    <3>3. \A i \in 1..Len(u) : u[i].by = p /\ u[i].seq = Current(p) => u[i].trip = wait[p].real
      BY <1>5, <3>1 DEF Waits
    <3>4. \A e \in world.net : e.by = p /\ e.seq = Current(p) => e.age = wait[p].real
      BY <3>1 DEF Waits
    <3> QED
      <4>1. /\ pc'[p] = "wait" /\ wait'[p].left >= 0 /\ Current(p)' = Current(p)
            /\ world'.inbox[p] = u /\ world'.net = world.net
        BY <1>2, <1>4, <1>6, <2>2, <2>3, <2>4 DEF Current
      <4>2. ~wait'[p].set => /\ wait'[p].clock = wait'[p].real
                             /\ wait'[p].real + wait'[p].left = PingTimeout
        BY <2>4, <3>2
      <4>3. \A i \in 1..Len(u) :
              u[i].by = p /\ u[i].seq = Current(p) => u[i].trip = wait'[p].real
        BY <2>4, <3>3
      <4>4. \A e \in world.net : e.by = p /\ e.seq = Current(p) => e.age = wait'[p].real
        BY <2>4, <3>4
      <4> QED
        BY <4>1, <4>2, <4>3, <4>4 DEF Waits
  <2>9. Only(p)'
    <3>1. Only(p)
      BY DEF PingInv
    <3> QED
      BY <1>2, <1>4, <1>5, <1>6, <2>3, <3>1, SMTT(60) DEF Only, Current
  <2>10. PingRetries(p)' /\ TripTrue(p)'
    BY <1>6, <2>3 DEF PingInv, PingRetries, TripTrue, Unresolved
  <2> QED
    BY <2>5, <2>6, <2>7, <2>8, <2>9, <2>10 DEF PingInv
<1>7. CASE /\ PingFails(p) /\ PingRests(p)
           /\ world' = [world EXCEPT !.inbox[p] = Tail(@), !.late[p] = @ + 1]
  <2>1. world' = [world EXCEPT !.inbox = b, !.late = l]
    BY <1>7
  <2> HIDE DEF b, l
  <2>2. /\ world' \in PingWorld /\ world'.inbox = b /\ world'.late = l
        /\ UNCHANGED <<world.net, world.raw, world.rest, world.untried, world.setback>>
    BY <1>1, <1>2, <1>3, <2>1 DEF PingTypes, PingWorld
  <2>3. NoPing \in PingWaits /\ NoTrip \in Trips /\ NoTrip.value = -1
    BY DEF NoPing, PingWaits, NoTrip, Trips
  <2>4. /\ sample' = [sample EXCEPT ![p] = NoTrip]
        /\ pc' = [pc EXCEPT ![p] = "rest"] /\ wait' = [wait EXCEPT ![p] = NoPing]
    BY <1>7 DEF PingFails, PingRests
  <2>5. PingTypes'
    BY <1>1, <2>2, <2>3, <2>4 DEF PingTypes
  <2>6. ASSUME NEW q \in PingPlots, q # p
        PROVE  Mail(q)' /\ Waits(q)' /\ Only(q)' /\ PingRetries(q)' /\ TripTrue(q)'
    <3>1. /\ pc'[q] = pc[q] /\ wait'[q] = wait[q] /\ sample'[q] = sample[q]
          /\ world'.inbox[q] = world.inbox[q] /\ world'.late[q] = world.late[q]
      BY <1>1, <1>2, <1>3, <2>2, <2>4, <2>6 DEF PingTypes
    <3> QED
      BY <2>2, <3>1, OthersKeep
  <2>7. pc'[p] = "rest" /\ wait'[p] = NoPing /\ sample'[p].value = -1
    BY <1>1, <2>3, <2>4 DEF PingTypes
  <2>8. Mail(p)'
    BY <2>2, MailTaken DEF b
  <2>9. Waits(p)' /\ Only(p)' /\ TripTrue(p)'
    BY <1>3, <2>2, <2>7 DEF Waits, Only, TripTrue
  <2>10. PingRetries(p)'
    BY <2>2, <2>7 DEF PingInv, PingRetries, Unresolved
  <2> QED
    BY <2>5, <2>6, <2>8, <2>9, <2>10 DEF PingInv
<1> QED
  BY <1>6, <1>7 DEF Dropped

LEMMA InvReceive ==
    ASSUME PingInv, NEW p \in PingPlots, UnixReceive(p) \/ IcmpReceive(p) \/ Win32Receive(p)
    PROVE  PingInv'
<1> DEFINE r == Head(world.inbox[p])
<1>1. /\ pc[p] = "wait" /\ world.inbox[p] # <<>> /\ UNCHANGED <<system, ctx>>
  BY DEF UnixReceive, IcmpReceive, Win32Receive
<1>2. PingTypes /\ world.inbox[p] \in Seq(Replies)
  BY DEF PingInv, PingTypes, PingWorld
<1>3. /\ 1 \in 1..Len(world.inbox[p]) /\ r = world.inbox[p][1] /\ r \in Replies
  BY <1>1, <1>2, InboxTaken
<1>4. Mail(p) /\ Waits(p) /\ Only(p)
  BY DEF PingInv
<1>5. PingElapsed(p) \in Int
  BY <1>2, PingElapsedNat
<1>6. ~wait[p].set => PingElapsed(p) = wait[p].real /\ wait[p].real <= PingTimeout
  BY <1>1, <1>2, <1>4, PingElapsedTrue
<1>7. r.seq \in Nat /\ ctx[p].seq \in Nat
  BY <1>2, <1>3 DEF PingTypes, PingContexts, Replies
<1>8. r.by = p => Current(p) - r.seq >= 0
  <2>1. r.by = p => r.seq < ctx[p].seq
    BY <1>3, <1>4 DEF Mail
  <2> HIDE DEF r
  <2> QED
    BY <1>7, <2>1 DEF Current
<1>0. Current(p) - r.seq \in Int /\ Current(p) \in Int
  BY <1>7 DEF Current
<1>9. r.by = p /\ r.seq = Current(p) => r.trip = wait[p].real
  BY <1>1, <1>3, <1>4 DEF Waits
<1>10. ASSUME NEW value \in Int, Answered(p, r, value)
       PROVE  /\ sample'[p].value = value /\ sample'[p].lag = Current(p) - r.seq
              /\ sample'[p].by = r.by /\ sample'[p].trip = r.trip
              /\ sample'[p].set = wait[p].set
              /\ UNCHANGED <<world.raw, world.late>>
  BY <1>2, <1>10 DEF Answered, PingTypes, PingWorld
<1>11. CASE UnixReceive(p)
  <2>1. CASE r.by = p
    <3>1. Answered(p, r, PingElapsed(p))
      BY <1>11, <2>1 DEF UnixReceive
    <3>2. r.seq = Current(p) \/ world.late[p] > 0
      BY <1>2, <1>3, <1>4, <1>11, <2>1 DEF UnixReceive, Only, PingTypes, PingWorld
    <3>a. PICK k \in Int, n \in Nat, c \in Int :
            k = Current(p) - r.seq /\ n = r.seq /\ c = Current(p)
      BY <1>0, <1>7
    <3>b. /\ k >= 0
          /\ k = 0 => r.seq = Current(p)
          /\ k = 0 \/ world.late[p] > 0
      BY <1>8, <2>1, <3>2, <3>a
    <3>3. TripTrue(p)'
      <4>1. /\ sample'[p].value = PingElapsed(p) /\ sample'[p].lag = k /\ sample'[p].by = p
            /\ sample'[p].trip = r.trip /\ sample'[p].set = wait[p].set
            /\ UNCHANGED <<world.raw, world.late>>
        BY <1>5, <1>10, <2>1, <3>1, <3>a
      <4>2. k = 0 \/ k > 0
        BY <3>b
      <4>3. system' = "unix-ping"
        BY <1>1, <1>11 DEF UnixReceive
      <4>4. k = 0 /\ ~wait[p].set => PingElapsed(p) = r.trip
        BY <1>6, <1>9, <2>1, <3>b
      <4>5. PingElapsed(p) <= PingTimeout \/ wait[p].set
        BY <1>6
      <4> QED
        BY <3>b, <4>1, <4>2, <4>3, <4>4, <4>5 DEF TripTrue
    <3> QED
      BY <1>1, <1>5, <2>1, <3>1, <3>3, InvAnswered
  <2>2. CASE r.by # p
    BY <1>1, <1>11, <2>2, InvDropped DEF UnixReceive
  <2> QED
    BY <2>1, <2>2
<1>12. CASE IcmpReceive(p)
  <2>1. CASE r.seq = Current(p)
    <3>1. Answered(p, r, PingElapsed(p))
      BY <1>12, <2>1 DEF IcmpReceive, IcmpAnswers
    <3>2. world.raw \/ r.by = p
      BY <1>3, <1>4 DEF Mail
    <3>3. Current(p) - r.seq = 0
      BY <1>7, <2>1
    <3>4. TripTrue(p)'
      BY <1>1, <1>5, <1>6, <1>9, <1>10, <1>12, <2>1, <3>1, <3>2, <3>3
         DEF TripTrue, IcmpReceive
    <3> QED
      BY <1>1, <1>5, <1>12, <3>1, <3>4, InvAnswered DEF IcmpReceive
  <2>2. CASE r.seq # Current(p)
    BY <1>1, <1>12, <2>2, InvDropped DEF IcmpReceive, IcmpAnswers
  <2> QED
    BY <2>1, <2>2
<1>13. CASE Win32Receive(p)
  <2>1. Answered(p, r, r.trip) /\ r.trip \in Int
    BY <1>3, <1>13 DEF Win32Receive, Replies
  <2>2. r.by = p /\ r.seq = Current(p)
    BY <1>3, <1>4, <1>13 DEF Win32Receive, Only
  <2>3. Current(p) - r.seq = 0
    BY <1>7, <2>2
  <2>4. TripTrue(p)'
    BY <1>1, <1>6, <1>9, <1>10, <2>1, <2>2, <2>3 DEF TripTrue
  <2> QED
    BY <1>1, <2>1, <2>2, <2>4, InvAnswered
<1> QED
  BY <1>11, <1>12, <1>13

LEMMA InvPingTimeOut ==
    ASSUME PingInv, NEW p \in PingPlots, PingTimeOut(p) PROVE PingInv'
<1> DEFINE l == [world.late EXCEPT ![p] = @ + 1]
<1>1. PingTypes
  BY DEF PingInv
<1>2. l \in [PingPlots -> Nat] /\ l[p] > 0 /\ \A q \in PingPlots \ {p} : l[q] = world.late[q]
  BY <1>1 DEF PingTypes, PingWorld
<1>3. world' = [world EXCEPT !.late = l] /\ UNCHANGED <<system, ctx>> /\ world.inbox[p] = <<>>
  BY DEF PingTimeOut
<1> HIDE DEF l
<1>4. /\ world' \in PingWorld /\ world'.late = l
      /\ UNCHANGED <<world.net, world.inbox, world.raw, world.rest, world.untried, world.setback>>
  BY <1>1, <1>2, <1>3 DEF PingTypes, PingWorld
<1>5. NoPing \in PingWaits /\ NoTrip \in Trips /\ NoTrip.value = -1
  BY DEF NoPing, PingWaits, NoTrip, Trips
<1>6. /\ sample' = [sample EXCEPT ![p] = NoTrip]
      /\ pc' = [pc EXCEPT ![p] = "rest"] /\ wait' = [wait EXCEPT ![p] = NoPing]
  BY DEF PingTimeOut, PingFails, PingRests
<1>7. PingTypes'
  BY <1>1, <1>3, <1>4, <1>5, <1>6 DEF PingTypes
<1>8. ASSUME NEW q \in PingPlots, q # p
      PROVE  Mail(q)' /\ Waits(q)' /\ Only(q)' /\ PingRetries(q)' /\ TripTrue(q)'
  <2>1. /\ pc'[q] = pc[q] /\ wait'[q] = wait[q] /\ sample'[q] = sample[q]
        /\ world'.late[q] = world.late[q]
    BY <1>1, <1>2, <1>4, <1>6, <1>8 DEF PingTypes
  <2> QED
    BY <1>3, <1>4, <2>1, OthersKeep
<1>9. pc'[p] = "rest" /\ wait'[p] = NoPing /\ sample'[p].value = -1
  BY <1>1, <1>5, <1>6 DEF PingTypes
<1>10. Mail(p)' /\ Waits(p)' /\ Only(p)' /\ TripTrue(p)'
  BY <1>2, <1>3, <1>4, <1>9 DEF PingInv, Mail, Waits, Only, TripTrue
<1>11. PingRetries(p)'
  BY <1>3, <1>4, <1>9 DEF PingInv, PingRetries, Unresolved
<1> QED
  BY <1>7, <1>8, <1>10, <1>11 DEF PingInv

\* An echo is sent, or cannot be: w is the world in which the collection begins.
LEMMA InvSend ==
    ASSUME PingInv, NEW p \in PingPlots, pc[p] = "rest", NEW w \in PingWorld,
           w.raw = world.raw, w.net = world.net, w.inbox = world.inbox, w.late = world.late,
           w.rest = [world.rest EXCEPT ![p] = 0],
           \A q \in PingPlots \ {p} : /\ w.untried[q] = world.untried[q]
                                      /\ w.setback[q] = world.setback[q],
           UNCHANGED system, Send(p, w) \/ SendFails(p, w)
    PROVE  PingInv'
<1> DEFINE n == ctx[p].seq
           m == n + 1
           e == [by |-> p, seq |-> n, age |-> 0]
           h == [ctx EXCEPT ![p].seq = m, ![p].open = TRUE]
<1>1. PingTypes /\ n \in Nat /\ m \in Nat
  BY DEF PingInv, PingTypes, PingContexts
<1>2. /\ h \in [PingPlots -> PingContexts]
      /\ h[p].seq = m /\ h[p].open /\ \A q \in PingPlots \ {p} : h[q] = ctx[q]
  <2> HIDE DEF m
  <2> DEFINE c == [ctx[p] EXCEPT !.seq = m, !.open = TRUE]
  <2>1. c \in PingContexts /\ c.seq = m /\ c.open
    <3>1. PICK r \in PingContexts : r = ctx[p]
      BY <1>1 DEF PingTypes
    <3> QED
      BY <1>1, <3>1 DEF PingContexts
  <2>2. h = [ctx EXCEPT ![p] = c]
    BY <1>1 DEF PingTypes
  <2> HIDE DEF c, h
  <2> QED
    BY <1>1, <2>1, <2>2 DEF PingTypes
<1>3. ctx' = [h EXCEPT ![p].since = 0]
  <2>1. ctx' = [ctx EXCEPT ![p].seq = @ + 1, ![p].open = TRUE, ![p].since = 0]
    BY DEF Send, SendFails
  <2> QED
    BY <2>1
<1> HIDE DEF h, m, n
<1>4. /\ ctx' \in [PingPlots -> PingContexts] /\ ctx'[p].seq = m /\ ctx'[p].open
      /\ \A q \in PingPlots \ {p} : ctx'[q] = ctx[q]
  BY <1>2, <1>3 DEF PingContexts
<1>5. ASSUME NEW q \in PingPlots PROVE Mail(q) /\ Waits(q) /\ Only(q) /\ PingRetries(q)
  BY DEF PingInv
<1>6. /\ n < m /\ Current(p)' = n
      /\ \A d \in world.net : d.by = p => d.seq < n
      /\ \A i \in 1..Len(world.inbox[p]) :
           LET r == world.inbox[p][i] IN r.by = p => r.seq < n
  <2>1. Current(p)' = n
    BY <1>1, <1>4 DEF Current, m
  <2> QED
    BY <1>1, <1>5, <2>1 DEF m, n, Mail
<1>7. /\ system = "IcmpSendEcho" => 1..Len(world.inbox[p]) = {}
      /\ system = "unix-ping" /\ world.late[p] = 0 =>
           /\ \A d \in world.net : d.by # p
           /\ \A i \in 1..Len(world.inbox[p]) : world.inbox[p][i].by # p
  BY <1>5 DEF Only
<1>8. wait[p] = NoPing
  BY <1>5 DEF Waits
<1>9. /\ w.rest \in [PingPlots -> Nat] /\ w.rest[p] = 0
      /\ \A q \in PingPlots \ {p} : w.rest[q] = world.rest[q]
  BY <1>1 DEF PingTypes, PingWorld
<1>10. CASE Send(p, w)
  <2> DEFINE net == world.net \union {e}
  <2>1. e \in Echoes /\ net \in SUBSET Echoes
    BY <1>1 DEF Echoes, PingTypes, PingWorld
  <2>2. world' = [w EXCEPT !.net = net]
    BY <1>10 DEF Send, n
  <2> HIDE DEF net
  <2>3. /\ world' \in PingWorld /\ world'.net = net
        /\ UNCHANGED <<world.inbox, world.raw, world.late>>
        /\ world'.rest = w.rest /\ world'.untried = w.untried /\ world'.setback = w.setback
    BY <2>1, <2>2 DEF PingWorld
  <2>4. /\ pc' = [pc EXCEPT ![p] = "wait"] /\ sample' = sample
        /\ wait' = [wait EXCEPT ![p].left = PingTimeout]
    BY <1>10 DEF Send
  <2>5. /\ wait' \in [PingPlots -> PingWaits]
        /\ wait'[p].left = PingTimeout /\ wait'[p].real = 0 /\ wait'[p].clock = 0
        /\ \A q \in PingPlots \ {p} : wait'[q] = wait[q] /\ pc'[q] = pc[q]
        /\ pc'[p] = "wait"
    <3>0. PICK z \in PingWaits : z = NoPing /\ z.real = 0 /\ z.clock = 0
      <4>1. NoPing \in PingWaits /\ NoPing.real = 0 /\ NoPing.clock = 0
        BY DEF NoPing, PingWaits
      <4> QED
        BY <4>1
    <3> DEFINE c == [z EXCEPT !.left = PingTimeout]
    <3>1. c \in PingWaits /\ c.left = PingTimeout /\ c.real = 0 /\ c.clock = 0
      BY <3>0, ClockAssumption DEF PingWaits
    <3>2. wait' = [wait EXCEPT ![p] = c]
      BY <1>8, <2>4, <3>0
    <3> HIDE DEF c
    <3>3. /\ wait' \in [PingPlots -> PingWaits] /\ wait'[p] = c
          /\ \A q \in PingPlots \ {p} : wait'[q] = wait[q]
      BY <1>1, <3>1, <3>2 DEF PingTypes
    <3>4. pc'[p] = "wait" /\ \A q \in PingPlots \ {p} : pc'[q] = pc[q]
      BY <1>1, <2>4 DEF PingTypes
    <3> QED
      BY <3>1, <3>3, <3>4
  <2>6. PingTypes'
    BY <1>1, <1>4, <2>3, <2>4, <2>5 DEF PingTypes
  <2>7. ASSUME NEW q \in PingPlots, q # p PROVE Mail(q)' /\ Waits(q)' /\ Only(q)' /\ PingRetries(q)'
    <3>1. \A d \in net : d.by = q => d \in world.net
      BY <2>7 DEF net
    <3>2. world.net \subseteq net
      BY DEF net
    <3>3. /\ ctx'[q] = ctx[q] /\ pc'[q] = pc[q] /\ wait'[q] = wait[q]
          /\ world'.rest[q] = world.rest[q] /\ world'.untried[q] = world.untried[q]
          /\ world'.setback[q] = world.setback[q]
      BY <1>4, <1>9, <2>3, <2>5, <2>7
    <3>4. Mail(q)'
      BY <1>5, <2>3, <3>1, <3>2, <3>3 DEF Mail
    <3>5. Waits(q)'
      BY <1>5, <2>3, <3>1, <3>2, <3>3 DEF Waits, Current
    <3>6. Only(q)'
      BY <1>5, <2>3, <3>1, <3>2, <3>3 DEF Only, Current
    <3>7. PingRetries(q)'
      BY <1>5, <3>3 DEF PingRetries, Unresolved
    <3> QED
      BY <3>4, <3>5, <3>6, <3>7
  <2>8. \A d \in net : d.by = p => d = e \/ (d \in world.net /\ d.seq < n)
    BY <1>6 DEF net
  <2>9. e.seq = n /\ e.by = p /\ e.age = 0
    OBVIOUS
  <2> HIDE DEF e
  <2>10. Mail(p)'
    <3>1. ASSUME NEW d \in net, d.by = p
          PROVE  /\ d.seq < m
                 /\ \A c \in net : c.by = p /\ c.seq = d.seq => c = d
      <4>1. d.seq \in Nat
        BY <2>1 DEF Echoes
      <4>2. d.seq < m
        BY <1>1, <1>6, <2>8, <2>9, <3>1, <4>1
      <4>3. ASSUME NEW c \in net, c.by = p, c.seq = d.seq PROVE c = d
        BY <1>1, <1>5, <2>8, <2>9, <3>1, <4>1, <4>3 DEF Mail
      <4> QED
        BY <4>2, <4>3
    <3>2. ASSUME NEW i \in 1..Len(world.inbox[p])
          PROVE  LET r == world.inbox[p][i] IN
                   /\ world.raw \/ r.by = p
                   /\ r.by = p =>
                        /\ r.seq < m
                        /\ \A d \in net : d.by = p => d.seq # r.seq
                        /\ \A k \in 1..Len(world.inbox[p]) :
                             world.inbox[p][k].by = p /\ world.inbox[p][k].seq = r.seq => k = i
      <4>1. world.inbox[p][i] \in Replies
        BY <1>1 DEF PingTypes, PingWorld
      <4>2. world.inbox[p][i].seq \in Nat
        BY <4>1 DEF Replies
      <4>3. world.inbox[p][i].by = p => world.inbox[p][i].seq < n
        BY <1>6
      <4>4. world.inbox[p][i].by = p => world.inbox[p][i].seq < m
        BY <1>1, <1>6, <4>2, <4>3
      <4>5. ASSUME NEW d \in net, d.by = p, world.inbox[p][i].by = p
            PROVE  d.seq # world.inbox[p][i].seq
        BY <1>1, <1>5, <2>8, <2>9, <4>2, <4>3, <4>5 DEF Mail
      <4> QED
        BY <1>5, <4>4, <4>5 DEF Mail
    <3> QED
      BY <1>4, <2>3, <3>1, <3>2 DEF Mail
  <2>11. Waits(p)'
    <3>1. PingTimeout >= 0 /\ 0 + PingTimeout = PingTimeout
      BY ClockAssumption
    <3>2. \A d \in net : d.by = p /\ d.seq = n => d.age = 0
      BY <1>1, <2>8, <2>9
    <3>3. \A i \in 1..Len(world.inbox[p]) :
            LET r == world.inbox[p][i] IN ~(r.by = p /\ r.seq = n)
      BY <1>1, <1>6
    <3> QED
      BY <1>6, <2>3, <2>5, <3>1, <3>2, <3>3 DEF Waits
  <2>12. Only(p)'
    <3>1. system = "unix-ping" /\ world.late[p] = 0 => \A d \in net : d.by = p => d.seq = n
      BY <1>7, <2>8, <2>9
    <3> QED
      BY <1>6, <1>7, <2>3, <2>5, <3>1 DEF Only
  <2>13. PingRetries(p)'
    BY <1>4, <1>9, <2>3, ClockAssumption DEF PingRetries, Unresolved
  <2>14. ASSUME NEW q \in PingPlots PROVE TripTrue(q)'
    BY <2>3, <2>4 DEF PingInv, TripTrue
  <2> QED
    BY <2>6, <2>7, <2>10, <2>11, <2>12, <2>13, <2>14 DEF PingInv
<1>11. CASE SendFails(p, w)
  <2> DEFINE l == [world.late EXCEPT ![p] = @ + 1]
  <2>1. l \in [PingPlots -> Nat] /\ l[p] > 0 /\ \A q \in PingPlots \ {p} : l[q] = world.late[q]
    BY <1>1 DEF PingTypes, PingWorld
  <2>2. world' = [w EXCEPT !.late = l]
    BY <1>11 DEF SendFails
  <2> HIDE DEF l
  <2>3. /\ world' \in PingWorld /\ world'.late = l
        /\ UNCHANGED <<world.inbox, world.raw, world.net>>
        /\ world'.rest = w.rest /\ world'.untried = w.untried /\ world'.setback = w.setback
    BY <2>1, <2>2 DEF PingWorld
  <2>4. UNCHANGED <<pc, wait>> /\ sample' = [sample EXCEPT ![p] = NoTrip]
    BY <1>11 DEF SendFails, PingFails
  <2>5. NoTrip \in Trips /\ NoTrip.value = -1
    BY DEF NoTrip, Trips
  <2>6. PingTypes'
    BY <1>1, <1>4, <2>3, <2>4, <2>5 DEF PingTypes
  <2>7. ASSUME NEW q \in PingPlots, q # p
        PROVE  Mail(q)' /\ Waits(q)' /\ Only(q)' /\ PingRetries(q)' /\ TripTrue(q)'
    <3>1. /\ ctx'[q] = ctx[q] /\ pc'[q] = pc[q] /\ wait'[q] = wait[q]
          /\ sample'[q] = sample[q] /\ world'.inbox[q] = world.inbox[q]
          /\ world'.late[q] = world.late[q]
          /\ world'.rest[q] = world.rest[q] /\ world'.untried[q] = world.untried[q]
          /\ world'.setback[q] = world.setback[q]
      BY <1>1, <1>4, <1>9, <2>1, <2>3, <2>4, <2>7 DEF PingTypes
    <3> QED
      BY <2>3, <3>1, OthersKeep
  <2>8. Mail(p)'
    <3>1. Mail(p)
      BY <1>5
    <3>2. \A d \in world.net : d.by = p => d.seq < m
      <4>1. \A d \in world.net : d.seq \in Nat
        BY <1>1 DEF PingTypes, PingWorld, Echoes
      <4> QED
        BY <1>1, <1>6, <4>1
    <3>3. \A i \in 1..Len(world.inbox[p]) :
            world.inbox[p][i].by = p => world.inbox[p][i].seq < m
      <4>1. ASSUME NEW i \in 1..Len(world.inbox[p]) PROVE world.inbox[p][i].seq \in Nat
        <5>1. world.inbox[p][i] \in Replies
          BY <1>1 DEF PingTypes, PingWorld
        <5> QED
          BY <5>1 DEF Replies
      <4> QED
        BY <1>1, <1>6, <4>1
    <3> QED
      BY <1>4, <2>3, <3>1, <3>2, <3>3 DEF Mail
  <2>9. Waits(p)' /\ Only(p)' /\ TripTrue(p)'
    <3>1. sample'[p].value = -1 /\ pc'[p] = "rest" /\ wait'[p] = NoPing
      BY <1>1, <1>8, <2>4, <2>5 DEF PingTypes
    <3>2. Waits(p)' /\ TripTrue(p)'
      BY <3>1 DEF Waits, TripTrue
    <3>3. Only(p)'
      BY <1>7, <2>1, <2>3 DEF Only
    <3> QED
      BY <3>2, <3>3
  <2>10. PingRetries(p)'
    BY <1>4, <1>9, <2>3, ClockAssumption DEF PingRetries, Unresolved
  <2> QED
    BY <2>6, <2>7, <2>8, <2>9, <2>10 DEF PingInv
<1> QED
  BY <1>10, <1>11

LEMMA InvPingCollect ==
    ASSUME PingInv, NEW p \in PingPlots, PingCollect(p) PROVE PingInv'
<1> DEFINE zr == [world.rest EXCEPT ![p] = 0]
           zu == [world.untried EXCEPT ![p] = 0]
           zs == [world.setback EXCEPT ![p] = 0]
           w == [world EXCEPT !.rest = zr]
           tried == [w EXCEPT !.untried = zu, !.setback = zs]
<1>1. PingTypes /\ pc[p] = "rest" /\ system' = system
  BY DEF PingInv, PingCollect
<1>2. /\ zr \in [PingPlots -> Nat] /\ zr[p] = 0
      /\ \A q \in PingPlots \ {p} : zr[q] = world.rest[q]
      /\ zu \in [PingPlots -> Nat] /\ zu[p] = 0
      /\ \A q \in PingPlots \ {p} : zu[q] = world.untried[q]
      /\ zs \in [PingPlots -> Nat] /\ zs[p] = 0
      /\ \A q \in PingPlots \ {p} : zs[q] = world.setback[q]
  BY <1>1 DEF PingTypes, PingWorld
<1>3. \/ Send(p, w) \/ SendFails(p, w)
      \/ Send(p, tried) \/ SendFails(p, tried)
      \/ /\ Unresolved(p) /\ RetryDue(ctx[p].since)
         /\ ctx' = [ctx EXCEPT ![p].since = 0]
         /\ world' = tried
         /\ PingFails(p) /\ UNCHANGED <<pc, wait>>
      \/ /\ Unresolved(p) => ~RetryDue(ctx[p].since)
         /\ world' = w
         /\ PingFails(p) /\ UNCHANGED <<ctx, pc, wait>>
  BY DEF PingCollect
<1> HIDE DEF zr, zu, zs
<1>4. /\ w \in PingWorld /\ w.raw = world.raw /\ w.net = world.net /\ w.inbox = world.inbox
      /\ w.late = world.late /\ w.rest = zr /\ w.untried = world.untried
      /\ w.setback = world.setback
  BY <1>1, <1>2 DEF PingTypes, PingWorld
<1> HIDE DEF w
<1>5. /\ tried \in PingWorld /\ tried.raw = w.raw /\ tried.net = w.net /\ tried.inbox = w.inbox
      /\ tried.late = w.late /\ tried.rest = w.rest /\ tried.untried = zu
      /\ tried.setback = zs
  BY <1>2, <1>4 DEF PingWorld
<1> HIDE DEF tried
<1>6. CASE Send(p, w) \/ SendFails(p, w)
  BY <1>1, <1>4, <1>6, InvSend DEF zr
<1>7. CASE Send(p, tried) \/ SendFails(p, tried)
  BY <1>1, <1>2, <1>4, <1>5, <1>7, InvSend DEF zr
<1>8. NoTrip \in Trips /\ NoTrip.value = -1
  BY DEF NoTrip, Trips
<1>9. ASSUME world'.raw = world.raw, world'.net = world.net, world'.inbox = world.inbox,
             world'.late = world.late, world'.rest = zr, world' \in PingWorld,
             PingFails(p), UNCHANGED <<pc, wait>>, ctx' \in [PingPlots -> PingContexts],
             \A q \in PingPlots \ {p} : /\ world'.untried[q] = world.untried[q]
                                        /\ world'.setback[q] = world.setback[q]
                                        /\ ctx'[q] = ctx[q],
             ctx'[p].seq = ctx[p].seq,
             PingRetries(p)'
      PROVE  PingInv'
  <2>1. sample' = [sample EXCEPT ![p] = NoTrip]
    BY <1>9 DEF PingFails
  <2>2. PingTypes'
    BY <1>1, <1>8, <1>9, <2>1 DEF PingTypes
  <2>3. ASSUME NEW q \in PingPlots, q # p
        PROVE  Mail(q)' /\ Waits(q)' /\ Only(q)' /\ PingRetries(q)' /\ TripTrue(q)'
    <3>1. sample'[q] = sample[q] /\ world'.rest[q] = world.rest[q]
      BY <1>1, <1>2, <1>9, <2>1, <2>3 DEF PingTypes
    <3> QED
      BY <1>1, <1>9, <2>3, <3>1, OthersKeep
  <2>4. sample'[p].value = -1
    BY <1>1, <1>8, <2>1 DEF PingTypes
  <2>5. Mail(p)' /\ Waits(p)' /\ Only(p)' /\ TripTrue(p)'
    BY <1>1, <1>9, <2>4 DEF PingInv, Mail, Waits, Only, TripTrue, Current
  <2> QED
    BY <1>9, <2>2, <2>3, <2>5 DEF PingInv
<1>10. CASE /\ Unresolved(p) /\ RetryDue(ctx[p].since)
            /\ ctx' = [ctx EXCEPT ![p].since = 0]
            /\ world' = tried
            /\ PingFails(p) /\ UNCHANGED <<pc, wait>>
  <2>1. /\ ctx' \in [PingPlots -> PingContexts] /\ ctx'[p].seq = ctx[p].seq
        /\ ctx'[p].since = 0
        /\ \A q \in PingPlots \ {p} : ctx'[q] = ctx[q]
    BY <1>1, <1>10 DEF PingTypes, PingContexts
  <2>2. PingRetries(p)'
    BY <1>1, <1>2, <1>4, <1>5, <1>10, <2>1, ClockAssumption DEF PingRetries
  <2> QED
    BY <1>2, <1>4, <1>5, <1>9, <1>10, <2>1, <2>2
<1>11. CASE /\ Unresolved(p) => ~RetryDue(ctx[p].since)
            /\ world' = w
            /\ PingFails(p) /\ UNCHANGED <<ctx, pc, wait>>
  <2>1. PingRetries(p)'
    <3>1. PingRetries(p) /\ ctx[p].since \in Int /\ world.untried[p] \in Nat
          /\ world.setback[p] \in Nat
      BY <1>1 DEF PingInv, PingTypes, PingWorld, PingContexts
    <3>2. Unresolved(p) => ctx[p].since < Retry
      BY <1>11, <3>1, ClockAssumption DEF RetryDue
    <3>3. Unresolved(p) => world.untried[p] <= Retry + world.setback[p] + 0
      BY <3>1, <3>2, ClockAssumption DEF PingRetries
    <3> QED
      BY <1>1, <1>2, <1>4, <1>11, <3>1, <3>3, ClockAssumption DEF PingRetries, Unresolved
  <2> QED
    BY <1>1, <1>2, <1>4, <1>9, <1>11, <2>1 DEF PingTypes
<1> QED
  BY <1>3, <1>6, <1>7, <1>10, <1>11

LEMMA InvArrive ==
    ASSUME PingInv, NEW r \in world.net, Arrive(r) PROVE PingInv'
<1> DEFINE reply == [by |-> r.by, seq |-> r.seq, trip |-> r.age]
           net   == world.net \ {r}
           box   == [q \in PingPlots |-> IF Hears(q, r) THEN Append(world.inbox[q], reply)
                                                         ELSE world.inbox[q]]
<1>1. PingTypes /\ r \in Echoes /\ UNCHANGED <<system, ctx, pc, wait, sample>>
  BY DEF PingInv, PingTypes, PingWorld, Arrive
<1>2. reply \in Replies /\ reply.by = r.by /\ reply.seq = r.seq /\ reply.trip = r.age
  BY <1>1 DEF Echoes, Replies
<1>3. world' = [world EXCEPT !.net = net, !.inbox = box]
  BY DEF Arrive
<1> HIDE DEF reply
<1>4. net \in SUBSET Echoes /\ box \in [PingPlots -> Seq(Replies)]
  BY <1>1, <1>2 DEF PingTypes, PingWorld
<1>5. ASSUME NEW q \in PingPlots
      PROVE  \/ box[q] = world.inbox[q]
             \/ Hears(q, r) /\ box[q] = Append(world.inbox[q], reply)
  OBVIOUS
<1> HIDE DEF net, box
<1>6. /\ world' \in PingWorld /\ world'.net = net /\ world'.inbox = box
      /\ UNCHANGED <<world.raw, world.late, world.rest, world.untried, world.setback>>
  BY <1>1, <1>3, <1>4 DEF PingTypes, PingWorld
<1>7. PingTypes'
  BY <1>1, <1>6 DEF PingTypes
<1>8. \A e \in net : e \in world.net /\ e # r
  BY DEF net
<1>9. ASSUME NEW q \in PingPlots
      PROVE  Mail(q)' /\ Waits(q)' /\ Only(q)' /\ PingRetries(q)' /\ TripTrue(q)'
  <2>1. Mail(q) /\ Waits(q) /\ Only(q) /\ PingRetries(q) /\ TripTrue(q)
    BY DEF PingInv
  <2>2. PingRetries(q)' /\ TripTrue(q)'
    BY <1>1, <1>6, <2>1 DEF PingRetries, TripTrue, Unresolved
  <2>3. PICK s \in Seq(Replies), t \in Seq(Replies) : s = world.inbox[q] /\ t = box[q]
    BY <1>1, <1>4 DEF PingTypes, PingWorld
  <2>4. \A i \in 1..Len(t) : \/ i \in 1..Len(s) /\ t[i] = s[i]
                             \/ i = Len(s) + 1 /\ t[i] = reply /\ Hears(q, r)
    <3>1. CASE t = s
      BY <3>1
    <3>2. CASE Hears(q, r) /\ t = Append(s, reply)
      BY <1>2, <3>2
    <3> QED
      BY <1>5, <2>3, <3>1, <3>2
  <2>5. ASSUME NEW i \in 1..Len(t)
        PROVE  /\ world.raw \/ t[i].by = q
               /\ t[i].by = q =>
                    /\ t[i].seq < ctx[q].seq
                    /\ \A e \in net : e.by = q => e.seq # t[i].seq
                    /\ \A k \in 1..Len(t) : t[k].by = q /\ t[k].seq = t[i].seq => k = i
               /\ pc[q] = "wait" /\ t[i].by = q /\ t[i].seq = Current(q) =>
                    t[i].trip = wait[q].real
    <3>1. CASE i \in 1..Len(s) /\ t[i] = s[i]
      <4>1. ASSUME NEW k \in 1..Len(t), t[i].by = q, t[k].by = q, t[k].seq = t[i].seq
            PROVE  k = i
        <5>1. CASE k \in 1..Len(s) /\ t[k] = s[k]
          BY <2>1, <2>3, <3>1, <4>1, <5>1 DEF Mail
        <5>2. CASE t[k] = reply
          BY <1>2, <2>1, <2>3, <3>1, <4>1, <5>2 DEF Mail
        <5> QED
          BY <2>4, <5>1, <5>2
      <4> QED
        BY <1>8, <2>1, <2>3, <3>1, <4>1 DEF Mail, Waits
    <3>2. CASE i = Len(s) + 1 /\ t[i] = reply /\ Hears(q, r)
      <4>1. ASSUME NEW k \in 1..Len(t), t[i].by = q, t[k].by = q, t[k].seq = t[i].seq
            PROVE  k = i
        <5>1. CASE k \in 1..Len(s) /\ t[k] = s[k]
          BY <1>2, <2>1, <2>3, <3>2, <4>1, <5>1, ZenonT(60) DEF Mail
        <5>2. CASE k = Len(s) + 1
          BY <3>2, <5>2
        <5> QED
          BY <2>4, <5>1, <5>2
      <4>2. world.raw \/ t[i].by = q
        BY <1>2, <3>2 DEF Hears
      <4>3. t[i].by = q => /\ t[i].seq < ctx[q].seq
                           /\ \A e \in net : e.by = q => e.seq # t[i].seq
        BY <1>2, <1>8, <2>1, <3>2, ZenonT(60) DEF Mail
      <4>4. pc[q] = "wait" /\ t[i].by = q /\ t[i].seq = Current(q) =>
              t[i].trip = wait[q].real
        BY <1>2, <2>1, <3>2 DEF Waits
      <4> QED
        BY <4>1, <4>2, <4>3, <4>4
    <3> QED
      BY <2>4, <3>1, <3>2
  <2>6. Mail(q)'
    <3>1. /\ ctx'[q].seq = ctx[q].seq /\ world'.net = net /\ world'.inbox[q] = t
          /\ world'.raw = world.raw
      BY <1>1, <1>6, <2>3
    <3>2. \A e \in net : e.by = q =>
            /\ e.seq < ctx[q].seq
            /\ \A d \in net : d.by = q /\ d.seq = e.seq => d = e
      BY <1>8, <2>1 DEF Mail
    <3> HIDE DEF net
    <3> QED
      BY <2>5, <3>1, <3>2 DEF Mail
  <2>7. Waits(q)'
    BY <1>1, <1>6, <1>8, <2>1, <2>3, <2>5 DEF Waits, Current
  <2>8. Only(q)'
    <3>1. ASSUME NEW i \in 1..Len(t), system = "unix-ping", world.late[q] = 0, t[i].by = q
          PROVE  pc[q] = "wait" /\ t[i].seq = Current(q)
      BY <1>2, <2>1, <2>3, <2>4, <3>1, SMTT(60) DEF Only
    <3>2. ASSUME NEW i \in 1..Len(t), system = "IcmpSendEcho"
          PROVE  t[i].by = q /\ pc[q] = "wait" /\ t[i].seq = Current(q)
      BY <1>2, <2>1, <2>3, <2>4, <3>2, SMTT(60) DEF Only, Hears
    <3> QED
      BY <1>1, <1>6, <1>8, <2>1, <2>3, <3>1, <3>2 DEF Only, Current
  <2> QED
    BY <2>2, <2>6, <2>7, <2>8
<1> QED
  BY <1>7, <1>9 DEF PingInv

LEMMA InvPingTick == PingInv /\ PingTick => PingInv'
<1> SUFFICES ASSUME PingInv, PingTick PROVE PingInv'
  OBVIOUS
<1> DEFINE net     == {[r EXCEPT !.age = @ + 1] : r \in {q \in world.net : q.age < MaxTrip}}
           rests   == [p \in PingPlots |-> IF pc[p] = "rest" THEN world.rest[p] + 1 ELSE 0]
           untried == [p \in PingPlots |-> IF Unresolved(p) THEN world.untried[p] + 1 ELSE 0]
<1>1. PingTypes /\ UNCHANGED <<system, pc, sample>>
  BY DEF PingInv, PingTick
<1>2. ASSUME NEW e \in net
      PROVE  \E r \in world.net : e \in Echoes /\ e = [r EXCEPT !.age = @ + 1] /\ e.by = r.by
                                  /\ e.seq = r.seq /\ e.age = r.age + 1
  <2>1. PICK r \in world.net : e = [r EXCEPT !.age = @ + 1]
    OBVIOUS
  <2>2. r \in Echoes
    BY <1>1 DEF PingTypes, PingWorld
  <2> DEFINE a == r.age + 1
  <2>3. a \in Nat /\ e = [r EXCEPT !.age = a]
    BY <2>1, <2>2 DEF Echoes
  <2> HIDE DEF a
  <2>4. e \in Echoes /\ e.by = r.by /\ e.seq = r.seq /\ e.age = a
    BY <2>2, <2>3 DEF Echoes
  <2> QED
    BY <2>1, <2>4 DEF a
<1>3. /\ net \in SUBSET Echoes
      /\ rests \in [PingPlots -> Nat] /\ untried \in [PingPlots -> Nat]
  <2>1. net \in SUBSET Echoes
    BY <1>2
  <2>2. rests \in [PingPlots -> Nat] /\ untried \in [PingPlots -> Nat]
    BY <1>1 DEF PingTypes, PingWorld
  <2> QED
    BY <2>1, <2>2
<1>4. world' = [world EXCEPT !.net = net, !.rest = rests, !.untried = untried]
  BY DEF PingTick
<1> DEFINE h == [world EXCEPT !.net = net, !.rest = rests]
<1>5. world' = [h EXCEPT !.untried = untried]
  BY <1>4
<1> HIDE DEF net, rests, untried
<1>6. /\ h \in PingWorld /\ h.net = net /\ h.rest = rests
      /\ h.raw = world.raw /\ h.late = world.late /\ h.inbox = world.inbox
      /\ h.setback = world.setback
  BY <1>1, <1>3 DEF PingTypes, PingWorld
<1> HIDE DEF h
<1>7. /\ world' \in PingWorld /\ world'.net = net /\ world'.rest = rests
      /\ world'.untried = untried
      /\ UNCHANGED <<world.raw, world.late, world.inbox, world.setback>>
  BY <1>3, <1>5, <1>6 DEF PingWorld
<1>8. ASSUME NEW p \in PingPlots, pc[p] = "rest"
      PROVE  wait'[p] = NoPing /\ world.rest[p] < Interval
  BY <1>8 DEF PingTick
<1>9. ASSUME NEW p \in PingPlots, pc[p] = "wait"
      PROVE  /\ wait'[p] \in PingWaits
             /\ wait'[p].real = wait[p].real + 1 /\ wait'[p].clock = wait[p].clock + 1
             /\ wait'[p].left = wait[p].left - 1 /\ wait'[p].set = wait[p].set
             /\ wait[p].left > 0 /\ world.inbox[p] = <<>>
  <2>1. /\ wait'[p] = [wait[p] EXCEPT !.real = @ + 1, !.clock = @ + 1, !.left = @ - 1]
        /\ wait[p].left > 0 /\ world.inbox[p] = <<>>
    BY <1>9 DEF PingTick
  <2>2. PICK v \in PingWaits : v = wait[p]
    BY <1>1 DEF PingTypes
  <2> DEFINE a == v.real + 1
             b == v.clock + 1
             c == v.left - 1
             g == [v EXCEPT !.real = a, !.clock = b]
  <2>3. a \in Nat /\ b \in Int /\ c \in Int
    BY <2>2 DEF PingWaits
  <2>4. wait'[p] = [g EXCEPT !.left = c]
    BY <2>1, <2>2
  <2> HIDE DEF a, b, c
  <2>5. g \in PingWaits /\ g.real = a /\ g.clock = b /\ g.set = v.set
    BY <2>2, <2>3 DEF PingWaits
  <2> HIDE DEF g
  <2>6. /\ wait'[p] \in PingWaits /\ wait'[p].real = a /\ wait'[p].clock = b
        /\ wait'[p].left = c /\ wait'[p].set = v.set
    BY <2>3, <2>4, <2>5 DEF PingWaits
  <2> QED
    BY <2>1, <2>2, <2>6 DEF a, b, c
<1>10. wait' \in [PingPlots -> PingWaits]
  <2>1. ASSUME NEW p \in PingPlots PROVE wait'[p] \in PingWaits
    <3>1. pc[p] = "rest" \/ pc[p] = "wait"
      BY <1>1 DEF PingTypes
    <3>2. NoPing \in PingWaits
      BY DEF NoPing, PingWaits
    <3> QED
      BY <1>8, <1>9, <3>1, <3>2
  <2>2. DOMAIN wait' = PingPlots /\ wait' = [p \in PingPlots |-> wait'[p]]
    BY DEF PingTick
  <2> QED
    BY <2>1, <2>2
<1>11. ASSUME NEW p \in PingPlots
       PROVE  /\ ctx'[p] \in PingContexts /\ ctx'[p].seq = ctx[p].seq
              /\ ctx'[p].open = ctx[p].open /\ ctx'[p].permanent_error = ctx[p].permanent_error
              /\ Unresolved(p) => ctx'[p].since = ctx[p].since + 1
  <2>1. ctx'[p] = IF Unresolved(p) THEN [ctx[p] EXCEPT !.since = @ + 1] ELSE ctx[p]
    BY DEF PingTick
  <2>2. PICK c \in PingContexts : c = ctx[p]
    BY <1>1 DEF PingTypes
  <2> DEFINE n == c.since + 1
  <2>3. n \in Int
    BY DEF PingContexts
  <2>4. ctx'[p] = IF Unresolved(p) THEN [c EXCEPT !.since = n] ELSE c
    BY <2>1, <2>2
  <2> HIDE DEF n
  <2>5. /\ ctx'[p] \in PingContexts /\ ctx'[p].seq = c.seq /\ ctx'[p].open = c.open
        /\ ctx'[p].permanent_error = c.permanent_error
        /\ Unresolved(p) => ctx'[p].since = n
    BY <2>3, <2>4 DEF PingContexts
  <2> QED
    BY <2>2, <2>5 DEF n
<1>12. ctx' \in [PingPlots -> PingContexts]
  <2>1. DOMAIN ctx' = PingPlots /\ ctx' = [p \in PingPlots |-> ctx'[p]]
    BY DEF PingTick
  <2> QED
    BY <1>11, <2>1
<1>13. PingTypes'
  BY <1>1, <1>7, <1>10, <1>12 DEF PingTypes
<1>14. ASSUME NEW p \in PingPlots
       PROVE  Mail(p)' /\ Waits(p)' /\ Only(p)' /\ PingRetries(p)' /\ TripTrue(p)'
  <2>1. Mail(p) /\ Waits(p) /\ Only(p) /\ PingRetries(p) /\ TripTrue(p)
    BY DEF PingInv
  <2>2. Current(p)' = Current(p) /\ (Unresolved(p)' <=> Unresolved(p))
    BY <1>11 DEF Current, Unresolved
  <2>3. TripTrue(p)'
    BY <1>1, <1>7, <2>1 DEF TripTrue
  <2>4. Mail(p)'
    <3>1. ASSUME NEW e \in net, e.by = p
          PROVE  /\ e.seq < ctx[p].seq
                 /\ \A d \in net : d.by = p /\ d.seq = e.seq => d = e
                 /\ \A i \in 1..Len(world.inbox[p]) :
                      world.inbox[p][i].by = p => e.seq # world.inbox[p][i].seq
      <4>1. PICK r \in world.net : e = [r EXCEPT !.age = @ + 1] /\ e.by = r.by /\ e.seq = r.seq
        BY <1>2
      <4>2. ASSUME NEW d \in net, d.by = p, d.seq = e.seq PROVE d = e
        <5>1. PICK q \in world.net : d = [q EXCEPT !.age = @ + 1] /\ d.by = q.by /\ d.seq = q.seq
          BY <1>2
        <5>2. q = r
          BY <2>1, <3>1, <4>1, <4>2, <5>1 DEF Mail
        <5> QED
          BY <4>1, <5>1, <5>2
      <4> QED
        BY <2>1, <3>1, <4>1, <4>2 DEF Mail
    <3> QED
      BY <1>7, <1>11, <2>1, <3>1 DEF Mail
  <2>5. Waits(p)'
    <3>1. CASE pc[p] = "rest"
      BY <1>1, <1>8, <3>1 DEF Waits
    <3>2. CASE pc[p] = "wait"
      <4>1. PICK x \in Nat, y \in Int, z \in Int :
              x = wait[p].real /\ y = wait[p].clock /\ z = wait[p].left
        BY <1>1 DEF PingTypes, PingWaits
      <4>2. wait'[p].left >= 0
        BY <1>9, <3>2, <4>1
      <4>3. ~wait'[p].set => /\ wait'[p].clock = wait'[p].real
                             /\ wait'[p].real + wait'[p].left = PingTimeout
        <5>1. ~wait[p].set => y = x /\ x + z = PingTimeout
          BY <2>1, <3>2, <4>1 DEF Waits
        <5>2. /\ wait'[p].real = x + 1 /\ wait'[p].clock = y + 1 /\ wait'[p].left = z - 1
              /\ wait'[p].set = wait[p].set
          BY <1>9, <3>2, <4>1
        <5> QED
          BY <5>1, <5>2
      <4>4. ASSUME NEW e \in net, e.by = p, e.seq = Current(p) PROVE e.age = wait'[p].real
        <5>1. PICK r \in world.net : e.by = r.by /\ e.seq = r.seq /\ e.age = r.age + 1
          BY <1>2
        <5>2. r.age = wait[p].real
          BY <2>1, <3>2, <4>4, <5>1 DEF Waits
        <5> QED
          BY <1>9, <3>2, <5>1, <5>2
      <4>5. world'.inbox[p] = <<>>
        BY <1>7, <1>9, <3>2
      <4> QED
        BY <1>1, <1>7, <2>2, <3>2, <4>2, <4>3, <4>4, <4>5 DEF Waits
    <3> QED
      BY <1>1, <3>1, <3>2 DEF PingTypes
  <2>6. Only(p)'
    <3>1. ASSUME NEW e \in net PROVE \E r \in world.net : e.by = r.by /\ e.seq = r.seq
      BY <1>2
    <3> QED
      BY <1>1, <1>7, <2>1, <2>2, <3>1 DEF Only
  <2>7. PingRetries(p)'
    <3>1. /\ world.rest[p] \in Nat /\ world.untried[p] \in Nat /\ world.setback[p] \in Nat
          /\ ctx[p].since \in Int
      BY <1>1 DEF PingTypes, PingWorld, PingContexts
    <3>2. world'.rest[p] = IF pc[p] = "rest" THEN world.rest[p] + 1 ELSE 0
      BY <1>7 DEF rests
    <3>3. world'.untried[p] = IF Unresolved(p) THEN world.untried[p] + 1 ELSE 0
      BY <1>7 DEF untried
    <3>4. world'.rest[p] <= Interval
      BY <1>1, <1>8, <3>1, <3>2, ClockAssumption
    <3>5. ASSUME Unresolved(p)
          PROVE  /\ pc[p] = "rest"
                 /\ world'.untried[p] <= ctx'[p].since + world.setback[p]
                 /\ world'.untried[p] <= Retry + world.setback[p] + world'.rest[p]
      <4>1. /\ pc[p] = "rest"
            /\ world.untried[p] <= ctx[p].since + world.setback[p]
            /\ world.untried[p] <= Retry + world.setback[p] + world.rest[p]
        BY <2>1, <3>5 DEF PingRetries
      <4>2. /\ world'.untried[p] = world.untried[p] + 1 /\ world'.rest[p] = world.rest[p] + 1
            /\ ctx'[p].since = ctx[p].since + 1
        BY <1>11, <3>2, <3>3, <3>5, <4>1
      <4> QED
        BY <3>1, <4>1, <4>2, ClockAssumption
    <3> QED
      BY <1>1, <1>7, <2>2, <3>4, <3>5 DEF PingRetries
  <2> QED
    BY <2>3, <2>4, <2>5, <2>6, <2>7
<1> QED
  BY <1>13, <1>14 DEF PingInv

LEMMA InvPingSetClock ==
    ASSUME PingInv, NEW j \in Jumps, PingSetClock(j) PROVE PingInv'
<1> DEFINE back  == [p \in PingPlots |-> IF Unresolved(p) /\ j < 0 THEN world.setback[p] - j
                                                                 ELSE world.setback[p]]
           jumps == world.jumps + 1
<1>1. PingTypes /\ UNCHANGED <<system, pc, sample>> /\ j \in Int
  BY ClockAssumption DEF PingInv, PingSetClock
<1>2. back \in [PingPlots -> Nat] /\ jumps \in Nat
  <2>1. \A p \in PingPlots : world.setback[p] \in Nat
    BY <1>1 DEF PingTypes, PingWorld
  <2>2. \A n \in Nat : j < 0 => n - j \in Nat
    BY <1>1
  <2> QED
    BY <1>1, <2>1, <2>2 DEF PingTypes, PingWorld
<1>3. world' = [world EXCEPT !.jumps = jumps, !.setback = back]
  BY DEF PingSetClock
<1> HIDE DEF back, jumps
<1>4. /\ world' \in PingWorld /\ world'.setback = back
      /\ UNCHANGED <<world.raw, world.late, world.inbox, world.net, world.rest, world.untried>>
  BY <1>1, <1>2, <1>3 DEF PingTypes, PingWorld
<1>5. ASSUME NEW p \in PingPlots
      PROVE  /\ wait'[p] \in PingWaits /\ wait'[p].real = wait[p].real
             /\ wait'[p].left = wait[p].left
             /\ IF pc[p] = "wait" THEN wait'[p].set ELSE wait'[p] = wait[p]
  <2>1. wait'[p] = IF pc[p] = "wait" THEN [wait[p] EXCEPT !.clock = @ + j, !.set = TRUE]
                                     ELSE wait[p]
    BY DEF PingSetClock
  <2>2. PICK v \in PingWaits : v = wait[p]
    BY <1>1 DEF PingTypes
  <2> DEFINE n == v.clock + j
  <2>3. n \in Int
    BY <1>1 DEF PingWaits
  <2>4. wait'[p] = IF pc[p] = "wait" THEN [v EXCEPT !.clock = n, !.set = TRUE] ELSE v
    BY <2>1, <2>2
  <2> HIDE DEF n
  <2> QED
    BY <2>2, <2>3, <2>4 DEF PingWaits
<1>6. ASSUME NEW p \in PingPlots
      PROVE  /\ ctx'[p] \in PingContexts /\ ctx'[p].seq = ctx[p].seq
             /\ ctx'[p].open = ctx[p].open /\ ctx'[p].permanent_error = ctx[p].permanent_error
             /\ Unresolved(p) => ctx'[p].since = ctx[p].since + j
  <2>1. ctx'[p] = IF Unresolved(p) THEN [ctx[p] EXCEPT !.since = @ + j] ELSE ctx[p]
    BY DEF PingSetClock
  <2>2. PICK c \in PingContexts : c = ctx[p]
    BY <1>1 DEF PingTypes
  <2> DEFINE n == c.since + j
  <2>3. n \in Int
    BY <1>1 DEF PingContexts
  <2>4. ctx'[p] = IF Unresolved(p) THEN [c EXCEPT !.since = n] ELSE c
    BY <2>1, <2>2
  <2> HIDE DEF n
  <2>5. /\ ctx'[p] \in PingContexts /\ ctx'[p].seq = c.seq /\ ctx'[p].open = c.open
        /\ ctx'[p].permanent_error = c.permanent_error
        /\ Unresolved(p) => ctx'[p].since = n
    BY <2>3, <2>4 DEF PingContexts
  <2> QED
    BY <2>2, <2>5 DEF n
<1>7. PingTypes'
  <2>1. /\ wait' = [p \in PingPlots |-> wait'[p]] /\ ctx' = [p \in PingPlots |-> ctx'[p]]
    BY DEF PingSetClock
  <2>2. wait' \in [PingPlots -> PingWaits] /\ ctx' \in [PingPlots -> PingContexts]
    BY <1>5, <1>6, <2>1
  <2> QED
    BY <1>1, <1>4, <2>2 DEF PingTypes
<1>8. ASSUME NEW p \in PingPlots
      PROVE  Mail(p)' /\ Waits(p)' /\ Only(p)' /\ PingRetries(p)' /\ TripTrue(p)'
  <2>1. Mail(p) /\ Waits(p) /\ Only(p) /\ PingRetries(p) /\ TripTrue(p)
    BY DEF PingInv
  <2>2. Current(p)' = Current(p) /\ (Unresolved(p)' <=> Unresolved(p))
    BY <1>6 DEF Current, Unresolved
  <2>3. Mail(p)' /\ Only(p)' /\ TripTrue(p)'
    BY <1>1, <1>4, <1>6, <2>1, <2>2 DEF Mail, Only, TripTrue
  <2>4. Waits(p)'
    BY <1>1, <1>4, <1>5, <2>1, <2>2 DEF Waits
  <2>5. PingRetries(p)'
    <3>1. /\ world.rest[p] \in Nat /\ world.untried[p] \in Nat /\ world.setback[p] \in Nat
          /\ ctx[p].since \in Int
      BY <1>1 DEF PingTypes, PingWorld, PingContexts
    <3>2. world'.setback[p] = IF Unresolved(p) /\ j < 0 THEN world.setback[p] - j
                                                        ELSE world.setback[p]
      BY <1>4 DEF back
    <3>3. ASSUME Unresolved(p)
          PROVE  /\ world.untried[p] <= ctx'[p].since + world'.setback[p]
                 /\ world.untried[p] <= Retry + world'.setback[p] + world.rest[p]
      <4>1. /\ world.untried[p] <= ctx[p].since + world.setback[p]
            /\ world.untried[p] <= Retry + world.setback[p] + world.rest[p]
            /\ ctx'[p].since = ctx[p].since + j
        BY <1>6, <2>1, <3>3 DEF PingRetries
      <4>2. CASE j < 0
        BY <1>1, <3>1, <3>2, <3>3, <4>1, <4>2, ClockAssumption
      <4>3. CASE j >= 0
        BY <1>1, <3>1, <3>2, <3>3, <4>1, <4>3, ClockAssumption
      <4> QED
        BY <1>1, <4>2, <4>3
    <3> QED
      BY <1>1, <1>4, <2>1, <2>2, <3>3 DEF PingRetries
  <2> QED
    BY <2>3, <2>4, <2>5
<1> QED
  BY <1>7, <1>8 DEF PingInv

LEMMA PingSteps == PingInv /\ [PingNext]_source => PingInv'
<1> SUFFICES ASSUME PingInv, [PingNext]_source PROVE PingInv'
  OBVIOUS
<1>1. CASE PingReachable
  <2>1. PingTypes /\ UNCHANGED <<system, ctx, pc, wait, sample>>
    BY <1>1 DEF PingInv, PingReachable
  <2>2. PICK up \in BOOLEAN : world' = [world EXCEPT !.creatable = up]
    <3>1. (~world.creatable) \in BOOLEAN
      BY <2>1 DEF PingTypes, PingWorld
    <3> QED
      BY <1>1, <3>1 DEF PingReachable
  <2>3. /\ world' \in PingWorld
        /\ UNCHANGED <<world.raw, world.late, world.inbox, world.net, world.rest,
                       world.untried, world.setback>>
    BY <2>1, <2>2 DEF PingTypes, PingWorld
  <2>4. PingTypes'
    BY <2>1, <2>3 DEF PingTypes
  <2>5. ASSUME NEW p \in PingPlots
        PROVE  Mail(p)' /\ Waits(p)' /\ Only(p)' /\ PingRetries(p)' /\ TripTrue(p)'
    BY <2>1, <2>3, OthersKeep
  <2> QED
    BY <2>4, <2>5 DEF PingInv
<1>2. CASE UNCHANGED source
  <2>1. PingTypes'
    BY <1>2 DEF source, PingInv, PingTypes
  <2>2. ASSUME NEW p \in PingPlots
        PROVE  Mail(p)' /\ Waits(p)' /\ Only(p)' /\ PingRetries(p)' /\ TripTrue(p)'
    BY <1>2, OthersKeep DEF source
  <2> QED
    BY <2>1, <2>2 DEF PingInv
<1> QED
  BY <1>1, <1>2, InvPingCollect, InvPingTimeOut, InvReceive, InvArrive, InvPingTick,
     InvPingSetClock
     DEF PingNext

LEMMA PingHolds == Spec => [](system \in PingSystems => PingInv)
<1>1. Init => (system \in PingSystems => PingInv)
  BY Alone, PingStarts
<1>2. (system \in PingSystems => PingInv) /\ [Next]_source => (system \in PingSystems => PingInv)'
  BY Alone, SystemStays, PingSteps
<1> QED
  BY <1>1, <1>2, PTL DEF Spec

\* What a ping plot shows is the trip of the reply to the echo that its collector
\* sent for it, with any number of plots, echoes lost, overtaken or late, but
\* for the three ways in which the systems' matching and the clock can mislead
\* it (os_ping_send of the three ports).
THEOREM TripAlways == Spec => []TripIsOfThisEcho
<1>1. (system \in PingSystems => PingInv) => TripIsOfThisEcho
  BY DEF PingInv, TripTrue, TripIsOfThisEcho
<1> QED
  BY <1>1, PingHolds, PTL

\* A name that does not resolve is tried again, by ping and by tcp, within the
\* retry time and one collection, for any of either, except for what the clock
\* was set back by (ping.c:95, tcp.c:156).
THEOREM RetryAlways == Spec => []RetryPaced
<1>1. ASSUME system \in PingSystems => PingInv,
             system = "tcp" => TcpInv
      PROVE  RetryPaced
  <2>1. ASSUME system \in PingSystems, NEW p \in PingPlots, Unresolved(p)
        PROVE  world.untried[p] <= Retry + Interval + world.setback[p]
    <3>1. PingRetries(p) /\ PingTypes
      BY <1>1, <2>1 DEF PingInv
    <3>2. world.untried[p] \in Nat /\ world.setback[p] \in Nat /\ world.rest[p] \in Nat
      BY <3>1 DEF PingTypes, PingWorld
    <3> QED
      BY <2>1, <3>1, <3>2, ClockAssumption DEF PingRetries
  <2>2. ASSUME system = "tcp", ~ctx.resolved
        PROVE  world.untried <= Retry + Interval + world.setback
    BY <1>1, <2>2, ClockAssumption DEF TcpInv, TcpTypes, TcpRetries, TcpWorld
  <2> QED
    BY <2>1, <2>2 DEF RetryPaced
<1> QED
  BY <1>1, PingHolds, TcpHolds, PTL

-----------------------------------------------------------------------------
(* The SNMP client: numbers                                                *)

Octet == 0..255

Bases == {128, 256}

\* a is d after the digits of b.
Place(base, a, b, d) ==
    /\ a \in Nat /\ b \in Nat /\ d \in Nat /\ d < base
    /\ base = 128 => a = 128 * b + d
    /\ base = 256 => a = 256 * b + d

\* temp is what remains of a number when its digits are taken from the right,
\* and nothing does after len of them.
Divided(base, number, temp, digit, len) ==
    /\ temp \in [0..5 -> Nat] /\ digit \in [0..4 -> Nat] /\ len \in 1..5
    /\ temp[0] = number /\ temp[len] = 0 /\ (len = 1 \/ temp[len - 1] # 0)
    /\ \A i \in 0..4 : Place(base, temp[i], temp[i + 1], digit[i])
    /\ Digits(base, number) = [i \in 1..len |-> digit[len - i]]

LEMMA Halves ==
    ASSUME NEW a \in Nat, NEW base \in Bases, NEW q, NEW r, q = a \div base, r = a % base
    PROVE  Place(base, a, q, r)
<1>1. CASE base = 128
  BY <1>1, SMT DEF Place
<1>2. CASE base = 256
  BY <1>2, SMT DEF Place
<1> QED
  BY <1>1, <1>2, SMT DEF Bases

LEMMA PlaceIsSmaller ==
    ASSUME NEW base \in Bases, NEW a, NEW b, NEW d, Place(base, a, b, d)
    PROVE  /\ a \in Nat /\ b \in Nat /\ d \in Nat /\ d < base
           /\ a < base => b = 0 /\ a = d
           /\ a = 0 => b = 0
<1>1. CASE base = 128
  BY <1>1, SMT DEF Place
<1>2. CASE base = 256
  BY <1>2, SMT DEF Place
<1> QED
  BY <1>1, <1>2, SMT DEF Bases

\* What Digits computes.
Remains(base, number, temp, len) ==
    /\ DOMAIN temp = 0..5 /\ temp = [i \in 0..5 |-> temp[i]]
    /\ temp[0] = number /\ \A i \in 1..5 : temp[i] = temp[i - 1] \div base
    /\ len = CHOOSE n \in 1..5 : temp[n] = 0 /\ (n = 1 \/ temp[n - 1] # 0)
    /\ Digits(base, number) = [i \in 1..len |-> temp[len - i] % base]

\* Five divisions leave nothing of a number of 32 bits.
LEMMA FivePlaces ==
    ASSUME NEW base \in Bases, NEW number, IsWord(number), NEW q1, NEW q2, NEW q3, NEW q4, NEW q5,
           NEW d1, NEW d2, NEW d3, NEW d4, NEW d5,
           Place(base, number, q1, d1), Place(base, q1, q2, d2), Place(base, q2, q3, d3),
           Place(base, q3, q4, d4), Place(base, q4, q5, d5)
    PROVE  q5 = 0
<1>1. number \in Nat /\ number < 65536 * 65536
  BY SMT DEF IsWord, Place
<1>2. CASE base = 128
  <2>1. /\ {q1, q2, q3, q4, q5} \subseteq Nat
        /\ number >= 128 * q1 /\ q1 >= 128 * q2 /\ q2 >= 128 * q3 /\ q3 >= 128 * q4
        /\ q4 >= 128 * q5
    BY <1>2, SMT DEF Place
  <2> QED
    BY <1>1, <2>1, SMT
<1>3. CASE base = 256
  <2>1. /\ {q1, q2, q3, q4, q5} \subseteq Nat
        /\ number >= 256 * q1 /\ q1 >= 256 * q2 /\ q2 >= 256 * q3 /\ q3 >= 256 * q4
        /\ q4 >= 256 * q5
    BY <1>3, SMT DEF Place
  <2> QED
    BY <1>1, <2>1, SMT
<1> QED
  BY <1>2, <1>3, SMT DEF Bases

\* One digit is taken off a.
Shortened(base, a, b, d) == b = a \div base /\ Place(base, a, b, d) /\ b \in Nat

LEMMA OneStep ==
    ASSUME NEW base \in Bases, NEW a \in Nat
    PROVE  \E b, d : Shortened(base, a, b, d)
<1>1. PICK q, d : q = a \div base /\ d = a % base
  BY Zenon
<1>2. Place(base, a, q, d)
  BY <1>1, Halves, Zenon
<1> QED
  BY <1>1, <1>2, Zenon DEF Place, Shortened

LEMMA DigitsAre ==
    ASSUME NEW base \in Bases, NEW number \in Nat, IsWord(number)
    PROVE  \E temp, digit, len : Divided(base, number, temp, digit, len)
<1>1. PICK q1, d1 : Shortened(base, number, q1, d1)
  BY OneStep, Zenon
<1>2. PICK q2, d2 : Shortened(base, q1, q2, d2)
  BY <1>1, OneStep, Zenon DEF Shortened
<1>3. PICK q3, d3 : Shortened(base, q2, q3, d3)
  BY <1>2, OneStep, Zenon DEF Shortened
<1>4. PICK q4, d4 : Shortened(base, q3, q4, d4)
  BY <1>3, OneStep, Zenon DEF Shortened
<1>5. PICK q5, d5 : Shortened(base, q4, q5, d5)
  BY <1>4, OneStep, Zenon DEF Shortened
<1>6. /\ {q1, q2, q3, q4} \subseteq Nat
      /\ q1 = number \div base /\ q2 = q1 \div base /\ q3 = q2 \div base /\ q4 = q3 \div base
      /\ q4 \div base = 0
  <2>1. q5 = 0
    BY <1>1, <1>2, <1>3, <1>4, <1>5, FivePlaces DEF Shortened
  <2> QED
    BY <1>1, <1>2, <1>3, <1>4, <1>5, <2>1 DEF Shortened
<1>7. \E g : g = [i \in 0..5 |-> IF i = 0 THEN number ELSE g[i - 1] \div base]
  <2>1. \E g : g = [i \in 0..5 |-> IF i = 0 THEN number ELSE IF i = 1 THEN q1
                                   ELSE IF i = 2 THEN q2 ELSE IF i = 3 THEN q3
                                   ELSE IF i = 4 THEN q4 ELSE 0]
    BY Zenon
  <2>2. PICK g : g = [i \in 0..5 |-> IF i = 0 THEN number ELSE IF i = 1 THEN q1
                                     ELSE IF i = 2 THEN q2 ELSE IF i = 3 THEN q3
                                     ELSE IF i = 4 THEN q4 ELSE 0]
    BY <2>1, Zenon
  <2>3. g = [i \in 0..5 |-> IF i = 0 THEN number ELSE g[i - 1] \div base]
    BY <1>6, <2>2
  <2> QED
    BY <2>3
<1>8. \E temp, len : Remains(base, number, temp, len)
  <2> DEFINE temp[i \in 0..5] == IF i = 0 THEN number ELSE temp[i - 1] \div base
             len == CHOOSE n \in 1..5 : temp[n] = 0 /\ (n = 1 \/ temp[n - 1] # 0)
  <2>1. temp = [i \in 0..5 |-> IF i = 0 THEN number ELSE temp[i - 1] \div base]
    BY <1>7
  <2>2. Digits(base, number) = [i \in 1..len |-> temp[len - i] % base]
    BY DEF Digits
  <2> HIDE DEF temp
  <2>3. len = CHOOSE n \in 1..5 : temp[n] = 0 /\ (n = 1 \/ temp[n - 1] # 0)
    OBVIOUS
  <2>4. temp[0] = number /\ \A i \in 1..5 : temp[i] = temp[i - 1] \div base
    <3>1. 0 \in 0..5 /\ \A i \in 1..5 : i \in 0..5 /\ i # 0
      OBVIOUS
    <3> QED
      BY <2>1, <3>1
  <2>5. DOMAIN temp = 0..5 /\ temp = [i \in 0..5 |-> temp[i]]
    BY <2>1
  <2> HIDE DEF len
  <2>6. Remains(base, number, temp, len)
    BY <2>2, <2>3, <2>4, <2>5, Zenon DEF Remains
  <2> QED
    BY <2>6, Zenon
<1>9. PICK temp, len : Remains(base, number, temp, len)
  BY <1>8, Zenon
<1>a. temp[0] = number /\ \A i \in 1..5 : temp[i] = temp[i - 1] \div base
  BY <1>9, Zenon DEF Remains
<1>10. /\ temp[0] = number /\ temp[1] = q1 /\ temp[2] = q2 /\ temp[3] = q3 /\ temp[4] = q4
       /\ temp[5] = 0
  BY <1>6, <1>a
<1>11. temp \in [0..5 -> Nat]
  <2>1. \A i \in 0..5 : i \in {0, 1, 2, 3, 4, 5}
    OBVIOUS
  <2>2. \A i \in 0..5 : temp[i] \in Nat
    BY <1>6, <1>10, <2>1
  <2>3. temp = [i \in 0..5 |-> temp[i]]
    BY <1>9, Zenon DEF Remains
  <2> QED
    BY <2>2, <2>3
<1>12. len \in 1..5 /\ temp[len] = 0 /\ (len = 1 \/ temp[len - 1] # 0)
  <2>1. \E n \in 1..5 : temp[n] = 0 /\ (n = 1 \/ temp[n - 1] # 0)
    <3>1. CASE q1 = 0
      BY <1>10, <3>1
    <3>2. CASE q1 # 0 /\ q2 = 0
      BY <1>10, <3>2
    <3>3. CASE q2 # 0 /\ q3 = 0
      BY <1>10, <3>3
    <3>4. CASE q3 # 0 /\ q4 = 0
      BY <1>10, <3>4
    <3>5. CASE q4 # 0
      BY <1>10, <3>5
    <3> QED
      BY <3>1, <3>2, <3>3, <3>4, <3>5
  <2>2. len = CHOOSE n \in 1..5 : temp[n] = 0 /\ (n = 1 \/ temp[n - 1] # 0)
    BY <1>9, Zenon DEF Remains
  <2> QED
    BY <2>1, <2>2, Zenon
<1>13. PICK digit : digit = [i \in 0..4 |-> temp[i] % base]
  BY Zenon
<1>14. ASSUME NEW i \in 0..4
       PROVE  digit[i] \in Nat /\ Place(base, temp[i], temp[i + 1], digit[i])
  <2>1. i + 1 \in 1..5 /\ (i + 1) - 1 = i /\ digit[i] = temp[i] % base
    BY <1>13
  <2>2. temp[i + 1] = temp[i] \div base /\ temp[i] \in Nat
    BY <1>a, <1>11, <2>1
  <2>3. Place(base, temp[i], temp[i + 1], digit[i])
    BY <2>1, <2>2, Halves, Zenon
  <2> QED
    BY <2>3, Zenon DEF Place
<1>15. digit \in [0..4 -> Nat]
  BY <1>13, <1>14
<1>16. Digits(base, number) = [i \in 1..len |-> digit[len - i]]
  <2>1. Digits(base, number) = [i \in 1..len |-> temp[len - i] % base]
    BY <1>9, Zenon DEF Remains
  <2>2. \A i \in 1..len : len - i \in 0..4
    BY <1>12
  <2> QED
    BY <1>13, <2>1, <2>2
<1>17. Divided(base, number, temp, digit, len)
  <2>1. temp[0] = number /\ temp[len] = 0 /\ len \in 1..5 /\ (len = 1 \/ temp[len - 1] # 0)
    BY <1>10, <1>12
  <2>2. \A i \in 0..4 : Place(base, temp[i], temp[i + 1], digit[i])
    BY <1>14
  <2> QED
    BY <1>11, <1>15, <1>16, <2>1, <2>2, Zenon DEF Divided
<1> QED
  BY <1>17, Zenon

LEMMA DividedPlaces ==
    ASSUME NEW base, NEW n, NEW temp, NEW digit, NEW len, Divided(base, n, temp, digit, len)
    PROVE  \A i \in 0..4 : Place(base, temp[i], temp[i + 1], digit[i])
  BY Zenon DEF Divided

LEMMA DigitCount ==
    ASSUME NEW base \in Bases, NEW n, NEW temp, NEW digit, NEW len,
           Divided(base, n, temp, digit, len)
    PROVE  /\ len \in 1..5 /\ temp[0] = n /\ temp[len] = 0 /\ (len = 1 \/ temp[len - 1] # 0)
           /\ Digits(base, n) = [i \in 1..len |-> digit[len - i]]
           /\ \A i \in 0..4 : /\ temp[i] \in Nat /\ digit[i] \in Nat /\ digit[i] < base
                              /\ temp[i] = 0 => temp[i + 1] = 0
<1>1. ASSUME NEW i \in 0..4
      PROVE  /\ temp[i] \in Nat /\ digit[i] \in Nat /\ digit[i] < base
             /\ temp[i] = 0 => temp[i + 1] = 0
  <2>1. Place(base, temp[i], temp[i + 1], digit[i])
    BY Zenon DEF Divided
  <2> QED
    BY <2>1, PlaceIsSmaller
<1> QED
  BY <1>1, Zenon DEF Divided

LEMMA DigitsTyped ==
    ASSUME NEW base \in Bases, NEW number \in Nat, IsWord(number)
    PROVE  /\ Digits(base, number) \in Seq({d \in Nat : d < base})
           /\ Len(Digits(base, number)) \in 1..5
<1>1. PICK temp, digit, len : Divided(base, number, temp, digit, len)
  BY DigitsAre, Zenon
<1>2. /\ len \in 1..5 /\ \A i \in 0..4 : digit[i] \in Nat /\ digit[i] < base
      /\ Digits(base, number) = [i \in 1..len |-> digit[len - i]]
  BY <1>1, DigitCount
<1>3. ASSUME NEW i \in 1..len PROVE digit[len - i] \in {d \in Nat : d < base}
  <2>1. len - i \in 0..4
    BY <1>2
  <2> QED
    BY <1>2, <2>1, Zenon
<1> QED
  BY <1>2, <1>3

\* A number of one digit, and of two.
LEMMA OneDigit ==
    ASSUME NEW base \in Bases, NEW n \in Nat, n < base
    PROVE  Digits(base, n) = <<n>>
<1>1. IsWord(n)
  BY SMT DEF IsWord, Bases
<1>2. PICK temp, digit, len : Divided(base, n, temp, digit, len)
  BY <1>1, DigitsAre, Zenon
<1>3. /\ len \in 1..5 /\ temp[0] = n /\ temp[len] = 0 /\ (len = 1 \/ temp[len - 1] # 0)
      /\ Digits(base, n) = [i \in 1..len |-> digit[len - i]]
      /\ \A i \in 0..4 : temp[i] = 0 => temp[i + 1] = 0
  BY <1>2, DigitCount
<1>4. digit[0] = n /\ temp[1] = 0
  <2>1. 0 \in 0..4 /\ 0 + 1 = 1
    OBVIOUS
  <2>2. Place(base, temp[0], temp[0 + 1], digit[0])
    BY <1>2, <2>1, Zenon DEF Divided
  <2>3. Place(base, n, temp[1], digit[0])
    BY <1>3, <2>1, <2>2, Zenon
  <2> QED
    BY <2>3, PlaceIsSmaller, Zenon
<1>5. temp[2] = 0 /\ temp[3] = 0 /\ temp[4] = 0
  BY <1>3, <1>4
<1>6. len = 1
  BY <1>3, <1>4, <1>5
<1>7. Digits(base, n) = [i \in 1..1 |-> digit[1 - i]]
  BY <1>3, <1>6, Zenon
<1> QED
  BY <1>4, <1>7

LEMMA TwoPlaces ==
    ASSUME NEW n, NEW a, NEW b, NEW c, NEW d, Place(256, n, a, c), Place(256, a, b, d),
           256 <= n, n <= 65535
    PROVE  b = 0 /\ a = d /\ a # 0 /\ n \div 256 = d /\ n % 256 = c
<1>1. /\ n \in Nat /\ a \in Nat /\ b \in Nat /\ c \in Nat /\ d \in Nat /\ c < 256 /\ d < 256
      /\ n = 256 * a + c /\ a = 256 * b + d
  BY SMT DEF Place
<1>2. b = 0 /\ a = d /\ a # 0
  BY <1>1, SMT
<1>3. n \div 256 = a /\ n % 256 = c
  BY <1>1, SMT
<1> QED
  BY <1>2, <1>3, SMT

Small(n) == n \in Nat /\ n < 65536
Hi(n)    == n \div 256
Lo(n)    == n % 256

LEMMA HiLo ==
    ASSUME NEW n, Small(n)
    PROVE  /\ n \in Nat /\ Hi(n) \in Octet /\ Lo(n) \in Octet /\ n = 256 * Hi(n) + Lo(n)
           /\ Hi(n) % 256 = Hi(n)
           /\ n < 256 => Hi(n) = 0 /\ Lo(n) = n
<1>1. n \in Nat /\ n < 65536 /\ Hi(n) = n \div 256 /\ Lo(n) = n % 256
  BY SMT DEF Small, Hi, Lo
<1>2. Hi(n) \in Nat /\ Lo(n) \in Nat /\ Lo(n) < 256 /\ n = 256 * Hi(n) + Lo(n)
  BY <1>1, SMT
<1>3. Hi(n) < 256
  BY <1>1, <1>2, SMT
<1>4. Hi(n) % 256 = Hi(n)
  BY <1>2, <1>3, SMT
<1>5. n < 256 => Hi(n) = 0 /\ Lo(n) = n
  BY <1>1, <1>2, SMT
<1> QED
  BY <1>1, <1>2, <1>3, <1>4, <1>5, SMT DEF Octet

Bytes(n) == <<Hi(n), Lo(n)>>

LEMMA TwoDigits ==
    ASSUME NEW n \in Nat, 256 <= n, n <= 65535
    PROVE  Digits(256, n) = Bytes(n)
<1>1. IsWord(n) /\ 256 \in Bases
  BY SMT DEF IsWord, Bases
<1>2. PICK temp, digit, len : Divided(256, n, temp, digit, len)
  BY <1>1, DigitsAre, SMT
<1>3. /\ len \in 1..5 /\ temp[0] = n /\ temp[len] = 0 /\ (len = 1 \/ temp[len - 1] # 0)
      /\ Digits(256, n) = [i \in 1..len |-> digit[len - i]]
      /\ \A i \in 0..4 : temp[i] = 0 => temp[i + 1] = 0
  BY <1>1, <1>2, DigitCount, SMT
<1>4. /\ temp[2] = 0 /\ temp[1] = digit[1] /\ temp[1] # 0
      /\ n \div 256 = digit[1] /\ n % 256 = digit[0]
  <2>1. \A i \in 0..4 : Place(256, temp[i], temp[i + 1], digit[i])
    BY <1>2, DividedPlaces, SMT
  <2>2. Place(256, temp[0], temp[1], digit[0]) /\ Place(256, temp[1], temp[2], digit[1])
    <3>1. 0 \in 0..4 /\ 0 + 1 = 1 /\ 1 \in 0..4 /\ 1 + 1 = 2
      OBVIOUS
    <3> QED
      BY <2>1, <3>1, SMT
  <2> QED
    BY <1>3, <2>2, TwoPlaces, SMT
<1>5. temp[3] = 0 /\ temp[4] = 0
  BY <1>3, <1>4, SMT
<1>6. len = 2
  BY <1>3, <1>4, <1>5, SMT
<1>7. Digits(256, n) = [i \in 1..2 |-> digit[2 - i]]
  BY <1>3, <1>6, SMT
<1> QED
  BY <1>4, <1>7, SMT DEF Bytes, Hi, Lo

-----------------------------------------------------------------------------
(* The SNMP client: octets                                                 *)

Octets == Seq(Octet)

\* The octets t are those of s from p on.
At(s, p, t) == \A i \in 1..Len(t) : p + i - 1 \in 1..Len(s) /\ s[p + i - 1] = t[i]

Positions == Nat \ {0}

\* The place after t, which begins at p.
After(p, t) == p + Len(t)

LEMMA AtWhole == ASSUME NEW s \in Octets PROVE At(s, 1, s) /\ 1 \in Positions
BY SMT DEF At, Octets, Positions

LEMMA AtParts ==
    ASSUME NEW s \in Octets, NEW a \in Octets, NEW b \in Octets, NEW p \in Nat,
           At(s, p, a \o b)
    PROVE  At(s, p, a) /\ At(s, p + Len(a), b)
<1>1. /\ Len(a) \in Nat /\ Len(b) \in Nat /\ Len(s) \in Nat /\ Len(a \o b) = Len(a) + Len(b)
      /\ \A i \in 1..Len(a) : (a \o b)[i] = a[i]
      /\ \A i \in 1..Len(b) : (a \o b)[Len(a) + i] = b[i]
  BY DEF Octets
<1>2. \A i \in 1..(Len(a) + Len(b)) : p + i - 1 \in 1..Len(s) /\ s[p + i - 1] = (a \o b)[i]
  BY <1>1 DEF At
<1>3. ASSUME NEW i \in 1..Len(a) PROVE p + i - 1 \in 1..Len(s) /\ s[p + i - 1] = a[i]
  BY <1>1, <1>2
<1>4. ASSUME NEW i \in 1..Len(b)
      PROVE  (p + Len(a)) + i - 1 \in 1..Len(s) /\ s[(p + Len(a)) + i - 1] = b[i]
  <2>1. Len(a) + i \in 1..(Len(a) + Len(b)) /\ p + (Len(a) + i) - 1 = (p + Len(a)) + i - 1
    BY <1>1
  <2>2. /\ p + (Len(a) + i) - 1 \in 1..Len(s)
        /\ s[p + (Len(a) + i) - 1] = (a \o b)[Len(a) + i]
    BY <1>2, <2>1
  <2> QED
    BY <1>1, <2>1, <2>2
<1> QED
  BY <1>3, <1>4 DEF At

LEMMA AtSubSeq ==
    ASSUME NEW s \in Octets, NEW p \in Nat \ {0}, NEW t \in Octets, At(s, p, t),
           NEW q \in Int, q = p + Len(t) - 1
    PROVE  SubSeq(s, p, q) = t
BY DEF At, Octets

LEMMA AtOne ==
    ASSUME NEW s \in Octets, NEW p \in Nat, NEW a, At(s, p, <<a>>)
    PROVE  p \in 1..Len(s) /\ s[p] = a
BY SMT DEF At, Octets

LEMMA AtTwo ==
    ASSUME NEW s \in Octets, NEW p \in Nat, NEW a, NEW b, At(s, p, <<a, b>>)
    PROVE  s[p] = a /\ s[p + 1] = b
<1>1. \A i \in 1..2 : s[p + i - 1] = <<a, b>>[i]
  BY SMT DEF At
<1> QED
  BY <1>1, SMT

LEMMA AtThree ==
    ASSUME NEW s \in Octets, NEW p \in Nat, NEW a, NEW b, NEW c, At(s, p, <<a, b, c>>)
    PROVE  s[p] = a /\ s[p + 1] = b /\ s[p + 2] = c
<1>1. \A i \in 1..3 : s[p + i - 1] = <<a, b, c>>[i]
  BY SMT DEF At
<1> QED
  BY <1>1, SMT

-----------------------------------------------------------------------------
(* The SNMP client: elements                                               *)

\* The octets of a length, in one to three.
SizeOctets(more, n) ==
    IF more = 0 THEN <<n>> ELSE IF more = 1 THEN <<129, n>> ELSE <<130, Hi(n), Lo(n)>>

Fits(more, n) == /\ more \in 0..2 /\ Small(n)
                 /\ more = 0 => n < 128
                 /\ more = 1 => n < 256

\* t is the element of a tag and a content.
Framed(t, tag, content) ==
    /\ tag \in Octet /\ content \in Octets
    /\ \E more : /\ Fits(more, Len(content))
                 /\ t = (<<tag>> \o SizeOctets(more, Len(content))) \o content

\* What is written at q is the length n, in so many octets more than one.
Sized(s, q, more, n) ==
    /\ more \in 0..2 /\ n \in Nat
    /\ more = 0 => s[q] = n /\ n < 128
    /\ more # 0 => s[q + 1] \in Nat
    /\ more = 1 => s[q] = 129 /\ s[q + 1] = n
    /\ more = 2 => s[q] = 130 /\ 256 * s[q + 1] + s[q + 2] = n

LEMMA SizeTyped ==
    ASSUME NEW more, NEW n, Fits(more, n)
    PROVE  SizeOctets(more, n) \in Octets /\ Len(SizeOctets(more, n)) = more + 1
<1>1. Small(n) /\ n \in Nat /\ Hi(n) \in Octet /\ Lo(n) \in Octet
  BY HiLo, SMT DEF Fits
<1>2. CASE more = 0
  BY <1>1, <1>2, SMT DEF Fits, SizeOctets, Octets, Octet
<1>3. CASE more = 1
  BY <1>1, <1>3, SMT DEF Fits, SizeOctets, Octets, Octet
<1>4. CASE more = 2
  <2>1. 130 \in Octet
    BY SMT DEF Octet
  <2> QED
    BY <1>1, <1>4, <2>1, SMT DEF SizeOctets, Octets
<1> QED
  BY <1>2, <1>3, <1>4, SMT DEF Fits

LEMMA FramedTyped ==
    ASSUME NEW t, NEW tag, NEW content, Framed(t, tag, content)
    PROVE  /\ tag \in Octet /\ content \in Octets /\ Len(content) \in Nat /\ t \in Octets
           /\ Len(t) \in Nat /\ Len(t) >= Len(content) + 2 /\ Len(t) <= Len(content) + 4
<1>0. tag \in Octet /\ content \in Octets
  BY SMT DEF Framed
<1>1. PICK more : /\ Fits(more, Len(content))
                  /\ t = (<<tag>> \o SizeOctets(more, Len(content))) \o content
  BY SMT DEF Framed
<1>2. PICK size : size = SizeOctets(more, Len(content))
  BY SMT
<1>3. size \in Octets /\ Len(size) = more + 1 /\ more \in 0..2 /\ t = (<<tag>> \o size) \o content
  BY <1>1, <1>2, SizeTyped, SMT DEF Fits
<1> QED
  BY <1>0, <1>3, SMT DEF Octets

LEMMA SizeAt ==
    ASSUME NEW s \in Octets, NEW q \in Nat, NEW more, NEW n, Fits(more, n),
           At(s, q, SizeOctets(more, n))
    PROVE  Sized(s, q, more, n)
<1>1. CASE more = 0
  <2>1. n \in Nat /\ n < 128 /\ SizeOctets(more, n) = <<n>>
    BY <1>1, HiLo, SMT DEF Fits, SizeOctets
  <2>2. s[q] = n
    BY <2>1, AtOne, Zenon
  <2> QED
    BY <1>1, <2>1, <2>2, SMT DEF Sized
<1>2. CASE more = 1
  <2>1. n \in Nat /\ SizeOctets(more, n) = <<129, n>>
    BY <1>2, HiLo, SMT DEF Fits, SizeOctets
  <2>2. At(s, q, <<129, n>>)
    BY <2>1, Zenon
  <2>3. s[q] = 129 /\ s[q + 1] = n
    BY <2>2, AtTwo, SMT
  <2> QED
    BY <1>2, <2>1, <2>3, SMT DEF Sized
<1>3. CASE more = 2
  <2>1. s[q] = 130 /\ s[q + 1] = Hi(n) /\ s[q + 2] = Lo(n)
    BY <1>3, AtThree, SMT DEF SizeOctets
  <2>2. n \in Nat /\ n = 256 * Hi(n) + Lo(n) /\ Hi(n) \in Nat
    BY HiLo, SMT DEF Fits, Octet
  <2> QED
    BY <1>3, <2>1, <2>2, SMT DEF Sized
<1> QED
  BY <1>1, <1>2, <1>3, SMT DEF Fits

LEMMA FramedAt ==
    ASSUME NEW s \in Octets, NEW p \in Nat \ {0}, NEW tag, NEW content, NEW t,
           Framed(t, tag, content), At(s, p, t)
    PROVE  \E more \in 0..2 : /\ s[p] = tag /\ Sized(s, p + 1, more, Len(content))
                              /\ At(s, p + 2 + more, content)
                              /\ Len(t) = 2 + more + Len(content)
<1>0. tag \in Octet /\ content \in Octets
  BY FramedTyped, SMT
<1>1. PICK more : /\ Fits(more, Len(content))
                  /\ t = (<<tag>> \o SizeOctets(more, Len(content))) \o content
  BY Zenon DEF Framed
<1>2. PICK size : size = SizeOctets(more, Len(content))
  BY SMT
<1>3. /\ size \in Octets /\ Len(size) = more + 1 /\ more \in 0..2
      /\ t = (<<tag>> \o size) \o content /\ <<tag>> \in Octets /\ <<tag>> \o size \in Octets
      /\ Len(<<tag>>) = 1 /\ Len(<<tag>> \o size) = more + 2
  BY <1>0, <1>1, <1>2, SizeTyped, SMT DEF Fits, Octets
<1>4. At(s, p, <<tag>> \o size) /\ At(s, p + (more + 2), content)
  <2>1. PICK front : front = <<tag>> \o size
    BY Zenon
  <2>2. At(s, p, front \o content) /\ front \in Octets /\ Len(front) = more + 2
    BY <1>3, <2>1, Zenon
  <2>3. At(s, p, front) /\ At(s, p + Len(front), content)
    <3>1. p \in Nat
      BY SMT
    <3> QED
      BY <1>0, <2>2, <3>1, AtParts, Zenon
  <2> QED
    BY <2>1, <2>2, <2>3, Zenon
<1>5. At(s, p, <<tag>>) /\ At(s, p + 1, size)
  <2>1. p \in Nat
    BY SMT
  <2>2. At(s, p, <<tag>>) /\ At(s, p + Len(<<tag>>), size)
    BY <1>3, <1>4, <2>1, AtParts, Zenon
  <2> QED
    BY <1>3, <2>2, Zenon
<1>6. s[p] = tag
  BY <1>5, AtOne, SMT
<1>7. Sized(s, p + 1, more, Len(content))
  BY <1>1, <1>2, <1>5, SizeAt, SMT
<1>8. Len(t) = 2 + more + Len(content) /\ p + (more + 2) = p + 2 + more
  BY <1>3, SMT DEF Octets
<1> QED
  BY <1>3, <1>4, <1>6, <1>7, <1>8, SMT

\* The code writes every length in as few octets as it takes.
LEMMA EncodedFramed ==
    ASSUME NEW tag \in Octet, NEW content \in Octets, Small(Len(content))
    PROVE  Framed(Encoded(tag, content), tag, content)
<1>1. PICK n : n = Len(content)
  BY Zenon
<1>2. Small(n) /\ n \in Nat /\ Hi(n) % 256 = Hi(n)
  BY <1>1, HiLo, SMT
<1>3. \E more : Fits(more, n) /\ EncodeLength(n) = SizeOctets(more, n)
  <2>1. CASE n < 128
    BY <1>2, <2>1, SMT DEF Fits, EncodeLength, SizeOctets
  <2>2. CASE n >= 128 /\ n < 256
    BY <1>2, <2>2, SMT DEF Fits, EncodeLength, SizeOctets
  <2>3. CASE n >= 256
    <3>1. EncodeLength(n) = <<130, Hi(n) % 256, Lo(n)>>
      BY <1>2, <2>3, SMT DEF EncodeLength, Hi, Lo
    <3>2. Fits(2, n) /\ SizeOctets(2, n) = <<130, Hi(n), Lo(n)>>
      BY <1>2, SMT DEF Fits, SizeOctets
    <3> QED
      BY <1>2, <3>1, <3>2, Zenon
  <2> QED
    BY <1>2, <2>1, <2>2, <2>3, SMT
<1>4. PICK more : Fits(more, n) /\ EncodeLength(n) = SizeOctets(more, n)
  BY <1>3, Zenon
<1>5. Encoded(tag, content) = (<<tag>> \o EncodeLength(n)) \o content
  BY <1>1, Zenon DEF Encoded
<1> QED
  BY <1>1, <1>4, <1>5, Zenon DEF Framed

\* An agent that writes it in at most two octets more, or in as few as it takes.
LEMMA Padding ==
    /\ SubSeq(<<0, 0>>, 1, 1) = <<0>>
    /\ \A k \in Int : k <= 0 => SubSeq(<<0, 0>>, 1, k) = <<>>
    /\ \A a, b, c : /\ <<a>> \o <<b>> = <<a, b>> /\ <<>> \o <<b>> = <<b>>
                    /\ <<>> \o <<b, c>> = <<b, c>> /\ <<a>> \o <<b, c>> = <<a, b, c>>
                    /\ Len(<<a>>) = 1 /\ Len(<<a, b>>) = 2
<1>1. <<0, 0>> \in Octets /\ <<0>> \in Octets /\ At(<<0, 0>>, 1, <<0>>)
  BY SMT DEF Octets, Octet, At
<1>2. SubSeq(<<0, 0>>, 1, 1) = <<0>>
  <2>1. PICK t : t = <<0>>
    BY Zenon
  <2>2. PICK s, p, q : s = <<0, 0>> /\ p = 1 /\ q = 1
    BY Zenon
  <2>3. s \in Octets /\ p \in Nat \ {0} /\ t \in Octets /\ q \in Int /\ q = p + Len(t) - 1
    BY <1>1, <2>1, <2>2, SMT
  <2>4. At(s, p, t)
    BY <1>1, <2>1, <2>2, Zenon
  <2>5. SubSeq(s, p, q) = t
    BY <2>3, <2>4, AtSubSeq, SMT
  <2> QED
    BY <2>1, <2>2, <2>5, Zenon
<1>3. \A k \in Int : k <= 0 => SubSeq(<<0, 0>>, 1, k) = <<>>
  BY SMT
<1>4. ASSUME NEW a, NEW b, NEW c
      PROVE  /\ <<a>> \o <<b>> = <<a, b>> /\ <<>> \o <<b>> = <<b>>
             /\ <<>> \o <<b, c>> = <<b, c>> /\ <<a>> \o <<b, c>> = <<a, b, c>>
             /\ Len(<<a>>) = 1 /\ Len(<<a, b>>) = 2
  <2> DEFINE S == {a, b, c}
  <2>0. /\ <<a>> \in Seq(S) /\ <<b>> \in Seq(S) /\ <<a, b>> \in Seq(S) /\ <<b, c>> \in Seq(S)
        /\ <<a, b, c>> \in Seq(S)
    BY SMT
  <2> HIDE DEF S
  <2>1. <<a>> \o <<b>> = <<a, b>>
    <3>1. PICK u : u = <<a>> \o <<b>>
      BY Zenon
    <3>2. u \in Seq(S) /\ Len(u) = 2 /\ u[1] = a /\ u[2] = b
      BY <2>0, <3>1, SMT
    <3>3. u = <<a, b>>
      BY <2>0, <3>2, SMT
    <3> QED
      BY <3>1, <3>3, Zenon
  <2>2. <<>> \o <<b>> = <<b>>
    BY SMT
  <2>3. <<>> \o <<b, c>> = <<b, c>>
    BY SMT
  <2>4. <<a>> \o <<b, c>> = <<a, b, c>>
    <3>1. PICK u : u = <<a>> \o <<b, c>>
      BY Zenon
    <3>2. u \in Seq(S) /\ Len(u) = 3 /\ u[1] = a /\ u[2] = b /\ u[3] = c
      BY <2>0, <3>1, SMT
    <3>3. u = <<a, b, c>>
      BY <2>0, <3>2, SMT
    <3> QED
      BY <3>1, <3>3, Zenon
  <2> QED
    BY <2>1, <2>2, <2>3, <2>4, SMT
<1> QED
  BY <1>2, <1>3, <1>4, Zenon

LEMMA WrittenFramed ==
    ASSUME NEW tag \in Octet, NEW content \in Octets, Small(Len(content)), NEW form \in 0..2
    PROVE  Framed(Written(form, tag, content), tag, content)
<1>1. PICK n : n = Len(content)
  BY Zenon
<1>2. Small(n) /\ n \in Nat
  BY <1>1, HiLo, SMT
<1>3. PICK digits : digits = Digits(256, n)
  BY Zenon
<1>4. PICK zeros : zeros = SubSeq(<<0, 0>>, 1, form - Len(digits))
  BY Zenon
<1>5. PICK size : size = IF form = 0 /\ n < 128 THEN <<n>>
                         ELSE <<128 + Len(zeros \o digits)>> \o zeros \o digits
  BY Zenon
<1>6. Written(form, tag, content) = (<<tag>> \o size) \o content
  BY <1>1, <1>3, <1>4, <1>5, SMT DEF Written
<1>7. \E more : Fits(more, n) /\ size = SizeOctets(more, n)
  <2>1. CASE form = 0 /\ n < 128
    BY <1>2, <1>5, <2>1, SMT DEF Fits, SizeOctets
  <2>2. CASE n < 256 /\ ~(form = 0 /\ n < 128)
    <3>1. digits = <<n>>
      BY <1>2, <1>3, <2>2, OneDigit, SMT DEF Bases
    <3>2. CASE form = 2
      <4>1. zeros = <<0>>
        <5>1. form - Len(digits) = 1
          BY <3>1, <3>2, SMT
        <5> QED
          BY <1>4, <5>1, Padding, Zenon
      <4>2. size = <<130, 0, n>>
        <5>1. zeros \o digits = <<0, n>> /\ Len(<<0, n>>) = 2
          BY <3>1, <4>1, Padding, Zenon
        <5>2. PICK m : m = 128 + Len(zeros \o digits)
          BY Zenon
        <5>3. size = <<m>> \o (zeros \o digits)
          BY <5>2, <1>5, <2>2, SMT
        <5>4. size = <<m, 0, n>>
          BY <5>1, <5>3, Padding, SMT
        <5>5. m = 130
          BY <5>1, <5>2, SMT
        <5> QED
          BY <5>4, <5>5, SMT
      <4>3. Hi(n) = 0 /\ Lo(n) = n
        BY <1>2, <2>2, HiLo, SMT
      <4> QED
        BY <1>2, <4>2, <4>3, SMT DEF Fits, SizeOctets
    <3>3. CASE form \in {0, 1}
      <4>1. zeros = <<>>
        BY <1>4, <3>1, <3>3, SMT
      <4>2. size = <<129, n>>
        <5>1. zeros \o digits = <<n>> /\ Len(<<n>>) = 1
          BY <3>1, <4>1, Padding, Zenon
        <5>2. PICK m : m = 128 + Len(zeros \o digits)
          BY Zenon
        <5>3. size = <<m>> \o (zeros \o digits)
          BY <5>2, <1>5, <2>2, SMT
        <5>4. size = <<m, n>>
          BY <5>1, <5>3, Padding, Zenon
        <5>5. m = 129
          BY <5>1, <5>2, SMT
        <5> QED
          BY <5>4, <5>5, SMT
      <4>3. Fits(1, n) /\ SizeOctets(1, n) = <<129, n>>
        BY <1>2, <2>2, SMT DEF Fits, SizeOctets
      <4> QED
        BY <4>2, <4>3, Zenon
    <3> QED
      BY <3>2, <3>3, SMT
  <2>3. CASE n >= 256
    <3>1. digits = <<Hi(n), Lo(n)>>
      BY <1>2, <1>3, <2>3, TwoDigits, SMT DEF Bytes, Small
    <3>2. zeros = <<>>
      BY <1>4, <3>1, SMT
    <3>3. size = <<130, Hi(n), Lo(n)>>
      <4>1. zeros \o digits = <<Hi(n), Lo(n)>> /\ Len(<<Hi(n), Lo(n)>>) = 2
        BY <3>1, <3>2, Padding, Zenon
      <4>2. PICK m : m = 128 + Len(zeros \o digits)
        BY Zenon
      <4>3. size = <<m>> \o (zeros \o digits)
        BY <4>2, <1>2, <1>5, <2>3, SMT
      <4>4. size = <<m, Hi(n), Lo(n)>>
        BY <4>1, <4>3, Padding, SMT
      <4>5. m = 130
        BY <4>1, <4>2, SMT
      <4> QED
        BY <4>4, <4>5, SMT
    <3> QED
      BY <1>2, <3>3, SMT DEF Fits, SizeOctets
  <2> QED
    BY <1>2, <2>1, <2>2, <2>3, SMT
<1> QED
  BY <1>1, <1>6, <1>7, Zenon DEF Framed

-----------------------------------------------------------------------------
(* The SNMP client: elements are read                                      *)

\* The octets of a length that come after the first, taken for a number.
Weighed(len, s, p, more) ==
    /\ DOMAIN len = 0..more /\ len[0] = 0
    /\ \A i \in 1..more : len[i] = 256 * len[i - 1] + s[p + 1 + i]

Counted(g, s, p, more) ==
    g = [i \in 0..more |-> IF i = 0 THEN 0 ELSE 256 * g[i - 1] + s[p + 1 + i]]

LEMMA ElementCounts ==
    ASSUME NEW s, NEW p, NEW more \in 0..2
    PROVE  \E g : Counted(g, s, p, more)
<1>1. PICK q1, q2 : q1 = s[p + 1 + 1] /\ q2 = s[p + 1 + 2]
  BY Zenon
<1>2. PICK g : g = [i \in 0..more |-> IF i = 0 THEN 0 ELSE IF i = 1 THEN 256 * 0 + q1
                                      ELSE 256 * (256 * 0 + q1) + q2]
  BY Zenon
<1>3. \A i \in 0..more : i = 0 \/ i = 1 \/ (i = 2 /\ more = 2)
  BY SMT
<1>4. more >= 1 => g[1] = 256 * 0 + q1
  BY <1>2, SMT
<1>5. ASSUME NEW i \in 0..more
      PROVE  g[i] = IF i = 0 THEN 0 ELSE 256 * g[i - 1] + s[p + 1 + i]
  <2>1. CASE i = 0
    BY <1>2, <2>1, SMT
  <2>2. CASE i = 1
    <3>1. g[1] = 256 * 0 + q1 /\ g[0] = 0
      BY <1>2, <2>2, SMT
    <3>2. i - 1 = 0 /\ i # 0
      BY <2>2, SMT
    <3> QED
      BY <1>1, <2>2, <3>1, <3>2, SMT
  <2>3. CASE i = 2
    <3>1. g[2] = 256 * (256 * 0 + q1) + q2 /\ g[1] = 256 * 0 + q1
      BY <1>2, <2>3, SMT
    <3>2. i - 1 = 1 /\ i # 0
      BY <2>3, SMT
    <3> QED
      BY <1>1, <2>3, <3>1, <3>2, SMT
  <2> QED
    BY <1>3, <2>1, <2>2, <2>3, Zenon
<1> QED
  BY <1>2, <1>5 DEF Counted

LEMMA ElementSized ==
    ASSUME NEW s \in Octets, NEW p \in Nat \ {0}, NEW more \in 0..2, NEW n,
           Sized(s, p + 1, more, n)
    PROVE  Element(s, p) = [tag |-> s[p], body |-> SubSeq(s, p + 2 + more, p + 1 + more + n),
                            next |-> p + 2 + more + n]
<1> DEFINE first == s[p + 1]
           more0 == IF first < 128 THEN 0 ELSE first - 128
           len[i \in 0..more0] == IF i = 0 THEN 0 ELSE 256 * len[i - 1] + s[p + 1 + i]
           from == p + 2 + more0
           to == p + 1 + more0 + IF more0 = 0 THEN first ELSE len[more0]
<1>1. more0 = more /\ n \in Nat
  BY SMT DEF Sized
<1>2. Weighed(len, s, p, more)
  <2>1. \E g : g = [i \in 0..more |-> IF i = 0 THEN 0 ELSE 256 * g[i - 1] + s[p + 1 + i]]
    <3>1. \E g : Counted(g, s, p, more)
      BY ElementCounts, Zenon
    <3> QED
      BY <3>1, Zenon DEF Counted
  <2>2. len = [i \in 0..more |-> IF i = 0 THEN 0 ELSE 256 * len[i - 1] + s[p + 1 + i]]
    <3> HIDE DEF more0
    <3> QED
      BY <1>1, <2>1, ZenonT(30)
  <2> HIDE DEF len
  <2>3. 0 \in 0..more /\ \A i \in 1..more : i \in 0..more /\ i # 0
    BY SMT
  <2> QED
    BY <2>2, <2>3, SMT DEF Weighed
<1>3. Element(s, p) = [tag |-> s[p], body |-> SubSeq(s, from, to), next |-> to + 1]
  BY DEF Element
<1> HIDE DEF len
<1>4. more # 0 => len[more] = n
  <2>1. CASE more = 1
    <3>1. len[1] = 256 * 0 + s[p + 1 + 1]
      BY <1>2, <2>1, SMT DEF Weighed
    <3>2. s[p + 1 + 1] = n
      BY <2>1, SMT DEF Sized
    <3> QED
      BY <1>1, <2>1, <3>1, <3>2, SMT
  <2>2. CASE more = 2
    <3>1. len[1] = 256 * 0 + s[p + 1 + 1] /\ len[2] = 256 * len[1] + s[p + 1 + 2]
      BY <1>2, <2>2, SMT DEF Weighed
    <3>2. 256 * s[p + 1 + 1] + s[p + 1 + 2] = n /\ s[p + 1 + 1] \in Int
      BY <2>2, SMT DEF Sized
    <3> QED
      BY <1>1, <2>2, <3>1, <3>2, SMT
  <2> QED
    BY <2>1, <2>2, SMT
<1>5. to = p + 1 + more + n /\ from = p + 2 + more
  BY <1>1, <1>4, SMT DEF Sized
<1> HIDE DEF to, more0, from
<1>6. to + 1 = p + 2 + more + n
  BY <1>1, <1>5, SMT
<1> QED
  BY <1>3, <1>5, <1>6, Zenon

\* The agent reads an element for what it is.
LEMMA ElementFramed ==
    ASSUME NEW s \in Octets, NEW p \in Positions, NEW tag, NEW content, NEW t,
           Framed(t, tag, content), At(s, p, t)
    PROVE  Element(s, p) = [tag |-> tag, body |-> content, next |-> After(p, t)]
<1>0. tag \in Octet /\ content \in Octets /\ p \in Nat \ {0}
  BY FramedTyped, SMT DEF Positions
<1>1. PICK more \in 0..2 : /\ s[p] = tag /\ Sized(s, p + 1, more, Len(content))
                           /\ At(s, p + 2 + more, content)
                           /\ Len(t) = 2 + more + Len(content)
  BY <1>0, FramedAt, SMT
<1>2. Len(content) \in Nat
  BY <1>0, SMT DEF Octets
<1>3. SubSeq(s, p + 2 + more, p + 1 + more + Len(content)) = content
  <2>1. PICK from, to : from = p + 2 + more /\ to = p + 1 + more + Len(content)
    BY Zenon
  <2>2. from \in Nat \ {0} /\ to \in Int /\ to = from + Len(content) - 1
    BY <1>0, <1>2, <2>1, SMT
  <2>3. At(s, from, content)
    BY <1>1, <2>1, Zenon
  <2>4. SubSeq(s, from, to) = content
    BY <1>0, <2>2, <2>3, AtSubSeq, SMT
  <2> QED
    BY <2>1, <2>4, Zenon
<1>4. p + 2 + more + Len(content) = After(p, t)
  BY <1>0, <1>1, <1>2, SMT DEF After
<1>5. Element(s, p) = [tag |-> s[p],
                       body |-> SubSeq(s, p + 2 + more, p + 1 + more + Len(content)),
                       next |-> p + 2 + more + Len(content)]
  BY <1>0, <1>1, ElementSized, Zenon
<1> QED
  BY <1>1, <1>3, <1>4, <1>5, Zenon

LEMMA LengthSized ==
    ASSUME NEW s, NEW q, NEW more, NEW n, Sized(s, q, more, n)
    PROVE  DecodeLength(s, q) = [value |-> n, size |-> more + 1]
BY SMT DEF Sized, DecodeLength

\* So does the code.
LEMMA EnterFramed ==
    ASSUME NEW s \in Octets, NEW p \in Positions, NEW tag, NEW content, NEW t,
           Framed(t, tag, content), At(s, p, t)
    PROVE  /\ Enter(s, p, tag) \in Positions /\ At(s, Enter(s, p, tag), content)
           /\ After(Enter(s, p, tag), content) = After(p, t)
<1>0. tag \in Octet /\ content \in Octets /\ p \in Nat \ {0}
  BY FramedTyped, SMT DEF Positions
<1>1. PICK more \in 0..2 : /\ s[p] = tag /\ Sized(s, p + 1, more, Len(content))
                           /\ At(s, p + 2 + more, content)
                           /\ Len(t) = 2 + more + Len(content)
  BY <1>0, FramedAt, SMT
<1>2. Len(content) \in Nat
  BY <1>0, SMT DEF Octets
<1>3. DecodeLength(s, p + 1).size = more + 1
  BY <1>1, LengthSized, SMT
<1>4. Enter(s, p, tag) = p + 1 + (more + 1) /\ p + 1 + (more + 1) = p + 2 + more
  BY <1>0, <1>1, <1>3, SMT DEF Enter, NotFound
<1> QED
  BY <1>0, <1>1, <1>2, <1>4, SMT DEF Positions, After

LEMMA SkipFramed ==
    ASSUME NEW s \in Octets, NEW p \in Positions, NEW tag, NEW content, NEW t,
           Framed(t, tag, content), At(s, p, t)
    PROVE  Skip(s, p, tag) = After(p, t)
<1>0. tag \in Octet /\ content \in Octets /\ p \in Nat \ {0}
  BY FramedTyped, SMT DEF Positions
<1>1. PICK more \in 0..2 : /\ s[p] = tag /\ Sized(s, p + 1, more, Len(content))
                           /\ At(s, p + 2 + more, content)
                           /\ Len(t) = 2 + more + Len(content)
  BY <1>0, FramedAt, SMT
<1>2. Len(content) \in Nat
  BY <1>0, SMT DEF Octets
<1>3. /\ DecodeLength(s, p + 1).size = more + 1
      /\ DecodeLength(s, p + 1).value = Len(content)
  BY <1>1, LengthSized, SMT
<1>4. Skip(s, p, tag) = p + 1 + (more + 1) + Len(content)
  BY <1>0, <1>1, <1>3, SMT DEF Skip, NotFound
<1> QED
  BY <1>0, <1>1, <1>2, <1>4, SMT DEF After

-----------------------------------------------------------------------------
(* The SNMP client: messages                                               *)

LEMMA TwoParts ==
    ASSUME NEW s \in Octets, NEW p \in Positions, NEW a \in Octets, NEW b \in Octets,
           At(s, p, a \o b)
    PROVE  /\ At(s, p, a) /\ At(s, After(p, a), b) /\ After(p, a) \in Positions
           /\ After(After(p, a), b) = After(p, a \o b)
<1>1. p \in Nat /\ Len(a) \in Nat /\ Len(b) \in Nat /\ Len(a \o b) = Len(a) + Len(b)
  BY SMT DEF Octets, Positions
<1>2. At(s, p, a) /\ At(s, After(p, a), b)
  BY <1>1, AtParts, Zenon DEF After
<1> QED
  BY <1>1, <1>2, SMT DEF After, Positions

LEMMA ThreeParts ==
    ASSUME NEW s \in Octets, NEW p \in Positions, NEW a \in Octets, NEW b \in Octets,
           NEW c \in Octets, At(s, p, (a \o b) \o c)
    PROVE  /\ At(s, p, a) /\ At(s, After(p, a), b) /\ At(s, After(After(p, a), b), c)
           /\ After(p, a) \in Positions /\ After(After(p, a), b) \in Positions
           /\ After(After(After(p, a), b), c) = After(p, (a \o b) \o c)
<1>1. a \o b \in Octets
  BY SMT DEF Octets
<1>2. /\ At(s, p, a \o b) /\ At(s, After(p, a \o b), c) /\ After(p, a \o b) \in Positions
      /\ After(After(p, a \o b), c) = After(p, (a \o b) \o c)
  BY <1>1, TwoParts, SMT
<1>3. /\ At(s, p, a) /\ At(s, After(p, a), b) /\ After(p, a) \in Positions
      /\ After(After(p, a), b) = After(p, a \o b)
  BY <1>2, TwoParts, SMT
<1> QED
  BY <1>2, <1>3, Zenon

Four(a, b, c, d) == ((a \o b) \o c) \o d

Follow(s, p, a, b, c, d) ==
    /\ At(s, p, a) /\ At(s, After(p, a), b) /\ At(s, After(After(p, a), b), c)
    /\ At(s, After(After(After(p, a), b), c), d)
    /\ After(p, a) \in Positions /\ After(After(p, a), b) \in Positions
    /\ After(After(After(p, a), b), c) \in Positions
    /\ After(After(After(After(p, a), b), c), d) = After(p, Four(a, b, c, d))

LEMMA FourParts ==
    ASSUME NEW s \in Octets, NEW p \in Positions, NEW a \in Octets, NEW b \in Octets,
           NEW c \in Octets, NEW d \in Octets, At(s, p, Four(a, b, c, d))
    PROVE  Follow(s, p, a, b, c, d)
<1>1. (a \o b) \o c \in Octets
  BY SMT DEF Octets
<1>2. PICK m : m = (a \o b) \o c
  BY Zenon
<1>3. /\ At(s, p, m) /\ At(s, After(p, m), d) /\ After(p, m) \in Positions
      /\ After(After(p, m), d) = After(p, m \o d)
  BY <1>1, <1>2, TwoParts, SMT DEF Four
<1>4. /\ At(s, p, a) /\ At(s, After(p, a), b) /\ At(s, After(After(p, a), b), c)
      /\ After(p, a) \in Positions /\ After(After(p, a), b) \in Positions
      /\ After(After(After(p, a), b), c) = After(p, m)
  BY <1>2, <1>3, ThreeParts, SMT
<1> QED
  BY <1>2, <1>3, <1>4, Zenon DEF Four, Follow

\* The lists of a message, whose elements are its version, community and a
\* PDU, of an identifier, two numbers and a list of one pair.
Laid(m, kind, version, community, pdu, id, status, index, list, binding, name, value) ==
    /\ Framed(m, 48, (version \o community) \o pdu)
    /\ Framed(pdu, kind, Four(id, status, index, list))
    /\ Framed(list, 48, binding) /\ Framed(binding, 48, name \o value)

\* What the elements of a message hold that are not lists.
Filled(version, community, id, status, index, name, v, c, i, e, x, o) ==
    /\ Framed(version, 2, v) /\ Framed(community, 4, c) /\ Framed(id, 2, i)
    /\ Framed(status, 2, e) /\ Framed(index, 2, x) /\ Framed(name, 6, o)

LEMMA HeardLaid ==
    ASSUME NEW m, NEW kind, NEW version, NEW community, NEW pdu, NEW id, NEW status, NEW index,
           NEW list, NEW binding, NEW name, NEW value,
           Laid(m, kind, version, community, pdu, id, status, index, list, binding, name, value),
           NEW v, NEW c, NEW i, NEW e, NEW x, NEW o, NEW n, NEW tag,
           Filled(version, community, id, status, index, name, v, c, i, e, x, o),
           Framed(value, tag, n)
    PROVE  Heard(m) = [whole |-> TRUE, version |-> Integer(v), community |-> Len(c),
                       id |-> Integer(i), tags |-> <<kind, 6, tag>>, arcs |-> Arcs(o)]
<1>16. /\ Framed(version, 2, v) /\ Framed(community, 4, c) /\ Framed(id, 2, i)
       /\ Framed(status, 2, e) /\ Framed(index, 2, x) /\ Framed(name, 6, o)
  BY DEF Filled
<1> USE <1>16
<1>0. PICK P, Q, R : /\ P = (version \o community) \o pdu
                     /\ Q = Four(id, status, index, list)
                     /\ R = name \o value
  BY Zenon
<1>1. /\ m \in Octets /\ version \in Octets /\ community \in Octets /\ pdu \in Octets
      /\ id \in Octets /\ status \in Octets /\ index \in Octets /\ list \in Octets
      /\ binding \in Octets /\ name \in Octets /\ value \in Octets
      /\ P \in Octets /\ Q \in Octets /\ R \in Octets
      /\ Framed(m, 48, P) /\ Framed(pdu, kind, Q) /\ Framed(list, 48, binding)
      /\ Framed(binding, 48, R)
  <2>1. /\ Framed(m, 48, P) /\ Framed(pdu, kind, Q) /\ Framed(list, 48, binding)
        /\ Framed(binding, 48, R)
    BY <1>0, Zenon DEF Laid
  <2> QED
    BY <2>1, FramedTyped, SMT
<1>2. Element(m, 1) = [tag |-> 48, body |-> P, next |-> After(1, m)]
  BY <1>1, AtWhole, ElementFramed, SMT
<1>3. /\ At(P, 1, version) /\ At(P, After(1, version), community)
      /\ At(P, After(After(1, version), community), pdu)
      /\ After(1, version) \in Positions /\ After(After(1, version), community) \in Positions
      /\ After(After(After(1, version), community), pdu) = After(1, P)
  BY <1>0, <1>1, AtWhole, ThreeParts, SMT
<1>4. /\ Element(P, 1) = [tag |-> 2, body |-> v, next |-> After(1, version)]
      /\ Element(P, After(1, version)) =
            [tag |-> 4, body |-> c, next |-> After(After(1, version), community)]
      /\ Element(P, After(After(1, version), community)) =
            [tag |-> kind, body |-> Q, next |-> After(1, P)]
  <2>1. Element(P, 1) = [tag |-> 2, body |-> v, next |-> After(1, version)]
    BY <1>1, <1>3, AtWhole, ElementFramed, SMT
  <2>2. Element(P, After(1, version)) =
            [tag |-> 4, body |-> c, next |-> After(After(1, version), community)]
    BY <1>1, <1>3, ElementFramed, SMT
  <2>3. Element(P, After(After(1, version), community)) =
            [tag |-> kind, body |-> Q, next |-> After(After(After(1, version), community), pdu)]
    BY <1>1, <1>3, ElementFramed, SMT
  <2> QED
    BY <1>3, <2>1, <2>2, <2>3, Zenon
<1>5. /\ At(Q, 1, id) /\ At(Q, After(1, id), status)
      /\ At(Q, After(After(1, id), status), index)
      /\ At(Q, After(After(After(1, id), status), index), list)
      /\ After(1, id) \in Positions /\ After(After(1, id), status) \in Positions
      /\ After(After(After(1, id), status), index) \in Positions
      /\ After(After(After(After(1, id), status), index), list) = After(1, Q)
  <2>1. At(Q, 1, Four(id, status, index, list)) /\ 1 \in Positions
    BY <1>0, <1>1, AtWhole, SMT
  <2>2. Follow(Q, 1, id, status, index, list)
    BY <1>1, <2>1, FourParts, Zenon
  <2> QED
    BY <1>0, <2>2, Zenon DEF Follow
<1>6. /\ Element(Q, 1) = [tag |-> 2, body |-> i, next |-> After(1, id)]
      /\ Element(Q, After(1, id)) =
            [tag |-> 2, body |-> e, next |-> After(After(1, id), status)]
      /\ Element(Q, After(After(1, id), status)) =
            [tag |-> 2, body |-> x, next |-> After(After(After(1, id), status), index)]
      /\ Element(Q, After(After(After(1, id), status), index)) =
            [tag |-> 48, body |-> binding, next |-> After(1, Q)]
  <2>1. Element(Q, 1) = [tag |-> 2, body |-> i, next |-> After(1, id)]
    BY <1>1, <1>5, AtWhole, ElementFramed, SMT
  <2>2. Element(Q, After(1, id)) =
            [tag |-> 2, body |-> e, next |-> After(After(1, id), status)]
    BY <1>1, <1>5, ElementFramed, SMT
  <2>3. Element(Q, After(After(1, id), status)) =
            [tag |-> 2, body |-> x, next |-> After(After(After(1, id), status), index)]
    BY <1>1, <1>5, ElementFramed, SMT
  <2>4. Element(Q, After(After(After(1, id), status), index)) =
            [tag |-> 48, body |-> binding,
             next |-> After(After(After(After(1, id), status), index), list)]
    BY <1>1, <1>5, ElementFramed, SMT
  <2> QED
    BY <1>5, <2>1, <2>2, <2>3, <2>4, Zenon
<1>7. Element(binding, 1) = [tag |-> 48, body |-> R, next |-> After(1, binding)]
  BY <1>1, AtWhole, ElementFramed, SMT
<1>8. /\ At(R, 1, name) /\ At(R, After(1, name), value) /\ After(1, name) \in Positions
      /\ After(After(1, name), value) = After(1, R)
  BY <1>0, <1>1, AtWhole, TwoParts, SMT
<1>9. /\ Element(R, 1) = [tag |-> 6, body |-> o, next |-> After(1, name)]
      /\ Element(R, After(1, name)) = [tag |-> tag, body |-> n, next |-> After(1, R)]
  <2>1. Element(R, 1) = [tag |-> 6, body |-> o, next |-> After(1, name)]
    BY <1>1, <1>8, AtWhole, ElementFramed, SMT
  <2>2. Element(R, After(1, name)) =
            [tag |-> tag, body |-> n, next |-> After(After(1, name), value)]
    BY <1>1, <1>8, ElementFramed, SMT
  <2> QED
    BY <1>8, <2>1, <2>2, Zenon
<1>10. \A s \in Octets : Len(s) \in Nat /\ After(1, s) = Len(s) + 1
  BY SMT DEF Octets, After
<1> QED
  <2>1. PICK e1, e2, e3, e4, e5, e6, e7, e8, e9, e10, e11 :
           /\ e1 = Element(m, 1) /\ e2 = FirstIn(e1) /\ e3 = NextIn(e1, e2) /\ e4 = NextIn(e1, e3)
           /\ e5 = FirstIn(e4) /\ e6 = NextIn(e4, e5) /\ e7 = NextIn(e4, e6)
           /\ e8 = NextIn(e4, e7) /\ e9 = FirstIn(e8) /\ e10 = FirstIn(e9)
           /\ e11 = NextIn(e9, e10)
    BY Zenon
  <2>2. Heard(m) = [whole |-> /\ e1.next = Len(m) + 1 /\ IsLast(e1, e4)
                              /\ IsLast(e4, e8) /\ IsLast(e8, e9) /\ IsLast(e9, e11),
                    version |-> Integer(e2.body), community |-> Len(e3.body),
                    id |-> Integer(e5.body), tags |-> <<e4.tag, e10.tag, e11.tag>>,
                    arcs |-> Arcs(e10.body)]
    BY <2>1, Zenon DEF Heard
  <2>3. /\ e1.body = P /\ e1.next = After(1, m)
        /\ e2.body = v /\ e2.next = After(1, version)
        /\ e3.body = c /\ e3.next = After(After(1, version), community)
        /\ e4.tag = kind /\ e4.body = Q /\ e4.next = After(1, P)
    <3>1. e1.body = P /\ e1.next = After(1, m)
      BY <1>2, <2>1
    <3>2. e2 = Element(P, 1)
      BY <2>1, <3>1, Zenon DEF FirstIn
    <3>3. e2.body = v /\ e2.next = After(1, version)
      BY <1>4, <3>2
    <3>4. e3 = Element(P, After(1, version))
      BY <2>1, <3>1, <3>3, Zenon DEF NextIn
    <3>5. e3.body = c /\ e3.next = After(After(1, version), community)
      BY <1>4, <3>4
    <3>6. e4 = Element(P, After(After(1, version), community))
      BY <2>1, <3>1, <3>5, Zenon DEF NextIn
    <3>7. e4.tag = kind /\ e4.body = Q /\ e4.next = After(1, P)
      BY <1>4, <3>6
    <3> QED
      BY <3>1, <3>3, <3>5, <3>7, Zenon
  <2>4. /\ e5.body = i /\ e5.next = After(1, id)
        /\ e6.next = After(After(1, id), status)
        /\ e7.next = After(After(After(1, id), status), index)
        /\ e8.body = binding /\ e8.next = After(1, Q)
    <3>1. e5 = Element(Q, 1)
      BY <2>1, <2>3, Zenon DEF FirstIn
    <3>2. e5.body = i /\ e5.next = After(1, id)
      BY <1>6, <3>1
    <3>3. e6 = Element(Q, After(1, id))
      BY <2>1, <2>3, <3>2, Zenon DEF NextIn
    <3>4. e6.next = After(After(1, id), status)
      BY <1>6, <3>3
    <3>5. e7 = Element(Q, After(After(1, id), status))
      BY <2>1, <2>3, <3>4, Zenon DEF NextIn
    <3>6. e7.next = After(After(After(1, id), status), index)
      BY <1>6, <3>5
    <3>7. e8 = Element(Q, After(After(After(1, id), status), index))
      BY <2>1, <2>3, <3>6, Zenon DEF NextIn
    <3>8. e8.body = binding /\ e8.next = After(1, Q)
      BY <1>6, <3>7
    <3> QED
      BY <3>2, <3>4, <3>6, <3>8, Zenon
  <2>5. /\ e9.body = R /\ e9.next = After(1, binding)
        /\ e10.tag = 6 /\ e10.body = o /\ e10.next = After(1, name)
        /\ e11.tag = tag /\ e11.next = After(1, R)
    <3>1. e9 = Element(binding, 1)
      BY <2>1, <2>4, Zenon DEF FirstIn
    <3>2. e9.body = R /\ e9.next = After(1, binding)
      BY <1>7, <3>1
    <3>3. e10 = Element(R, 1)
      BY <2>1, <3>2, Zenon DEF FirstIn
    <3>4. e10.tag = 6 /\ e10.body = o /\ e10.next = After(1, name)
      BY <1>9, <3>3
    <3>5. e11 = Element(R, After(1, name))
      BY <2>1, <3>2, <3>4, Zenon DEF NextIn
    <3>6. e11.tag = tag /\ e11.next = After(1, R)
      BY <1>9, <3>5
    <3> QED
      BY <3>2, <3>4, <3>6, Zenon
  <2>6. /\ e1.next = Len(m) + 1 /\ IsLast(e1, e4) /\ IsLast(e4, e8) /\ IsLast(e8, e9)
        /\ IsLast(e9, e11)
    BY <1>1, <1>10, <2>3, <2>4, <2>5, Zenon DEF IsLast
  <2> QED
    BY <2>2, <2>3, <2>4, <2>5, <2>6

LEMMA ValueLaid ==
    ASSUME NEW m, NEW version, NEW community, NEW pdu, NEW id, NEW status, NEW index,
           NEW list, NEW binding, NEW name, NEW value,
           Laid(m, 162, version, community, pdu, id, status, index, list, binding, name, value),
           NEW v, NEW c, NEW i, NEW e, NEW x, NEW o, value \in Octets,
           Filled(version, community, id, status, index, name, v, c, i, e, x, o)
    PROVE  m \in Octets /\ FindValue(m) \in Positions /\ At(m, FindValue(m), value)
<1>16. /\ Framed(version, 2, v) /\ Framed(community, 4, c) /\ Framed(id, 2, i)
       /\ Framed(status, 2, e) /\ Framed(index, 2, x) /\ Framed(name, 6, o)
  BY DEF Filled
<1> USE <1>16
<1>0. PICK P, Q, R : /\ P = (version \o community) \o pdu
                     /\ Q = Four(id, status, index, list)
                     /\ R = name \o value
  BY Zenon
<1>1. /\ m \in Octets /\ version \in Octets /\ community \in Octets /\ pdu \in Octets
      /\ id \in Octets /\ status \in Octets /\ index \in Octets /\ list \in Octets
      /\ binding \in Octets /\ name \in Octets /\ value \in Octets
      /\ P \in Octets /\ Q \in Octets /\ R \in Octets
      /\ Framed(m, 48, P) /\ Framed(pdu, 162, Q) /\ Framed(list, 48, binding)
      /\ Framed(binding, 48, R)
  <2>1. /\ Framed(m, 48, P) /\ Framed(pdu, 162, Q) /\ Framed(list, 48, binding)
        /\ Framed(binding, 48, R)
    BY <1>0, Zenon DEF Laid
  <2> QED
    BY <2>1, FramedTyped, SMT
<1>2. PICK p1 : p1 = Enter(m, 1, 48)
  BY Zenon
<1>3. p1 \in Positions /\ At(m, p1, P)
  BY <1>1, <1>2, AtWhole, EnterFramed, SMT
<1>4. PICK p2, p3 : p2 = Skip(m, p1, 2) /\ p3 = Skip(m, p2, 4)
  BY Zenon
<1>5. p3 \in Positions /\ At(m, p3, pdu)
  <2>1. /\ At(m, p1, version) /\ At(m, After(p1, version), community)
        /\ At(m, After(After(p1, version), community), pdu)
        /\ After(p1, version) \in Positions /\ After(After(p1, version), community) \in Positions
    BY <1>0, <1>1, <1>3, ThreeParts, SMT
  <2>2. p2 = After(p1, version)
    BY <1>1, <1>3, <1>4, <2>1, SkipFramed, SMT
  <2>3. p3 = After(p2, community)
    BY <1>1, <1>4, <2>1, <2>2, SkipFramed, SMT
  <2> QED
    BY <2>1, <2>2, <2>3, SMT
<1>6. PICK p4 : p4 = Enter(m, p3, 162)
  BY Zenon
<1>7. p4 \in Positions /\ At(m, p4, Q)
  BY <1>1, <1>5, <1>6, EnterFramed, SMT
<1>8. PICK p5, p6, p7 : p5 = Skip(m, p4, 2) /\ p6 = Skip(m, p5, 2) /\ p7 = Skip(m, p6, 2)
  BY Zenon
<1>9. p7 \in Positions /\ At(m, p7, list)
  <2>1. /\ At(m, p4, id) /\ At(m, After(p4, id), status)
        /\ At(m, After(After(p4, id), status), index)
        /\ At(m, After(After(After(p4, id), status), index), list)
        /\ After(p4, id) \in Positions /\ After(After(p4, id), status) \in Positions
        /\ After(After(After(p4, id), status), index) \in Positions
    <3>1. At(m, p4, Four(id, status, index, list)) /\ p4 \in Positions
      BY <1>0, <1>7, SMT
    <3>2. Follow(m, p4, id, status, index, list)
      BY <1>1, <3>1, FourParts, Zenon
    <3> QED
      BY <3>2, Zenon DEF Follow
  <2>2. p5 = After(p4, id)
    BY <1>1, <1>7, <1>8, <2>1, SkipFramed, SMT
  <2>3. p6 = After(p5, status)
    BY <1>1, <1>8, <2>1, <2>2, SkipFramed, SMT
  <2>4. p7 = After(p6, index)
    BY <1>1, <1>8, <2>1, <2>2, <2>3, SkipFramed, SMT
  <2> QED
    BY <2>1, <2>2, <2>3, <2>4, SMT
<1>10. PICK p8, p9 : p8 = Enter(m, p7, 48) /\ p9 = Enter(m, p8, 48)
  BY Zenon
<1>11. p8 \in Positions /\ At(m, p8, binding)
  BY <1>1, <1>9, <1>10, EnterFramed, SMT
<1>12. p9 \in Positions /\ At(m, p9, R)
  BY <1>1, <1>10, <1>11, EnterFramed, SMT
<1>13. /\ At(m, p9, name) /\ At(m, After(p9, name), value) /\ After(p9, name) \in Positions
  BY <1>0, <1>1, <1>12, TwoParts, SMT
<1>14. Skip(m, p9, 6) = After(p9, name)
  BY <1>1, <1>12, <1>13, SkipFramed, SMT
<1>15. FindValue(m) = Skip(m, p9, 6)
  BY <1>2, <1>4, <1>6, <1>8, <1>10, Zenon DEF FindValue
<1> QED
  BY <1>1, <1>13, <1>14, <1>15, SMT

-----------------------------------------------------------------------------
(* The SNMP client: numbers are read                                       *)

\* Two functions that begin alike and go on alike are alike for a while.
Alike(n, g, lo, k) ==
    n[lo] = g[lo] /\ \A i \in (lo + 1)..k : n[i - 1] = g[i - 1] => n[i] = g[i]

LEMMA Steps ==
    ASSUME NEW lo \in 0..2, NEW k \in lo..14, NEW n, NEW g, Alike(n, g, lo, k)
    PROVE  n[k] = g[k]
<1>1. /\ n[lo] = g[lo]
      /\ \A i \in (lo + 1)..k : \A j : j = i - 1 => (n[j] = g[j] => n[i] = g[i])
  BY Zenon DEF Alike
<1>2. CASE lo = 0
  BY <1>1, <1>2, SMT
<1>3. CASE lo = 1
  BY <1>1, <1>3, SMT
<1>4. CASE lo = 2
  BY <1>1, <1>4, SMT
<1> QED
  BY <1>2, <1>3, <1>4, SMT

\* The content of EncodeInteger.
Signed(val) ==
    LET octets == Digits(256, val)
    IN  IF octets[1] >= 128 THEN <<0>> \o octets ELSE octets

\* The digits of a number, behind as many zeros as z.
Positive(body, z, temp, digit, len) ==
    /\ body \in Octets /\ z \in {0, 1} /\ Len(body) = len + z /\ body[1] < 128
    /\ z = 1 => body[1] = 0
    /\ \A i \in 1..len : body[i + z] = digit[len - i]

LEMMA SignedPositive ==
    ASSUME NEW val \in Nat, NEW temp, NEW digit, NEW len, Divided(256, val, temp, digit, len)
    PROVE  \E z : Positive(Signed(val), z, temp, digit, len)
<1>1. PICK d : d = Digits(256, val)
  BY Zenon
<1>2. /\ len \in 1..5 /\ d = [i \in 1..len |-> digit[len - i]]
      /\ \A i \in 0..4 : digit[i] \in Nat /\ digit[i] < 256
  BY <1>1, DigitCount, SMT DEF Bases
<1>3. d \in Octets /\ Len(d) = len /\ \A i \in 1..len : d[i] = digit[len - i]
  <2>1. ASSUME NEW i \in 1..len PROVE digit[len - i] \in Octet
    <3>1. PICK j : j = len - i
      BY Zenon
    <3>2. j \in 0..4
      BY <1>2, <3>1, SMT
    <3>3. digit[j] \in Nat /\ digit[j] < 256
      BY <1>2, <3>2, SMT
    <3> QED
      BY <3>1, <3>3, SMT DEF Octet
  <2> QED
    BY <1>2, <2>1, SMT DEF Octets
<1>4. Signed(val) = IF d[1] >= 128 THEN <<0>> \o d ELSE d
  BY <1>1, Zenon DEF Signed
<1>5. CASE d[1] >= 128
  <2>1. PICK body : body = <<0>> \o d
    BY Zenon
  <2>2. <<0>> \in Octets /\ Len(<<0>>) = 1 /\ <<0>>[1] = 0
    BY SMT DEF Octets, Octet
  <2>3. /\ body \in Octets /\ Len(body) = len + 1 /\ body[1] = 0
        /\ \A i \in 1..len : body[i + 1] = d[i]
    BY <1>2, <1>3, <2>1, <2>2, SMT DEF Octets
  <2>4. Positive(body, 1, temp, digit, len)
    BY <1>3, <2>3, SMT DEF Positive
  <2> QED
    BY <1>4, <1>5, <2>1, <2>4, Zenon
<1>6. CASE ~(d[1] >= 128)
  <2>1. d[1] < 128 /\ \A i \in 1..len : d[i + 0] = d[i]
    BY <1>2, <1>3, <1>6, SMT DEF Octets, Octet
  <2>2. Positive(d, 0, temp, digit, len)
    BY <1>2, <1>3, <2>1, SMT DEF Positive
  <2> QED
    BY <1>4, <1>6, <2>2, Zenon
<1> QED
  BY <1>5, <1>6, Zenon

\* What is read of an integer, octet by octet.
Reading(n, body) ==
    n = [i \in 0..Len(body) |->
           IF i = 0 THEN IF body[1] >= 128 THEN -1 ELSE 0 ELSE 256 * n[i - 1] + body[i]]

LEMMA IntegerReads ==
    ASSUME NEW body, \E g : Reading(g, body)
    PROVE  \E n : Reading(n, body) /\ Integer(body) = n[Len(body)]
<1> DEFINE n[i \in 0..Len(body)] ==
      IF i = 0 THEN IF body[1] >= 128 THEN -1 ELSE 0 ELSE 256 * n[i - 1] + body[i]
<1>1. \E g : g = [i \in 0..Len(body) |->
                   IF i = 0 THEN IF body[1] >= 128 THEN -1 ELSE 0 ELSE 256 * g[i - 1] + body[i]]
  BY Zenon DEF Reading
<1>2. n = [i \in 0..Len(body) |->
             IF i = 0 THEN IF body[1] >= 128 THEN -1 ELSE 0 ELSE 256 * n[i - 1] + body[i]]
  BY <1>1
<1>3. Integer(body) = n[Len(body)]
  BY DEF Integer
<1> HIDE DEF n
<1>4. Reading(n, body)
  BY <1>2, Zenon DEF Reading
<1> QED
  BY <1>3, <1>4, Zenon

LEMMA IntegerPositive ==
    ASSUME NEW val, NEW body, NEW z, NEW temp, NEW digit, NEW len,
           Divided(256, val, temp, digit, len), Positive(body, z, temp, digit, len)
    PROVE  Integer(body) = val
<1>1. /\ len \in 1..5 /\ temp[0] = val /\ temp[len] = 0
      /\ \A i \in 0..4 : Place(256, temp[i], temp[i + 1], digit[i])
  BY SMT DEF Divided
<1>2. \A i \in 0..4 : temp[i] = 256 * temp[i + 1] + digit[i]
  BY <1>1, SMT DEF Place
<1>3. PICK k : k = Len(body)
  BY Zenon
<1>4. k = len + z /\ z \in {0, 1} /\ k \in 0..14
  BY <1>1, <1>3, SMT DEF Positive
<1>5. PICK g : g = [i \in 0..k |-> IF i = 0 THEN 0 ELSE temp[len - (i - z)]]
  BY Zenon
<1>6. g[0] = 0 /\ g[k] = val
  BY <1>1, <1>4, <1>5, SMT
<1>7. ASSUME NEW i \in 1..k
      PROVE  g[i] = 256 * g[i - 1] + body[i]
  <2>1. CASE i - z = 0
    <3>1. body[i] = 0 /\ i = 1
      BY <1>4, <1>7, <2>1, SMT DEF Positive
    <3>2. g[i] = temp[len - (i - z)] /\ g[i - 1] = 0
      BY <1>4, <1>5, <2>1, <3>1, SMT
    <3>3. len - (i - z) = len
      BY <1>1, <2>1, SMT
    <3> QED
      BY <1>1, <3>1, <3>2, <3>3, SMT
  <2>2. CASE i - z # 0
    <3>1. PICK j : j = i - z
      BY Zenon
    <3>2. j \in 1..len /\ j + z = i /\ len - j \in 0..4
      BY <1>1, <1>4, <2>2, <3>1, SMT
    <3>3. body[i] = digit[len - j]
      BY <3>2, SMT DEF Positive
    <3>4. g[i] = temp[len - j]
      BY <1>4, <1>5, <3>1, SMT
    <3>5. g[i - 1] = temp[len - j + 1]
      <4>1. CASE i - 1 = 0
        BY <1>1, <1>4, <1>5, <3>1, <3>2, <4>1, SMT
      <4>2. CASE i - 1 # 0
        <5>1. g[i - 1] = temp[len - ((i - 1) - z)]
          BY <1>4, <1>5, <4>2, SMT
        <5>2. len - ((i - 1) - z) = len - j + 1
          BY <1>1, <1>4, <3>1, SMT
        <5> QED
          BY <5>1, <5>2, Zenon
      <4> QED
        BY <4>1, <4>2, Zenon
    <3>6. temp[len - j] = 256 * temp[len - j + 1] + digit[len - j]
      BY <1>2, <3>2, SMT
    <3> QED
      BY <3>3, <3>4, <3>5, <3>6, SMT
  <2> QED
    BY <2>1, <2>2, Zenon
<1>8. ~(body[1] >= 128)
  <2>1. body \in Octets /\ 1 \in 1..Len(body) /\ body[1] < 128
    BY <1>1, <1>4, SMT DEF Positive
  <2>2. body[1] \in Octet
    BY <2>1, SMT DEF Octets
  <2>3. PICK x : x = body[1]
    BY Zenon
  <2>4. x \in 0..255 /\ x < 128
    BY <2>1, <2>2, <2>3, Zenon DEF Octet
  <2>5. ~(x >= 128)
    BY <2>4, SMT
  <2> QED
    BY <2>3, <2>5, Zenon
<1>9. Reading(g, body)
  <2>2. ASSUME NEW i \in 0..k
        PROVE  g[i] = IF i = 0 THEN IF body[1] >= 128 THEN -1 ELSE 0
                      ELSE 256 * g[i - 1] + body[i]
    <3>1. CASE i = 0
      BY <1>6, <1>8, <3>1, SMT
    <3>2. CASE i # 0
      <4>1. i \in 1..k
        BY <1>4, <3>2, SMT
      <4> QED
        BY <1>7, <3>2, <4>1, SMT
    <3> QED
      BY <3>1, <3>2, Zenon
  <2>3. g = [i \in 0..k |-> g[i]]
    BY <1>5
  <2> QED
    BY <1>3, <2>2, <2>3 DEF Reading
<1>10. PICK n : Reading(n, body) /\ Integer(body) = n[k]
  BY <1>3, <1>9, IntegerReads, Zenon
<1>11. /\ n[0] = 0
       /\ \A i \in 1..k : n[i] = 256 * n[i - 1] + body[i]
  <2>2. 0 \in 0..k /\ \A i \in 1..k : i \in 0..k /\ i # 0
    BY <1>4, SMT
  <2> QED
    BY <1>3, <1>8, <1>10, <2>2 DEF Reading
<1>12. n[k] = g[k]
  <2>1. \A i \in 1..k : n[i - 1] = g[i - 1] => n[i] = g[i]
    BY <1>7, <1>11, SMT
  <2>2. PICK lo : lo = 0
    BY Zenon
  <2>3. lo \in 0..2 /\ k \in lo..14 /\ Alike(n, g, lo, k)
    BY <1>4, <1>6, <1>11, <2>1, <2>2, SMT DEF Alike
  <2> QED
    BY <2>3, Steps, Zenon
<1> QED
  BY <1>6, <1>10, <1>12, Zenon

LEMMA IntegerIsRead ==
    ASSUME NEW val \in Nat, IsWord(val)
    PROVE  /\ EncodeInteger(val) = Encoded(2, Signed(val)) /\ Signed(val) \in Octets
           /\ Len(Signed(val)) <= 6 /\ Integer(Signed(val)) = val
<1>1. PICK temp, digit, len : Divided(256, val, temp, digit, len)
  BY DigitsAre, SMT DEF Bases
<1>2. PICK z : Positive(Signed(val), z, temp, digit, len)
  BY <1>1, SignedPositive, Zenon
<1>3. Integer(Signed(val)) = val
  BY <1>1, <1>2, IntegerPositive, Zenon
<1>4. len \in 1..5
  BY <1>1, Zenon DEF Divided
<1>5. Signed(val) \in Octets /\ Len(Signed(val)) <= 6
  BY <1>2, <1>4, SMT DEF Positive
<1>6. EncodeInteger(val) = Encoded(2, Signed(val))
  BY Zenon DEF EncodeInteger, Signed
<1> QED
  BY <1>3, <1>5, <1>6, Zenon

-----------------------------------------------------------------------------
(* The SNMP client: names                                                  *)

LEMMA ArcOctets ==
    ASSUME NEW n, NEW temp, NEW digit, NEW len, Divided(128, n, temp, digit, len)
    PROVE  /\ len \in 1..5 /\ EncodeArc(n) \in Octets /\ Len(EncodeArc(n)) = len
           /\ \A i \in 1..len : EncodeArc(n)[i] = digit[len - i] + (IF i < len THEN 128 ELSE 0)
<1>1. PICK d : d = Digits(128, n)
  BY Zenon
<1>2. /\ len \in 1..5 /\ d = [i \in 1..len |-> digit[len - i]]
      /\ \A i \in 0..4 : digit[i] \in Nat /\ digit[i] < 128
  BY <1>1, DigitCount, SMT DEF Bases
<1>3. /\ DOMAIN d = 1..len /\ Len(d) = len
      /\ \A i \in 1..len : d[i] = digit[len - i] /\ d[i] \in Nat /\ d[i] < 128
  <2>1. ASSUME NEW i \in 1..len
        PROVE  d[i] = digit[len - i] /\ d[i] \in Nat /\ d[i] < 128
    <3>1. PICK j : j = len - i
      BY Zenon
    <3>2. j \in 0..4 /\ d[i] = digit[j]
      BY <1>2, <3>1, SMT
    <3> QED
      BY <1>2, <3>1, <3>2, SMT
  <2> QED
    BY <1>2, <2>1, SMT
<1>4. EncodeArc(n) = [i \in 1..len |-> IF i < len THEN d[i] + 128 ELSE d[i]]
  BY <1>1, <1>3 DEF EncodeArc
<1>5. ASSUME NEW i \in 1..len PROVE (IF i < len THEN d[i] + 128 ELSE d[i]) \in Octet
  <2>1. PICK x : x = d[i]
    BY Zenon
  <2>2. x \in Nat /\ x < 128
    BY <1>3, <2>1, Zenon
  <2>3. (IF i < len THEN x + 128 ELSE x) \in Octet
    BY <2>2, SMT DEF Octet
  <2> QED
    BY <2>1, <2>3, Zenon
<1>6. EncodeArc(n) \in Octets /\ Len(EncodeArc(n)) = len
  BY <1>2, <1>4, <1>5, SMT DEF Octets
<1>7. ASSUME NEW i \in 1..len
      PROVE  EncodeArc(n)[i] = digit[len - i] + (IF i < len THEN 128 ELSE 0)
  <2>1. PICK x : x = d[i]
    BY Zenon
  <2>2. x = digit[len - i] /\ x \in Nat
    BY <1>3, <2>1, Zenon
  <2>3. EncodeArc(n)[i] = IF i < len THEN x + 128 ELSE x
    BY <1>4, <2>1, SMT
  <2>4. EncodeArc(n)[i] = x + (IF i < len THEN 128 ELSE 0)
    BY <2>2, <2>3, SMT
  <2> QED
    BY <2>2, <2>4, Zenon
<1> QED
  BY <1>2, <1>6, <1>7, Zenon

LEMMA ArcOne == ASSUME NEW n \in Nat, n < 128 PROVE EncodeArc(n) = <<n>>
<1>1. Digits(128, n) = <<n>>
  BY OneDigit, SMT DEF Bases
<1>2. PICK d : d = <<n>>
  BY Zenon
<1>3. DOMAIN d = 1..1 /\ Len(d) = 1 /\ d[1] = n
  BY <1>2, SMT
<1>4. EncodeArc(n) = [i \in 1..1 |-> IF i < 1 THEN d[i] + 128 ELSE d[i]]
  BY <1>1, <1>2, <1>3 DEF EncodeArc
<1>5. EncodeArc(n) = [i \in 1..1 |-> n]
  BY <1>3, <1>4, SMT
<1> QED
  BY <1>5, SMT

\* The arcs of a name after the first two.
Rest(column, instance) == <<6, 1, 2, 1, 2, 2, 1, column, instance>>

\* The content of a name whose last arc is written as arc.
NameOctets(body, column, instance, arc) ==
    /\ body \in Octets /\ Len(body) = 9 + Len(arc)
    /\ \A i \in 2..9 : body[i] = Rest(column, instance)[i - 1]
    /\ \A i \in 1..Len(arc) : body[9 + i] = arc[i]

Join(s, t) == s \o t

\* t is s and one octet more.
Longer(t, s, x) == /\ t \in Octets /\ Len(t) = Len(s) + 1 /\ t[Len(s) + 1] = x
                   /\ \A i \in 1..Len(s) : t[i] = s[i]

LEMMA OneMore ==
    ASSUME NEW s \in Octets, NEW x \in Octet PROVE Longer(Join(s, <<x>>), s, x)
<1>1. <<x>> \in Octets /\ Len(<<x>>) = 1 /\ <<x>>[1] = x
  BY SMT DEF Octets
<1> QED
  BY <1>1, SMT DEF Octets, Longer, Join

LEMMA NameIsWritten ==
    ASSUME NEW column \in {10, 16}, NEW instance, EncodeArc(instance) \in Octets
    PROVE  \E body : /\ NameOctets(body, column, instance, EncodeArc(instance))
                     /\ EncodeOid(Oid(column, instance)) = Encoded(6, body)
<1>1. PICK oid : oid = Oid(column, instance)
  BY Zenon
<1>2. /\ Len(oid) = 11 /\ oid[1] * 40 + oid[2] = 43 /\ oid[3] = 6 /\ oid[4] = 1 /\ oid[5] = 2
      /\ oid[6] = 1 /\ oid[7] = 2 /\ oid[8] = 2 /\ oid[9] = 1 /\ oid[10] = column
      /\ oid[11] = instance
  BY <1>1, SMT DEF Oid
<1>3. PICK arc : arc = EncodeArc(instance)
  BY Zenon
<1>4. PICK a2, a3, a4, a5, a6, a7, a8, a9, a10, a11 :
        /\ a2 = <<43>> /\ a3 = Join(a2, <<6>>) /\ a4 = Join(a3, <<1>>) /\ a5 = Join(a4, <<2>>)
        /\ a6 = Join(a5, <<1>>) /\ a7 = Join(a6, <<2>>) /\ a8 = Join(a7, <<2>>)
        /\ a9 = Join(a8, <<1>>) /\ a10 = Join(a9, <<column>>) /\ a11 = Join(a10, arc)
  BY Zenon
<1>5. /\ EncodeArc(6) = <<6>> /\ EncodeArc(1) = <<1>> /\ EncodeArc(2) = <<2>>
      /\ EncodeArc(column) = <<column>>
  BY ArcOne, SMT
<1>6. EncodeOid(oid) = Encoded(6, a11)
  <2> DEFINE arcs[i \in 2..Len(oid)] == IF i = 2 THEN <<oid[1] * 40 + oid[2]>>
                                       ELSE arcs[i - 1] \o EncodeArc(oid[i])
  <2>1. PICK start, arcOf : start = <<oid[1] * 40 + oid[2]>>
                            /\ arcOf = [i \in 2..11 |-> EncodeArc(oid[i])]
    BY Zenon
  <2>2. /\ a2 = start
        /\ arcOf[3] = <<6>> /\ arcOf[4] = <<1>> /\ arcOf[5] = <<2>> /\ arcOf[6] = <<1>>
        /\ arcOf[7] = <<2>> /\ arcOf[8] = <<2>> /\ arcOf[9] = <<1>> /\ arcOf[10] = <<column>>
        /\ arcOf[11] = arc
    BY <1>2, <1>3, <1>4, <1>5, <2>1
  <2>3. \E g : g = [i \in 2..11 |-> IF i = 2 THEN start ELSE Join(g[i - 1], arcOf[i])]
    <3>1. PICK g : g = [i \in 2..11 |-> IF i = 2 THEN a2 ELSE IF i = 3 THEN a3
                           ELSE IF i = 4 THEN a4 ELSE IF i = 5 THEN a5 ELSE IF i = 6 THEN a6
                           ELSE IF i = 7 THEN a7 ELSE IF i = 8 THEN a8 ELSE IF i = 9 THEN a9
                           ELSE IF i = 10 THEN a10 ELSE a11]
      BY Zenon
    <3>2. ASSUME NEW i \in 2..11
          PROVE  g[i] = IF i = 2 THEN start ELSE Join(g[i - 1], arcOf[i])
      BY <1>4, <2>2, <3>1, SMT
    <3>3. g = [i \in 2..11 |-> g[i]]
      BY <3>1
    <3> QED
      BY <3>2, <3>3
  <2>4. \E g : g = [i \in 2..Len(oid) |-> IF i = 2 THEN <<oid[1] * 40 + oid[2]>>
                                         ELSE g[i - 1] \o EncodeArc(oid[i])]
    <3>1. PICK g : g = [i \in 2..11 |-> IF i = 2 THEN start ELSE Join(g[i - 1], arcOf[i])]
      BY <2>3
    <3>2. \A i \in 2..11 : arcOf[i] = EncodeArc(oid[i])
      BY <2>1
    <3>3. g = [i \in 2..11 |-> IF i = 2 THEN start ELSE g[i - 1] \o EncodeArc(oid[i])]
      BY <3>1, <3>2 DEF Join
    <3> QED
      BY <1>2, <2>1, <3>3, Zenon
  <2>5. arcs = [i \in 2..Len(oid) |-> IF i = 2 THEN <<oid[1] * 40 + oid[2]>>
                                      ELSE arcs[i - 1] \o EncodeArc(oid[i])]
    BY <2>4
  <2>6. EncodeOid(oid) = Encoded(6, arcs[Len(oid)])
    BY DEF EncodeOid
  <2> HIDE DEF arcs
  <2>7. \A i \in 2..11 : arcs[i] = IF i = 2 THEN <<oid[1] * 40 + oid[2]>>
                                   ELSE arcs[i - 1] \o EncodeArc(oid[i])
    BY <1>2, <2>5
  <2>8. \A i \in 2..11 : arcs[i] = IF i = 2 THEN start ELSE Join(arcs[i - 1], arcOf[i])
    BY <2>1, <2>7 DEF Join
  <2>9. arcs[11] = a11
    <3>1. arcs[2] = a2 /\ arcs[3] = Join(arcs[2], arcOf[3]) /\ arcs[4] = Join(arcs[3], arcOf[4])
      BY <2>2, <2>8, SMT
    <3>2. arcs[5] = Join(arcs[4], arcOf[5]) /\ arcs[6] = Join(arcs[5], arcOf[6])
      BY <2>8, SMT
    <3>3. arcs[7] = Join(arcs[6], arcOf[7]) /\ arcs[8] = Join(arcs[7], arcOf[8])
      BY <2>8, SMT
    <3>4. arcs[9] = Join(arcs[8], arcOf[9]) /\ arcs[10] = Join(arcs[9], arcOf[10])
      BY <2>8, SMT
    <3>5. arcs[11] = Join(arcs[10], arcOf[11])
      BY <2>8, SMT
    <3> QED
      BY <1>4, <2>2, <3>1, <3>2, <3>3, <3>4, <3>5, Zenon
  <2> QED
    BY <1>2, <2>6, <2>9, Zenon
<1>7. /\ a10 \in Octets /\ Len(a10) = 9
      /\ a10[2] = 6 /\ a10[3] = 1 /\ a10[4] = 2 /\ a10[5] = 1 /\ a10[6] = 2 /\ a10[7] = 2
      /\ a10[8] = 1 /\ a10[9] = column
  <2>1. a2 \in Octets /\ Len(a2) = 1
    BY <1>4, SMT DEF Octets, Octet
  <2>2. 6 \in Octet /\ 1 \in Octet /\ 2 \in Octet /\ column \in Octet
    BY SMT DEF Octet
  <2>3. Longer(a3, a2, 6)
    BY <1>4, <2>1, <2>2, OneMore, Zenon
  <2>4. a3 \in Octets /\ Len(a3) = 2 /\ a3[2] = 6
    BY <2>1, <2>3, SMT DEF Longer
  <2>5. Longer(a4, a3, 1)
    BY <1>4, <2>4, <2>2, OneMore, Zenon
  <2>6. a4 \in Octets /\ Len(a4) = 3 /\ a4[2] = 6 /\ a4[3] = 1
    BY <2>4, <2>5, SMT DEF Longer
  <2>7. Longer(a5, a4, 2)
    BY <1>4, <2>6, <2>2, OneMore, Zenon
  <2>8. a5 \in Octets /\ Len(a5) = 4 /\ a5[2] = 6 /\ a5[3] = 1 /\ a5[4] = 2
    BY <2>6, <2>7, SMT DEF Longer
  <2>9. Longer(a6, a5, 1)
    BY <1>4, <2>8, <2>2, OneMore, Zenon
  <2>10. a6 \in Octets /\ Len(a6) = 5 /\ a6[2] = 6 /\ a6[3] = 1 /\ a6[4] = 2 /\ a6[5] = 1
    BY <2>8, <2>9, SMT DEF Longer
  <2>11. Longer(a7, a6, 2)
    BY <1>4, <2>10, <2>2, OneMore, Zenon
  <2>12. /\ a7 \in Octets /\ Len(a7) = 6
        /\ a7[2] = 6 /\ a7[3] = 1 /\ a7[4] = 2 /\ a7[5] = 1
        /\ a7[6] = 2
    BY <2>10, <2>11, SMT DEF Longer
  <2>13. Longer(a8, a7, 2)
    BY <1>4, <2>12, <2>2, OneMore, Zenon
  <2>14. /\ a8 \in Octets /\ Len(a8) = 7
        /\ a8[2] = 6 /\ a8[3] = 1 /\ a8[4] = 2 /\ a8[5] = 1
        /\ a8[6] = 2 /\ a8[7] = 2
    BY <2>12, <2>13, SMT DEF Longer
  <2>15. Longer(a9, a8, 1)
    BY <1>4, <2>14, <2>2, OneMore, Zenon
  <2>16. /\ a9 \in Octets /\ Len(a9) = 8
        /\ a9[2] = 6 /\ a9[3] = 1 /\ a9[4] = 2 /\ a9[5] = 1
        /\ a9[6] = 2 /\ a9[7] = 2 /\ a9[8] = 1
    BY <2>14, <2>15, SMT DEF Longer
  <2>17. Longer(a10, a9, column)
    BY <1>4, <2>16, <2>2, OneMore, Zenon
  <2>18. /\ a10 \in Octets /\ Len(a10) = 9
        /\ a10[2] = 6 /\ a10[3] = 1 /\ a10[4] = 2 /\ a10[5] = 1
        /\ a10[6] = 2 /\ a10[7] = 2 /\ a10[8] = 1 /\ a10[9] = column
    BY <2>16, <2>17, SMT DEF Longer
  <2> QED
    BY <2>18
<1>8. NameOctets(a11, column, instance, arc)
  <2>1. /\ a11 \in Octets /\ Len(a11) = 9 + Len(arc) /\ \A i \in 1..9 : a11[i] = a10[i]
        /\ \A i \in 1..Len(arc) : a11[9 + i] = arc[i]
    BY <1>3, <1>4, <1>7, SMT DEF Octets, Join
  <2>2. ASSUME NEW i \in 2..9 PROVE a11[i] = Rest(column, instance)[i - 1]
    <3>1. a11[i] = a10[i]
      BY <2>1, SMT
    <3>2. i \in {2, 3, 4, 5, 6, 7, 8, 9}
      BY SMT
    <3>3. PICK j, r : j = i - 1 /\ r = Rest(column, instance)
      BY Zenon
    <3>4. /\ r[1] = 6 /\ r[2] = 1 /\ r[3] = 2 /\ r[4] = 1 /\ r[5] = 2 /\ r[6] = 2
          /\ r[7] = 1 /\ r[8] = column
      BY <3>3, SMT DEF Rest
    <3>5. a10[i] = r[j]
      BY <1>7, <3>2, <3>3, <3>4, SMT
    <3> QED
      BY <3>1, <3>3, <3>5, Zenon
  <2> QED
    BY <2>1, <2>2, Zenon DEF NameOctets
<1> QED
  BY <1>1, <1>3, <1>6, <1>8, Zenon

\* What has been read of a name, and an octet more.
ArcStep(s, octet) ==
    LET n == 128 * s.arc + (octet % 128)
    IN  IF octet >= 128 THEN [s EXCEPT !.arc = n] ELSE [arcs |-> Append(s.arcs, n), arc |-> 0]

NoArcs == [arcs |-> <<>>, arc |-> 0]

Taking(read, body) ==
    read = [i \in 1..Len(body) |-> IF i = 1 THEN NoArcs ELSE ArcStep(read[i - 1], body[i])]

LEMMA ArcsReads ==
    ASSUME NEW body, \E g : Taking(g, body)
    PROVE  \E read : Taking(read, body) /\ Arcs(body) = read[Len(body)].arcs
<1> DEFINE read[i \in 1..Len(body)] ==
          IF i = 1 THEN [arcs |-> <<>>, arc |-> 0]
          ELSE LET s == read[i - 1]
                   n == 128 * s.arc + (body[i] % 128)
               IN  IF body[i] >= 128 THEN [s EXCEPT !.arc = n]
                   ELSE [arcs |-> Append(s.arcs, n), arc |-> 0]
<1>1. \E g : g = [i \in 1..Len(body) |->
                    IF i = 1 THEN [arcs |-> <<>>, arc |-> 0]
                    ELSE LET s == g[i - 1]
                             n == 128 * s.arc + (body[i] % 128)
                         IN  IF body[i] >= 128 THEN [s EXCEPT !.arc = n]
                             ELSE [arcs |-> Append(s.arcs, n), arc |-> 0]]
  BY Zenon DEF Taking, NoArcs, ArcStep
<1>2. read = [i \in 1..Len(body) |->
                    IF i = 1 THEN [arcs |-> <<>>, arc |-> 0]
                    ELSE LET s == read[i - 1]
                             n == 128 * s.arc + (body[i] % 128)
                         IN  IF body[i] >= 128 THEN [s EXCEPT !.arc = n]
                             ELSE [arcs |-> Append(s.arcs, n), arc |-> 0]]
  BY <1>1
<1>3. Arcs(body) = read[Len(body)].arcs
  BY DEF Arcs
<1> HIDE DEF read
<1>4. Taking(read, body)
  BY <1>2, Zenon DEF Taking, NoArcs, ArcStep
<1> QED
  BY <1>3, <1>4, Zenon

LEMMA ArcGoesOn ==
    ASSUME NEW arcs, NEW m \in Nat, NEW d \in Nat, d < 128
    PROVE  ArcStep([arcs |-> arcs, arc |-> m], d + 128) = [arcs |-> arcs, arc |-> 128 * m + d]
<1>1. (d + 128) % 128 = d /\ d + 128 >= 128
  BY SMT
<1> QED
  BY <1>1 DEF ArcStep

LEMMA ArcEnds ==
    ASSUME NEW arcs, NEW m \in Nat, NEW d \in Nat, d < 128
    PROVE  ArcStep([arcs |-> arcs, arc |-> m], d)
             = [arcs |-> Append(arcs, 128 * m + d), arc |-> 0]
<1>1. d % 128 = d /\ ~(d >= 128)
  BY SMT
<1> QED
  BY <1>1 DEF ArcStep

LEMMA Prefix ==
    ASSUME NEW a \in Seq(Nat), NEW k \in 1..Len(a)
    PROVE  Append(SubSeq(a, 1, k - 1), a[k]) = SubSeq(a, 1, k)
BY SMT

\* Arcs of one octet, and an instance.
ArcsBefore(a, instance) == /\ a \in Seq(Nat) /\ Len(a) = 9 /\ a[9] = instance
                           /\ \A i \in 1..8 : a[i] \in Nat /\ a[i] < 128

LEMMA RestTyped ==
    ASSUME NEW column \in {10, 16}, NEW instance \in Nat
    PROVE  ArcsBefore(Rest(column, instance), instance)
<1>0. PICK a : a = Rest(column, instance)
  OBVIOUS
<1>1. /\ a \in Seq(Nat) /\ Len(a) = 9
      /\ a[1] = 6 /\ a[2] = 1 /\ a[3] = 2 /\ a[4] = 1 /\ a[5] = 2 /\ a[6] = 2 /\ a[7] = 1
      /\ a[8] = column /\ a[9] = instance
  BY <1>0, SMT DEF Rest
<1>2. ArcsBefore(a, instance)
  BY <1>1, SMT DEF ArcsBefore
<1> QED
  BY <1>0, <1>2, Zenon

LEMMA ArcsAreRead ==
    ASSUME NEW column \in {10, 16}, NEW instance \in Nat, IsWord(instance), NEW body,
           NameOctets(body, column, instance, EncodeArc(instance))
    PROVE  Arcs(body) = Rest(column, instance)
<1>1. PICK temp, digit, len : Divided(128, instance, temp, digit, len)
  BY DigitsAre, SMT DEF Bases
<1>2. /\ len \in 1..5 /\ temp[0] = instance /\ temp[len] = 0
      /\ \A i \in 0..4 : Place(128, temp[i], temp[i + 1], digit[i])
  BY <1>1, SMT DEF Divided
<1>3. \A i \in 0..4 : /\ temp[i] = 128 * temp[i + 1] + digit[i] /\ digit[i] \in Nat
                       /\ digit[i] < 128 /\ temp[i + 1] \in Nat
  BY <1>2, SMT DEF Place
<1>4. PICK a, start : a = Rest(column, instance) /\ start = SubSeq(a, 1, 8)
  BY Zenon
<1>5. /\ a \in Seq(Nat) /\ Len(a) = 9 /\ a[9] = instance
      /\ \A i \in 1..8 : a[i] \in Nat /\ a[i] < 128
  <2>1. ArcsBefore(a, instance)
    BY <1>4, RestTyped, Zenon
  <2> QED
    BY <2>1, SMT DEF ArcsBefore
<1>6. PICK k : k = 9 + len
  BY Zenon
<1>7. k \in 10..14
  BY <1>2, <1>6, SMT
<1>0. k = Len(body)
  BY <1>1, <1>2, <1>6, ArcOctets, SMT DEF NameOctets
<1>8. /\ \A i \in 2..9 : body[i] = a[i - 1]
      /\ \A i \in 1..len : body[9 + i] = digit[len - i] + (IF i < len THEN 128 ELSE 0)
  BY <1>1, <1>4, ArcOctets, SMT DEF NameOctets
<1>9. PICK g : g = [i \in 1..k |-> IF i <= 9 THEN [arcs |-> SubSeq(a, 1, i - 1), arc |-> 0]
                                   ELSE IF i < k THEN [arcs |-> start, arc |-> temp[len - (i - 9)]]
                                   ELSE [arcs |-> a, arc |-> 0]]
  BY Zenon
<1>10. g[1] = NoArcs
  <2>1. SubSeq(a, 1, 0) = <<>>
    BY <1>5, SMT
  <2> QED
    BY <1>7, <1>9, <2>1 DEF NoArcs
<1>11. ASSUME NEW i \in 10..k
       PROVE  g[i - 1] = [arcs |-> start, arc |-> temp[len - (i - 1 - 9)]]
  <2>1. PICK j : j = i - 1
    BY Zenon
  <2>2. j \in 9..(k - 1) /\ j \in 1..k
    BY <1>7, <2>1, SMT
  <2>3. CASE j = 9
    <3>1. len - (j - 9) = len
      BY <1>2, <2>3, SMT
    <3>2. g[j] = [arcs |-> SubSeq(a, 1, j - 1), arc |-> 0] /\ j - 1 = 8
      BY <1>9, <2>2, <2>3
    <3> QED
      BY <1>2, <1>4, <2>1, <3>1, <3>2, Zenon
  <2>4. CASE j > 9
    <3>1. ~(j <= 9) /\ j < k
      BY <1>7, <2>2, <2>4, SMT
    <3>2. g[j] = [arcs |-> start, arc |-> temp[len - (j - 9)]]
      BY <1>9, <2>2, <3>1
    <3> QED
      BY <2>1, <3>2, Zenon
  <2> QED
    BY <2>2, <2>3, <2>4, SMT
<1>12. ASSUME NEW i \in 2..k
       PROVE  g[i] = ArcStep(g[i - 1], body[i])
  <2>1. CASE i <= 9
    <3>1. PICK j : j = i - 1
      BY Zenon
    <3>2. j \in 1..8 /\ j \in 1..k /\ j <= 9 /\ j \in 1..9
      BY <1>7, <2>1, <3>1, SMT
    <3>8. PICK x : x = a[j]
      BY Zenon
    <3>9. x \in Nat /\ x < 128
      BY <1>5, <3>2, <3>8, Zenon
    <3>3. g[j] = [arcs |-> SubSeq(a, 1, j - 1), arc |-> 0] /\ body[i] = a[j]
      BY <1>8, <1>9, <2>1, <3>1, <3>2
    <3>4. g[i] = [arcs |-> SubSeq(a, 1, j), arc |-> 0]
      BY <1>7, <1>9, <2>1, <3>1
    <3>5. PICK arcs, m : arcs = SubSeq(a, 1, j - 1) /\ m = 0
      BY Zenon
    <3>6. ArcStep(g[j], body[i]) = [arcs |-> Append(arcs, x), arc |-> 0]
      <4>1. ArcStep([arcs |-> arcs, arc |-> m], x) = [arcs |-> Append(arcs, 128 * m + x), arc |-> 0]
        <5>1. m \in Nat
          BY <3>5, SMT
        <5> QED
          BY <3>9, <5>1, ArcEnds, SMT
      <4>2. 128 * m + x = x
        BY <3>5, <3>9, SMT
      <4> QED
        BY <3>3, <3>5, <3>8, <4>1, <4>2, Zenon
    <3>7. Append(SubSeq(a, 1, j - 1), a[j]) = SubSeq(a, 1, j)
      <4>1. a \in Seq(Nat) /\ j \in 1..Len(a)
        BY <1>5, <3>2, Zenon
      <4> QED
        BY <4>1, Prefix, SMT
    <3> QED
      BY <3>1, <3>4, <3>5, <3>6, <3>7, <3>8, Zenon
  <2>2. CASE i > 9
    <3>1. PICK j : j = i - 9
      BY Zenon
    <3>2. j \in 1..len /\ 9 + j = i /\ i \in 10..k /\ len - j \in 0..4
      BY <1>2, <1>6, <2>2, <3>1, SMT
    <3>3. PICK m, d : m = temp[len - j + 1] /\ d = digit[len - j]
      BY Zenon
    <3>4. m \in Nat /\ d \in Nat /\ d < 128 /\ temp[len - j] = 128 * m + d
      BY <1>3, <3>2, <3>3, SMT
    <3>5. g[i - 1] = [arcs |-> start, arc |-> m]
      <4>1. len - (i - 1 - 9) = len - j + 1
        BY <1>2, <3>1, SMT
      <4> QED
        BY <1>11, <3>2, <3>3, <4>1, Zenon
    <3>6. CASE i < k
      <4>1. j < len
        BY <1>2, <1>6, <3>1, <3>2, <3>6, SMT
      <4>2. body[i] = d + 128
        BY <1>8, <3>2, <3>3, <4>1, SMT
      <4>3. g[i] = [arcs |-> start, arc |-> temp[len - j]]
        BY <1>7, <1>9, <2>2, <3>1, <3>6, SMT
      <4> QED
        BY <3>4, <3>5, <4>2, <4>3, ArcGoesOn, SMT
    <3>7. CASE i = k
      <4>1. j = len /\ len - j = 0
        BY <1>2, <1>6, <3>2, <3>7, SMT
      <4>2. body[i] = d
        BY <1>8, <3>2, <3>3, <3>4, <4>1, SMT
      <4>3. g[i] = [arcs |-> a, arc |-> 0]
        BY <1>7, <1>9, <2>2, <3>7, SMT
      <4>4. 128 * m + d = a[9]
        BY <1>2, <1>5, <3>4, <4>1, Zenon
      <4>5. Append(start, a[9]) = a
        <5>1. Append(SubSeq(a, 1, 9 - 1), a[9]) = SubSeq(a, 1, 9)
          BY <1>5, Prefix, SMT
        <5>2. SubSeq(a, 1, 9) = a /\ 9 - 1 = 8
          BY <1>5, SMT
        <5> QED
          BY <1>4, <5>1, <5>2, Zenon
      <4>6. ArcStep(g[i - 1], body[i]) = [arcs |-> Append(start, 128 * m + d), arc |-> 0]
        <5>1. ArcStep([arcs |-> start, arc |-> m], d)
                = [arcs |-> Append(start, 128 * m + d), arc |-> 0]
          BY <3>4, ArcEnds, SMT
        <5> QED
          BY <3>5, <4>2, <5>1, Zenon
      <4> QED
        BY <4>3, <4>4, <4>5, <4>6, Zenon
    <3>8. i < k \/ i = k
      BY <1>7, <3>2, SMT
    <3> QED
      BY <3>6, <3>7, <3>8, Zenon
  <2> QED
    BY <2>1, <2>2, SMT
<1>13. Taking(g, body)
  <2>1. ASSUME NEW i \in 1..k
        PROVE  g[i] = IF i = 1 THEN NoArcs ELSE ArcStep(g[i - 1], body[i])
    <3>1. CASE i = 1
      BY <1>10, <3>1, Zenon
    <3>2. CASE i # 1
      <4>1. i \in 2..k
        BY <1>7, <3>2, SMT
      <4> QED
        BY <1>12, <3>2, <4>1, Zenon
    <3> QED
      BY <3>1, <3>2, Zenon
  <2>2. g = [i \in 1..k |-> g[i]]
    BY <1>9
  <2>3. g = [i \in 1..k |-> IF i = 1 THEN NoArcs ELSE ArcStep(g[i - 1], body[i])]
    BY <2>1, <2>2
  <2> QED
    BY <1>0, <2>3, Zenon DEF Taking
<1>14. PICK read : Taking(read, body) /\ Arcs(body) = read[k].arcs
  BY <1>0, <1>13, ArcsReads, Zenon
<1>15. read[1] = NoArcs /\ \A i \in 2..k : read[i] = ArcStep(read[i - 1], body[i])
  <2>1. 1 \in 1..k /\ \A i \in 2..k : i \in 1..k /\ i # 1
    BY <1>7, SMT
  <2>2. read = [i \in 1..k |-> IF i = 1 THEN NoArcs ELSE ArcStep(read[i - 1], body[i])]
    BY <1>0, <1>14, Zenon DEF Taking
  <2> QED
    BY <2>1, <2>2, Zenon
<1>16. read[k] = g[k]
  <2>1. \A i \in 2..k : read[i - 1] = g[i - 1] => read[i] = g[i]
    BY <1>12, <1>15, Zenon
  <2>2. PICK lo : lo = 1
    BY Zenon
  <2>3. lo \in 0..2 /\ k \in lo..14
    BY <1>7, <2>2, SMT
  <2>0. (lo + 1)..k = 2..k
    BY <1>7, <2>2, SMT
  <2>4. Alike(read, g, lo, k)
    BY <2>0, <1>10, <1>15, <2>1, <2>2, Zenon DEF Alike
  <2> QED
    BY <2>3, <2>4, Steps
<1>17. g[k] = [arcs |-> a, arc |-> 0]
  <2>1. k \in 1..k /\ ~(k <= 9) /\ ~(k < k)
    BY <1>7, SMT
  <2> QED
    BY <1>9, <2>1, Zenon
<1> QED
  BY <1>4, <1>14, <1>16, <1>17

-----------------------------------------------------------------------------
(* The SNMP client: counters                                               *)

\* The four octets of u up to the i-th, and zeros where it has none.
Window(u, i) == [j \in 1..4 |-> IF i + j > 4 THEN u[i + j - 4] ELSE 0]

Shifting(w, u) ==
    w = [i \in 0..Len(u) |-> IF i = 0 THEN <<0, 0, 0, 0>> ELSE Append(Tail(w[i - 1]), u[i])]

LEMMA CounterReads ==
    ASSUME NEW u, \E g : Shifting(g, u)
    PROVE  \E w : Shifting(w, u) /\ DecodeCounter32(u) = w[Len(u)]
<1> DEFINE word[i \in 0..Len(u)] ==
             IF i = 0 THEN <<0, 0, 0, 0>> ELSE Append(Tail(word[i - 1]), u[i])
<1>1. \E g : g = [i \in 0..Len(u) |->
                    IF i = 0 THEN <<0, 0, 0, 0>> ELSE Append(Tail(g[i - 1]), u[i])]
  BY Zenon DEF Shifting
<1>2. word = [i \in 0..Len(u) |->
                IF i = 0 THEN <<0, 0, 0, 0>> ELSE Append(Tail(word[i - 1]), u[i])]
  BY <1>1
<1>3. DecodeCounter32(u) = word[Len(u)]
  BY DEF DecodeCounter32
<1> HIDE DEF word
<1>4. Shifting(word, u)
  BY <1>2, Zenon DEF Shifting
<1> QED
  BY <1>3, <1>4, Zenon

LEMMA WindowStarts == ASSUME NEW u PROVE Window(u, 0) = <<0, 0, 0, 0>>
<1>1. Window(u, 0) = [j \in 1..4 |-> 0]
  <2>1. \A j \in 1..4 : ~(0 + j > 4)
    BY SMT
  <2> QED
    BY <2>1 DEF Window
<1> QED
  BY <1>1

LEMMA WindowShifts ==
    ASSUME NEW u \in Octets, NEW i \in 1..Len(u)
    PROVE  Append(Tail(Window(u, i - 1)), u[i]) = Window(u, i)
<1>1. PICK a, b, x : a = Window(u, i - 1) /\ b = Window(u, i) /\ x = u[i]
  BY Zenon
<1>2. Len(u) \in Nat
  BY SMT DEF Octets
<1>3. x \in Octet /\ \A j \in 1..Len(u) : u[j] \in Octet
  BY <1>1, SMT DEF Octets
<1>4. \A j \in 1..4 : a[j] = IF (i - 1) + j > 4 THEN u[(i - 1) + j - 4] ELSE 0
  BY <1>1 DEF Window
<1>5. \A j \in 1..4 : b[j] = IF i + j > 4 THEN u[i + j - 4] ELSE 0
  BY <1>1 DEF Window
<1>6. b[4] = x
  BY <1>1, <1>2, <1>5, SMT
<1>7. b[1] = a[2] /\ b[2] = a[3] /\ b[3] = a[4]
  BY <1>2, <1>4, <1>5, SMT
<1>8. a \in Octets /\ Len(a) = 4
  <2>1. ASSUME NEW j \in 1..4
        PROVE  (IF (i - 1) + j > 4 THEN u[(i - 1) + j - 4] ELSE 0) \in Octet
    <3>1. CASE (i - 1) + j > 4
      <4>1. (i - 1) + j - 4 \in 1..Len(u)
        BY <1>2, <3>1, SMT
      <4> QED
        BY <1>3, <3>1, <4>1, Zenon
    <3>2. CASE ~((i - 1) + j > 4)
      BY <3>2, SMT DEF Octet
    <3> QED
      BY <3>1, <3>2, Zenon
  <2>2. a = [j \in 1..4 |-> IF (i - 1) + j > 4 THEN u[(i - 1) + j - 4] ELSE 0]
    BY <1>1, Zenon DEF Window
  <2> QED
    BY <2>1, <2>2, SMT DEF Octets
<1>9. b \in Octets /\ Len(b) = 4
  <2>1. ASSUME NEW j \in 1..4
        PROVE  (IF i + j > 4 THEN u[i + j - 4] ELSE 0) \in Octet
    <3>1. CASE i + j > 4
      <4>1. i + j - 4 \in 1..Len(u)
        BY <1>2, <3>1, SMT
      <4> QED
        BY <1>3, <3>1, <4>1, Zenon
    <3>2. CASE ~(i + j > 4)
      BY <3>2, SMT DEF Octet
    <3> QED
      BY <3>1, <3>2, Zenon
  <2>2. b = [j \in 1..4 |-> IF i + j > 4 THEN u[i + j - 4] ELSE 0]
    BY <1>1, Zenon DEF Window
  <2> QED
    BY <2>1, <2>2, SMT DEF Octets
<1>10. PICK t : t = Append(Tail(a), x)
  BY Zenon
<1>11. t \in Octets /\ Len(t) = 4 /\ t[1] = a[2] /\ t[2] = a[3] /\ t[3] = a[4] /\ t[4] = x
  <2>1. PICK r : r = Tail(a)
    BY Zenon
  <2>2. r \in Octets /\ Len(r) = 3 /\ r[1] = a[2] /\ r[2] = a[3] /\ r[3] = a[4]
    <3>1. a \in Seq(Octet) /\ a # <<>>
      <4>1. Len(<<>>) = 0
        BY SMT
      <4>2. Len(a) # 0
        BY <1>8, SMT
      <4> QED
        BY <1>8, <4>1, <4>2, Zenon DEF Octets
    <3>2. r \in Seq(Octet) /\ Len(r) = Len(a) - 1 /\ \A j \in 1..Len(r) : r[j] = a[j + 1]
      BY <2>1, <3>1, HeadTailProperties, Zenon
    <3> QED
      BY <1>8, <3>2, SMT DEF Octets
  <2>3. t = Append(r, x)
    BY <1>10, <2>1, Zenon
  <2> QED
    <3>1. r \in Seq(Octet) /\ x \in Octet
      BY <1>3, <2>2, Zenon DEF Octets
    <3>2. /\ t \in Seq(Octet) /\ Len(t) = Len(r) + 1 /\ \A j \in 1..Len(r) : t[j] = r[j]
          /\ t[Len(r) + 1] = x
      BY <2>3, <3>1, AppendProperties, SMT
    <3> QED
      BY <2>2, <3>2, SMT DEF Octets
<1>12. \A j \in 1..4 : t[j] = b[j]
  BY <1>6, <1>7, <1>11, SMT
<1>13. t = b
  BY <1>9, <1>11, <1>12, SMT DEF Octets
<1> QED
  BY <1>1, <1>10, <1>13, Zenon

LEMMA CounterIsShifted ==
    ASSUME NEW u \in Octets, Len(u) \in 0..14
    PROVE  DecodeCounter32(u) = Window(u, Len(u))
<1>1. PICK k : k = Len(u)
  BY Zenon
<1>2. k \in 0..14
  BY <1>1, Zenon
<1>3. PICK g : g = [i \in 0..k |-> Window(u, i)]
  BY Zenon
<1>4. PICK zero : zero = <<0, 0, 0, 0>>
  BY Zenon
<1>5. g[0] = zero
  BY <1>2, <1>3, <1>4, WindowStarts, SMT
<1>6. ASSUME NEW i \in 1..k PROVE g[i] = Append(Tail(g[i - 1]), u[i])
  <2>1. i \in 0..k /\ i - 1 \in 0..k
    BY <1>2, SMT
  <2>2. g[i] = Window(u, i) /\ g[i - 1] = Window(u, i - 1)
    BY <1>3, <2>1, Zenon
  <2> QED
    BY <1>1, <2>2, WindowShifts, Zenon
<1>7. Shifting(g, u)
  <2>1. ASSUME NEW i \in 0..k
        PROVE  g[i] = IF i = 0 THEN zero ELSE Append(Tail(g[i - 1]), u[i])
    <3>1. CASE i = 0
      BY <1>5, <3>1, Zenon
    <3>2. CASE i # 0
      <4>1. i \in 1..k
        BY <1>2, <3>2, SMT
      <4> QED
        BY <1>6, <3>2, <4>1, Zenon
    <3> QED
      BY <3>1, <3>2, Zenon
  <2>2. g = [i \in 0..k |-> g[i]]
    BY <1>3
  <2>3. g = [i \in 0..k |-> IF i = 0 THEN zero ELSE Append(Tail(g[i - 1]), u[i])]
    BY <2>1, <2>2
  <2> QED
    BY <1>1, <1>4, <2>3, Zenon DEF Shifting
<1>8. PICK w : Shifting(w, u) /\ DecodeCounter32(u) = w[k]
  BY <1>1, <1>7, CounterReads, Zenon
<1>9. w[0] = zero /\ \A i \in 1..k : w[i] = Append(Tail(w[i - 1]), u[i])
  <2>1. 0 \in 0..k /\ \A i \in 1..k : i \in 0..k /\ i # 0
    BY <1>2, SMT
  <2>2. w = [i \in 0..k |-> IF i = 0 THEN zero ELSE Append(Tail(w[i - 1]), u[i])]
    BY <1>1, <1>4, <1>8, Zenon DEF Shifting
  <2> QED
    BY <2>1, <2>2, Zenon
<1>10. w[k] = g[k]
  <2>1. \A i \in 1..k : w[i - 1] = g[i - 1] => w[i] = g[i]
    BY <1>6, <1>9, Zenon
  <2>2. PICK lo : lo = 0
    BY Zenon
  <2>3. lo \in 0..2 /\ k \in lo..14
    BY <1>2, <2>2, SMT
  <2>4. (lo + 1)..k = 1..k
    BY <1>2, <2>2, SMT
  <2>5. Alike(w, g, lo, k)
    BY <1>5, <1>9, <2>1, <2>2, <2>4, Zenon DEF Alike
  <2> QED
    BY <2>3, <2>5, Steps
<1>11. g[k] = Window(u, k)
  <2>1. k \in 0..k
    BY <1>2, SMT
  <2> QED
    BY <1>3, <2>1, Zenon
<1> QED
  BY <1>1, <1>8, <1>10, <1>11, Zenon

\* u has the octets of s from the first on that is not zero, or the last, and
\* maybe a zero in front.
Trimmed(u, s, first, z) ==
    /\ first \in 1..Len(s) /\ z \in {0, 1} /\ u \in Octets /\ Len(u) = z + (Len(s) - first + 1)
    /\ \A j \in 1..(first - 1) : s[j] = 0
    /\ z = 1 => u[1] = 0
    /\ \A j \in first..Len(s) : u[z + (j - first + 1)] = s[j]

LEMMA UnsignedTrimmed ==
    ASSUME NEW s \in Octets, Len(s) \in 1..5
    PROVE  \E first, z : Trimmed(Unsigned(s), s, first, z)
<1>1. PICK first : first = CHOOSE i \in DOMAIN s : /\ s[i] # 0 \/ i = Len(s)
                                                   /\ \A j \in 1..(i - 1) : s[j] = 0
  BY Zenon
<1>2. PICK k : k = Len(s)
  BY Zenon
<1>3. k \in 1..5 /\ DOMAIN s = 1..k
  BY <1>2, SMT DEF Octets
<1>4. first \in 1..k /\ \A j \in 1..(first - 1) : s[j] = 0
  <2>1. \E i \in 1..k : /\ s[i] # 0 \/ i = k
                        /\ \A j \in 1..(i - 1) : s[j] = 0
    <3>1. CASE s[1] # 0 \/ k = 1
      BY <1>3, <3>1, SMT
    <3>2. CASE s[1] = 0 /\ k > 1 /\ (s[2] # 0 \/ k = 2)
      BY <1>3, <3>2, SMT
    <3>3. CASE s[1] = 0 /\ s[2] = 0 /\ k > 2 /\ (s[3] # 0 \/ k = 3)
      BY <1>3, <3>3, SMT
    <3>4. CASE s[1] = 0 /\ s[2] = 0 /\ s[3] = 0 /\ k > 3 /\ (s[4] # 0 \/ k = 4)
      BY <1>3, <3>4, SMT
    <3>5. CASE s[1] = 0 /\ s[2] = 0 /\ s[3] = 0 /\ s[4] = 0 /\ k > 4
      BY <1>3, <3>5, SMT
    <3> QED
      BY <1>3, <3>1, <3>2, <3>3, <3>4, <3>5, SMT
  <2> QED
    BY <1>1, <1>2, <1>3, <2>1, Zenon
<1>5. PICK tail : tail = SubSeq(s, first, k)
  BY Zenon
<1>6. tail \in Octets /\ Len(tail) = k - first + 1
  BY <1>2, <1>3, <1>4, <1>5, SMT DEF Octets
<1>7. \A j \in first..k : tail[j - first + 1] = s[j]
  BY <1>2, <1>3, <1>4, <1>5, SMT DEF Octets
<1>8. Unsigned(s) = (IF s[first] >= 128 THEN <<0>> ELSE <<>>) \o tail
  BY <1>1, <1>2, <1>5, Zenon DEF Unsigned
<1>9. CASE s[first] >= 128
  <2>1. PICK u : u = <<0>> \o tail
    BY Zenon
  <2>2. <<0>> \in Octets /\ Len(<<0>>) = 1 /\ <<0>>[1] = 0
    BY SMT DEF Octets, Octet
  <2>3. /\ u \in Octets /\ Len(u) = 1 + Len(tail) /\ u[1] = 0
        /\ \A i \in 1..Len(tail) : u[1 + i] = tail[i]
    BY <1>6, <2>1, <2>2, SMT DEF Octets
  <2>4. ASSUME NEW j \in first..k PROVE u[1 + (j - first + 1)] = s[j]
    <3>1. PICK i : i = j - first + 1
      BY Zenon
    <3>2. i \in 1..(k - first + 1)
      BY <1>3, <1>4, <3>1, SMT
    <3> QED
      BY <1>6, <1>7, <2>3, <3>1, <3>2, Zenon
  <2>5. Len(u) = 1 + (k - first + 1)
    BY <1>6, <2>3, Zenon
  <2>6. Trimmed(u, s, first, 1)
    BY <1>2, <1>4, <2>3, <2>4, <2>5, Zenon DEF Trimmed
  <2> QED
    BY <1>8, <1>9, <2>1, <2>6, Zenon
<1>10. CASE ~(s[first] >= 128)
  <2>1. <<>> \o tail = tail
    BY <1>6, SMT DEF Octets
  <2>2. ASSUME NEW j \in first..k PROVE tail[0 + (j - first + 1)] = s[j]
    <3>1. 0 + (j - first + 1) = j - first + 1
      BY <1>3, <1>4, SMT
    <3> QED
      BY <1>7, <3>1, Zenon
  <2>3. Len(tail) = 0 + (k - first + 1)
    BY <1>3, <1>4, <1>6, SMT
  <2>4. Trimmed(tail, s, first, 0)
    BY <1>2, <1>4, <1>6, <2>2, <2>3, SMT DEF Trimmed
  <2> QED
    BY <1>8, <1>10, <2>1, <2>4, Zenon
<1> QED
  BY <1>9, <1>10, Zenon

LEMMA UnsignedTyped ==
    ASSUME NEW s \in Octets, Len(s) \in 1..5
    PROVE  Unsigned(s) \in Octets /\ Len(Unsigned(s)) \in 1..6
<1>1. PICK first, z : Trimmed(Unsigned(s), s, first, z)
  BY UnsignedTrimmed, Zenon
<1> QED
  <2>1. PICK k, l : k = Len(s) /\ l = Len(Unsigned(s))
    BY Zenon
  <2>2. first \in 1..k /\ z \in {0, 1} /\ l = z + (k - first + 1) /\ k \in 1..5
    BY <1>1, <2>1, Zenon DEF Trimmed
  <2>3. l \in 1..6
    BY <2>2, SMT
  <2> QED
    BY <1>1, <2>1, <2>3, Zenon DEF Trimmed

\* A word written without needless octets is read as the word.
LEMMA WordIsRead ==
    ASSUME NEW word \in [1..4 -> 0..255]
    PROVE  DecodeCounter32(Unsigned(word)) = word
<1>1. word \in Octets /\ Len(word) = 4
  <2>1. word = [j \in 1..4 |-> word[j]] /\ \A j \in 1..4 : word[j] \in 0..255
    OBVIOUS
  <2> QED
    BY <2>1, SMT DEF Octets, Octet
<1>2. PICK u : u = Unsigned(word)
  BY Zenon
<1>3. PICK first, z : Trimmed(u, word, first, z)
  BY <1>1, <1>2, UnsignedTrimmed, SMT
<1>4. PICK k : k = Len(u)
  BY Zenon
<1>5. /\ first \in 1..4 /\ z \in {0, 1} /\ u \in Octets
      /\ \A j \in 1..(first - 1) : word[j] = 0
      /\ z = 1 => u[1] = 0
      /\ \A j \in first..4 : u[z + (j - first + 1)] = word[j]
  BY <1>1, <1>3, Zenon DEF Trimmed
<1>6. k = z + (4 - first + 1)
  BY <1>1, <1>3, <1>4, Zenon DEF Trimmed
<1>7. DecodeCounter32(u) = Window(u, k)
  <2>1. k \in 0..14
    BY <1>5, <1>6, SMT
  <2> QED
    BY <1>4, <1>5, <2>1, CounterIsShifted, Zenon
<1>8. ASSUME NEW j \in 1..4
      PROVE  (IF k + j > 4 THEN u[k + j - 4] ELSE 0) = word[j]
  <2>1. CASE j >= first
    <3>1. k + j > 4 /\ k + j - 4 = z + (j - first + 1) /\ j \in first..4
      BY <1>5, <1>6, <2>1, SMT
    <3> QED
      BY <1>5, <3>1, Zenon
  <2>2. CASE ~(j >= first)
    <3>1. word[j] = 0
      BY <1>5, <2>2, SMT
    <3>2. CASE k + j > 4
      <4>1. k + j - 4 = 1 /\ z = 1
        BY <1>5, <1>6, <2>2, <3>2, SMT
      <4> QED
        BY <1>5, <3>1, <3>2, <4>1, Zenon
    <3> QED
      BY <3>1, <3>2, Zenon
  <2> QED
    BY <2>1, <2>2, Zenon
<1>9. Window(u, k) = [j \in 1..4 |-> word[j]]
  BY <1>8 DEF Window
<1>10. word = [j \in 1..4 |-> word[j]]
  OBVIOUS
<1> QED
  BY <1>2, <1>7, <1>9, <1>10, Zenon

-----------------------------------------------------------------------------
(* The SNMP client: requests and answers                                   *)

\* t has at most n octets.
Upto(t, n) == t \in Octets /\ n \in Nat /\ Len(t) \in Nat /\ Len(t) <= n

LEMMA JoinUpto ==
    ASSUME NEW a, NEW b, NEW m, NEW n, Upto(a, m), Upto(b, n)
    PROVE  Upto(a \o b, m + n)
<1>1. a \o b \in Octets /\ Len(a \o b) = Len(a) + Len(b)
  BY SMT DEF Upto, Octets
<1> QED
  BY <1>1, SMT DEF Upto

Brief(n) == n < 2000

LEMMA UptoSmall ==
    ASSUME NEW t, NEW n, Upto(t, n), Brief(n)
    PROVE  t \in Octets /\ Small(Len(t))
BY SMT DEF Upto, Small, Brief

LEMMA FramedUpto ==
    ASSUME NEW t, NEW tag, NEW content, NEW n, Framed(t, tag, content), Upto(content, n)
    PROVE  Upto(t, n + 5)
<1>1. t \in Octets /\ Len(t) \in Nat /\ Len(t) <= Len(content) + 4
  BY FramedTyped, Zenon
<1> QED
  BY <1>1, SMT DEF Upto

LEMMA EncodedUpto ==
    ASSUME NEW tag \in Octet, NEW content, NEW n, Upto(content, n), Brief(n)
    PROVE  Framed(Encoded(tag, content), tag, content) /\ Upto(Encoded(tag, content), n + 5)
<1>1. Framed(Encoded(tag, content), tag, content)
  <2>1. content \in Octets /\ Small(Len(content))
    BY UptoSmall, Zenon
  <2> QED
    BY <2>1, EncodedFramed, Zenon
<1>2. Upto(Encoded(tag, content), n + 5)
  BY <1>1, FramedUpto, SMT
<1> QED
  BY <1>1, <1>2, Zenon

Joins(t, a, b) == /\ t \in Octets /\ Len(t) = Len(a) + Len(b)
                  /\ \A i \in 1..Len(a) : t[i] = a[i]
                  /\ \A i \in 1..Len(b) : t[Len(a) + i] = b[i]

LEMMA Joined == ASSUME NEW a \in Octets, NEW b \in Octets PROVE Joins(a \o b, a, b)
BY SMT DEF Octets, Joins

\* An agent that writes the length in three octets more.
LEMMA WrittenLong ==
    ASSUME NEW tag \in Octet, NEW content \in Octets, Small(Len(content)), NEW t,
           t = Written(3, tag, content)
    PROVE  /\ t \in Octets /\ Len(t) = Len(content) + 5
           /\ t[1] = tag /\ t[2] = 131 /\ t[3] = 0
<1>1. PICK n : n = Len(content)
  BY Zenon
<1>2. Small(n) /\ n \in Nat /\ Hi(n) \in Octet /\ Lo(n) \in Octet
  BY <1>1, HiLo, SMT
<1>3. PICK digits : digits = Digits(256, n)
  BY Zenon
<1>4. PICK zeros : zeros = SubSeq(<<0, 0>>, 1, 3 - Len(digits))
  BY Zenon
<1>5. PICK rest : rest = zeros \o digits
  BY Zenon
<1>6. rest \in Octets /\ Len(rest) = 3 /\ rest[1] = 0
  <2>1. CASE n < 256
    <3>1. digits = <<n>>
      BY <1>2, <1>3, <2>1, OneDigit, SMT DEF Bases
    <3>2. zeros = <<0, 0>>
      <4>1. 3 - Len(digits) = 2
        BY <3>1, SMT
      <4>2. SubSeq(<<0, 0>>, 1, 2) = <<0, 0>>
        <5>1. <<0, 0>> \in Seq(Octet) /\ Len(<<0, 0>>) = 2
          BY SMT DEF Octet
        <5> QED
          BY <5>1, SubSeqFull, Zenon
      <4> QED
        BY <1>4, <4>1, <4>2, Zenon
    <3>3. /\ zeros \in Octets /\ Len(zeros) = 2 /\ zeros[1] = 0
          /\ digits \in Octets /\ Len(digits) = 1
      BY <1>2, <2>1, <3>1, <3>2, SMT DEF Octets, Octet
    <3>4. Joins(rest, zeros, digits)
      BY <1>5, <3>3, Joined, Zenon
    <3> QED
      BY <3>3, <3>4, SMT DEF Joins
  <2>2. CASE n >= 256
    <3>1. digits = <<Hi(n), Lo(n)>>
      BY <1>2, <1>3, <2>2, TwoDigits, SMT DEF Bytes, Small
    <3>2. zeros = <<0>>
      <4>1. 3 - Len(digits) = 1
        BY <3>1, SMT
      <4> QED
        BY <1>4, <4>1, Padding, Zenon
    <3>3. /\ zeros \in Octets /\ Len(zeros) = 1 /\ zeros[1] = 0
          /\ digits \in Octets /\ Len(digits) = 2
      BY <1>2, <3>1, <3>2, SMT DEF Octets, Octet
    <3>4. Joins(rest, zeros, digits)
      BY <1>5, <3>3, Joined, Zenon
    <3> QED
      BY <3>3, <3>4, SMT DEF Joins
  <2> QED
    BY <1>2, <2>1, <2>2, SMT
<1>7. PICK m : m = 128 + Len(rest)
  BY Zenon
<1>8. t = (<<tag>> \o (<<m>> \o rest)) \o content
  <2>1. PICK size : size = <<128 + Len(zeros \o digits)>> \o zeros \o digits
    BY Zenon
  <2>2. t = (<<tag>> \o size) \o content
    BY <1>1, <1>3, <1>4, <2>1, SMT DEF Written
  <2>3. size = <<m>> \o (zeros \o digits)
    BY <1>5, <1>7, <2>1, SMT
  <2> QED
    BY <1>5, <2>2, <2>3, Zenon
<1>9. m = 131
  BY <1>6, <1>7, SMT
<1>10. PICK size : size = <<m>> \o rest
  BY Zenon
<1>11. <<m>> \in Octets /\ Len(<<m>>) = 1 /\ <<m>>[1] = m
  BY <1>9, SMT DEF Octets, Octet
<1>12. size \in Octets /\ Len(size) = 4 /\ size[1] = 131 /\ size[2] = 0
  <2>1. Joins(size, <<m>>, rest)
    BY <1>6, <1>10, <1>11, Joined, Zenon
  <2> QED
    BY <1>6, <1>9, <1>11, <2>1, SMT DEF Joins
<1>13. PICK head : head = <<tag>> \o size
  BY Zenon
<1>14. <<tag>> \in Octets /\ Len(<<tag>>) = 1 /\ <<tag>>[1] = tag
  BY SMT DEF Octets
<1>15. head \in Octets /\ Len(head) = 5 /\ head[1] = tag /\ head[2] = 131 /\ head[3] = 0
  <2>1. Joins(head, <<tag>>, size)
    BY <1>12, <1>13, <1>14, Joined, Zenon
  <2> QED
    BY <1>12, <1>14, <2>1, SMT DEF Joins
<1>16. t = head \o content
  BY <1>8, <1>10, <1>13, Zenon
<1>17. Joins(t, head, content)
  BY <1>15, <1>16, Joined, Zenon
<1> QED
  BY <1>1, <1>2, <1>15, <1>17, SMT DEF Joins

LEMMA NumberWritten ==
    ASSUME NEW val \in Nat, IsWord(val)
    PROVE  \E v : /\ Framed(EncodeInteger(val), 2, v) /\ Upto(EncodeInteger(val), 11)
                  /\ Integer(v) = val
<1>1. /\ EncodeInteger(val) = Encoded(2, Signed(val)) /\ Signed(val) \in Octets
      /\ Len(Signed(val)) <= 6 /\ Integer(Signed(val)) = val
  BY IntegerIsRead
<1>2. Len(Signed(val)) \in Nat
  BY <1>1, SMT DEF Octets
<1>3. Upto(Signed(val), 6) /\ Brief(6) /\ 2 \in Octet /\ 6 + 5 = 11
  BY <1>1, <1>2, SMT DEF Upto, Brief, Octet
<1>4. Framed(Encoded(2, Signed(val)), 2, Signed(val)) /\ Upto(Encoded(2, Signed(val)), 11)
  BY <1>3, EncodedUpto
<1> QED BY <1>1, <1>4, Zenon

LEMMA NameWritten ==
    ASSUME NEW column \in {10, 16}, NEW instance \in Nat, IsWord(instance)
    PROVE  \E o : /\ Framed(EncodeOid(Oid(column, instance)), 6, o)
                  /\ Upto(EncodeOid(Oid(column, instance)), 19)
                  /\ Arcs(o) = Rest(column, instance)
<1>1. PICK temp, digit, len : Divided(128, instance, temp, digit, len)
  BY DigitsAre DEF Bases
<1>2. len \in 1..5 /\ EncodeArc(instance) \in Octets /\ Len(EncodeArc(instance)) = len
  BY <1>1, ArcOctets
<1>3. PICK body : /\ NameOctets(body, column, instance, EncodeArc(instance))
                  /\ EncodeOid(Oid(column, instance)) = Encoded(6, body)
  BY <1>2, NameIsWritten
<1>4. Arcs(body) = Rest(column, instance)
  BY <1>3, ArcsAreRead
<1>5. body \in Octets /\ Len(body) = 9 + Len(EncodeArc(instance))
  BY <1>3 DEF NameOctets
<1>6. Upto(body, 14) /\ Brief(14) /\ 6 \in Octet /\ 14 + 5 = 19
  BY <1>2, <1>5, SMT DEF Upto, Brief, Octet
<1>7. Framed(Encoded(6, body), 6, body) /\ Upto(Encoded(6, body), 19)
  BY <1>6, EncodedUpto
<1> QED BY <1>3, <1>4, <1>7, Zenon

\* The lengths that a community string may have.
Lengths == 0..980

\* c is a string that long.
Community(c, length) == Upto(c, 980) /\ Len(c) = length

LEMMA LettersTyped == ASSUME NEW length \in Lengths PROVE Community(Letters(length), length)
  BY SMT DEF Community, Lengths, Letters, Upto, Octets, Octet

LEMMA StringWritten ==
    ASSUME NEW length \in Lengths
    PROVE  \E c : /\ Framed(EncodeString(length), 4, c) /\ Upto(EncodeString(length), 985)
                  /\ Len(c) = length
<1>1. PICK c : c = Letters(length)
  OBVIOUS
<1>2. Upto(c, 980) /\ Len(c) = length
  <2>1. Community(c, length)
    BY <1>1, LettersTyped, Zenon
  <2> QED BY <2>1, SMT DEF Community
<1>3. Brief(980) /\ 4 \in Octet /\ 980 + 5 = 985
  BY SMT DEF Brief, Octet
<1>4. Framed(Encoded(4, c), 4, c) /\ Upto(Encoded(4, c), 985)
  <2>1. Framed(Encoded(4, c), 4, c) /\ Upto(Encoded(4, c), 980 + 5)
    BY <1>2, <1>3, EncodedUpto
  <2> QED BY <2>1, <1>3, SMT
<1>5. EncodeString(length) = Encoded(4, c)
  BY <1>1, Zenon DEF EncodeString
<1> QED BY <1>2, <1>4, <1>5, SMT

LEMMA NullWritten == Framed(EncodeNull, 5, <<>>) /\ Upto(EncodeNull, 2)
<1>1. EncodeNull \in Octets /\ Len(EncodeNull) = 2 /\ <<>> \in Octets /\ Len(<<>>) = 0
  BY SMT DEF EncodeNull, Octets, Octet
<1>2. EncodeNull = (<<5>> \o <<0>>) \o <<>>
  BY SMT DEF EncodeNull
<1>3. SizeOctets(0, 0) = <<0>> /\ Fits(0, 0) /\ 5 \in Octet
  BY SMT DEF SizeOctets, Fits, Small, Octet
<1>4. EncodeNull = (<<5>> \o SizeOctets(0, Len(<<>>))) \o <<>> /\ Fits(0, Len(<<>>))
  BY <1>1, <1>2, <1>3, Zenon
<1> QED BY <1>1, <1>3, <1>4, SMT DEF Framed, Upto

\* What a request is made of.
Parts(community, name, id, zero, string) ==
    LET binding == Encoded(48, name \o EncodeNull)
        list    == Encoded(48, binding)
        pdu     == Encoded(160, Four(id, zero, zero, list))
    IN  Encoded(48, (zero \o string) \o pdu)

LEMMA RequestParts ==
    ASSUME NEW community, NEW oid, NEW id
    PROVE  BuildGetRequest(community, oid, id)
             = Parts(community, EncodeOid(oid), EncodeInteger(id), EncodeInteger(0),
                     EncodeString(community))
  BY Zenon DEF BuildGetRequest, Parts, Four

LEMMA RequestLaid ==
    ASSUME NEW community, NEW name, NEW id, NEW zero, NEW string,
           Upto(name, 19), Upto(id, 11), Upto(zero, 11), Upto(string, 985)
    PROVE  \E pdu, list, binding :
             Laid(Parts(community, name, id, zero, string), 160, zero, string, pdu, id, zero, zero,
                  list, binding, name, EncodeNull)
<1>1. PICK content : content = name \o EncodeNull
  OBVIOUS
<1>2. PICK binding : binding = Encoded(48, content)
  OBVIOUS
<1>3. PICK list : list = Encoded(48, binding)
  OBVIOUS
<1>4. PICK items : items = Four(id, zero, zero, list)
  OBVIOUS
<1>5. PICK pdu : pdu = Encoded(160, items)
  OBVIOUS
<1>6. PICK all : all = (zero \o string) \o pdu
  OBVIOUS
<1>7. PICK m : m = Encoded(48, all)
  OBVIOUS
<1>8. Parts(community, name, id, zero, string) = m
  BY <1>1, <1>2, <1>3, <1>4, <1>5, <1>6, <1>7, Zenon DEF Parts
<1>9. 48 \in Octet /\ 160 \in Octet
  BY SMT DEF Octet
<1>10. Upto(content, 21)
  <2>1. Upto(content, 19 + 2)
    BY <1>1, NullWritten, JoinUpto, Zenon
  <2> QED BY <2>1, SMT
<1>11. Framed(binding, 48, content) /\ Upto(binding, 26)
  <2>1. Brief(21) BY SMT DEF Brief
  <2>2. Framed(Encoded(48, content), 48, content) /\ Upto(Encoded(48, content), 21 + 5)
    BY <2>1, <1>9, <1>10, EncodedUpto
  <2> QED BY <2>2, <1>2, SMT
<1>12. Framed(list, 48, binding) /\ Upto(list, 31)
  <2>1. Brief(26) BY SMT DEF Brief
  <2>2. Framed(Encoded(48, binding), 48, binding) /\ Upto(Encoded(48, binding), 26 + 5)
    BY <2>1, <1>9, <1>11, EncodedUpto
  <2> QED BY <2>2, <1>3, SMT
<1>13. Upto(items, 64)
  <2>1. Upto(id \o zero, 11 + 11)
    BY JoinUpto
  <2>2. Upto((id \o zero) \o zero, (11 + 11) + 11)
    BY <2>1, JoinUpto
  <2>3. Upto(((id \o zero) \o zero) \o list, ((11 + 11) + 11) + 31)
    BY <2>2, <1>12, JoinUpto
  <2>4. ((11 + 11) + 11) + 31 = 64
    BY SMT
  <2> QED BY <2>3, <2>4, <1>4, SMT DEF Four
<1>14. Framed(pdu, 160, items) /\ Upto(pdu, 69)
  <2>1. Brief(64) BY SMT DEF Brief
  <2>2. Framed(Encoded(160, items), 160, items) /\ Upto(Encoded(160, items), 64 + 5)
    BY <2>1, <1>9, <1>13, EncodedUpto, SMT
  <2> QED BY <2>2, <1>5, SMT
<1>15. Upto(all, 1065)
  <2>1. \A k : Upto(string, k) => Upto((zero \o string) \o pdu, (11 + k) + 69)
    <3> SUFFICES ASSUME NEW k, Upto(string, k) PROVE Upto((zero \o string) \o pdu, (11 + k) + 69)
      OBVIOUS
    <3>1. Upto(zero \o string, 11 + k)
      BY JoinUpto
    <3> QED BY <3>1, <1>14, JoinUpto
  <2>2. Upto((zero \o string) \o pdu, (11 + 985) + 69)
    BY <2>1, SMT
  <2>3. (11 + 985) + 69 = 1065
    BY SMT
  <2> QED BY <2>2, <2>3, <1>6, SMT
<1>16. Framed(m, 48, all)
  <2>1. Brief(1065) BY SMT DEF Brief
  <2>2. Framed(Encoded(48, all), 48, all)
    BY <2>1, <1>9, <1>15, EncodedUpto, SMT
  <2> QED BY <2>2, <1>7, SMT
<1>17. \A kind : kind = 160 => Laid(m, kind, zero, string, pdu, id, zero, zero, list, binding,
                                    name, EncodeNull)
  <2> SUFFICES ASSUME NEW kind, kind = 160
               PROVE  Laid(m, kind, zero, string, pdu, id, zero, zero, list, binding, name,
                           EncodeNull)
    OBVIOUS
  <2>1. Framed(pdu, kind, items)
    BY <1>14, SMT
  <2> QED BY <2>1, <1>1, <1>4, <1>6, <1>11, <1>12, <1>16, Zenon DEF Laid
<1>18. Laid(m, 160, zero, string, pdu, id, zero, zero, list, binding, name, EncodeNull)
  BY <1>17
<1> QED BY <1>8, <1>18

\* What is asked in a request.
AskedIn(community, instance, column, id) ==
    [whole |-> TRUE, version |-> 0, community |-> community, id |-> id,
     tags |-> <<160, 6, 5>>, arcs |-> <<6, 1, 2, 1, 2, 2, 1, column, instance>>]

\* The agent reads from a request what was asked.
LEMMA RequestIsHeard ==
    ASSUME NEW community \in Lengths, NEW column \in {10, 16}, NEW instance \in Nat,
           IsWord(instance), NEW id \in Nat, IsWord(id)
    PROVE  Heard(BuildGetRequest(community, Oid(column, instance), id))
             = AskedIn(community, instance, column, id)
<1>1. PICK o : /\ Framed(EncodeOid(Oid(column, instance)), 6, o)
               /\ Upto(EncodeOid(Oid(column, instance)), 19) /\ Arcs(o) = Rest(column, instance)
  BY NameWritten
<1>2. PICK i : Framed(EncodeInteger(id), 2, i) /\ Upto(EncodeInteger(id), 11) /\ Integer(i) = id
  BY NumberWritten
<1>3. 0 \in Nat /\ IsWord(0)
  BY SMT DEF IsWord
<1>4. PICK v : Framed(EncodeInteger(0), 2, v) /\ Upto(EncodeInteger(0), 11) /\ Integer(v) = 0
  BY <1>3, NumberWritten
<1>5. PICK c : /\ Framed(EncodeString(community), 4, c) /\ Upto(EncodeString(community), 985)
               /\ Len(c) = community
  BY StringWritten
<1>6. PICK m, name, number, zero, string :
        /\ name = EncodeOid(Oid(column, instance)) /\ number = EncodeInteger(id)
        /\ zero = EncodeInteger(0) /\ string = EncodeString(community)
        /\ m = Parts(community, name, number, zero, string)
  OBVIOUS
<1>7. BuildGetRequest(community, Oid(column, instance), id) = m
  BY <1>6, RequestParts
<1>8. /\ Framed(name, 6, o) /\ Framed(number, 2, i) /\ Framed(zero, 2, v) /\ Framed(string, 4, c)
      /\ Upto(name, 19) /\ Upto(number, 11) /\ Upto(zero, 11) /\ Upto(string, 985)
  BY <1>1, <1>2, <1>4, <1>5, <1>6, SMT
<1>9. PICK pdu, list, binding : Laid(m, 160, zero, string, pdu, number, zero, zero, list, binding,
                                     name, EncodeNull)
  BY <1>6, <1>8, RequestLaid, SMT
<1>10. Heard(m) = [whole |-> TRUE, version |-> Integer(v), community |-> Len(c),
                   id |-> Integer(i), tags |-> <<160, 6, 5>>, arcs |-> Arcs(o)]
  <2>1. PICK kind : kind = 160
    OBVIOUS
  <2>2. Laid(m, kind, zero, string, pdu, number, zero, zero, list, binding, name, EncodeNull)
    BY <1>9, <2>1, SMT
  <2>3. Heard(m) = [whole |-> TRUE, version |-> Integer(v), community |-> Len(c),
                    id |-> Integer(i), tags |-> <<kind, 6, 5>>, arcs |-> Arcs(o)]
    <3>1. Filled(zero, string, number, zero, zero, name, v, c, i, v, v, o)
      BY <1>8, Zenon DEF Filled
    <3>2. PICK null, none : null = EncodeNull /\ none = <<>>
      OBVIOUS
    <3>3. Framed(null, 5, none)
      BY <3>2, NullWritten, Zenon
    <3>4. Laid(m, kind, zero, string, pdu, number, zero, zero, list, binding, name, null)
      BY <2>2, <3>2, Zenon
    <3> QED BY <3>1, <3>3, <3>4, HeardLaid, ZenonT(60)
  <2> QED BY <2>1, <2>3, SMT
<1> QED BY <1>1, <1>2, <1>4, <1>5, <1>7, <1>10, SMT DEF AskedIn, Rest

LEMMA WrittenUpto ==
    ASSUME NEW form \in 0..3, NEW tag \in Octet, NEW content, NEW n, Upto(content, n), Brief(n)
    PROVE  /\ Upto(Written(form, tag, content), n + 5)
           /\ form < 3 => Framed(Written(form, tag, content), tag, content)
<1>1. content \in Octets /\ Small(Len(content))
  BY UptoSmall
<1>2. CASE form = 3
  <2>1. PICK t : t = Written(form, tag, content)
    OBVIOUS
  <2>2. t \in Octets /\ Len(t) = Len(content) + 5
    BY <1>1, <1>2, <2>1, WrittenLong
  <2>3. Upto(t, n + 5)
    BY <2>2, SMT DEF Upto
  <2> QED BY <1>2, <2>1, <2>3, SMT
<1>3. CASE form \in 0..2
  <2>1. Framed(Written(form, tag, content), tag, content)
    BY <1>1, <1>3, WrittenFramed
  <2>2. Upto(Written(form, tag, content), n + 5)
    BY <2>1, FramedUpto
  <2> QED BY <2>1, <2>2
<1> QED BY <1>2, <1>3, SMT

\* What an answer is made of.
Reply(form, v, c, i, e, o, tag, n) ==
    LET W(t, content) == Written(form, t, content)
        list == W(48, W(48, W(6, o) \o W(tag, n)))
    IN  W(48, (W(2, v) \o W(4, c)) \o W(162, Four(W(2, i), W(2, e), W(2, e), list)))

\* The contents of the elements of a response.
Contents(a, community, instance, c, i, e, o, n) ==
    /\ c = Letters(community) /\ i = Unsigned(Digits(256, a.id))
    /\ e = <<IF a.tag = 5 THEN 2 ELSE 0>>
    /\ o = <<43, 6, 1, 2, 1, 2, 2, 1, a.column>> \o EncodeArc(instance)
    /\ n = IF a.tag = 5 THEN <<>> ELSE Unsigned(a.word)

LEMMA ResponseParts ==
    ASSUME NEW a, NEW community, NEW instance, NEW c, NEW i, NEW e, NEW o, NEW n,
           Contents(a, community, instance, c, i, e, o, n)
    PROVE  Response(a, community, instance) = Reply(a.form, <<0>>, c, i, e, o, a.tag, n)
  BY SMT DEF Response, Reply, Four, Contents

LEMMA ReplyLaid ==
    ASSUME NEW form \in 0..3, NEW v, NEW c, NEW i, NEW e, NEW o, NEW tag \in Octet, NEW n,
           Upto(v, 1), Upto(c, 980), Upto(i, 6), Upto(e, 1), Upto(o, 14), Upto(n, 6)
    PROVE  \E all, version, community, pdu, id, error, list, binding, name, value :
             /\ Reply(form, v, c, i, e, o, tag, n) = Written(form, 48, all)
             /\ Upto(all, 1059)
             /\ form < 3 => /\ Laid(Written(form, 48, all), 162, version, community, pdu, id, error,
                                    error, list, binding, name, value)
                            /\ Filled(version, community, id, error, error, name, v, c, i, e, e, o)
                            /\ Framed(value, tag, n)
<1>1. PICK version, community, id, error, name, value :
        /\ version = Written(form, 2, v) /\ community = Written(form, 4, c)
        /\ id = Written(form, 2, i) /\ error = Written(form, 2, e)
        /\ name = Written(form, 6, o) /\ value = Written(form, tag, n)
  OBVIOUS
<1>2. PICK both : both = name \o value
  OBVIOUS
<1>3. PICK binding : binding = Written(form, 48, both)
  OBVIOUS
<1>4. PICK list : list = Written(form, 48, binding)
  OBVIOUS
<1>5. PICK items : items = Four(id, error, error, list)
  OBVIOUS
<1>6. PICK pdu : pdu = Written(form, 162, items)
  OBVIOUS
<1>7. PICK all : all = (version \o community) \o pdu
  OBVIOUS
<1>8. Reply(form, v, c, i, e, o, tag, n) = Written(form, 48, all)
  BY <1>1, <1>2, <1>3, <1>4, <1>5, <1>6, <1>7, Zenon DEF Reply
<1>9. 2 \in Octet /\ 4 \in Octet /\ 6 \in Octet /\ 48 \in Octet /\ 162 \in Octet
  BY SMT DEF Octet
<1>10. Upto(version, 6) /\ (form < 3 => Framed(version, 2, v))
  <2>1. Brief(1) /\ 1 + 5 = 6 BY SMT DEF Brief
  <2> QED BY <1>1, <1>9, <2>1, WrittenUpto, SMT
<1>11. Upto(community, 985) /\ (form < 3 => Framed(community, 4, c))
  <2>1. Brief(980) /\ 980 + 5 = 985 BY SMT DEF Brief
  <2> QED BY <1>1, <1>9, <2>1, WrittenUpto, SMT
<1>12. Upto(id, 11) /\ (form < 3 => Framed(id, 2, i))
  <2>1. Brief(6) /\ 6 + 5 = 11 BY SMT DEF Brief
  <2> QED BY <1>1, <1>9, <2>1, WrittenUpto, SMT
<1>13. Upto(error, 6) /\ (form < 3 => Framed(error, 2, e))
  <2>1. Brief(1) /\ 1 + 5 = 6 BY SMT DEF Brief
  <2> QED BY <1>1, <1>9, <2>1, WrittenUpto, SMT
<1>14. Upto(name, 19) /\ (form < 3 => Framed(name, 6, o))
  <2>1. Brief(14) /\ 14 + 5 = 19 BY SMT DEF Brief
  <2> QED BY <1>1, <1>9, <2>1, WrittenUpto, SMT
<1>15. Upto(value, 11) /\ (form < 3 => Framed(value, tag, n))
  <2>1. Brief(6) /\ 6 + 5 = 11 BY SMT DEF Brief
  <2> QED BY <1>1, <1>9, <2>1, WrittenUpto, SMT
<1>16. Upto(both, 30)
  <2>1. Upto(name \o value, 19 + 11)
    BY <1>14, <1>15, JoinUpto
  <2> QED BY <1>2, <2>1, SMT
<1>17. Upto(binding, 35) /\ (form < 3 => Framed(binding, 48, both))
  <2>1. Brief(30) /\ 30 + 5 = 35 BY SMT DEF Brief
  <2> QED BY <1>3, <1>9, <1>16, <2>1, WrittenUpto, SMT
<1>18. Upto(list, 40) /\ (form < 3 => Framed(list, 48, binding))
  <2>1. Brief(35) /\ 35 + 5 = 40 BY SMT DEF Brief
  <2> QED BY <1>4, <1>9, <1>17, <2>1, WrittenUpto, SMT
<1>19. Upto(items, 63)
  <2>1. Upto(id \o error, 11 + 6)
    BY <1>12, <1>13, JoinUpto
  <2>2. Upto((id \o error) \o error, (11 + 6) + 6)
    BY <2>1, <1>13, JoinUpto
  <2>3. Upto(((id \o error) \o error) \o list, ((11 + 6) + 6) + 40)
    BY <2>2, <1>18, JoinUpto
  <2>4. ((11 + 6) + 6) + 40 = 63
    BY SMT
  <2> QED BY <2>3, <2>4, <1>5, SMT DEF Four
<1>20. Upto(pdu, 68) /\ (form < 3 => Framed(pdu, 162, items))
  <2>1. Brief(63) /\ 63 + 5 = 68 BY SMT DEF Brief
  <2> QED BY <1>6, <1>9, <1>19, <2>1, WrittenUpto, SMT
<1>21. Upto(all, 1059)
  <2>1. \A k : Upto(community, k) => Upto((version \o community) \o pdu, (6 + k) + 68)
    <3> SUFFICES ASSUME NEW k, Upto(community, k)
                 PROVE  Upto((version \o community) \o pdu, (6 + k) + 68)
      OBVIOUS
    <3>1. Upto(version \o community, 6 + k)
      BY <1>10, JoinUpto
    <3> QED BY <3>1, <1>20, JoinUpto
  <2>2. Upto((version \o community) \o pdu, (6 + 985) + 68)
    BY <1>11, <2>1, SMT
  <2> QED BY <2>2, <1>7, SMT
<1>22. form < 3 => Framed(Written(form, 48, all), 48, all)
  <2>1. Brief(1059) BY SMT DEF Brief
  <2> QED BY <1>9, <1>21, <2>1, WrittenUpto, SMT
<1>23. ASSUME form < 3
       PROVE  /\ Laid(Written(form, 48, all), 162, version, community, pdu, id, error, error, list,
                      binding, name, value)
              /\ Filled(version, community, id, error, error, name, v, c, i, e, e, o)
              /\ Framed(value, tag, n)
  <2>1. Filled(version, community, id, error, error, name, v, c, i, e, e, o)
    BY <1>10, <1>11, <1>12, <1>13, <1>14, <1>23, Zenon DEF Filled
  <2>2. \A kind : kind = 162 => Laid(Written(form, 48, all), kind, version, community, pdu, id,
                                     error, error, list, binding, name, value)
    <3> SUFFICES ASSUME NEW kind, kind = 162
                 PROVE  Laid(Written(form, 48, all), kind, version, community, pdu, id, error,
                             error, list, binding, name, value)
      OBVIOUS
    <3>1. Framed(pdu, kind, items)
      BY <1>20, <1>23, SMT
    <3> QED
      BY <3>1, <1>2, <1>5, <1>7, <1>17, <1>18, <1>22, <1>23, Zenon DEF Laid
  <2> QED BY <1>15, <1>23, <2>1, <2>2
<1> QED BY <1>8, <1>21, <1>23

LEMMA CounterRead ==
    ASSUME NEW m \in Octets, NEW value, NEW n, FindValue(m) \in Positions,
           At(m, FindValue(m), value), Framed(value, 65, n)
    PROVE  ParseGetResponse(m) = DecodeCounter32(n)
<1>1. PICK p : p = FindValue(m)
  OBVIOUS
<1>2. p \in Nat \ {0} /\ At(m, p, value)
  BY <1>1, Zenon DEF Positions
<1>3. PICK more \in 0..2 : /\ m[p] = 65 /\ Sized(m, p + 1, more, Len(n)) /\ At(m, p + 2 + more, n)
                           /\ Len(value) = 2 + more + Len(n)
  BY <1>2, FramedAt, SMT
<1>4. DecodeLength(m, p + 1) = [value |-> Len(n), size |-> more + 1]
  BY <1>3, LengthSized, SMT
<1>5. n \in Octets /\ Len(n) \in Nat
  BY FramedTyped, SMT
<1>6. PICK from, to : from = p + 1 + (more + 1) /\ to = from + Len(n) - 1
  OBVIOUS
<1>7. from \in Nat \ {0} /\ to \in Int /\ At(m, from, n)
  <2>1. from = p + 2 + more /\ from \in Nat \ {0} /\ to \in Int
    BY <1>2, <1>3, <1>5, <1>6, SMT
  <2> QED BY <1>3, <2>1, Zenon
<1>8. SubSeq(m, from, to) = n
  <2>1. to = from + Len(n) - 1 /\ n \in Octets
    BY <1>5, <1>6
  <2> QED BY <1>7, <2>1, AtSubSeq, SMT
<1>9. ~ (p = NotFound \/ m[p] # 65)
  BY <1>2, <1>3, SMT DEF NotFound
<1>10. PICK len : len = DecodeLength(m, p + 1)
  OBVIOUS
<1>11. len.size = more + 1 /\ len.value = Len(n)
  BY <1>4, <1>10, SMT
<1>12. PICK tag : tag = 65
  OBVIOUS
<1>13. ParseGetResponse(m) = DecodeCounter32(SubSeq(m, p + 1 + len.size,
                                                    p + 1 + len.size + len.value - 1))
  BY <1>1, <1>9, <1>10, SMT DEF ParseGetResponse
<1> QED BY <1>6, <1>8, <1>11, <1>13, Zenon

LEMMA NullRead ==
    ASSUME NEW m \in Octets, NEW value, NEW n, FindValue(m) \in Positions,
           At(m, FindValue(m), value), Framed(value, 5, n)
    PROVE  ParseGetResponse(m) = Failure
<1>1. PICK p : p = FindValue(m)
  OBVIOUS
<1>2. p \in Nat \ {0} /\ At(m, p, value)
  BY <1>1, Zenon DEF Positions
<1>3. m[p] = 5
  BY <1>2, FramedAt, SMT
<1>4. m[p] # 65
  BY <1>3, SMT
<1> QED BY <1>1, <1>4, SMT DEF ParseGetResponse

\* A length in three octets is taken for none, and what comes after it for an
\* element.
LEMMA LongRead ==
    ASSUME NEW content \in Octets, Small(Len(content))
    PROVE  ParseGetResponse(Written(3, 48, content)) = Failure
<1>1. PICK m : m = Written(3, 48, content)
  OBVIOUS
<1>2. m[1] = 48 /\ m[2] = 131 /\ m[3] = 0
  <2>1. 48 \in Octet
    BY SMT DEF Octet
  <2> QED BY <1>1, <2>1, WrittenLong, SMT
<1>3. DecodeLength(m, 2) = [value |-> 0, size |-> 1]
  BY <1>2, SMT DEF DecodeLength
<1>4. Enter(m, 1, 48) = 3
  <2>1. PICK len : len = DecodeLength(m, 1 + 1)
    OBVIOUS
  <2>2. len.size = 1
    BY <1>3, <2>1, SMT
  <2>3. Enter(m, 1, 48) = 1 + 1 + len.size
    BY <1>2, <2>1, SMT DEF Enter, NotFound
  <2> QED BY <2>2, <2>3, SMT
<1>5. Skip(m, 3, 2) = NotFound
  BY <1>2, SMT DEF Skip
<1>6. ASSUME NEW tag PROVE Skip(m, NotFound, tag) = NotFound /\ Enter(m, NotFound, tag) = NotFound
  <2>1. Enter(m, NotFound, tag) = NotFound
    BY DEF Enter
  <2>2. Skip(m, NotFound, tag) = NotFound
    BY DEF Skip
  <2> QED BY <2>1, <2>2
<1>7. FindValue(m) = NotFound
  <2>1. PICK p0 : p0 = Enter(m, 1, 48)
    OBVIOUS
  <2>2. Skip(m, p0, 2) = NotFound
    BY <1>4, <1>5, <2>1, SMT
  <2>3. PICK p1, p2, p3, p4, p5, p6, p7, p8, p9 :
          /\ p1 = Skip(m, p0, 2) /\ p2 = Skip(m, p1, 4) /\ p3 = Enter(m, p2, 162)
          /\ p4 = Skip(m, p3, 2) /\ p5 = Skip(m, p4, 2) /\ p6 = Skip(m, p5, 2)
          /\ p7 = Enter(m, p6, 48) /\ p8 = Enter(m, p7, 48) /\ p9 = Skip(m, p8, 6)
    OBVIOUS
  <2>4. p1 = NotFound /\ p2 = NotFound /\ p3 = NotFound
    BY <2>2, <2>3, <1>6, SMT
  <2>5. p4 = NotFound /\ p5 = NotFound /\ p6 = NotFound
    BY <2>3, <2>4, <1>6, SMT
  <2>6. p7 = NotFound /\ p8 = NotFound /\ p9 = NotFound
    BY <2>3, <2>5, <1>6, SMT
  <2> QED BY <2>1, <2>3, <2>6, Zenon DEF FindValue
<1> QED BY <1>1, <1>7, SMT DEF ParseGetResponse

\* The answers there may be.
Answers == [port : Ports, column : {10, 16}, id : Times, number : Nat, form : Forms, tag : Tags,
            word : {Nothing} \union Words]

LEMMA WordOctets ==
    ASSUME NEW word \in [1..4 -> 0..255]
    PROVE  word \in Octets /\ Len(word) = 4
<1>1. word = [j \in 1..4 |-> word[j]] /\ \A j \in 1..4 : word[j] \in 0..255
  OBVIOUS
<1> QED BY <1>1, SMT DEF Octets, Octet

LEMMA AnswerIsRead ==
    ASSUME NEW a \in Answers, a.tag = 65 => a.word \in Words, NEW community \in Lengths,
           NEW instance \in Nat, IsWord(instance)
    PROVE  ParseGetResponse(Response(a, community, instance))
             = IF a.tag = 65 /\ a.form < 3 THEN a.word ELSE Failure
<1>1. /\ a.form \in 0..3 /\ a.id \in Nat /\ IsWord(a.id) /\ a.column \in {10, 16}
      /\ a.tag \in {65, 5} /\ (a.tag = 65 => a.word \in [1..4 -> 0..255])
  <2>1. /\ a.form \in Forms /\ a.id \in Times /\ a.column \in {10, 16} /\ a.tag \in Tags
        /\ (a.tag = 65 => a.word \in Words)
    BY DEF Answers
  <2>2. /\ Times \subseteq Nat /\ (\A n \in Times : IsWord(n))
        /\ Words \subseteq [1..4 -> 0..255] /\ Forms \subseteq 0..3
    BY SnmpAssumption, Zenon
  <2> QED BY <2>1, <2>2, Zenon DEF Tags
<1>2. PICK form, tag, column, word :
        form = a.form /\ tag = a.tag /\ column = a.column /\ word = a.word
  OBVIOUS
<1>3. PICK v : v = <<0>>
  OBVIOUS
<1>4. PICK c : c = Letters(community)
  OBVIOUS
<1>5. PICK i : i = Unsigned(Digits(256, a.id))
  OBVIOUS
<1>6. PICK e : e = <<IF tag = 5 THEN 2 ELSE 0>>
  OBVIOUS
<1>7. PICK o : o = <<43, 6, 1, 2, 1, 2, 2, 1, column>> \o EncodeArc(instance)
  OBVIOUS
<1>8. PICK n : n = IF tag = 5 THEN <<>> ELSE Unsigned(word)
  OBVIOUS
<1>9. Response(a, community, instance) = Reply(form, v, c, i, e, o, tag, n)
  <2>1. Contents(a, community, instance, c, i, e, o, n)
    BY <1>2, <1>4, <1>5, <1>6, <1>7, <1>8, Zenon DEF Contents
  <2>2. Response(a, community, instance) = Reply(a.form, <<0>>, c, i, e, o, a.tag, n)
    BY <2>1, ResponseParts, SMT
  <2> QED BY <1>2, <1>3, <2>2, Zenon
<1>10. Upto(v, 1) /\ Upto(c, 980) /\ Upto(e, 1)
  <2>1. Upto(v, 1)
    BY <1>3, SMT DEF Upto, Octets, Octet
  <2>2. Upto(c, 980)
    <3>1. Community(c, community)
      BY <1>4, LettersTyped, Zenon
    <3> QED BY <3>1, SMT DEF Community
  <2>3. Upto(e, 1)
    <3>1. PICK x : x = IF tag = 5 THEN 2 ELSE 0
      OBVIOUS
    <3>2. x \in Octet
      BY <3>1, SMT DEF Octet
    <3>3. e = <<x>>
      BY <1>6, <3>1
    <3> QED BY <3>2, <3>3, SMT DEF Upto, Octets
  <2> QED BY <2>1, <2>2, <2>3
<1>11. Upto(i, 6)
  <2>1. Digits(256, a.id) \in Seq({d \in Nat : d < 256}) /\ Len(Digits(256, a.id)) \in 1..5
    BY <1>1, DigitsTyped, SMT DEF Bases
  <2>2. {d \in Nat : d < 256} = Octet
    BY SMT DEF Octet
  <2>3. Digits(256, a.id) \in Octets
    BY <2>1, <2>2, Zenon DEF Octets
  <2>4. i \in Octets /\ Len(i) \in 1..6
    BY <1>5, <2>1, <2>3, UnsignedTyped, Zenon
  <2>5. PICK k : k = Len(i)
    OBVIOUS
  <2> QED BY <2>4, <2>5, SMT DEF Upto
<1>12. Upto(o, 14)
  <2>1. PICK temp, digit, len : Divided(128, instance, temp, digit, len)
    BY DigitsAre DEF Bases
  <2>2. len \in 1..5 /\ EncodeArc(instance) \in Octets /\ Len(EncodeArc(instance)) = len
    BY <2>1, ArcOctets
  <2>3. Upto(EncodeArc(instance), 5)
    BY <2>2, SMT DEF Upto
  <2>4. Upto(<<43, 6, 1, 2, 1, 2, 2, 1, column>>, 9)
    BY <1>1, <1>2, SMT DEF Upto, Octets, Octet
  <2>5. Upto(o, 9 + 5)
    BY <1>7, <2>3, <2>4, JoinUpto, Zenon
  <2> QED BY <2>5, SMT
<1>13. Upto(n, 6)
  <2>1. CASE tag = 5
    BY <1>8, <2>1, SMT DEF Upto, Octets
  <2>2. CASE tag # 5
    <3>1. word \in [1..4 -> 0..255]
      BY <1>1, <1>2, <2>2, SMT
    <3>2. word \in Octets /\ Len(word) \in 1..5
      BY <3>1, WordOctets, SMT
    <3>3. n \in Octets /\ Len(n) \in 1..6
      BY <1>8, <2>2, <3>2, UnsignedTyped, Zenon
    <3>4. PICK k : k = Len(n)
      OBVIOUS
    <3> QED BY <3>3, <3>4, SMT DEF Upto
  <2> QED BY <2>1, <2>2
<1>14. form \in 0..3 /\ tag \in Octet
  BY <1>1, <1>2, SMT DEF Octet
<1>15. PICK all, version, string, pdu, id, error, list, binding, name, value :
          /\ Reply(form, v, c, i, e, o, tag, n) = Written(form, 48, all)
          /\ Upto(all, 1059)
          /\ form < 3 => /\ Laid(Written(form, 48, all), 162, version, string, pdu, id, error,
                                 error, list, binding, name, value)
                         /\ Filled(version, string, id, error, error, name, v, c, i, e, e, o)
                         /\ Framed(value, tag, n)
  BY <1>10, <1>11, <1>12, <1>13, <1>14, ReplyLaid
<1>16. PICK m : m = Written(form, 48, all)
  OBVIOUS
<1>17. CASE form < 3
  <2>1. m \in Octets /\ FindValue(m) \in Positions /\ At(m, FindValue(m), value)
    <3>1. value \in Octets
      BY <1>15, <1>17, FramedTyped
    <3> QED BY <3>1, <1>15, <1>16, <1>17, ValueLaid
  <2>2. CASE tag = 65
    <3>1. n = Unsigned(word) /\ word \in [1..4 -> 0..255]
      BY <1>1, <1>2, <1>8, <2>2, SMT
    <3>2. Framed(value, 65, n)
      BY <1>15, <1>17, <2>2, SMT
    <3>3. ParseGetResponse(m) = DecodeCounter32(n)
      BY <2>1, <3>2, CounterRead
    <3>4. ParseGetResponse(m) = word
      BY <3>1, <3>3, WordIsRead, Zenon
    <3> QED BY <1>2, <1>9, <1>15, <1>16, <1>17, <2>2, <3>4, Zenon
  <2>3. CASE tag # 65
    <3>1. Framed(value, 5, n)
      BY <1>1, <1>2, <1>15, <1>17, <2>3, SMT
    <3>2. ParseGetResponse(m) = Failure
      BY <2>1, <3>1, NullRead
    <3> QED BY <1>2, <1>9, <1>15, <1>16, <2>3, <3>2, Zenon
  <2> QED BY <2>2, <2>3
<1>18. CASE ~ (form < 3)
  <2>1. form = 3
    BY <1>14, <1>18, SMT
  <2>2. all \in Octets /\ Small(Len(all))
    BY <1>15, UptoSmall, SMT DEF Brief
  <2>3. ParseGetResponse(Written(3, 48, all)) = Failure
    BY <2>2, LongRead
  <2>4. ParseGetResponse(Response(a, community, instance)) = Failure
    BY <2>1, <2>3, <1>9, <1>15, Zenon
  <2> QED BY <1>2, <1>18, <2>4, Zenon
<1> QED BY <1>17, <1>18

\* The requests there may be.
Requests == [port : Ports, column : {10, 16}, id : Times, number : Nat]

\* The agent has read what was asked, in a request up to the last one.
HeardAsked ==
    world.heard # Nothing => /\ world.heard.to \in Requests
                             /\ world.heard.to.number <= world.asked
                             /\ world.heard.what = AskedIn(ctx.community, ctx.instance,
                                                          world.heard.to.column, world.heard.to.id)

\* So are the requests that it has answered.
FlyingAsked ==
    \A a \in world.flying : /\ a \in Answers /\ (a.tag = 65 => a.word \in Words)
                            /\ a.number <= world.asked

\* The last request is the one that is waited for.
LastAsked == pc = "recv" => wait.number = world.asked

\* What the last collection has returned.
SampleIsAnswer ==
    /\ LET a == sample.answer
       IN  sample.value = IF a # Nothing /\ a.tag = 65 /\ a.form < 3 THEN a.word ELSE Failure
    /\ sample.value # Failure /\ sample.answer.number # sample.request.number =>
         sample.answer.number < sample.request.number /\ sample.answer.port = sample.request.port

SnmpTypes ==
    /\ system = "snmp client" /\ ctx \in [community : Communities, instance : Instances]
    /\ world = [heard |-> world.heard, flying |-> world.flying, asked |-> world.asked]
    /\ world.asked \in Nat

SnmpInv == SnmpTypes /\ HeardAsked /\ FlyingAsked /\ LastAsked /\ SampleIsAnswer

LEMMA TargetIs ==
    ASSUME SnmpTypes
    PROVE  /\ ctx.community \in Lengths /\ ctx.instance \in Nat /\ IsWord(ctx.instance)
           /\ \A id \in Times : id \in Nat /\ IsWord(id)
<1>1. ctx.community \in Communities /\ ctx.instance \in Instances
  BY DEF SnmpTypes
<1>2. /\ Communities \subseteq Lengths /\ Instances \subseteq Nat /\ Times \subseteq Nat
      /\ \A n \in Instances \union Times : IsWord(n)
  BY SnmpAssumption, Zenon DEF Lengths
<1>3. ctx.community \in Lengths /\ ctx.instance \in Nat /\ Times \subseteq Nat
  <2>1. Communities \subseteq Lengths /\ Instances \subseteq Nat /\ Times \subseteq Nat
    BY <1>2, Zenon
  <2>2. \A c, i : c \in Communities /\ i \in Instances => c \in Lengths /\ i \in Nat
    BY <2>1, SMT
  <2> QED BY <1>1, <2>1, <2>2, SMT
<1>4. IsWord(ctx.instance) /\ \A id \in Times : IsWord(id)
  BY <1>1, <1>2, Zenon
<1> QED BY <1>3, <1>4, SMT

\* No answer has come.
LEMMA NoAnswer ==
    ASSUME NEW r, sample = [value |-> Failure, request |-> r, answer |-> Nothing]
    PROVE  SampleIsAnswer
  BY Zenon DEF SampleIsAnswer

LEMMA SnmpStarts == SnmpClientInit => SnmpInv
<1> SUFFICES ASSUME SnmpClientInit PROVE SnmpInv
  OBVIOUS
<1>1. SampleIsAnswer
  <2>1. sample = [value |-> Failure, request |-> NoRequest, answer |-> Nothing]
    BY DEF SnmpClientInit, NoResult
  <2> QED BY <2>1, NoAnswer
<1>2. world.heard = Nothing /\ world.flying = {} /\ world.asked = 0 /\ pc = "rest"
  BY DEF SnmpClientInit
<1>3. SnmpTypes
  BY DEF SnmpClientInit, SnmpTypes
<1> QED
  BY <1>1, <1>2, <1>3 DEF SnmpInv, HeardAsked, FlyingAsked, LastAsked

\* A collection that gets no answer.
LEMMA InvNoAnswer ==
    ASSUME SnmpInv, Returns(Failure, Nothing), UNCHANGED <<system, ctx, world>>
    PROVE  SnmpInv'
<1>1. sample' = [value |-> Failure, request |-> wait, answer |-> Nothing] /\ pc' = "rest"
  BY DEF Returns
<1>2. SampleIsAnswer'
  BY <1>1, Zenon DEF SampleIsAnswer
<1>3. LastAsked'
  BY <1>1 DEF LastAsked
<1> QED
  BY <1>2, <1>3 DEF SnmpInv, SnmpTypes, HeardAsked, FlyingAsked

LEMMA InvSnmpAsk ==
    ASSUME SnmpInv, NEW column \in {10, 16}, SnmpAsk(column)
    PROVE  SnmpInv'
<1>1. PICK port \in Ports, id \in Times :
        /\ wait' = [port |-> port, column |-> column, id |-> id, number |-> world.asked + 1]
        /\ world' = [world EXCEPT !.asked = @ + 1,
             !.heard = [to |-> wait', what |-> Heard(BuildGetRequest(ctx.community,
                                                       Oid(column, ctx.instance), id))]]
  BY Zenon DEF SnmpAsk
<1>2. /\ pc' = "recv" /\ UNCHANGED <<system, ctx, sample>>
  BY DEF SnmpAsk
<1>3. PICK request : request = wait'
  OBVIOUS
<1>4. PICK what : what = Heard(BuildGetRequest(ctx.community, Oid(column, ctx.instance), id))
  OBVIOUS
<1>5. /\ world.asked \in Nat /\ ctx.community \in Lengths /\ ctx.instance \in Nat
      /\ IsWord(ctx.instance) /\ id \in Nat /\ IsWord(id)
  BY TargetIs DEF SnmpInv, SnmpTypes
<1>6. request \in Requests /\ request.number = world.asked + 1 /\ request.id = id
      /\ request.column = column
  BY <1>1, <1>3, <1>5 DEF Requests
<1>7. what = AskedIn(ctx.community, ctx.instance, column, id)
  BY <1>4, <1>5, RequestIsHeard, Zenon
<1>8. /\ world' = [heard |-> [to |-> request, what |-> what], flying |-> world.flying,
                   asked |-> world.asked + 1]
  BY <1>1, <1>3, <1>4, Zenon DEF SnmpInv, SnmpTypes
<1>9. /\ world'.heard.to = request /\ world'.heard.what = what
      /\ world'.flying = world.flying /\ world'.asked = world.asked + 1
  BY <1>8
<1>10. SnmpTypes'
  <2>1. ctx' = ctx /\ system' = system /\ world'.asked \in Nat
    BY <1>2, <1>5, <1>9
  <2>2. world' = [heard |-> world'.heard, flying |-> world'.flying, asked |-> world'.asked]
    BY <1>8, Zenon
  <2> QED BY <2>1, <2>2 DEF SnmpInv, SnmpTypes
<1>11. HeardAsked'
  <2>1. /\ (world.heard.to \in Requests)' /\ (world.heard.to.number <= world.asked)'
        /\ ctx' = ctx
    BY <1>2, <1>5, <1>6, <1>9
  <2> QED BY <1>6, <1>7, <1>9, <2>1, Zenon DEF HeardAsked
<1>12. FlyingAsked'
  BY <1>5, <1>9, SMT DEF SnmpInv, FlyingAsked, Answers
<1>13. LastAsked'
  BY <1>3, <1>6, <1>9 DEF LastAsked
<1>14. SampleIsAnswer'
  BY <1>2 DEF SnmpInv, SampleIsAnswer
<1> QED BY <1>10, <1>11, <1>12, <1>13, <1>14 DEF SnmpInv

LEMMA InvSnmpReceive ==
    ASSUME SnmpInv, SnmpReceive
    PROVE  SnmpInv'
<1>1. PICK a \in world.flying :
        /\ a.port = wait.port
        /\ Returns(ParseGetResponse(Response(a, ctx.community, ctx.instance)), a)
        /\ world' = [world EXCEPT !.flying = @ \ {a}]
  BY DEF SnmpReceive
<1>2. UNCHANGED <<system, ctx>> /\ pc = "recv"
  BY DEF SnmpReceive
<1>3. /\ a \in Answers /\ (a.tag = 65 => a.word \in Words) /\ a.number <= world.asked
      /\ world.asked \in Nat /\ wait.number = world.asked
  BY <1>2 DEF SnmpInv, SnmpTypes, FlyingAsked, LastAsked
<1>4. ctx.community \in Lengths /\ ctx.instance \in Nat /\ IsWord(ctx.instance)
  BY TargetIs DEF SnmpInv
<1>5. PICK value : value = ParseGetResponse(Response(a, ctx.community, ctx.instance))
  OBVIOUS
<1>6. value = IF a.tag = 65 /\ a.form < 3 THEN a.word ELSE Failure
  BY <1>3, <1>4, <1>5, AnswerIsRead
<1>7. a # Nothing
  <2>1. DOMAIN a = {"port", "column", "id", "number", "form", "tag", "word"}
    BY <1>3 DEF Answers
  <2> QED BY <2>1 DEF Nothing
<1>8. sample' = [value |-> value, request |-> wait, answer |-> a] /\ pc' = "rest"
  BY <1>1, <1>5 DEF Returns
<1>9. SampleIsAnswer'
  <2>1. PICK number, port : number = a.number /\ port = a.port
    OBVIOUS
  <2>2. number \in Nat
    BY <1>3, <2>1 DEF Answers
  <2>3. number # wait.number => number < wait.number
    BY <1>3, <2>1, <2>2
  <2>4. sample'.value = value /\ sample'.answer = a /\ sample'.request = wait
    BY <1>8
  <2> QED BY <1>1, <1>6, <1>7, <2>1, <2>3, <2>4 DEF SampleIsAnswer
<1>10. /\ world' = [heard |-> world.heard, flying |-> world.flying \ {a}, asked |-> world.asked]
  BY <1>1, Zenon DEF SnmpInv, SnmpTypes
<1>11. SnmpTypes'
  BY <1>2, <1>10 DEF SnmpInv, SnmpTypes
<1>12. HeardAsked'
  BY <1>2, <1>10 DEF SnmpInv, HeardAsked
<1>13. FlyingAsked'
  BY <1>10 DEF SnmpInv, FlyingAsked, Answers
<1>14. LastAsked'
  BY <1>8 DEF LastAsked
<1> QED BY <1>9, <1>11, <1>12, <1>13, <1>14 DEF SnmpInv

LEMMA InvAgentAnswers ==
    ASSUME SnmpInv, AgentAnswers
    PROVE  SnmpInv'
<1>1. PICK form \in Forms, tag \in Tags : \E word \in IF tag = 65 THEN Words ELSE {Nothing} :
         world' = [world EXCEPT !.heard = Nothing, !.flying = @ \union
             {[port |-> world.heard.to.port, column |-> world.heard.to.column,
               id |-> world.heard.to.id, number |-> world.heard.to.number,
               form |-> form, tag |-> tag, word |-> word]}]
  BY DEF AgentAnswers
<1>2. PICK word \in IF tag = 65 THEN Words ELSE {Nothing} :
         world' = [world EXCEPT !.heard = Nothing, !.flying = @ \union
             {[port |-> world.heard.to.port, column |-> world.heard.to.column,
               id |-> world.heard.to.id, number |-> world.heard.to.number,
               form |-> form, tag |-> tag, word |-> word]}]
  BY <1>1
<1>3. UNCHANGED <<system, ctx, pc, wait, sample>> /\ world.heard # Nothing
  BY DEF AgentAnswers
<1>4. PICK to : to = world.heard.to
  OBVIOUS
<1>5. to \in Requests /\ to.number <= world.asked /\ world.asked \in Nat
  BY <1>3, <1>4 DEF SnmpInv, SnmpTypes, HeardAsked
<1>6. PICK a : a = [port |-> to.port, column |-> to.column, id |-> to.id, number |-> to.number,
                    form |-> form, tag |-> tag, word |-> word]
  OBVIOUS
<1>7. a \in Answers /\ (a.tag = 65 => a.word \in Words) /\ a.number <= world.asked
  <2>1. (tag = 65 => word \in Words) /\ word \in {Nothing} \union Words
    BY <1>2
  <2> QED BY <1>5, <1>6, <2>1 DEF Requests, Answers
<1>8. world' = [heard |-> Nothing, flying |-> world.flying \union {a}, asked |-> world.asked]
  BY <1>2, <1>4, <1>6, Zenon DEF SnmpInv, SnmpTypes
<1>9. world'.heard = Nothing /\ world'.flying = world.flying \union {a}
      /\ world'.asked = world.asked
  BY <1>8
<1>10. SnmpTypes'
  BY <1>3, <1>5, <1>8 DEF SnmpInv, SnmpTypes
<1>11. HeardAsked'
  BY <1>9 DEF HeardAsked, Nothing
<1>12. FlyingAsked'
  BY <1>7, <1>9 DEF SnmpInv, FlyingAsked, Answers
<1>13. LastAsked' /\ SampleIsAnswer'
  BY <1>3, <1>9 DEF SnmpInv, LastAsked, SampleIsAnswer
<1> QED BY <1>10, <1>11, <1>12, <1>13 DEF SnmpInv

LEMMA InvSnmpLoss ==
    ASSUME SnmpInv, SnmpLoss
    PROVE  SnmpInv'
<1>1. PICK heard, flying :
        /\ heard = Nothing \/ heard = world.heard
        /\ flying \subseteq world.flying
        /\ world' = [heard |-> heard, flying |-> flying, asked |-> world.asked]
  <2>1. world = [heard |-> world.heard, flying |-> world.flying, asked |-> world.asked]
    BY DEF SnmpInv, SnmpTypes
  <2>2. CASE world' = [world EXCEPT !.heard = Nothing]
    BY <2>1, <2>2, Zenon
  <2>3. ASSUME NEW a \in world.flying, world' = [world EXCEPT !.flying = @ \ {a}]
        PROVE  \E heard, flying :
                 /\ heard = Nothing \/ heard = world.heard
                 /\ flying \subseteq world.flying
                 /\ world' = [heard |-> heard, flying |-> flying, asked |-> world.asked]
    <3>1. world' = [heard |-> world.heard, flying |-> world.flying \ {a}, asked |-> world.asked]
      BY <2>1, <2>3, Zenon
    <3> QED BY <3>1
  <2> QED BY <2>2, <2>3 DEF SnmpLoss
<1>2. UNCHANGED <<system, ctx, pc, wait, sample>>
  BY DEF SnmpLoss
<1>3. world'.heard = heard /\ world'.flying = flying /\ world'.asked = world.asked
  BY <1>1
<1>4. SnmpTypes'
  BY <1>1, <1>2 DEF SnmpInv, SnmpTypes
<1>5. HeardAsked'
  BY <1>1, <1>2, <1>3 DEF SnmpInv, HeardAsked
<1>6. FlyingAsked'
  BY <1>1, <1>3 DEF SnmpInv, FlyingAsked, Answers
<1>7. LastAsked' /\ SampleIsAnswer'
  BY <1>2, <1>3 DEF SnmpInv, LastAsked, SampleIsAnswer
<1> QED BY <1>4, <1>5, <1>6, <1>7 DEF SnmpInv

LEMMA SnmpSteps == SnmpInv /\ [SnmpClientNext]_source => SnmpInv'
<1> SUFFICES ASSUME SnmpInv, [SnmpClientNext]_source PROVE SnmpInv'
  OBVIOUS
<1>1. CASE AskFails \/ SnmpTimeOut
  BY <1>1, InvNoAnswer DEF AskFails, SnmpTimeOut
<1>2. CASE UNCHANGED source
  BY <1>2 DEF source, SnmpInv, SnmpTypes, HeardAsked, FlyingAsked, LastAsked,
              SampleIsAnswer
<1> QED
  BY <1>1, <1>2, InvSnmpAsk, InvSnmpReceive, InvAgentAnswers, InvSnmpLoss DEF SnmpClientNext

LEMMA SnmpAsked == SnmpInv => CounterIsTheOneAsked
  BY Zenon DEF SnmpInv, HeardAsked, AskedIn, SampleIsAnswer, CounterIsTheOneAsked

\* The invariant holds of the program while its source is this one.
LEMMA SnmpHolds == Spec => [](system = "snmp client" => SnmpInv)
<1>1. Init => (system = "snmp client" => SnmpInv)
  BY Alone, SnmpStarts
<1>2. (system = "snmp client" => SnmpInv) /\ [Next]_source => (system = "snmp client" => SnmpInv)'
  BY Alone, SystemStays, SnmpSteps
<1> QED
  BY <1>1, <1>2, PTL DEF Spec

\* Whatever community, interface, time and 32-bit counter: an agent that reads
\* by the rules of BER reads from build_get_request what was asked, and what
\* parse_get_response returns is the counter that the agent has written, in
\* any of the three forms of a length that decode_length knows, and nothing
\* for a fourth, for an error or for no answer.  An answer to another request
\* is taken only if that was an earlier one of the same port
\* (snmp_get_counter32 of ds/snmp_client.c).
THEOREM CounterAlways == Spec => []CounterIsTheOneAsked
<1>1. (system = "snmp client" => SnmpInv) => CounterIsTheOneAsked
  BY SnmpAsked DEF CounterIsTheOneAsked
<1> QED
  BY <1>1, SnmpHolds, PTL

=============================================================================
