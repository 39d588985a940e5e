----------------------------- MODULE CpuSource ------------------------------
(***************************************************************************)
(* The cpu data source (ds/cpu.c) and the ports of os_cpu_get_stats and    *)
(* os_cpu_get_stats_dual (os/).  A collection reads the ticks that the     *)
(* machine has counted and shows which part of those since the last        *)
(* collection was busy.  The baseline, the ticks of the last collection,   *)
(* is a set of static variables in the function: every cpu plot has a      *)
(* collector thread of its own, and they all use the one baseline, without *)
(* a lock.                                                                 *)
(*                                                                         *)
(* The states of a processor are three here: idle, system and user.  A     *)
(* port differs from another in what it does when no tick has passed, in   *)
(* the first collection, and when it cannot read.                          *)
(***************************************************************************)
EXTENDS DataSource

CONSTANTS CpuPlots,  \* the cpu plots of the configuration
          CpuPorts,     \* the operating systems
          TickWord,      \* 2^64 (2^32 on unixware): where ticks wrap
          MaxTicks,  \* bound on the ticks
          MaxReads   \* bound on the collections

ASSUME CpuAssumption ==
    /\ CpuPorts \subseteq {"linux", "unix", "freebsd", "darwin", "sunos", "hpux", "aix",
                        "irix65", "decosf1", "unixware", "vms", "win32"}
    /\ {TickWord, MaxTicks, MaxReads} \subseteq Nat /\ MaxTicks < TickWord

\* The variables of DataSource:
\*   system  the port
\*   ctx     the static variables of each of the two functions
\*   pc      each plot's collector: "rest", "compute", "idle", "total" (the
\*           store that is next)
\*   wait    each plot's collection: the ticks read, the value, and for the
\*           properties, the ticks of the period and whether it can be right
\*   sample  the last collection that ended, of any plot
\*   world   idle, sys, user: ticks; gone: those that ended processes took with
\*           them; dual: is the plot a dual one; done: collections; last:
\*           the ticks that the last collection of a function read; crossed: has
\*           it crossed another

CpuFunctions == {"single", "dual"}

\* A baseline, or what is read: idle ticks, all ticks, system ticks.
TickCounts(i, t, s) == [idle |-> i, total |-> t, sys |-> s]
Never          == [idle |-> 0, total |-> 0, sys |-> 0, first |-> TRUE]

\* A value: busy and system ticks out of how many.  NoLoad: the plot shows 0.
Share(b, s, o) == [busy |-> b, sys |-> s, of |-> o]
NoLoad           == Share(0, 0, 1)
Full           == Share(1, 0, 1)
NoCpu         == Share(-1, -1, 1)
NoUsage         == [read |-> TickCounts(0, 0, 0), value |-> NoLoad, period |-> NoLoad, sound |-> FALSE]

Minus(a, b) == (a - b) % TickWord

-----------------------------------------------------------------------------
(* The ports: the value for the ticks n that are read and the baseline o.  *)
(* A share is taken in doubles, so that no ticks out of none is not a      *)
(* number.                                                                 *)

Since(n, o) == Share(Minus(Minus(n.total, o.total), Minus(n.idle, o.idle)), 0,
                     Minus(n.total, o.total))
WithSystem(v, n, o) == IF v = NoLoad THEN v ELSE [v EXCEPT !.sys = Minus(n.sys, o.sys)]

LinuxCpu(n, o) ==
    IF o.total # 0 /\ Minus(n.total, o.total) > 0 THEN Since(n, o) ELSE NoLoad
LinuxCpuDual(n, o)   == WithSystem(LinuxCpu(n, o), n, o)
UnixCpu(n, o)        == LinuxCpu(n, o)
UnixCpuDual(n, o)    == WithSystem(UnixCpu(n, o), n, o)
FreebsdCpu(n, o)     == LinuxCpu(n, o)
FreebsdCpuDual(n, o) == WithSystem(FreebsdCpu(n, o), n, o)
Win32Cpu(n, o)       == LinuxCpu(n, o)
Win32CpuDual(n, o)   == WithSystem(Win32Cpu(n, o), n, o)

\* No guard against a total that has not moved.
DarwinCpu(n, o)     == IF o.total # 0 THEN Since(n, o) ELSE NoLoad
DarwinCpuDual(n, o) == WithSystem(DarwinCpu(n, o), n, o)

SunosCpu(n, o)     == IF o.total # 0 /\ n.total > o.total THEN Since(n, o) ELSE NoLoad
SunosCpuDual(n, o) == WithSystem(SunosCpu(n, o), n, o)
HpuxCpu(n, o)      == SunosCpu(n, o)
HpuxCpuDual(n, o)  == WithSystem(HpuxCpu(n, o), n, o)
AixCpu(n, o)       == SunosCpu(n, o)
AixCpuDual(n, o)   == WithSystem(AixCpu(n, o), n, o)

\* When no tick has passed a total of 1 is assumed, and none of it idle.
IrixCpu(n, o) ==
    IF o.first THEN NoLoad
    ELSE IF n.total = o.total /\ n.idle = o.idle THEN Full
    ELSE Since(n, o)
IrixCpuDual(n, o) == WithSystem(IrixCpu(n, o), n, o)
OsfCpu(n, o)      == IrixCpu(n, o)
OsfCpuDual(n, o)  == WithSystem(OsfCpu(n, o), n, o)

\* Tenths of a percent, rounded, of each state; the rest of 100 to idle is busy.
Permille(d, t) == IF t = 0 THEN 0 ELSE ((1000 * d + t \div 2) % TickWord) \div t
UnixwareCpu(n, o) ==
    Share(1000 - Permille(Minus(n.idle, o.idle), Minus(n.total, o.total)), 0, 1000)
UnixwareCpuDual(n, o) ==
    [UnixwareCpu(n, o) EXCEPT
       !.sys = Permille(Minus(n.sys, o.sys), Minus(n.total, o.total))]

\* The time of all processes, which drops when one ends, over the time of day.
VmsCpuDual(n, o) ==
    IF o.first \/ n.total = o.total THEN NoLoad
    ELSE LET used(c) == c.total - c.idle
         IN  Share(IF used(n) >= used(o) THEN used(n) - used(o) ELSE 0, 0, n.total - o.total)
VmsCpu(n, o) == VmsCpuDual(n, o)

CpuSingle(n, o) ==
    CASE system = "linux"    -> LinuxCpu(n, o)    [] system = "unix"    -> UnixCpu(n, o)
      [] system = "freebsd"  -> FreebsdCpu(n, o)  [] system = "win32"   -> Win32Cpu(n, o)
      [] system = "darwin"   -> DarwinCpu(n, o)   [] system = "sunos"   -> SunosCpu(n, o)
      [] system = "hpux"     -> HpuxCpu(n, o)     [] system = "aix"     -> AixCpu(n, o)
      [] system = "irix65"   -> IrixCpu(n, o)     [] system = "decosf1" -> OsfCpu(n, o)
      [] system = "unixware" -> UnixwareCpu(n, o) [] system = "vms"     -> VmsCpu(n, o)

CpuDual(n, o) ==
    CASE system = "linux"    -> LinuxCpuDual(n, o)    [] system = "unix"    -> UnixCpuDual(n, o)
      [] system = "freebsd"  -> FreebsdCpuDual(n, o)  [] system = "win32"   -> Win32CpuDual(n, o)
      [] system = "darwin"   -> DarwinCpuDual(n, o)   [] system = "sunos"   -> SunosCpuDual(n, o)
      [] system = "hpux"     -> HpuxCpuDual(n, o)     [] system = "aix"     -> AixCpuDual(n, o)
      [] system = "irix65"   -> IrixCpuDual(n, o)     [] system = "decosf1" -> OsfCpuDual(n, o)
      [] system = "unixware" -> UnixwareCpuDual(n, o) [] system = "vms"     -> VmsCpuDual(n, o)

\* The function that a plot's collector calls, and the one whose static
\* variables it uses: unixware and vms have one set for both.
Function(p) == IF world.dual[p] THEN "dual" ELSE "single"
Static(p)   == IF system \in {"unixware", "vms"} THEN "dual" ELSE Function(p)

\* What a failed reading is shown as: an error, or on some ports an idle machine.
Unreadable ==
    CASE system \in {"linux", "unix"} -> {NoCpu, NoLoad}
      [] system = "freebsd"           -> {NoLoad}
      [] system = "vms"               -> {}
      [] OTHER                        -> {NoCpu}

\* Plots of which all use the same variables; others do not meet.
Shares(dual) == system \in {"unixware", "vms"} \/ \A p, q \in CpuPlots : dual[p] = dual[q]

-----------------------------------------------------------------------------
CpuInit ==
    /\ system \in CpuPorts
    /\ ctx = [f \in CpuFunctions |-> IF system = "unixware" THEN [Never EXCEPT !.first = FALSE]
                                                         ELSE Never]
    /\ pc     = [p \in CpuPlots |-> "rest"]
    /\ wait   = [p \in CpuPlots |-> NoUsage]
    /\ sample = NoUsage
    /\ \E dual \in {d \in [CpuPlots -> BOOLEAN] : Shares(d)} :
         world = [idle |-> 1, sys |-> 0, user |-> 0, gone |-> 0, dual |-> dual, done |-> 0,
                  last    |-> [f \in CpuFunctions |-> TickCounts(0, 0, 0)],
                  crossed |-> [f \in CpuFunctions |-> TRUE]]

Total    == world.idle + world.sys + world.user
Collecting(p)  == pc[p] # "rest"
Crosses(p) == \E q \in CpuPlots \ {p} : Collecting(q) /\ Static(q) = Static(p)

\* cpu_collect, cpu_collect_dual: the ticks are read, or not.
ReadTicks(p) ==
    /\ pc[p] = "rest" /\ world.done < MaxReads
    /\ LET f == Static(p)
           l == world.last[f]
           n == IF system = "vms" THEN TickCounts(world.idle + world.gone, Total, 0)
                                  ELSE TickCounts(world.idle, Total, world.sys)
       IN  /\ pc'   = [pc EXCEPT ![p] = "compute"]
           /\ wait' = [q \in CpuPlots |->
                         IF q = p THEN [read   |-> n, value |-> NoLoad,
                                        period |-> Share((n.total - l.total) - (n.idle - l.idle),
                                                         IF world.dual[p] THEN n.sys - l.sys
                                                                          ELSE 0,
                                                         n.total - l.total),
                                        sound  |-> ~Crosses(p) /\ ~world.crossed[f]]
                         ELSE IF Crosses(p) /\ Static(q) = f THEN [wait[q] EXCEPT !.sound = FALSE]
                         ELSE wait[q]]
           /\ world' = [world EXCEPT !.done = @ + 1, !.last[f] = n, !.crossed[f] = Crosses(p)]
    /\ UNCHANGED <<system, ctx, sample>>

CannotRead(p) ==
    /\ pc[p] = "rest" /\ world.done < MaxReads
    /\ \E v \in Unreadable : sample' = [NoUsage EXCEPT !.value = v]
    /\ UNCHANGED <<system, ctx, pc, wait, world>>

Compute(p) ==
    /\ pc[p] = "compute" /\ pc' = [pc EXCEPT ![p] = "idle"]
    /\ LET n == wait[p].read
           o == ctx[Static(p)]
       IN  wait' = [wait EXCEPT ![p].value = IF world.dual[p] THEN CpuDual(n, o) ELSE CpuSingle(n, o)]
    /\ UNCHANGED <<system, ctx, sample, world>>

StoreIdle(p) ==
    /\ pc[p] = "idle" /\ pc' = [pc EXCEPT ![p] = "total"]
    /\ ctx' = [ctx EXCEPT ![Static(p)].idle = wait[p].read.idle]
    /\ UNCHANGED <<system, wait, sample, world>>

\* Mutant: only the first total is kept.
NewBaselineOnce(o, n) ==
    IF o.total # 0 THEN o ELSE [o EXCEPT !.total = n.total, !.sys = n.sys, !.first = FALSE]

NewBaseline(o, n) == [o EXCEPT !.total = n.total, !.sys = n.sys, !.first = FALSE]

StoreTotal(p) ==
    /\ pc[p] = "total" /\ pc' = [pc EXCEPT ![p] = "rest"]
    /\ ctx'    = [ctx EXCEPT ![Static(p)] = NewBaseline(@, wait[p].read)]
    /\ sample' = [wait[p] EXCEPT !.read = NoUsage.read]
    /\ wait'   = [wait EXCEPT ![p] = NoUsage]
    /\ UNCHANGED <<system, world>>

\* A tick of the machine; a process that ends.
CpuTick(state) ==
    /\ Total < MaxTicks
    /\ world' = [world EXCEPT ![state] = @ + 1]
    /\ UNCHANGED <<system, ctx, pc, wait, sample>>

ProcessEnds ==
    /\ system = "vms" /\ world.gone < world.user
    /\ world' = [world EXCEPT !.gone = @ + 1]
    /\ UNCHANGED <<system, ctx, pc, wait, sample>>

CpuNext == \/ \E p \in CpuPlots : ReadTicks(p) \/ CannotRead(p) \/ Compute(p) \/ StoreIdle(p)
                                       \/ StoreTotal(p)
           \/ \E state \in {"idle", "sys", "user"} : CpuTick(state)
           \/ ProcessEnds

-----------------------------------------------------------------------------
(* Properties                                                              *)

Abs(n) == IF n < 0 THEN -n ELSE n

\* The value v is the share of the period t, of which a dual plot shows the
\* system's part too, up to the rounding of unixware.
IsShare(v, t) ==
    LET Error(a, b) == 2 * Abs(a * t.of - b * v.of)
    IN  \A e \in {Error(v.busy, t.busy), Error(v.sys, t.sys)} :
          e <= IF system = "unixware" THEN t.of ELSE 0

\* A cpu plot shows the busy part of the time since the last collection of any
\* plot that uses the same variables, which with two plots need not be its
\* own.  It is wrong at most while two collections cross each other, which may
\* mix their baselines, and once after that; on vms, where the time of
\* processes that end is lost; and on unixware when a thousand times the ticks
\* and half of them, for rounding, do not fit 32 bits, as in the first collection
\* after half a day of uptime.
CpuShareOfPeriod == system \in CpuPorts =>
    LET s == sample IN
        /\ s.sound /\ s.period.of > 0 /\ s.period.busy >= 0
        /\ system = "unixware" => 1000 * s.period.of + s.period.of \div 2 < TickWord
        => IsShare(s.value, s.period)

=============================================================================
