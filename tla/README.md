# Verification of sng

TLA+ models of sng, the System & Network Grapher, with the TLC configurations
that check them and TLAPS proofs about them. The models are translated from the
C sources; where a model and a source line disagree, the model is wrong.

- [1. The system](#1-the-system)
- [2. Modules](#2-modules)
- [3. What each run checks](#3-what-each-run-checks)
- [4. What is proved](#4-what-is-proved)
- [5. What the checks taught us about the code](#5-what-the-checks-taught-us-about-the-code)
- [6. Not modelled](#6-not-modelled)
- [7. What is left](#7-what-is-left)
- [8. How to run it](#8-how-to-run-it)

## 1. The system

sng plots what it samples at a fixed interval: one data source per plot, one or
two lines per plot, in a window and, on request, as a GIF over HTTP.

### Threads

| thread | code | does |
|---|---|---|
| main | `main.c`, `plot.c`, `gfx/*` | starts the others, waits for events, follows the window's size, draws, and is the only one that resizes sample buffers |
| collector, one per plot | `threading.c`, `ds/*.c` | asks its data source for a value, pushes it into the plot's sample buffer(s), waits for its timer |
| http, at most one | `httpd.c` | accepts one client at a time and draws the same buffers into a GIF |

They share the sample buffers and the data sources' contexts. Only the writers
of a sample buffer (collector and main) lock; readers verify what they copied
and retry. `atomic_load` and `atomic_store` are plain memory accesses
(`compat.h`). What a source shows as its last value is read without any lock.
No thread is ever joined.

### Components

| component | state | operations | what makes it correct | module |
|---|---|---|---|---|
| sample ring buffer (`ringbuf.c`) | two arrays, size, head, tail, count, two mutexes | create, push, resize, read_snapshot | always the newest samples, consecutive, each with its timestamp; mutexes released on every path; a snapshot is one state of the window, or known how it may differ; a reader returns | RingBuf, SampleWindow |
| dual plot (`threading.c`, `plot.c`, `httpd.c`) | two ring buffers | push into both, resize both, draw both | a column shows the two values of one collection | PairedBuffers |
| plot drawing (`plot.c`, `httpd.c`) | none of its own | a frame of the samples and the clock | each column tells the samples of its age; lines join neighbours; the hover text is of the sample on top | PlotFrame |
| event loop (`plot.c`, `main.c`) | cached window size, last plot width, needs_redraw, fullscreen, running | plot_system_update | frames of the window's size from buffers of that size; nothing noted stays undrawn; each way to end ends | PlotLoop |
| X11 backend (`gfx/x11.c`) | window width, pixmap, one pending event, resized flag | poll, wait, get_event, get_size, fullscreen requests | every event acted on or superseded; pixmap as wide as the frame | PlotLoop |
| other backends (`gfx/gtk*.c sdl*.c glfw.c win32.c cocoa.m`) | as X11, with a close flag, a surface or a bitmap | as X11 | a request to close is answered, the screen ends up showing all | Backends |
| startup and shutdown (`main.c`, `threading.c`, `datasource.c`) | the objects created so far, the threads | create, connect, start, unwind, end | what is freed, when, and under whom | Startup |
| periodic timers (`os/*_timer.c`) | next deadline | create, wait | cadence kept under jitter, no wait cut short or long | PeriodicTimer |
| http server (`httpd.c`) | listening socket, running, the client | accept, serve, stop | each request is answered, in full | HttpServer, Program |
| gif encoder (`httpd.c`) | table, code width, bits, blocks, buffer | compress, output | the GIF decodes to the frame | GifEncoder |
| ping (`ds/ping.c`, `os/icmp_ping.c`, `os/unix-ping.c`, `os/win32.c`) | socket, resolution state, sequence | collect | a value belongs to its own echo; a name is tried again in time | PingSource |
| tcp (`ds/tcp.c`) | resolution state | collect | a time is the time of a connection; no socket is left open | TcpSource |
| bandwidth (`ds/snmp.c`, `ds/if_thr.c`) | previous counters and time | collect | every byte enters one rate | RateSource |
| SNMP client (`ds/snmp_client.c`) | request-id | get one counter | the counter asked for is the one returned | SnmpClient |
| shell (`ds/shell.c`) | pipe | collect | the last complete line's number | ShellSource |
| cpu (`ds/cpu.c`, `os/*.c`) | ticks of the last collection, static | collect | the busy part of the period | CpuSource |
| clock (`ds/clock.c`) | the last minute | collect, show | it tells the time | ClockSource |
| text under a plot (`ds/*.c`) | the last values and their count | collect, get_stats | what is shown was measured lately | SourceText |
| configuration (`config.c`, `ini_parser.c`) | the parsed file, the plots | load | search order; a user's file is never lost; settings reach their plot | ConfigLoad, IniFile |

### Interactions

The collector *calls* its data source and *pushes* into the ring buffers (shared
memory, mutex). Main *resizes* the ring buffers (shared memory, two mutexes) and
*reads* them without a lock, as the http thread does; both also *read* the
sources' contexts. Main and the window system exchange *messages*: events one
way, requests to the window manager the other way; both are asynchronous, and
`XGetGeometry` and `XGetWindowProperty` are round trips that overtake the events
still queued. The sources talk to the *network*, to child processes and to the
kernel. A signal sets a flag.

### What is hard here

Lock-free readers against two writers; arrays that are replaced under readers;
two buffers that no lock covers together; one pending event for a whole batch of
them; sizes learnt from the server ahead of the events that announce them;
requests the window manager has not acted on yet; unsigned sizes that wrap;
allocation failures whose result is ignored; startup failures with threads
already running; late replies, clock jumps and counter wraps; static baselines
that several threads share; a server that waits for its client without a limit;
a sample file written over what is there. `PROJECT.json` lists each hazard at its
line with the properties aimed at it.

## 2. Modules

A component has a module of its own, whose variables are the component's and
whose header says what is abstracted. `MC*` modules are the instances TLC checks;
each `.cfg` gives the constants. Some of them check several components with one
run: then `Init` chooses the component, and the others stand still.

### The sample buffers

**SampleWindow** is the abstract specification: a bounded sliding window over a
numbered stream of samples. `Push` appends the next sample and drops the oldest
of a full window, `Resize(n)` keeps the newest `n`. It is what every other part of
the program believes a sample buffer to be.

**RingBuf** is `ringbuf.c`, access by access: one sample buffer with its collector,
the main thread and the http thread. A step is one access to the shared structure
in program order:

| code | actions |
|---|---|
| `ringbuf_push` | `PushLock PushData PushTime PushHead PushCount PushUnlock` |
| `ringbuf_resize` | `ResizeBegin ResizeLock ResizeGiveUp ResizeCopy ResizeFree ResizeArrays ResizeSize ResizeHead ResizeTail ResizeCount ResizeClear ResizeUnlock ResizeReturn` |
| `ringbuf_read_snapshot` | `ReadCount ReadHead ReadTail (ReadValue ReadTime)* VerifyCount VerifyHead VerifyTail ReadReturn`, with `Retry` after a failed verification |

What is merged, and why it loses nothing the properties speak of: loads of a
variable that only the owner of a held mutex stores to belong to the next step;
the filling of arrays no other thread has a pointer to yet is one step; the pair
of `free`s and the pair of pointer stores are one step each, and so are loading
an array pointer and the element behind it. An element of eight bytes is read and
written as a whole. Freed memory has no index left, and reading it (or past the
end, or what `malloc` returned) gives `Garbage`. A sample is its number in the
stream of pushes and is stored as value and as timestamp, which is how a property
can tell that a timestamp belongs to a value. `ResizeGiveUp` stands for the early
return at an unchanged size and for both failing allocations: they end alike.

`LogWindow` and its helpers are the refinement mapping: they say where in the
middle of a push or a resize the abstract window changes (a push with its store
to the data array, a resize when the old arrays are freed). The history variables
`pushed` and `disturbed` are read by properties only.

**PairedBuffers** is a dual plot: two `SampleWindow`s, composed with `INSTANCE`;
`PushPrimary` and `PushSecondary` (the collector), `ResizePrimary` and
`ResizeSecondary` (main, each of which may fail for want of memory), `DrawFirst`,
`DrawSecond`, `DrawGiveUp`, `DrawDone` (main and http). A snapshot is one step here.

### From the samples to the screen

**PlotLoop** is `plot_system_update` with the X11 backend:

| code | actions |
|---|---|
| `main` loop | `Wake` |
| `graphics_wait_events`, `graphics_poll_events` | `PollEvent` (one queued event: `EndsProgram`, `Pending`, `NoteWidth`), `PollDone` |
| event switch of `plot_system_update` | `HandleEvent` |
| `FULLSCREEN_FORCE` check | `ForceFullscreen`, `Reassert` |
| size, buffers | `FollowSize` with `LearnWidth` (`window_get_size`), `FollowWidth`, `ResizeBuffers` |
| `plot_system_needs_redraw` | `NeedsRedraw`, `DecideRedraw` |
| `plot_draw` | `DrawPlot`, `Snapshot`, `SnapshotFails` |
| `renderer_present` | `Present` |

Around it is a world that is not in `src/` and modelled from how the code uses it
(marked external in `PROJECT.json`, as in all other modules): the X server's queue
and window, the window manager's queue of requests, the user, the clock. Width
stands for width and height; one buffer per plot stands for one or two; a request
to the window manager stands for the pair of messages (fullscreen, above) the code
always sends in that order.

**Backends** is the same way of events and frames through the other toolkits, which
differ in who remembers a request to close (a flag, or the one event slot), in how
long a wait lasts, and in when what was drawn reaches the screen. The two versions
of gtk, and of sdl, differ in names only and are one.

**PlotFrame** is what a drawing shows: the samples and the clock are its state, and
the bars, the error lines, the second line (`fb_line`, pixel by pixel) and the
sample under the mouse are operators of it, translated from `plot_draw` and from
`render_chart` of `httpd.c`, which lay a plot out in the same way.

**GifEncoder** is `lzw_compress`, `lzw_output` (of which `Pack` is the first half) and
the growing buffer `gbuf_t`, with the decoder of the GIF standard on the other side.
`ReadByte` takes the next byte of a block, or of the next block, when the bits at hand
do not make a code; `ReadCode` takes a code. `Pow2[n]` is the code's `1 << n`.

### The collectors

**DataSource** has the variables that all sources share; each source module gives
them its own meaning. **Sources** puts the source modules together: the program's
source is one of them and stays that one. What several of them have in common,
`RetryPaced` and `TextTellsSource`, is stated there.

| module | code | world around it |
|---|---|---|
| PingSource | `ping_collect`, its resolution and retries, the echo functions of `unix-ping.c`, `icmp_ping.c` and `win32.c` | replies that are lost, late or overtake each other; names that do not resolve; other plots with the same target; a clock that is set |
| TcpSource | `tcp_init`, `tcp_resolve`, `tcp_collect` | hosts that refuse, stay silent or answer late; signals; a clock that is set |
| RateSource | the collect functions of `snmp.c` and `if_thr.c`, with their baselines | counters that wrap or start over, requests that fail, a clock in whole seconds |
| SnmpClient | the request in BER, the exchange, the reading of the answer | agents that write lengths in four ways or answer with errors; lost and late datagrams |
| ShellSource | `shell_init`, `shell_collect` | a command that writes, closes its output, ends |
| CpuSource | `cpu_collect` and the twelve ports of `os_cpu_get_stats` | ticks, failing reads |
| ClockSource | `clock_collect_dual` and the text made of it | time, and a drawing at any moment of it |
| SourceText | the order in which each source stores its last values and count, and in which `get_stats` reads them | - |

**PeriodicTimer** is the rhythm of a collector with the five versions of the timer for
Unix systems. Instants are relative to the present, so that time has no bound.

### The program

**Startup** is the life of the program: what `main` acquires, what
`data_collector_create` and `data_collector_start` create, the way out of each
failure, the loop, and the end; an object is a member of the set `heap`.
**HttpServer** is the accept loop with clients that send in pieces, read, or hang up;
requests are short sequences of tokens, answers a few units. **Program** composes
both: the server starts last and is stopped without being waited for.

**ConfigLoad** is which file `config_load` reads and writes: a file is what loading it
comes to, and the program may be killed at any step and started again. **IniFile** is
`ini_parse_file` line by line and the plots that `config_load` makes of the sections.

### Proofs and mutants

Eight modules hold theorems and nothing else, each about the modules it extends
(section 4): **RingBufProofs**, **PairedBuffersProofs**, **PlotLoopProofs**,
**PeriodicTimerProofs**, **ProgramProofs** (`Program` with `Startup` and
`HttpServer`), **ConfigProofs** (`ConfigLoad`, `IniFile`), **SourceProofs**
(`Sources`, which is all sources) and **RenderProofs** (`PlotFrame`, `Backends`).

Operators commented `Mutant:` are not part of any specification. Each is a
plausible bug in the definition that follows it, and putting it in that
definition's place makes a property fail: the evidence that the property can.

## 3. What each run checks

| run | instance | properties |
|---|---|---|
| `ring_main` | a collector that pushes, a main thread that resizes and reads | `TypeOK`; `MutexDiscipline` on every path; `IndicesAgree`; `WindowIsNewest`: always the newest samples, through any resizes; `MainReadsLiveArrays`; `ImplementsWindow`: every step implements `SampleWindow` |
| `ring_http` | the same two, and a reader that overlaps resizes | `SnapshotTornAtMostAtOldest`, `SnapshotFresh` |
| `ring_live` | as `ring_http`, under fairness of the reader only | `SnapshotReturns`, even if a writer stops for good with a mutex in hand |
| `paired` | the two buffers of a dual plot | `AlignedFromNewest`; `LevelUnlessDisturbed`, and level again once the window has been refilled; `ColumnsWithinPushes` |
| `loop_safe` | the event loop against X server, window manager, user | `FrameFits`: a frame has the pixmap's width and comes from buffers of that size; `NothingLeftUndrawn`; `FullscreenFlagAgrees` |
| `loop_live` | the same under fairness | `WindowSettles`, `ForcedBackToFullscreen`, `EndsWhenAsked`, `ShownInTime` (samples, and exposed parts) |
| `render` | one frame, one GIF or one window | `PlotTellsSamples`, `HoverIsNearest`; `DecodesToFrame`; `WindowAnswers` (a request to close ends the program in that pass, and two intervals after the last event the screen shows all) |
| `timers` | one of five timers | `NoDrift`, `WakesInTime`, `KeepsCollecting` |
| `sources` | one source | `TripIsOfThisEcho`, `RetryPaced`, `ConnectIsTrue`, `BytesAccountedOnce`, `NewestLineShown`, `CpuShareOfPeriod`, `CounterIsTheOneAsked`, `TextTellsSource` |
| `program` | start, threads, server, end | `MemoryOfThreads`: what is freed and which of it a thread still uses; `AnswerWhole`; `ClientsAnswered`; `SignalEnds` |
| `config` | the file, or what is in it | `UserFileKept`, `SettingsReachTheirPlot` |
| `config_doc` | the file | `SampleOnlyIfMissing`, which README.md states and the code violates |

### Bounds

- *Ring buffer.* Sizes 1 to 4 with up to 6 pushes let the buffer wrap, and shrink
  and grow while partly full, full and wrapped; three samples of reader capacity
  put both sides of `count < buffer_size` in reach. `ring_http` has sizes 2 and 3
  and five pushes, so that a reader sees two pushes into a full buffer, a wrap and
  a reallocation within one attempt; retries are in `ring_live` and `ring_main`.
- *Pairs.* Sizes 1 to 3, five collections, reader capacity 2.
- *Event loop.* Of a window of width 6 a plot gets some slots and of one of width 4
  none; at width 2, or 3 in `loop_live`, the size wraps (`Word` = 16 stands for 2^32),
  and with 2 the very first plot has width 0. Two inputs give each race of two of them with each
  other and with the program. A user who outpaces the poll loop for ever keeps it
  from ever drawing, which no fairness of the program can prevent, so inputs are
  bounded. `loop_live` has one input at most once there are samples, two before.
- *Frames.* Plots of 5 columns and up to three samples in six ticks with two ticks in
  an interval: two samples in a column, a column without one, a sample that left the
  plot; the millisecond clock starts just before it wraps; one jump of three ticks.
  Jumps are limited to plots of one value.
- *GIF.* Codes of up to four bits and blocks of two bytes stand for twelve bits and
  255 bytes: the table fills and is cleared within frames of ten pixels. Memory ends
  after 5 bytes or never. The theorem `GifDecodes` has none of these bounds.
- *Other backends.* Three events and one sample, two widths. Two intervals without an
  event are what the slowest of them needs: win32 shows what it has drawn anew
  after a resize one timeout later.
- *Timers.* Two ticks in a millisecond, intervals of 4 ticks, a threshold of 18, up to 26
  ticks of lateness and two jumps: smaller than an interval, larger, beyond the
  threshold, in both directions.
- *Sources.* Two plots with one target and two echoes each, trips up to 3 with a timeout
  of 2; counters modulo 4 and up to 6 bytes, two wraps; four lines and three runs
  of a command; three ticks of the cpu clock (with `TickWord` = 2002, in place of 2^32, unixware's
  product of 1000 and the ticks overflows after two, with the half that it
  adds to round just beyond the word); every minute of the day as start of the clock. The
  community lengths of the SNMP client put the content of a request at 127 and
  128, and at 255 and 256, bytes, and the string's own length beyond 127.
- *Program.* Up to two plots (with the server, one), each of one or two values; two
  clients of which one may stop at any point; a backlog of one.
- *Configuration.* Three starts of the program; two names, files of up to four lines,
  some of which begin with two targets.

### What the snapshot properties assume

They speak of verified snapshots (`Verified`): no reallocation overlapped the attempt,
and fewer than `size` pushes were begun during it. Beyond that the comparison of
count, head and tail shows nothing, since head and tail return to their values
after `size` pushes; in the code an attempt takes microseconds and pushes are a
second or more apart.

### Fairness

| module | assumed | because |
|---|---|---|
| RingBuf `FairSpec` | a reader that has begun keeps taking steps | it takes no lock; nothing is assumed of collector and main |
| PlotLoop `Fairness` | main takes steps, requests to the window manager are acted on, time passes | each wait of main has a timeout; users, signals and collectors do what they like |
| PeriodicTimer `Spec` | collections end, waits that are over end, time passes | the sources' own waits have timeouts |
| Program `Fairness` | main and the server take the steps they can; `accept` gets a connection some time (strong fairness: other clients may come and hang up); polite clients send and read | one thread each; leaving the loop is fair only after a signal, since no user need quit |

### Deadlock

is checked for RingBuf, PairedBuffers and PeriodicTimer: in no state are all threads
blocked. The others may stop: the program ends, a frame is complete, a bound on the
world is reached.

## 4. What is proved

Each theorem below is about every value of the constants that the assumptions
(`ASSUME`) of the modules allow, any number of steps and every interleaving. The
assumptions say of what type the constants are, and that sets of threads do not
overlap; the others are listed at the end of this section. A bound such as
`MaxPush` or `MaxEvents` is any number.

| module | theorem | property |
|---|---|---|
| RingBufProofs | `TypeCorrect` | `TypeOK` |
| | `MutexesAreDisciplined` | `MutexDiscipline` |
| | `IndicesAlwaysAgree` | `IndicesAgree` |
| | `WindowAlwaysNewest` | `WindowIsNewest` |
| | `MainAlwaysReadsLiveArrays` | `MainReadsLiveArrays` |
| | `RingBufImplementsWindow` | `ImplementsWindow`, the refinement of `SampleWindow` |
| | `SnapshotsTornAtMostAtOldest` | `SnapshotTornAtMostAtOldest` |
| | `SnapshotsAreFresh` | `SnapshotFresh` |
| PairedBuffersProofs | `AlignedAlways` | `AlignedFromNewest` |
| | `LevelAlways` | `LevelUnlessDisturbed` |
| | `ColumnsAlways` | `ColumnsWithinPushes` |
| | `TypeCorrect` | the types of the variables |
| PlotLoopProofs | `TypeCorrect` | the types of the variables |
| | `FlagAgrees` | `FullscreenFlagAgrees` |
| | `FramesFit` | `FrameFits` |
| | `NothingUndrawn` | `NothingLeftUndrawn` |
| PeriodicTimerProofs | `DeadlinesDoNotDrift` | `NoDrift` |
| | `TimerWakesInTime` | `WakesInTime` (an action property) |
| ProgramProofs | `MemoryHolds` | `MemoryOfThreads` |
| | `AnswersAreWhole` | `AnswerWhole` |
| ConfigProofs | `UserFileIsKept` | `UserFileKept` |
| | `SettingsAreThoseOfTheFile` | `SettingsReachTheirPlot` |
| SourceProofs | `ConnectAlways` | `ConnectIsTrue` |
| | `EveryByteOnce` | `BytesAccountedOnce` |
| | `NewestLineAlways` | `NewestLineShown` |
| | `TextAlways` | `TextTellsSource` |
| | `CpuShareAlways` | `CpuShareOfPeriod` |
| | `TripAlways` | `TripIsOfThisEcho` |
| | `RetryAlways` | `RetryPaced` |
| | `CounterAlways` | `CounterIsTheOneAsked` |
| RenderProofs | `PlotAlwaysTells` | `PlotTellsSamples` |
| | `HoverTellsNearest` | `HoverIsNearest` |
| | `WindowAlwaysAnswers` | `WindowAnswers` |
| | `GifDecodes` | `DecodesToFrame` |

### The arguments

*The ring buffer* takes three layers. `Control` is inductive by itself: types, mutex
ownership as a function of the two program counters, and with it that push and
resize never store at the same time. `Buffer` is inductive given `Control`: in each
phase of a push and of a resize it says how head, tail and count relate (count
forward from tail is head, modulo size), which array holds which samples, and
which of them a resize has copied so far. None of the properties is
inductive alone: `WindowIsNewest` at a resize needs the relation between the
indices, which needs that no push is in between, which needs the mutexes.
`Snapshots` is the layer of the readers, who hold no lock: what an attempt that no
resize has disturbed has copied so far. While the buffer is not full an unchanged
count means that no push was completed, and the copy is exact (`Partial`); of a
full buffer the distance that tail has moved tells how many were, and if it is none
the copy is exact but for the slot of the oldest (`Full`, `Torn`). The proof shows
that the third comparison, of head, decides nothing that count and tail have not.

*The refinement* rests on the first two layers. `WindowIsNewest` makes the mapped
window a function of two numbers, how many samples were pushed and how many are held
(`LogIsStream`); `NextLog` shows what each step does to those numbers, and
`StreamPush` and `StreamResize` that this is what `SampleWindow` does to the
sequence. The push takes effect with its store to the value array, the resize
with the free of the old arrays. It needs one more small invariant, `Ready`: what a
thread has computed before these steps still holds when it takes them, because
nothing moved in between.

*The pair.* Each buffer alone is a stretch of the stream of samples (`Stream`). The
invariant `Paired` is about the two: how far each is along (`InStep`), how many
samples they hold between the two pushes and between the two resizes (`Filled`),
and how many collections it takes until a skew has left the buffers
(`LevelUnlessSkew`). `Drawn` adds what a drawing thread has in its hands: between
its two snapshots the second buffer loses no more samples than it is given.

*The event loop.* `Types` says that a size has from one to 2^32 - 1 slots in spite of
the unsigned subtraction that makes it. The flag follows from what the window is or
the last request in the queue will make of it. For the frames, `WidthKnown` says that
the width `plot.c` remembers is the pixmap's unless a flag says otherwise,
`BuffersFollow` that the buffers have the size of that width but where memory was
denied, and `Noted` that nothing is left undrawn when main goes to sleep.

*The timers.* A deadline is a whole number of intervals after the first or the last
resynchronisation, by the arithmetic of `%` with negative numbers too. What is left
of a wait reaches to the deadline but for what the clock was set back (`Covered`),
for the kernel timers at any time and for the sleeps while they last.

*Start, server and end.* `Life` ties every object in `heap` to where main is, to
what has been created (`Created`), and to whether the start has failed; `Conversing`
ties what the server has sent to what its client asked for. `Serving` joins
them: while a connection is served, main loops or is stopping.

*The configuration.* `Known` is what must be true of the two places for a file to be
overwritten later, at each step of the search. The parser's invariant `FileInv` relates
sections to the lines read so far, with the key of every line in the section that
it belongs to; what `config_load` makes of them follows from searches for
the first of a sequence with some property (`Told`).

*The sources.* `Sources` stays with one of them (`Alone`), so each has an invariant of
its own. tcp: what a collection has open, and how long it has been at it. Bandwidth:
the baseline is what the counters were when the bytes counted so far had passed,
through wraps (`RateInv`). Shell: a child is there as long as the stream is, and the
lines in the pipe ascend from the last one read. Text: which fields the collector
has stored, in the order of each source, and what the drawing thread has read of
them (`FieldsStored`, `TextRead`); the clock by cases over its scales. cpu: the static
variables are what the last collection left unless one crossed it, and what each
port computes of two readings is the share, with unixware's rounding
(`Settled`, `Judged`). ping: where the reply to each echo is, and in whose hands
(`Mail`, `Only`).

*The SNMP client.* The state is soon told (`SnmpInv`: the agent has heard what was
asked, and answers belong to requests up to the last); what takes the work is that
reading undoes writing. A number is related to its digits by one division after the
other, at most five in base 128 or 256 since it has 32 bits (`DigitsAre`). `Framed`
says that some octets are the element of a tag and a content, with the length in any
of three ways; what `encode_length` and the agents write is framed (`EncodedFramed`,
`WrittenFramed`), both the rules of BER and `decode_length` read what is framed for
what it is (`ElementFramed`, `EnterFramed`, `SkipFramed`), and so through the nested
lists of a message (`HeardLaid`, `ValueLaid`), with integers, names and counters in
them (`IntegerIsRead`, `ArcsAreRead`, `WordIsRead`). No length needs more than two
octets because no message is that long (`Upto`).

*The frame.* `FrameInv` says that the clock tells the age of each sample unless it was
set since, modulo its word. A pixel is what the newest sample that covers it gives it,
from which the columns follow (`ColumnsTell`). For the line, `fb_line` is a
recursion, of which a set-based induction (`LeastOf`, `Induction`, from the
library's `WFMin`) shows that each turn steps the longer way, that the error stays
within half a pixel of the straight line, and that it ends at the other end
(`SecondLineJoins`). `HoverTellsNearest` is about a fold that keeps the nearest so far.

*The toolkits.* `WindowInv` says where a request to close is remembered (`Heard`), whether
the width that the plots know is the window's or something still to come will tell
(`Known`, `Told`), and what the screen, the surface and the pending redraw hold as
the idle time grows (`Settled`, `Painted`, `Fitted`).

*The GIF.* `GifInv` is about three things on the way from one table to the other. Of
the bits that the encoder has produced so far, the whole bytes are in the stream and
in the block being filled, the rest in the accumulator (`Sent`, for which `Layout`
says where the blocks of a stream begin). These bits are a transcript of codes, each
with the width that a decoder has when it comes to it, and decoding them one by one
gives the pixels before the string being matched (`Coded`). And encoder and decoder
agree as far as they must (`Going`): `Widths` says that the decoder, who is one entry of
the table behind, makes its codes wider at the same code, and `Strings` that each entry
stands for the string of its first part and one pixel more, the newest of which the
decoder knows as soon as it has the code that follows it. One code written
(`CodeWritten`), one pixel (`PixelStep`) or a clear code (`ClearWritten`) keeps this;
behind the end code the stream is `Complete`. From there on the stream is fixed, and
the browser's place in it is a number of bytes read and of codes decoded: the bits
between the two are those it holds (`Reading`), they spell the next code once there are
enough of them, since some bits spell one number only (`SpelledOnce`), and there is a
byte left as long as there are not. Numbers are related to bits by halves, through the
set-based `Induction` and `Recursion`, without exponents.

### Assumptions with content

| assumption | because |
|---|---|
| `PingTimeout`, `TcpTimeout` < `ClockWord` | five seconds and less, of a clock of 32 bits in milliseconds |
| `DefaultWidth > 2 * Margin + 2`, `Word > w + 2 * Margin + 2` for each width | the window opens with room for a plot; no window is 2^32 wide |
| `Interval % Ms = 0` | an interval is a number of milliseconds |
| `MaxTicks < TickWord`, `MaxTicks < Word` | the uptime fits the counters; the samples are of one turn of the millisecond clock |
| `Width > 3`, `Height > 4` | a smaller plot has no column of its own, or no room for a bar; what little the code draws then is not modelled |
| `BufferSize > 0`, `Interval > 1` | `ringbuf_create` gets a width or the default; two collections are never in one tick |
| `Communities` up to 980 | the message is built in 1024 octets, 44 of which the rest of the longest request takes; a longer community overruns them |
| `Instances` and `Times` below 2^32 | they are `uint32_t` when they are encoded |
| `PalCount <= Pow2[MaxBits - 2]`, `MaxBits` up to 12, `MaxBlock` up to 255 | 256 colours are fewer than 1024; when the codes have the greatest width, `lzw_output` makes `maxcode` the number of codes, which it does only as it widens them. With codes that have this width from the beginning they would grow beyond it |
| no name in `NamesRead` is `global` or `targets` | these sections are not plots |

### What is only model-checked

Liveness, which TLAPS cannot prove: `SnapshotReturns`, `WindowSettles`,
`ForcedBackToFullscreen`, `EndsWhenAsked`, `ShownInTime`, `KeepsCollecting`,
`ClientsAnswered`, `SignalEnds`.

### What proving corrected

The first form of each of these was found too weak, or wrong, by a proof that
did not go through:

- `FrameFits` must leave out a first plot width of 0, which is not told apart from no
  width at all: the buffers keep the size they were made with. The run has a width
  for it now.
- The lag that `TripIsOfThisEcho` allows `unix-ping.c` was bounded by the two echoes of
  the run; it grows with each late reply.
- The millisecond clock tells the age of a sample only if it was not set *since*; that
  two jumps cancel does not help a sample taken between them.
- unixware's product overflows with the half that is added for rounding, a little
  sooner than without.
- The widths of the codes of a GIF are right only if there are two more bits than
  the colours need; the assumption asked for one. And that the browser has the bits of its next
  code must be said byte by byte, which is what a browser does, in place of a conversion
  of the whole stream.
- The names and values that the plots get are those *as read* by `trim_whitespace`,
  which are not always those in the file.

## 5. What the checks taught us about the code

A disagreement with what the repository says, shown by `config_doc`:

- `README.md:88` says that a sample is written if there is no `sng.ini`, after a look
  in the current directory and then in the configuration directory. If the file in
  the current directory parses but has no section `[global]`, the other place is not
  looked at; its file is opened for writing and replaced by the sample
  (`config.c:227`).

What the properties had to allow for, since the code does it:

- A push overwrites the oldest slot of a full buffer before it changes any of the
  variables readers compare, so a verified snapshot can begin with a sample that
  is newer than all others, or with a value and a timestamp of different samples.
  `SnapshotTornAtMostAtOldest` is the strongest property that holds.
- A buffer larger than the readers' 2048 elements is copied from its oldest
  sample on, so that a window wider than 2048 columns lacks its newest samples.
- The two buffers of a dual plot agree counted from the newest, yet are drawn
  counted from the oldest. A push between the two resizes, or a failed resize,
  shifts all columns against each other until the window has been refilled.
- `plot_system_needs_redraw` compares with counts and heads that are never
  updated. That this makes every update draw is what repairs exposed areas, for
  Expose events are ignored.
- A `q` followed by another key or a motion within one poll is lost with X11; with
  win32 and cocoa so is a click on the close button.
- With win32 the frame drawn right after a resize is discarded with its bitmap; the
  window stays black until the next timeout. Its `WM_TIMER` and `WM_QUIT` cases never
  occur: nothing sets a timer, and nothing posts a quit.
- A window narrower than its margins asks for almost 2^32 slots.
- A refresh interval or a `max_fps` of 0 divides by zero; from the 33rd plot on the
  index into `plot_stats_cache` is past its end.
- When a later thread of a start cannot be created, or the http port is taken, main
  frees the sources and buffers under the collectors that run already.
- All timers but that of Linux wait for an instant of the clock of the day: set back by
  an hour, that clock stops the plots for an hour; so it does the retry of a name.
- `unix-ping.c` takes a late reply for the answer to the next echo, and from then on
  lags; `icmp_ping.c` with raw sockets takes the reply to another plot's echo.
- All cpu plots share one baseline: each shows the time since the *other's* collection.
- The text of the clock guesses its scale from the values: in the first half of the
  morning hours a 24-hour clock shows twice the minutes, and minutes that are no
  multiple of 5 may show as the one before, as minute 41 does.
- `trim_whitespace` moves one character too few: what follows leading blanks keeps its
  end twice, so `key = value` gives a value no one wrote.
- The server thread waits for its client without a timeout: one that says nothing
  keeps all others waiting.
- An SNMP answer is matched by the port alone; a late one to a request that had the
  same port is taken.

## 6. Not modelled

- Colours, fonts, the layout of several plots and the wording of texts; the drawing
  primitives of the backends, which are library calls without state of their own.
- Minima, maxima and averages: functions of the values that no plot shows.
- How each port reads memory, load averages and interface counters: a system call
  that reads one value and keeps nothing. The cpu ports, which do keep something,
  are modelled.
- `ringbuf_pop`, `ringbuf_is_full`, `ringbuf_is_empty` and the single-value collect
  functions of the dual sources: nothing calls them.
- Reordering of memory accesses by the processor: a step is one access in program
  order, and a word is read and written as a whole.
- Build and packaging.

## 7. What is left

All invariants and action properties that the runs check are proved; the liveness
properties are checked on the instances of section 3.
