------------------------------ MODULE PlotLoop ------------------------------
(***************************************************************************)
(* The main thread's event loop: main.c calls plot_system_update (plot.c), *)
(* which waits for events of the X11 backend (gfx/x11.c), acts on the one  *)
(* that is left, reasserts fullscreen, follows the window's size with the  *)
(* sample buffers' and draws and presents a frame when one is due.         *)
(*                                                                         *)
(* Around it, and asynchronous: the X server, which queues events and      *)
(* knows the window's size; the window manager, which acts on the          *)
(* program's requests in its own time; the user; the collector threads;    *)
(* signals.                                                                *)
(*                                                                         *)
(* A window has a width only (height decides no size), a plot one buffer   *)
(* (a secondary one is resized and drawn right after it: PairedBuffers),   *)
(* and a request to the window manager stands for the two messages,        *)
(* fullscreen and above, that the code always sends in this order.         *)
(***************************************************************************)
EXTENDS Integers, Sequences, FiniteSets

CONSTANTS PlotCount,    \* how many plots the window has
          Modes,        \* the config's fullscreen setting: subset of {"off", "on", "force"}
          Widths,       \* window widths the server may give
          DefaultWidth, \* config->default_width, the width the window is created with
          Margin,       \* config->window_margin
          Word,         \* number of uint32_t values (2^32 in the code)
          ReadCap,      \* samples a snapshot has room for (2048 in the code)
          MaxQueue,     \* bound on the events in the X queue
          MaxRequests,  \* requests in flight with which no further interval passes
          MaxInputs,    \* bound on what user, window manager and signals may do
          MaxSamples    \* bound on the samples of a plot

ASSUME PlotLoopAssumption ==
    /\ PlotCount \in Nat \ {0}
    /\ Modes \subseteq {"off", "on", "force"}
    /\ Widths \subseteq Nat \ {0} /\ DefaultWidth \in Widths
    /\ Margin \in Nat
    /\ DefaultWidth > 2 * Margin + 2
    /\ Word \in Nat /\ \A w \in Widths : Word > w + 2 * Margin + 2
    /\ ReadCap \in Nat \ {0}
    /\ {MaxQueue, MaxRequests} \subseteq Nat \ {0} /\ MaxInputs \in Nat /\ MaxSamples \in Nat

Plots == 1..PlotCount

VARIABLES
    \* the X server, the window manager and the rest of the world
    server_width,   \* the window's width
    wm_fullscreen,  \* _NET_WM_STATE of the window has the fullscreen atom
    requests,       \* the program's requests the window manager has not acted on
    queue,          \* events the program has not read
    exposed,        \* part of the window shows nothing since the last frame
    check_due,      \* refresh_interval_ms have passed since last_fullscreen_check_ms
    running,        \* cleared by SIGINT and SIGTERM
    \* gfx/x11.c
    width,          \* width of the window context and of its pixmap
    window_resized, pending_event,
    \* plot_system_t
    mode,           \* config->fullscreen
    fullscreen, window_size_dirty, cached_window_width, last_plot_width, needs_redraw,
    \* the plots' sample buffers
    size, count,
    pushed,         \* samples pushed so far; the newest has this number
    \* the main thread
    pc, plot,       \* where it is, and the plot it draws
    shot,           \* pushed when the plot's snapshot began
    drawn,          \* newest sample of each plot in the pixmap (0: none)
    \* the window's contents
    frame_width, shown,
    \* history, read by the properties only
    inputs,         \* how much user, window manager and signals have done
    last_key,       \* the last input event that can occupy pending_event
    meddled,        \* the window manager has changed fullscreen unasked
    denied          \* plots whose last resize found no memory

server   == <<server_width, wm_fullscreen, requests, exposed, check_due>>
context  == <<width, window_resized, pending_event>>
system   == <<fullscreen, window_size_dirty, cached_window_width, last_plot_width, needs_redraw>>
buffers  == <<size, count, pushed>>
drawing  == <<plot, shot, drawn>>
contents == <<frame_width, shown>>
history  == <<inputs, last_key, meddled, denied>>
vars == <<server, queue, running, context, mode, system, buffers, pc, drawing, contents, history>>

Least(a, b) == IF a < b THEN a ELSE b

\* Plot width minus its two border columns, as a uint32_t: a window narrower
\* than its margins wraps to a huge size.
NewBufferSize(w) == (w - 2 * Margin - 2) % Word

\* window_create, plot_system_create and data_collector_create: the first
\* fullscreen request is already on its way.
Init ==
    /\ mode \in Modes
    /\ server_width = DefaultWidth /\ width = DefaultWidth
    /\ wm_fullscreen = FALSE /\ fullscreen = (mode # "off")
    /\ requests = <<fullscreen>>
    /\ queue = <<>> /\ exposed = TRUE /\ check_due = FALSE /\ running = TRUE
    /\ window_resized = FALSE /\ pending_event = "none"
    /\ window_size_dirty = TRUE /\ cached_window_width = 0 /\ last_plot_width = 0
    /\ needs_redraw = TRUE
    /\ size = [p \in Plots |-> DefaultWidth - 2]
    /\ count = [p \in Plots |-> 0] /\ pushed = [p \in Plots |-> 0]
    /\ pc = "loop" /\ plot = 1 /\ shot = 0 /\ drawn = [p \in Plots |-> 0]
    /\ frame_width = 0 /\ shown = [p \in Plots |-> 0]
    /\ inputs = 0 /\ last_key = "none" /\ meddled = FALSE /\ denied = {}

-----------------------------------------------------------------------------
(* The world around the program.                                           *)

Keys == {"q", "r", "f", "motion"}

Configure(w) == [type |-> "configure", width |-> w]
Event(t)     == [type |-> t, width |-> 0]

\* One of the bounded number of things that happen to the program unasked.
Input == inputs < MaxInputs /\ inputs' = inputs + 1

Arrives(e) == Len(queue) < MaxQueue /\ queue' = Append(queue, e)

PressKey(k) ==
    /\ Input /\ Arrives(Event(k))
    /\ last_key' = IF k \in Keys THEN k ELSE last_key
    /\ UNCHANGED <<server, running, context, mode, system, buffers, pc, drawing,
                   contents, meddled, denied>>

Expose ==
    /\ Input /\ Arrives(Event("expose"))
    /\ exposed' = TRUE
    /\ UNCHANGED <<server_width, wm_fullscreen, requests, check_due, running, context,
                   mode, system, buffers, pc, drawing, contents, last_key, meddled, denied>>

UserResize(w) ==
    /\ w # server_width
    /\ Input /\ Arrives(Configure(w))
    /\ server_width' = w
    /\ UNCHANGED <<wm_fullscreen, requests, exposed, check_due, running, context, mode,
                   system, buffers, pc, drawing, contents, last_key, meddled, denied>>

\* The window manager enters or leaves fullscreen by itself.
WmToggle ==
    /\ Input
    /\ wm_fullscreen' = ~wm_fullscreen
    /\ meddled' = TRUE
    /\ UNCHANGED <<server_width, requests, exposed, check_due, queue, running, context,
                   mode, system, buffers, pc, drawing, contents, last_key, denied>>

Signal ==
    /\ Input
    /\ running' = FALSE
    /\ UNCHANGED <<server, queue, context, mode, system, buffers, pc, drawing, contents,
                   last_key, meddled, denied>>

\* The window manager acts on the oldest request; a window that changes state
\* may change its width.
WmHandle(w) ==
    /\ requests # <<>>
    /\ requests' = Tail(requests)
    /\ wm_fullscreen' = Head(requests)
    /\ w # server_width => wm_fullscreen' # wm_fullscreen
    /\ server_width' = w
    /\ IF w = server_width THEN UNCHANGED queue ELSE Arrives(Configure(w))
    /\ UNCHANGED <<exposed, check_due, running, context, mode, system, buffers, pc,
                   drawing, contents, history>>

\* Another refresh interval has passed since the last check (only the force
\* setting has checks).
Elapse ==
    /\ mode = "force" /\ ~check_due /\ check_due' = TRUE
    /\ Len(requests) < MaxRequests
    /\ UNCHANGED <<server_width, wm_fullscreen, requests, exposed, queue, running, context,
                   mode, system, buffers, pc, drawing, contents, history>>

\* ringbuf_push by a collector thread.
Collect(p) ==
    /\ pushed[p] < MaxSamples
    /\ pushed' = [pushed EXCEPT ![p] = @ + 1]
    /\ count' = [count EXCEPT ![p] = Least(@ + 1, size[p])]
    /\ UNCHANGED <<server, queue, running, context, mode, system, size, pc, drawing,
                   contents, history>>

World == \/ \E k \in Keys \union {"escape", "close"} : PressKey(k)
         \/ Expose \/ \E w \in Widths : UserResize(w)
         \/ WmToggle \/ Signal
         \/ \E w \in Widths : WmHandle(w)
         \/ Elapse
         \/ \E p \in Plots : Collect(p)

-----------------------------------------------------------------------------
(* The main thread, one pass of main's loop at a time.                     *)

\* The fps sleep ends; a signal is noticed here only.
Wake ==
    /\ pc = "loop"
    /\ pc' = IF running THEN "poll" ELSE "exited"
    /\ UNCHANGED <<server, queue, running, context, mode, system, buffers, drawing,
                   contents, history>>

\* Escape and a close request end the program at once.
EndsProgram(t) == t \in {"escape", "close"}

\* Mutant: an event of no interest clears the pending one.
PendingCleared(t) == IF t \in Keys THEN t ELSE "none"

\* There is one pending_event for all that a poll finds: a later key or
\* motion takes the place of an earlier one.
Pending(t) == IF t \in Keys THEN t ELSE pending_event

\* Mutant: a new width is not announced.
NoteWidthQuietly(e) ==
    /\ width' = IF e.type = "configure" THEN e.width ELSE width
    /\ UNCHANGED window_resized

NoteWidth(e) ==
    IF e.type = "configure" /\ e.width # width
    THEN width' = e.width /\ window_resized' = TRUE
    ELSE UNCHANGED <<width, window_resized>>

\* graphics_poll_events reads the queue until it is empty.
PollEvent ==
    /\ pc = "poll" /\ queue # <<>>
    /\ queue' = Tail(queue)
    /\ LET e == Head(queue)
       IN  /\ pc' = IF EndsProgram(e.type) THEN "exited" ELSE pc
           /\ pending_event' = Pending(e.type)
           /\ NoteWidth(e)
    /\ UNCHANGED <<server, running, mode, system, buffers, drawing, contents, history>>

PollDone ==
    /\ pc = "poll" /\ queue = <<>>
    /\ pc' = "event"
    /\ UNCHANGED <<server, queue, running, context, mode, system, buffers, drawing,
                   contents, history>>

\* plot_system_update acts on the pending event.
HandleEvent ==
    /\ pc = "event"
    /\ pending_event' = "none"
    /\ pc' = IF pending_event = "q" THEN "exited" ELSE "force"
    /\ needs_redraw' = (needs_redraw \/ pending_event \in {"r", "f", "motion"})
    /\ IF pending_event = "f"
       THEN fullscreen' = ~fullscreen /\ requests' = Append(requests, ~fullscreen)
       ELSE UNCHANGED <<fullscreen, requests>>
    /\ UNCHANGED <<server_width, wm_fullscreen, exposed, check_due, queue, running, width,
                   window_resized, mode, window_size_dirty, cached_window_width,
                   last_plot_width, buffers, drawing, contents, history>>

\* Mutant: the flag is not brought up to date with the request.
ReassertUnflagged ==
    IF wm_fullscreen
    THEN UNCHANGED <<requests, fullscreen, needs_redraw>>
    ELSE requests' = Append(requests, TRUE) /\ needs_redraw' = TRUE /\ UNCHANGED fullscreen

\* Mutant: the flag is trusted, the window manager is not asked.
ReassertByFlag ==
    IF fullscreen
    THEN UNCHANGED <<requests, fullscreen, needs_redraw>>
    ELSE requests' = Append(requests, TRUE) /\ fullscreen' = TRUE /\ needs_redraw' = TRUE

\* Ask the window manager whether the window still is fullscreen and request
\* it again if not.
Reassert ==
    IF wm_fullscreen
    THEN UNCHANGED <<requests, fullscreen, needs_redraw>>
    ELSE requests' = Append(requests, TRUE) /\ fullscreen' = TRUE /\ needs_redraw' = TRUE

\* fullscreen = force, when the interval has passed.
ForceFullscreen ==
    /\ pc = "force" /\ pc' = "size"
    /\ \/ mode = "force" /\ check_due /\ check_due' = FALSE /\ Reassert
       \/ /\ ~(mode = "force" /\ check_due)
          /\ UNCHANGED <<check_due, requests, fullscreen, needs_redraw>>
    /\ UNCHANGED <<server_width, wm_fullscreen, exposed, queue, running, context, mode,
                   window_size_dirty, cached_window_width, last_plot_width, buffers,
                   drawing, contents, history>>

\* ringbuf_resize of every plot's buffer; the plots in "failed" get no memory
\* and keep theirs, which nobody notices.
ResizeBuffers(new, failed) ==
    /\ size' = [p \in Plots |-> IF p \in failed THEN size[p] ELSE new]
    /\ count' = [p \in Plots |-> Least(count[p], size'[p])]
    /\ denied' = failed

FollowWidth(new) ==
    IF new > 0
    THEN \E failed \in SUBSET {p \in Plots : size[p] # new} : ResizeBuffers(new, failed)
    ELSE UNCHANGED <<size, count, denied>>

\* Mutant: the pixmap keeps the width it had.
LearnWidthOnly == cached_window_width' = server_width /\ UNCHANGED width

\* window_get_size asks the server, not the events read so far; the width it
\* learns becomes that of the pixmap too.
LearnWidth == cached_window_width' = server_width /\ width' = server_width

FollowSize ==
    /\ pc = "size" /\ pc' = "redraw"
    /\ IF window_resized \/ window_size_dirty
       THEN LearnWidth ELSE UNCHANGED <<cached_window_width, width>>
    /\ window_resized' = FALSE /\ window_size_dirty' = FALSE
    /\ last_plot_width' = cached_window_width' - 2 * Margin
    /\ needs_redraw' = (\/ needs_redraw \/ window_resized \/ window_size_dirty
                        \/ last_plot_width' # last_plot_width)
    /\ IF last_plot_width' # last_plot_width
       THEN FollowWidth(NewBufferSize(cached_window_width'))
       ELSE UNCHANGED <<size, count, denied>>
    /\ UNCHANGED <<server, queue, running, pending_event, mode, fullscreen, pushed, drawing,
                   contents, inputs, last_key, meddled>>

\* Mutant: new samples are no reason to draw.
NeedsRedrawIgnoresData == needs_redraw

\* Mutant: only new samples are a reason to draw.
NeedsRedrawOnlyData == \E p \in Plots : count[p] # 0

\* cached_data_count and cached_head_position are never brought up to date,
\* so that they differ from the buffer's as soon as it has held a sample.
NeedsRedraw == needs_redraw \/ \E p \in Plots : count[p] # 0

DecideRedraw ==
    /\ pc = "redraw"
    /\ IF NeedsRedraw THEN pc' = "draw" /\ plot' = 1 ELSE pc' = "loop" /\ UNCHANGED plot
    /\ UNCHANGED <<server, queue, running, context, mode, system, buffers, shot, drawn,
                   contents, history>>

\* The next plot, or the frame is complete.
NextPlot == IF plot < PlotCount THEN pc' = "draw" /\ plot' = plot + 1
                                ELSE pc' = "present" /\ UNCHANGED plot

\* plot_draw: "No data", or a snapshot is begun.
DrawPlot ==
    /\ pc = "draw"
    /\ IF count[plot] = 0
       THEN NextPlot /\ drawn' = [drawn EXCEPT ![plot] = 0] /\ UNCHANGED shot
       ELSE pc' = "snapshot" /\ shot' = pushed[plot] /\ UNCHANGED <<plot, drawn>>
    /\ UNCHANGED <<server, queue, running, context, mode, system, buffers, contents, history>>

\* A snapshot that no push touched holds the oldest ReadCap samples of the
\* buffer.  A push meanwhile may or may not be in it, or may make it fail,
\* which leaves the plot blank.
Snapshot ==
    /\ pc = "snapshot"
    /\ NextPlot
    /\ LET cut == count[plot] - Least(count[plot], ReadCap)
       IN  \E newest \in shot..pushed[plot] :
             drawn' = [drawn EXCEPT ![plot] = newest - cut]
    /\ UNCHANGED <<server, queue, running, context, mode, system, buffers, shot, contents, history>>

SnapshotFails ==
    /\ pc = "snapshot" /\ pushed[plot] # shot
    /\ NextPlot
    /\ drawn' = [drawn EXCEPT ![plot] = 0]
    /\ UNCHANGED <<server, queue, running, context, mode, system, buffers, shot, contents, history>>

Present ==
    /\ pc = "present" /\ pc' = "loop"
    /\ frame_width' = cached_window_width /\ shown' = drawn
    /\ exposed' = FALSE
    /\ needs_redraw' = FALSE
    /\ UNCHANGED <<server_width, wm_fullscreen, requests, check_due, queue, running, context,
                   mode, fullscreen, window_size_dirty, cached_window_width, last_plot_width,
                   buffers, drawing, history>>

MainStep == \/ Wake \/ PollEvent \/ PollDone \/ HandleEvent \/ ForceFullscreen
            \/ FollowSize \/ DecideRedraw \/ DrawPlot \/ Snapshot \/ SnapshotFails
            \/ Present

Next == World \/ MainStep

Spec == Init /\ [][Next]_vars

\* The main thread runs, time passes and the window manager answers; what
\* users, signals and collectors do is up to them.
Fairness == /\ WF_vars(MainStep)
            /\ WF_vars(\E w \in Widths : WmHandle(w))
            /\ WF_vars(Elapse)

FairSpec == Spec /\ Fairness

-----------------------------------------------------------------------------
(* Properties                                                              *)

TypeOK ==
    /\ server_width \in Widths /\ width \in Widths
    /\ cached_window_width \in Widths \union {0} /\ frame_width \in Widths \union {0}
    /\ mode \in Modes
    /\ {wm_fullscreen, exposed, check_due, running, window_resized, fullscreen,
        window_size_dirty, needs_redraw, meddled} \subseteq BOOLEAN
    /\ requests \in Seq(BOOLEAN) /\ Len(queue) <= MaxQueue
    /\ pending_event \in Keys \union {"none"} /\ last_key \in Keys \union {"none"}
    /\ last_plot_width \in Int
    /\ \A p \in Plots : /\ size[p] \in 1..(Word - 1) /\ count[p] \in 0..size[p]
                        /\ pushed[p] \in 0..MaxSamples /\ drawn[p] \in Int /\ shown[p] \in Int
    /\ pc \in {"loop", "poll", "event", "force", "size", "redraw", "draw", "snapshot",
               "present", "exited"}
    /\ plot \in Plots /\ shot \in 0..MaxSamples /\ inputs \in 0..MaxInputs
    /\ denied \subseteq Plots

Drawing == pc \in {"draw", "snapshot", "present"}

\* A frame is drawn at the width of the pixmap it is drawn into, though the
\* one is learnt from the server and the other follows the events; and every
\* buffer then has a slot per column of its plot, no fewer and no more, unless
\* there was no memory for one or the plot has no columns.  (A plot of width 0
\* is not followed at all when it is the first: last_plot_width starts as 0.)
FrameFits ==
    Drawing => /\ cached_window_width = width
               /\ last_plot_width # 0 /\ NewBufferSize(width) > 0 =>
                    \A p \in Plots \ denied : size[p] = NewBufferSize(width)

\* While the main thread sleeps nothing it has taken note of is undrawn: the
\* window shows a frame of the cached width, and every flag is down.
NothingLeftUndrawn ==
    pc = "loop" /\ cached_window_width # 0 =>
        /\ ~needs_redraw /\ ~window_size_dirty /\ ~window_resized
        /\ frame_width = cached_window_width
        /\ pending_event = "none"

\* The flag that the f key toggles is the state the window has once the
\* window manager has acted on every request, as long as the window manager
\* does not change the state by itself.
FullscreenFlagAgrees ==
    ~meddled => fullscreen = IF requests = <<>> THEN wm_fullscreen ELSE requests[Len(requests)]

\* A window that keeps its width ends up with frames of that width.
WindowSettles ==
    \A w \in Widths : <>[](server_width = w) => <>[](frame_width = w \/ pc = "exited")

\* What asks the program to end ends it, whatever else is in the queue: Escape
\* and the window's close button, SIGINT and SIGTERM, and a q that no key or
\* motion follows.  (One that is followed before the next poll is lost with the
\* pending_event it was in.)
EndsWhenAsked ==
    /\ (\E i \in 1..Len(queue) : queue[i].type \in {"escape", "close"}) ~> pc = "exited"
    /\ ~running ~> pc = "exited"
    /\ [](inputs = MaxInputs => last_key # "q") \/ <>(pc = "exited")

\* With fullscreen = force the window gets fullscreen again, whoever took it
\* away, the f key included.
ForcedBackToFullscreen ==
    mode = "force" /\ ~wm_fullscreen ~> wm_fullscreen \/ pc = "exited"

\* Every sample is shown, or a newer one, unless the buffer is larger than
\* what a snapshot has room for; and an exposed part of the window is drawn
\* again as soon as there is a sample to draw, although Expose events are
\* ignored (both because plot.c:540 compares with counts it never updates).
ShownInTime ==
    /\ \A p \in Plots : \A n \in 1..MaxSamples :
         pushed[p] >= n ~> shown[p] >= n \/ size[p] > ReadCap \/ pc = "exited"
    /\ exposed /\ (\E p \in Plots : count[p] > 0) ~> ~exposed \/ pc = "exited"

=============================================================================
