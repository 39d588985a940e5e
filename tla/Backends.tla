------------------------------ MODULE Backends ------------------------------
(***************************************************************************)
(* How events get from the window to plot_system_update and frames from    *)
(* it to the screen, in the five toolkits behind graphics.h other than X11 *)
(* (which PlotLoop models): gfx/gtk2.c and gtk3.c, sdl2.c and sdl3.c,      *)
(* glfw.c, win32.c, cocoa.m.  The two versions of gtk, and of sdl, differ  *)
(* in the names of their libraries only.                                   *)
(*                                                                         *)
(* A frame is what it was drawn for: a width and the samples there were.   *)
(* The buffers' sizes and the force setting are the matter of PlotLoop.    *)
(***************************************************************************)
EXTENDS Integers, Sequences

CONSTANTS
    Toolkits,     \* subset of {"gtk", "sdl", "glfw", "win32", "cocoa"}
    WindowWidths, \* widths a window may get
    FirstWidth,   \* config->default_width
    MaxEvents,    \* bound on what the user does
    MaxPushes     \* bound on the samples

ASSUME BackendsAssumption ==
    /\ Toolkits \subseteq {"gtk", "sdl", "glfw", "win32", "cocoa"}
    /\ WindowWidths \subseteq Nat \ {0} /\ FirstWidth \in WindowWidths
    /\ MaxEvents \in Nat /\ MaxPushes \in Nat

VARIABLES
    toolkit,
    \* the window system
    given,          \* the width it has given the window
    events,         \* what the program has not read
    screen,         \* the frame on the screen
    \* gfx/*.c
    width,          \* the window's in gtk's context
    pending_event, window_resized,
    closing,        \* should_quit of gtk, glfwWindowShouldClose
    surface,        \* what is drawn on, and the frame that is drawn there
    paint,          \* gtk_widget_queue_draw was called
    \* plot_system_t
    cached_width, size_dirty, redraw,
    \* the plots' buffers
    pushes,         \* samples so far
    \* the main thread
    at,
    heard,          \* an event has been read in this pass
    \* history, read by the property only
    done,           \* what the user has done
    idle,           \* intervals of 1 / max_fps since the last event or sample
    asked           \* what the user has asked for in this pass: to close or to quit

toolkitVars == <<width, pending_event, window_resized, closing, surface, paint>>
plotVars    == <<cached_width, size_dirty, redraw>>
windowVars  == <<toolkit, given, events, screen, toolkitVars, plotVars, pushes, at, heard,
                 done, idle, asked>>

Blank == [width |-> 0, pushes |-> 0]

WindowInit ==
    /\ toolkit \in Toolkits
    /\ given = FirstWidth /\ events = <<>> /\ screen = Blank
    /\ width = FirstWidth /\ pending_event = "none" /\ window_resized = FALSE
    /\ closing = FALSE /\ surface = [width |-> FirstWidth, frame |-> Blank] /\ paint = FALSE
    /\ cached_width = 0 /\ size_dirty = TRUE /\ redraw = TRUE
    /\ pushes = 0 /\ at = "wait" /\ heard = FALSE /\ done = 0 /\ idle = 0 /\ asked = "none"

-----------------------------------------------------------------------------
(* The user, the window system and the collectors.                         *)

Presses == {"q", "r", "f", "motion"}

Size(w) == [type |-> "size", width |-> w]

UserActs ==
    /\ done < MaxEvents /\ done' = done + 1 /\ idle' = 0
    /\ \/ \E k \in Presses \union {"close"} :
            events' = Append(events, [type |-> k, width |-> 0]) /\ UNCHANGED given
       \/ \E w \in WindowWidths \ {given} :
            events' = Append(events, Size(w)) /\ given' = w
    /\ UNCHANGED <<toolkit, screen, toolkitVars, plotVars, pushes, at, heard, asked>>

SampleArrives ==
    /\ pushes < MaxPushes /\ pushes' = pushes + 1 /\ idle' = 0
    /\ UNCHANGED <<toolkit, given, events, screen, toolkitVars, plotVars, at, heard, done, asked>>

-----------------------------------------------------------------------------
(* Events: the callback, or the case of the switch, of each toolkit.       *)

\* There is one pending_event: a later key or motion takes its place.
Slotted(type) == IF type \in Presses THEN type ELSE pending_event

NoteSize(e) == /\ window_resized' = (window_resized \/ e.type = "size")
               /\ UNCHANGED <<width, surface, paint>>

\* gtk_size_allocate: a new, white surface for a new size.
GtkAllocate(e) ==
    IF e.type = "size" /\ e.width # width
    THEN /\ width' = e.width /\ window_resized' = TRUE
         /\ surface' = [width |-> e.width, frame |-> Blank]
    ELSE UNCHANGED <<width, window_resized, surface>>

GtkEvent(e) ==
    /\ pending_event' = Slotted(e.type)
    /\ closing' = (closing \/ e.type = "close")
    /\ GtkAllocate(e)
    /\ paint' = (paint \/ e.type \in {"size", "motion"})
    /\ UNCHANGED at

\* A close request ends the wait at once.
SdlEvent(e) ==
    /\ pending_event' = Slotted(e.type)
    /\ at' = IF e.type = "close" THEN "exited" ELSE at
    /\ NoteSize(e)
    /\ UNCHANGED closing

\* The library keeps the close request.
GlfwEvent(e) ==
    /\ pending_event' = Slotted(e.type)
    /\ closing' = (closing \/ e.type = "close")
    /\ NoteSize(e)
    /\ UNCHANGED at

\* A close request is a quit event like that of the q key, in the one slot.
Win32Event(e) ==
    /\ pending_event' = IF e.type = "close" THEN "q" ELSE Slotted(e.type)
    /\ NoteSize(e)
    /\ UNCHANGED <<closing, at>>

CocoaEvent(e) ==
    /\ pending_event' = IF e.type = "close" THEN "q" ELSE Slotted(e.type)
    /\ NoteSize(e)
    /\ UNCHANGED <<closing, at>>

\* What counts as asked for: a q and, where it shares the slot, a close request
\* are taken back by a later key or motion.
Asked(type) == CASE type = "close" -> "close"
                 [] type = "q" /\ asked = "none" -> "q"
                 [] type \in Presses \ {"q"} /\ (asked = "q" \/ toolkit \in {"win32", "cocoa"}) -> "none"
                 [] OTHER -> asked

Dispatch ==
    /\ at = "wait" /\ events # <<>>
    /\ events' = Tail(events) /\ heard' = TRUE /\ idle' = 0
    /\ asked' = Asked(Head(events).type)
    /\ \/ toolkit = "gtk" /\ GtkEvent(Head(events))
       \/ toolkit = "sdl" /\ SdlEvent(Head(events))
       \/ toolkit = "glfw" /\ GlfwEvent(Head(events))
       \/ toolkit = "win32" /\ Win32Event(Head(events))
       \/ toolkit = "cocoa" /\ CocoaEvent(Head(events))
    /\ UNCHANGED <<toolkit, given, screen, plotVars, pushes, done>>

\* gtk calls the expose or draw callback in its own time, for a queued draw or
\* because a part of the window has been uncovered.
Paint ==
    /\ at = "wait" /\ toolkit = "gtk"
    /\ paint' = FALSE /\ screen' = surface.frame
    /\ UNCHANGED <<toolkit, given, events, width, pending_event, window_resized, closing, surface,
                   plotVars, pushes, at, heard, done, idle, asked>>

-----------------------------------------------------------------------------
(* graphics_wait_events: "passed" says that it has taken an interval in    *)
(* which nothing was to be read.                                           *)

\* With an interval gtk's render timer queues a draw; a draw that had been
\* queued before is done by then.
GtkWait(passed) ==
    /\ at' = IF closing THEN "exited" ELSE "event"
    /\ paint' = (paint \/ passed)
    /\ screen' = IF paint /\ passed THEN surface.frame ELSE screen
    /\ UNCHANGED pending_event

SdlWait == at' = "event" /\ UNCHANGED <<pending_event, paint, screen>>

GlfwWait ==
    /\ at' = IF closing THEN "exited" ELSE "event"
    /\ UNCHANGED <<pending_event, paint, screen>>

\* Mutant: no frame is asked for.
Win32WaitSilent(passed) == at' = "event" /\ UNCHANGED <<pending_event, paint, screen>>

\* A frame is asked for when there has been no message for an interval.
Win32Wait(passed) ==
    /\ at' = "event"
    /\ pending_event' = IF passed THEN "r" ELSE pending_event
    /\ UNCHANGED <<paint, screen>>

CocoaWait ==
    /\ at' = IF pending_event = "q" THEN "exited" ELSE "event"
    /\ UNCHANGED <<pending_event, paint, screen>>

WaitReturns ==
    /\ at = "wait" /\ events = <<>> /\ heard' = FALSE
    /\ \E passed \in {FALSE, ~heard} :
          /\ idle' = IF passed /\ idle < 2 THEN idle + 1 ELSE idle
          /\ \/ toolkit = "gtk" /\ GtkWait(passed)
             \/ toolkit = "sdl" /\ SdlWait
             \/ toolkit = "glfw" /\ GlfwWait
             \/ toolkit = "win32" /\ Win32Wait(passed)
             \/ toolkit = "cocoa" /\ CocoaWait
    /\ UNCHANGED <<toolkit, given, events, width, window_resized, closing, surface, plotVars,
                   pushes, done, asked>>

-----------------------------------------------------------------------------
(* plot_system_update                                                      *)

\* window_set_fullscreen gives the window another width.  win32 and cocoa hear
\* of it before the call returns...
SetFrame == window_resized' = TRUE /\ UNCHANGED events

\* ...the others by an event.
AskFullscreen(w) == /\ events' = IF w = given THEN events ELSE Append(events, Size(w))
                    /\ UNCHANGED window_resized

HandlePending ==
    /\ at = "event"
    /\ at' = IF pending_event = "q" THEN "exited" ELSE "draw"
    /\ pending_event' = "none"
    /\ redraw' = (redraw \/ pending_event \in {"r", "f", "motion"})
    /\ IF pending_event = "f"
       THEN \E w \in WindowWidths :
              /\ given' = w
              /\ IF toolkit \in {"win32", "cocoa"} THEN SetFrame ELSE AskFullscreen(w)
       ELSE UNCHANGED <<given, events, window_resized>>
    /\ UNCHANGED <<toolkit, screen, width, closing, surface, paint, cached_width, size_dirty,
                   pushes, heard, done, idle, asked>>

\* window_get_size: but for gtk, what the window system says now, which may be
\* ahead of the events.
SizeNow == IF toolkit = "gtk" THEN width ELSE given

\* What is drawn on has the width of the window, but win32's bitmap, which
\* renderer_present replaces, and gtk's surface, which GtkAllocate replaces.
DrawnOn == IF toolkit \in {"win32", "gtk"} THEN surface.width ELSE SizeNow

UpdateAndDraw ==
    /\ at = "draw"
    /\ cached_width' = IF window_resized \/ size_dirty THEN SizeNow ELSE cached_width
    /\ window_resized' = FALSE /\ size_dirty' = FALSE
    /\ redraw' = (redraw \/ window_resized \/ size_dirty)
    /\ IF redraw' \/ pushes > 0
       THEN /\ at' = "present"
            /\ surface' = [width |-> DrawnOn, frame |-> [width |-> cached_width', pushes |-> pushes]]
       ELSE at' = "wait" /\ UNCHANGED surface
    /\ asked' = "none"
    /\ UNCHANGED <<toolkit, given, events, screen, width, pending_event, closing, paint, pushes,
                   heard, done, idle>>

\* renderer_present.  If the window has another width than the bitmap that has
\* just been drawn on, win32 shows a new one, and the frame is lost.
Win32Present == /\ surface' = IF surface.width # given THEN [width |-> given, frame |-> Blank]
                              ELSE surface
                /\ screen' = surface'.frame

\* gtk does nothing here: the next painting shows the surface.
GtkPresent == UNCHANGED <<surface, screen>>

SwapBuffers == screen' = surface.frame /\ UNCHANGED surface

PresentFrame ==
    /\ at = "present" /\ at' = "wait"
    /\ redraw' = FALSE
    /\ \/ toolkit = "win32" /\ Win32Present
       \/ toolkit = "gtk" /\ GtkPresent
       \/ toolkit \notin {"win32", "gtk"} /\ SwapBuffers
    /\ UNCHANGED <<toolkit, given, events, width, pending_event, window_resized, closing, paint,
                   cached_width, size_dirty, pushes, heard, done, idle, asked>>

WindowNext == \/ UserActs \/ SampleArrives
              \/ Dispatch \/ Paint \/ WaitReturns
              \/ HandlePending \/ UpdateAndDraw \/ PresentFrame

WindowSpec == WindowInit /\ [][WindowNext]_windowVars

-----------------------------------------------------------------------------
(* Properties                                                              *)

\* A pass in which the user has asked to close the window or to quit draws
\* nothing any more: the program ends.
EndsInThisPass == at \in {"draw", "present"} => asked = "none"

\* Two intervals after the last event and the last sample, whatever had
\* happened before, the screen shows a frame that was drawn for the width the
\* window has, with all samples in it.
ScreenSettles ==
    idle >= 2 /\ at = "wait" => screen = [width |-> given, pushes |-> pushes]

\* What the user does to the window is answered, whichever toolkit is used.
WindowAnswers == EndsInThisPass /\ ScreenSettles

=============================================================================
