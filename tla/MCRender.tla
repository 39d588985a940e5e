------------------------------ MODULE MCRender ------------------------------
(***************************************************************************)
(* Small instances of what is shown, one at a time: plots of few samples   *)
(* (PlotFrame), with a clock that is set for plots of one value only; the  *)
(* image that is made of a frame (GifEncoder), which begins with one       *)
(* pixel, or with all pairs of colours, which fills the table soon; how a  *)
(* frame gets to the screen (Backends).                                    *)
(***************************************************************************)
EXTENDS GifEncoder, PlotFrame, Backends

OnePixel == <<0>>
AllPairs == <<0, 0, 1, 0, 2, 1, 1, 2, 2, 0>>

FrameOpenings == {OnePixel, AllPairs}

JumpValues  == {-3}
ValueValues == {-1, 1, 3}

NoGif == /\ pc = "no gif" /\ memory = 0 /\ npix = 0 /\ opening = <<>> /\ pix = <<>>
         /\ lzw = 0 /\ table = <<>> /\ ent = 0 /\ out = 0 /\ reader = 0 /\ dec = 0

NoPlot == /\ dual = FALSE /\ scale = 0 /\ first = <<>> /\ stamps = <<>> /\ second = <<>>
          /\ coming = <<>> /\ clock = 0 /\ ticks = 0 /\ jumped = FALSE /\ taken = <<>>

NoWindow == /\ toolkit = "no window" /\ given = 0 /\ events = <<>> /\ screen = Blank
            /\ width = 0 /\ pending_event = "none" /\ window_resized = FALSE /\ closing = FALSE
            /\ surface = Blank /\ paint = FALSE /\ cached_width = 0 /\ size_dirty = FALSE
            /\ redraw = FALSE /\ pushes = 0 /\ at = "no window" /\ heard = FALSE
            /\ done = 0 /\ idle = 0 /\ asked = "none"

RenderInit == \/ Init /\ NoPlot /\ NoWindow
              \/ FrameInit /\ NoGif /\ NoWindow
              \/ WindowInit /\ NoGif /\ NoPlot

RenderNext == \/ pc # "no gif" /\ Next /\ UNCHANGED <<frameVars, windowVars>>
              \/ /\ pc = "no gif" /\ toolkit = "no window"
                 /\ FrameNext /\ UNCHANGED <<vars, windowVars>> /\ (dual => ~jumped')
              \/ toolkit # "no window" /\ WindowNext /\ UNCHANGED <<vars, frameVars>>

RenderSpec == RenderInit /\ [][RenderNext]_<<vars, frameVars, windowVars>>

=============================================================================
