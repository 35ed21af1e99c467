------------------------------ MODULE Emulator --------------------------------
(***************************************************************************)
(* The emulator: the main thread loads the layout and then runs FLTK's     *)
(* event loop; the render thread of RenderState hands it one frame after   *)
(* another.  The pixels are shared without a lock; FLTK's lock is held     *)
(* only to ask for a redraw, and by the event loop while it is awake.      *)
(*                                                                         *)
(* The animation behind the frames is RenderPipeline's: here a pixel is    *)
(* the number of its frame, 0 being what pixel_data_ holds, or the window  *)
(* shows, before there is any.                                             *)
(***************************************************************************)
EXTENDS Layout

CONSTANTS
  MaxFrames,   \* bound on the frames rendered
  MaxExposes   \* bound on how often the window system asks for a redraw

ASSUME EmulatorAssumption == MaxFrames \in Nat /\ MaxExposes \in Nat

VARIABLES
  lock,        \* who holds Fl::lock: "main", "render" or "none"
  damage,      \* a redraw has been asked for
  awake,       \* Fl::awake has written to the pipe the event loop waits on
  exposes,     \* how often the window system has asked
  exposed,     \* it has, and the event loop has not seen it
  drawn,       \* the next pixel of draw
  screen,      \* the window: pixel |-> frame
  renderPc,    \* where the render thread is
  frame,       \* the frame it is at
  uncopied,    \* pixels the memcpy has still to copy
  pixel_data   \* pixel_data_

fltkVars == <<lock, damage, awake>>
expVars == <<exposes, exposed>>
renderVars == <<renderPc, frame, uncopied, pixel_data>>
vars == <<layoutVars, fltkVars, expVars, drawn, screen, renderVars>>

Init ==
  /\ LayoutInit
  /\ lock = "main" /\ damage = FALSE /\ awake = FALSE
  /\ exposes = 0 /\ exposed = TRUE
  /\ drawn = 0 /\ screen = [p \in Pixel |-> 0]
  /\ renderPc = "off" /\ frame = 0 /\ uncopied = {}
  /\ pixel_data = [p \in Pixel |-> 0]

-----------------------------------------------------------------------------
(* The main thread                                                           *)

LoadLayout ==
  /\ LoadBlockLayout \/ FailLayout
  /\ UNCHANGED <<fltkVars, expVars, drawn, screen, renderVars>>

\* StartThread and Run.
StartThreads ==
  /\ mainPc = "layout" /\ layout.is_sequence /\ loaded = Len(layout.blocks)
  /\ mainPc' = "flush" /\ renderPc' = "wait"
  /\ UNCHANGED <<layout, loaded, positions, fltkVars, expVars, drawn, screen,
                 frame, uncopied, pixel_data>>

\* Mutant: the event loop waits with the lock.
FlushWithLock ==
  /\ mainPc = "flush"
  /\ IF damage THEN mainPc' = "draw" /\ drawn' = 0 /\ damage' = FALSE
               ELSE mainPc' = "select" /\ UNCHANGED <<damage, drawn>>
  /\ UNCHANGED <<layout, loaded, positions, lock, awake, expVars, screen, renderVars>>

\* Fl::wait draws what is damaged before it waits; it waits without the lock.
Flush ==
  /\ mainPc = "flush"
  /\ IF damage THEN mainPc' = "draw" /\ drawn' = 0 /\ damage' = FALSE /\ UNCHANGED lock
               ELSE mainPc' = "select" /\ lock' = "none" /\ UNCHANGED <<damage, drawn>>
  /\ UNCHANGED <<layout, loaded, positions, awake, expVars, screen, renderVars>>

DrawPixel ==
  /\ mainPc = "draw" /\ drawn < NumPixels
  /\ screen' = [screen EXCEPT ![drawn] = pixel_data[drawn]]
  /\ drawn' = drawn + 1
  /\ UNCHANGED <<layoutVars, fltkVars, expVars, renderVars>>

DrawDone ==
  /\ mainPc = "draw" /\ drawn = NumPixels
  /\ mainPc' = "flush"
  /\ UNCHANGED <<layout, loaded, positions, fltkVars, expVars, drawn, screen, renderVars>>

WakeUp ==
  /\ mainPc = "select" /\ (awake \/ exposed)
  /\ mainPc' = "lock"
  /\ UNCHANGED <<layout, loaded, positions, fltkVars, expVars, drawn, screen, renderVars>>

\* Mutant: what the window system asks for hides what the render thread did.
HandleEventsOfWindow ==
  /\ mainPc = "lock" /\ lock = "none"
  /\ lock' = "main" /\ mainPc' = "flush"
  /\ awake' = FALSE /\ exposed' = FALSE /\ damage' = exposed
  /\ UNCHANGED <<layout, loaded, positions, exposes, drawn, screen, renderVars>>

HandleEvents ==
  /\ mainPc = "lock" /\ lock = "none"
  /\ lock' = "main" /\ mainPc' = "flush"
  /\ awake' = FALSE /\ exposed' = FALSE /\ damage' = (damage \/ exposed)
  /\ UNCHANGED <<layout, loaded, positions, exposes, drawn, screen, renderVars>>

\* The user closes the window: Run returns, and so does main.
CloseWindow ==
  /\ mainPc = "lock" /\ lock = "none"
  /\ mainPc' = "exit"
  /\ UNCHANGED <<layout, loaded, positions, fltkVars, expVars, drawn, screen, renderVars>>

\* The window is uncovered, or shown for the first time.
Expose ==
  /\ mainPc # "exit" /\ exposes < MaxExposes
  /\ exposes' = exposes + 1 /\ exposed' = TRUE
  /\ UNCHANGED <<layoutVars, fltkVars, drawn, screen, renderVars>>

-----------------------------------------------------------------------------
(* The render thread, which ends with the program                            *)

StartFrame ==
  /\ renderPc = "wait" /\ frame < MaxFrames
  /\ renderPc' = "copy" /\ frame' = frame + 1 /\ uncopied' = Pixel
  /\ UNCHANGED <<layoutVars, fltkVars, expVars, drawn, screen, pixel_data>>

CopyPixel(p) ==
  /\ renderPc = "copy" /\ p \in uncopied
  /\ pixel_data' = [pixel_data EXCEPT ![p] = frame]
  /\ uncopied' = uncopied \ {p}
  /\ UNCHANGED <<layoutVars, fltkVars, expVars, drawn, screen, renderPc, frame>>

\* Mutant: redraw is asked for without the lock.
LockWithoutWaiting ==
  /\ renderPc = "copy" /\ uncopied = {}
  /\ renderPc' = "redraw"
  /\ UNCHANGED <<layoutVars, fltkVars, expVars, drawn, screen, frame, uncopied, pixel_data>>

Lock ==
  /\ renderPc = "copy" /\ uncopied = {} /\ lock = "none"
  /\ lock' = "render" /\ renderPc' = "redraw"
  /\ UNCHANGED <<layoutVars, damage, awake, expVars, drawn, screen, frame,
                 uncopied, pixel_data>>

Redraw ==
  /\ renderPc = "redraw"
  /\ damage' = TRUE /\ renderPc' = "unlock"
  /\ UNCHANGED <<layoutVars, lock, awake, expVars, drawn, screen, frame,
                 uncopied, pixel_data>>

Unlock ==
  /\ renderPc = "unlock"
  /\ lock' = "none" /\ renderPc' = "awake"
  /\ UNCHANGED <<layoutVars, damage, awake, expVars, drawn, screen, frame,
                 uncopied, pixel_data>>

\* Mutant: redraw is thought to wake the event loop.
NoAwake ==
  /\ renderPc = "awake"
  /\ renderPc' = "wait"
  /\ UNCHANGED <<layoutVars, fltkVars, expVars, drawn, screen, frame,
                 uncopied, pixel_data>>

Awake ==
  /\ renderPc = "awake"
  /\ awake' = TRUE /\ renderPc' = "wait"
  /\ UNCHANGED <<layoutVars, lock, damage, expVars, drawn, screen, frame,
                 uncopied, pixel_data>>

-----------------------------------------------------------------------------
Main == \/ LoadLayout \/ StartThreads \/ Flush \/ DrawPixel \/ DrawDone
        \/ WakeUp \/ HandleEvents \/ CloseWindow
Render == /\ mainPc # "exit"
          /\ \/ StartFrame \/ (\E p \in Pixel : CopyPixel(p))
             \/ Lock \/ Redraw \/ Unlock \/ Awake

Next == Main \/ Expose \/ Render

\* Both threads are scheduled.  The bound on Expose keeps the event loop from
\* being busy for ever, and so weak fairness of the render thread gets it the lock.
Spec == Init /\ [][Next]_vars
FairSpec == Spec /\ WF_vars(Main) /\ WF_vars(Render)

-----------------------------------------------------------------------------
TypeOK ==
  /\ loaded \in 0 .. Len(layout.blocks)
  /\ mainPc \in {"layout", "exit", "flush", "draw", "select", "lock"}
  /\ lock \in {"main", "render", "none"}
  /\ damage \in BOOLEAN /\ awake \in BOOLEAN /\ exposed \in BOOLEAN
  /\ exposes \in 0 .. MaxExposes
  /\ drawn \in 0 .. NumPixels
  /\ renderPc \in {"off", "wait", "copy", "redraw", "unlock", "awake"}
  /\ frame \in 0 .. MaxFrames /\ uncopied \subseteq Pixel
  /\ screen \in [Pixel -> 0 .. MaxFrames]
  /\ pixel_data \in [Pixel -> 0 .. MaxFrames]

\* Whenever the event loop sleeps, nothing is on its way to it and the render
\* thread is between two frames, the window shows the last frame: no request for
\* a redraw is lost, and none is answered with pixels from before it.
QuietMeansCurrent ==
  (mainPc = "select" /\ ~awake /\ ~exposed /\ renderPc = "wait") =>
    \A p \in Pixel : screen[p] = frame

\* The pixels are copied while they are drawn, without a lock; but the render
\* thread cannot get past a second copy while the event loop draws.  A picture in
\* the window mixes no more than two frames, one right after the other.
AtMostTwoFrames ==
  mainPc # "draw" =>
    \E f \in 0 .. MaxFrames : \A p \in Pixel : screen[p] \in {f, f + 1}

\* Every frame, or a later one, is drawn, unless the window is closed.
EveryFrameIsDrawn ==
  \A f \in 1 .. MaxFrames :
    (frame = f /\ renderPc = "awake") ~>
      (mainPc = "exit" \/ \A p \in Pixel : screen[p] >= f)

\* No pixel of the window goes back to an older frame, although the render thread
\* copies while the event loop draws (fltk-driver.cc:237): what is drawn is the
\* frame being copied or the one before it.
WindowNeverGoesBack ==
  [][\A p \in Pixel : screen'[p] # screen[p] =>
       screen'[p] > screen[p] /\ screen'[p] \in {frame - 1, frame}]_vars

\* A pixel will be drawn: a redraw has been asked for, or the drawing has yet to
\* reach it.
Due(p) == damage \/ exposed \/ (mainPc = "draw" /\ p >= drawn)

\* The steps the event loop is from drawing it; three more if it goes by its sleep.
StepsTo(p) ==
  IF mainPc = "draw" /\ p >= drawn THEN p - drawn + 1
  ELSE IF mainPc = "lock" THEN NumPixels + 3
  ELSE IF mainPc = "select" THEN NumPixels + 4
  ELSE IF mainPc = "flush" THEN NumPixels + 2 + (IF damage THEN 0 ELSE 3)
  ELSE (NumPixels - drawn) + NumPixels + 3 + (IF damage THEN 0 ELSE 3)

\* What EveryFrameIsDrawn rests on.  While a pixel is due, each step of the event
\* loop brings its drawing nearer, unless the window is closed; and no step of the
\* render thread or the window system puts it off.
DrawingComesCloser ==
  [][\A p \in Pixel : (Due(p) /\ mainPc \notin {"layout", "exit"}) =>
       \/ mainPc' = "exit"
       \/ drawn = p /\ drawn' = p + 1 /\ screen'[p] = pixel_data[p]
       \/ /\ Due(p)' /\ StepsTo(p)' <= StepsTo(p)
          /\ Main => StepsTo(p)' < StepsTo(p)]_vars

-----------------------------------------------------------------------------
(* The inductive invariant of the proofs.                                    *)

\* Who holds the lock is where the two threads are.
LockInv ==
  /\ lock = "main" <=> mainPc \in {"layout", "flush", "draw"} \/ (mainPc = "exit" /\ renderPc = "off")
  /\ lock = "render" <=> renderPc \in {"redraw", "unlock"}
  /\ renderPc = "off" <=> mainPc = "layout" \/ (mainPc = "exit" /\ lock = "main")

\* pixel_data_ holds the last frame, or the one before where it is not copied yet.
CopyInv ==
  /\ uncopied # {} => renderPc = "copy"
  /\ renderPc = "copy" => frame > 0
  /\ \A p \in Pixel : pixel_data[p] = IF p \in uncopied THEN frame - 1 ELSE frame

\* What is drawn is at most one frame old while it is drawn, and the frame has
\* not changed since if the render thread is past its unlock; nothing is drawn
\* before it is there.
DrawInv ==
  /\ mainPc = "draw" => \A p \in Pixel : p < drawn =>
       IF renderPc = "copy" THEN screen[p] \in {frame - 1, frame} ELSE screen[p] = frame
  /\ \A p \in Pixel : screen[p] <= pixel_data[p]
  /\ AtMostTwoFrames

\* A pixel that is not current will be drawn again, and the event loop will see
\* the request for it, as that for the window's first picture.
RedrawInv ==
  /\ \A p \in Pixel :
       \/ screen[p] = frame \/ damage \/ exposed \/ renderPc \in {"copy", "redraw"}
       \/ mainPc = "draw" /\ p >= drawn
  /\ damage => awake \/ mainPc = "exit" \/ mainPc = "flush" \/ mainPc = "draw"
                 \/ renderPc \in {"unlock", "awake"}
  /\ renderPc = "off" => exposed

\* The layout is one of those the file may hold; apart from the others, as TLC
\* would compare it with all of them in every state.
LayoutInv == layout \in Layouts

IInv == TypeOK /\ PlacedInv /\ LockInv /\ CopyInv /\ DrawInv /\ RedrawInv
=============================================================================
