--------------------------- MODULE EmulatorProofs -----------------------------
(***************************************************************************)
(* Theorems about Emulator and Layout, for every layout, number of LEDs,   *)
(* frames and events.                                                      *)
(***************************************************************************)
EXTENDS Emulator, TLAPS

-----------------------------------------------------------------------------
(* The two threads.                                                          *)

LEMMA NumPixelsType == NumPixels \in Int
BY LayoutAssumption DEF NumPixels

LEMMA InitHolds == Init => IInv
<1> SUFFICES ASSUME Init PROVE IInv
  OBVIOUS
<1> USE DEF Init, LayoutInit
<1>1. loaded \in 0 .. Len(layout.blocks)
  <2>1. Len(layout.blocks) \in Nat
    BY LayoutAssumption
  <2> QED BY <2>1
<1>2. drawn \in 0 .. NumPixels
  <2>1. NumPixels \in Nat
    BY LayoutAssumption DEF NumPixels
  <2> QED BY <2>1
<1>3. /\ screen \in [Pixel -> 0 .. MaxFrames]
      /\ pixel_data \in [Pixel -> 0 .. MaxFrames]
      /\ frame \in 0 .. MaxFrames
      /\ exposes \in 0 .. MaxExposes
  BY EmulatorAssumption
<1>4. TypeOK
  BY <1>1, <1>2, <1>3 DEF TypeOK
<1>5. LockInv
  BY DEF LockInv
<1>6. CopyInv
  BY DEF CopyInv
<1>7. DrawInv
  <2>1. AtMostTwoFrames
    BY EmulatorAssumption DEF AtMostTwoFrames
  <2> QED BY <2>1 DEF DrawInv
<1>8. RedrawInv
  BY DEF RedrawInv
<1>9. PlacedInv
  BY DEF PlacedInv, LastToCover
<1> QED BY <1>4, <1>5, <1>6, <1>7, <1>8, <1>9 DEF IInv

\* One lemma for each part of the invariant.
LEMMA TypeStep == IInv /\ LayoutInv /\ [Next]_vars => TypeOK' /\ LayoutInv'
<1> SUFFICES ASSUME IInv, LayoutInv, [Next]_vars PROVE TypeOK' /\ LayoutInv'
  OBVIOUS
<1>1. LayoutInv'
  BY DEF LayoutInv, Next, Main, Render, vars, layoutVars, LoadLayout, LoadBlockLayout,
     FailLayout, StartThreads, Flush, DrawPixel, DrawDone, WakeUp, HandleEvents,
     CloseWindow, Expose, StartFrame, CopyPixel, Lock, Redraw, Unlock, Awake
<1>2. layout' = layout
  BY DEF LayoutInv, Next, Main, Render, vars, layoutVars, LoadLayout, LoadBlockLayout,
     FailLayout, StartThreads, Flush, DrawPixel, DrawDone, WakeUp, HandleEvents,
     CloseWindow, Expose, StartFrame, CopyPixel, Lock, Redraw, Unlock, Awake
<1>3. Len(layout.blocks) \in Nat
  BY LayoutAssumption DEF LayoutInv
<1> DEFINE n == Len(layout.blocks)
<1>4. n \in Nat /\ n' = n
  BY <1>2, <1>3
<1> HIDE DEF n
<1>5. loaded \in 0 .. n /\ (loaded' \in 0 .. n => loaded' \in 0 .. n')
  BY <1>4 DEF IInv, TypeOK, n
<1>6. (loaded' \in 0 .. n') <=> (loaded' \in 0 .. Len(layout'.blocks))
  BY <1>2 DEF n
<1> USE <1>4, <1>5, <1>6, NumPixelsType, EmulatorAssumption DEF IInv, TypeOK
<1>7. CASE LoadLayout
  <2>1. loaded' \in 0 .. n
    BY <1>7 DEF LoadLayout, LoadBlockLayout, FailLayout, n
  <2> QED BY <1>1, <1>7, <2>1 DEF LoadLayout, LoadBlockLayout, FailLayout, fltkVars,
     expVars, renderVars
<1>8. CASE DrawPixel
  <2>1. drawn \in Pixel /\ pixel_data[drawn] \in 0 .. MaxFrames
    BY <1>8 DEF DrawPixel, Pixel
  <2> QED BY <1>1, <1>8, <2>1 DEF DrawPixel, layoutVars, fltkVars, expVars, renderVars
<1>9. CASE StartThreads \/ Flush \/ DrawDone \/ WakeUp \/ HandleEvents \/ CloseWindow
  <2>1. 0 \in 0 .. NumPixels
    BY LayoutAssumption DEF NumPixels
  <2> QED BY <1>1, <1>9, <2>1 DEF StartThreads, Flush, DrawDone, WakeUp, HandleEvents,
     CloseWindow, layoutVars, fltkVars, expVars, renderVars
<1>10. CASE Expose
  BY <1>1, <1>10 DEF Expose, layoutVars, fltkVars, renderVars
<1>11. CASE Render
  <2>1. CASE StartFrame
    BY <1>1, <2>1 DEF StartFrame, layoutVars, fltkVars, expVars
  <2>2. ASSUME NEW p \in Pixel, CopyPixel(p) PROVE TypeOK'
    BY <1>1, <2>2 DEF CopyPixel, layoutVars, fltkVars, expVars
  <2>3. CASE Lock \/ Redraw \/ Unlock \/ Awake
    BY <1>1, <2>3 DEF Lock, Redraw, Unlock, Awake, layoutVars, fltkVars, expVars
  <2> QED BY <1>1, <1>11, <2>1, <2>2, <2>3 DEF Render
<1>12. CASE UNCHANGED vars
  BY <1>1, <1>12 DEF vars, layoutVars, fltkVars, expVars, renderVars
<1> QED BY <1>7, <1>8, <1>9, <1>10, <1>11, <1>12 DEF Next, Main

LEMMA LockStep == IInv /\ [Next]_vars => LockInv'
<1> SUFFICES ASSUME IInv, [Next]_vars PROVE LockInv'
  OBVIOUS
<1> USE DEF IInv, TypeOK, LockInv, layoutVars, fltkVars, expVars, renderVars
<1>1. CASE Main
  BY <1>1 DEF Main, LoadLayout, LoadBlockLayout, FailLayout, StartThreads, Flush,
     DrawPixel, DrawDone, WakeUp, HandleEvents, CloseWindow
<1>2. CASE Expose \/ Render
  BY <1>2 DEF Expose, Render, StartFrame, CopyPixel, Lock, Redraw, Unlock, Awake
<1>3. CASE UNCHANGED vars
  BY <1>3 DEF vars
<1> QED BY <1>1, <1>2, <1>3 DEF Next

LEMMA CopyStep == IInv /\ [Next]_vars => CopyInv'
<1> SUFFICES ASSUME IInv, [Next]_vars PROVE CopyInv'
  OBVIOUS
<1> USE DEF IInv, TypeOK, LockInv, CopyInv, layoutVars, fltkVars, expVars, renderVars
<1>1. CASE Main
  BY <1>1 DEF Main, LoadLayout, LoadBlockLayout, FailLayout, StartThreads, Flush,
     DrawPixel, DrawDone, WakeUp, HandleEvents, CloseWindow
<1>2. CASE StartFrame
  BY <1>2 DEF StartFrame
<1>3. ASSUME NEW p \in Pixel, CopyPixel(p) PROVE CopyInv'
  BY <1>3 DEF CopyPixel
<1>4. CASE Expose \/ Lock \/ Redraw \/ Unlock \/ Awake
  BY <1>4 DEF Expose, Lock, Redraw, Unlock, Awake
<1>5. CASE UNCHANGED vars
  BY <1>5 DEF vars
<1> QED BY <1>1, <1>2, <1>3, <1>4, <1>5 DEF Next, Render

LEMMA DrawStep == IInv /\ [Next]_vars => DrawInv'
<1> SUFFICES ASSUME IInv, [Next]_vars PROVE DrawInv'
  OBVIOUS
<1> USE NumPixelsType, EmulatorAssumption
    DEF IInv, TypeOK, DrawInv, layoutVars, fltkVars, expVars, renderVars
<1>1. CASE DrawPixel
  BY <1>1 DEF DrawPixel, AtMostTwoFrames, CopyInv, Pixel
<1>2. CASE DrawDone
  <2>1. \A p \in Pixel : screen[p] \in {frame - 1, frame}
    BY <1>2 DEF DrawDone, Pixel
  <2>2. AtMostTwoFrames'
    <3> DEFINE f == IF frame = 0 THEN 0 ELSE frame - 1
    <3>1. f \in 0 .. MaxFrames
      OBVIOUS
    <3>2. \A p \in Pixel : screen'[p] \in {f, f + 1}
      BY <1>2, <2>1 DEF DrawDone
    <3> HIDE DEF f
    <3> QED BY <3>1, <3>2 DEF AtMostTwoFrames
  <2> QED BY <1>2, <2>2 DEF DrawDone
<1>3. CASE Flush
  BY <1>3 DEF Flush, AtMostTwoFrames, Pixel
<1>4. CASE LoadLayout \/ StartThreads \/ WakeUp \/ HandleEvents \/ CloseWindow \/ Expose
  BY <1>4 DEF LoadLayout, LoadBlockLayout, FailLayout, StartThreads, WakeUp,
     HandleEvents, CloseWindow, Expose, AtMostTwoFrames, LockInv
<1>5. CASE Render
  <2>1. CASE StartFrame
    BY <2>1 DEF StartFrame, AtMostTwoFrames
  <2>2. ASSUME NEW p \in Pixel, CopyPixel(p) PROVE DrawInv'
    <3>1. ASSUME NEW q \in Pixel PROVE screen'[q] <= pixel_data'[q]
      <4>1. /\ screen'[q] = screen[q]
            /\ pixel_data'[q] = IF q = p THEN frame ELSE pixel_data[q]
        BY <2>2 DEF CopyPixel
      <4>2. pixel_data[q] <= frame /\ screen[q] <= pixel_data[q]
        BY DEF CopyInv
      <4>3. /\ screen[q] \in 0 .. MaxFrames /\ pixel_data[q] \in 0 .. MaxFrames
            /\ frame \in 0 .. MaxFrames
        OBVIOUS
      <4> HIDE DEF TypeOK, IInv, DrawInv
      <4> QED BY <4>1, <4>2, <4>3
    <3>2. UNCHANGED <<mainPc, drawn, screen, renderPc, frame>>
      BY <2>2 DEF CopyPixel
    <3> QED BY <3>1, <3>2 DEF AtMostTwoFrames
  <2>3. CASE Lock \/ Redraw \/ Unlock \/ Awake
    BY <2>3 DEF Lock, Redraw, Unlock, Awake, AtMostTwoFrames, LockInv
  <2> QED BY <1>5, <2>1, <2>2, <2>3 DEF Render
<1>6. CASE UNCHANGED vars
  BY <1>6 DEF vars, AtMostTwoFrames
<1> QED BY <1>1, <1>2, <1>3, <1>4, <1>5, <1>6 DEF Next, Main

LEMMA RedrawStep == IInv /\ [Next]_vars => RedrawInv'
<1> SUFFICES ASSUME IInv, [Next]_vars PROVE RedrawInv'
  OBVIOUS
<1> USE NumPixelsType
    DEF IInv, TypeOK, RedrawInv, layoutVars, fltkVars, expVars, renderVars
<1>1. CASE DrawPixel
  BY <1>1 DEF DrawPixel, CopyInv, Pixel
<1>2. CASE DrawDone
  BY <1>2 DEF DrawDone, Pixel
<1>3. CASE Flush
  BY <1>3 DEF Flush, Pixel
<1>4. CASE LoadLayout \/ StartThreads \/ WakeUp \/ HandleEvents \/ CloseWindow \/ Expose
  BY <1>4 DEF LoadLayout, LoadBlockLayout, FailLayout, StartThreads, WakeUp,
     HandleEvents, CloseWindow, Expose, LockInv
<1>5. CASE Render
  <2>1. CASE StartFrame
    BY <2>1 DEF StartFrame
  <2>2. ASSUME NEW p \in Pixel, CopyPixel(p) PROVE RedrawInv'
    BY <2>2 DEF CopyPixel
  <2>3. CASE Lock
    <3>1. uncopied = {} /\ renderPc' = "redraw" /\ damage' = damage
      BY <2>3 DEF Lock
    <3>2. damage => awake \/ mainPc = "exit"
      BY <2>3 DEF Lock, LockInv
    <3> QED BY <2>3, <3>1, <3>2 DEF Lock
  <2>4. CASE Redraw \/ Unlock \/ Awake
    BY <2>4 DEF Redraw, Unlock, Awake, LockInv
  <2> QED BY <1>5, <2>1, <2>2, <2>3, <2>4 DEF Render
<1>6. CASE UNCHANGED vars
  BY <1>6 DEF vars
<1> QED BY <1>1, <1>2, <1>3, <1>4, <1>5, <1>6 DEF Next, Main

LEMMA PlacedStep == IInv /\ LayoutInv /\ [Next]_vars => PlacedInv'
<1> SUFFICES ASSUME IInv, LayoutInv, [Next]_vars, mainPc' = "layout" PROVE PlacedInv'
  BY DEF PlacedInv
<1>1. CASE LoadBlockLayout
  <2> DEFINE new == loaded + 1
             b == Block(new)
  <2>1. /\ layout' = layout /\ loaded \in Nat /\ loaded' = new /\ Loadable(b)
        /\ positions' = [p \in Pixel |->
             IF \E c \in Calls(b) : pixel_index(b, c) = p
             THEN PixelPosition(b, CHOOSE c \in Calls(b) : pixel_index(b, c) = p)
             ELSE positions[p]]
    <3>1. loaded \in Nat
      <4>1. Len(layout.blocks) \in Nat
        BY LayoutAssumption DEF LayoutInv
      <4> QED BY <4>1 DEF IInv, TypeOK
    <3>2. Loadable(b)
      BY <1>1 DEF LoadBlockLayout, Block
    <3>3. layout' = layout /\ loaded' = new
      BY <1>1, <3>2 DEF LoadBlockLayout, Block
    <3>4. positions' = [p \in Pixel |->
             IF \E c \in Calls(b) : pixel_index(b, c) = p
             THEN PixelPosition(b, CHOOSE c \in Calls(b) : pixel_index(b, c) = p)
             ELSE positions[p]]
      BY <1>1, <3>2, Zenon DEF LoadBlockLayout, Block
    <3> QED BY <3>1, <3>2, <3>3, <3>4
  <2>2. mainPc = "layout"
    BY <1>1 DEF LoadBlockLayout
  <2>3. \A k : Block(k)' = Block(k) /\ \A p : Covers(k, p)' <=> Covers(k, p)
    BY <2>1 DEF Block, Covers
  <2>4. \A k \in 1 .. loaded' : Loadable(Block(k))
    <3>1. \A k \in 1 .. loaded' : k = new \/ k \in 1 .. loaded
      BY <2>1
    <3>2. Loadable(Block(new))
      BY <2>1
    <3> QED BY <2>2, <3>1, <3>2 DEF IInv, PlacedInv
  <2>5. ASSUME NEW p \in Pixel, \A k \in 1 .. loaded' : ~Covers(k, p)
        PROVE  positions'[p] = Nowhere
    <3>1. ~Covers(new, p)
      BY <2>1, <2>5
    <3>2. \A k \in 1 .. loaded : ~Covers(k, p)
      BY <2>1, <2>5
    <3> QED BY <2>1, <2>2, <3>1, <3>2 DEF IInv, PlacedInv, Covers
  <2>6. ASSUME NEW p \in Pixel, NEW k \in 1 .. loaded', Covers(k, p),
               \A j \in k + 1 .. loaded' : ~Covers(j, p)
        PROVE  \E c \in Calls(Block(k)) : /\ pixel_index(Block(k), c) = p
                                          /\ positions'[p] = PixelPosition(Block(k), c)
    <3>1. CASE k = new
      BY <2>1, <2>6, <3>1 DEF Covers
    <3>2. CASE k # new
      <4>1. k \in 1 .. loaded /\ new \in k + 1 .. loaded'
        BY <2>1, <3>2
      <4>2. LastToCover(k, p)
        BY <2>1, <2>6, <4>1 DEF LastToCover
      <4>3. positions'[p] = positions[p]
        BY <2>1, <2>6, <4>1 DEF Covers
      <4> QED BY <2>2, <4>1, <4>2, <4>3 DEF IInv, PlacedInv
    <3> QED BY <3>1, <3>2
  <2> HIDE DEF b, new
  <2> QED BY <2>3, <2>4, <2>5, <2>6 DEF PlacedInv, LastToCover
<1>2. CASE ~LoadBlockLayout
  <2>1. mainPc = "layout" /\ UNCHANGED <<layout, loaded, positions>>
    BY <1>2 DEF Next, Main, Render, vars, layoutVars, LoadLayout, FailLayout,
       StartThreads, Flush, DrawPixel, DrawDone, WakeUp, HandleEvents,
       CloseWindow, Expose, StartFrame, CopyPixel, Lock, Redraw, Unlock, Awake
  <2> QED BY <2>1 DEF IInv, PlacedInv, LastToCover, Covers, Block
<1> QED BY <1>1, <1>2

\* The layout is one of the file's, and the two threads keep to their invariant.
THEOREM Invariance == Spec => [](LayoutInv /\ IInv)
<1>1. Init => LayoutInv /\ IInv
  BY InitHolds DEF Init, LayoutInit, LayoutInv
<1>2. LayoutInv /\ IInv /\ [Next]_vars => LayoutInv' /\ IInv'
  BY TypeStep, PlacedStep, LockStep, CopyStep, DrawStep, RedrawStep DEF IInv
<1> QED BY <1>1, <1>2, PTL DEF Spec

\* fltk-driver.cc:237: no redraw is lost between the render thread and the event
\* loop, whatever the number of LEDs and frames.
THEOREM NoRedrawIsLost == Spec => []QuietMeansCurrent
<1>1. IInv => QuietMeansCurrent
  BY DEF IInv, RedrawInv, QuietMeansCurrent
<1> QED BY <1>1, Invariance, PTL

\* fltk-driver.cc:237: copying without the lock mixes two frames at most.
THEOREM TwoFramesMix == Spec => []AtMostTwoFrames
<1>1. IInv => AtMostTwoFrames
  BY DEF IInv, DrawInv
<1> QED BY <1>1, Invariance, PTL

\* fltk-driver.cc:237: the window never goes back to an older frame.
THEOREM WindowFollowsFrames == Spec => WindowNeverGoesBack
<1> DEFINE Follows == \A p \in Pixel : screen'[p] # screen[p] =>
                        screen'[p] > screen[p] /\ screen'[p] \in {frame - 1, frame}
<1>1. IInv /\ [Next]_vars => [Follows]_vars
  <2> SUFFICES ASSUME IInv, Next, NEW p \in Pixel, screen'[p] # screen[p]
               PROVE  screen'[p] > screen[p] /\ screen'[p] \in {frame - 1, frame}
    OBVIOUS
  <2>1. DrawPixel
    BY DEF Next, Main, Render, layoutVars, fltkVars, expVars, renderVars, LoadLayout,
       StartThreads, Flush, DrawDone, WakeUp, HandleEvents, CloseWindow, Expose,
       StartFrame, CopyPixel, Lock, Redraw, Unlock, Awake
  <2>2. screen'[p] = pixel_data[p]
    BY <2>1 DEF DrawPixel, IInv, TypeOK
  <2>3. /\ pixel_data[p] \in {frame - 1, frame} /\ screen[p] <= pixel_data[p]
        /\ screen[p] \in Int /\ pixel_data[p] \in Int
    BY EmulatorAssumption DEF IInv, TypeOK, CopyInv, DrawInv
  <2> QED BY <2>2, <2>3
<1> QED BY <1>1, Invariance, PTL DEF Spec, WindowNeverGoesBack

\* fltk-driver.cc:244: once a redraw has been asked for, the event loop can only get
\* nearer to drawing.
THEOREM EventLoopGetsOn == Spec => DrawingComesCloser
<1> DEFINE Nearer(p) == /\ Due(p)' /\ StepsTo(p)' <= StepsTo(p)
                        /\ Main => StepsTo(p)' < StepsTo(p)
           Drawing(p) == drawn = p /\ drawn' = p + 1 /\ screen'[p] = pixel_data[p]
           Closer == \A p \in Pixel : (Due(p) /\ mainPc \notin {"layout", "exit"}) =>
                       \/ mainPc' = "exit"
                       \/ Drawing(p)
                       \/ Nearer(p)
<1>1. IInv /\ [Next]_vars => [Closer]_vars
  <2> SUFFICES ASSUME IInv, Next, NEW p \in Pixel, Due(p),
                      mainPc \notin {"layout", "exit"}, mainPc' # "exit"
               PROVE  Drawing(p) \/ Nearer(p)
    OBVIOUS
  <2>0. /\ p \in Nat /\ p < NumPixels /\ NumPixels \in Nat /\ drawn \in 0 .. NumPixels
        /\ mainPc \in {"flush", "draw", "select", "lock"}
        /\ damage \in BOOLEAN /\ exposed \in BOOLEAN
        /\ screen \in [Pixel -> 0 .. MaxFrames]
    BY LayoutAssumption, NumPixelsType DEF IInv, TypeOK, Pixel, NumPixels
  <2>1. CASE Flush
    BY <2>0, <2>1 DEF Flush, Due, StepsTo, expVars
  <2>2. CASE DrawPixel
    <3>1. /\ mainPc = "draw" /\ mainPc' = "draw" /\ drawn' = drawn + 1
          /\ UNCHANGED <<damage, exposed>> /\ drawn < NumPixels
          /\ screen' = [screen EXCEPT ![drawn] = pixel_data[drawn]]
      BY <2>2 DEF DrawPixel, layoutVars, fltkVars, expVars
    <3>2. CASE drawn = p
      BY <2>0, <3>1, <3>2
    <3>3. CASE drawn # p
      BY <2>0, <3>1, <3>3 DEF Due, StepsTo
    <3> QED BY <3>2, <3>3
  <2>3. CASE DrawDone
    BY <2>0, <2>3 DEF DrawDone, Due, StepsTo, fltkVars, expVars
  <2>4. CASE WakeUp
    BY <2>0, <2>4 DEF WakeUp, Due, StepsTo, fltkVars, expVars
  <2>5. CASE HandleEvents
    <3>1. /\ mainPc = "lock" /\ mainPc' = "flush"
          /\ damage' = (damage \/ exposed) /\ drawn' = drawn
      BY <2>5 DEF HandleEvents
    <3>2. damage'
      BY <3>1 DEF Due
    <3> QED BY <2>0, <3>1, <3>2 DEF Due, StepsTo
  <2>6. CASE LoadLayout \/ StartThreads \/ CloseWindow
    BY <2>0, <2>6 DEF LoadLayout, LoadBlockLayout, FailLayout, StartThreads, CloseWindow
  <2>7. CASE Expose \/ Render
    <3>1. UNCHANGED <<mainPc, drawn>>
      BY <2>0, <2>7 DEF Expose, Render, StartFrame, CopyPixel, Lock, Redraw, Unlock, Awake,
         layoutVars
    <3>2. /\ damage' \in BOOLEAN /\ (damage => damage') /\ (exposed => exposed')
      BY <2>0, <2>7 DEF Expose, Render, StartFrame, CopyPixel, Lock, Redraw, Unlock, Awake,
         fltkVars, expVars
    <3>3. ~Main
      BY <2>0, <3>1 DEF Main, LoadLayout, LoadBlockLayout, FailLayout, StartThreads, Flush,
         DrawPixel, DrawDone, WakeUp, HandleEvents, CloseWindow
    <3> QED BY <2>0, <3>1, <3>2, <3>3 DEF Due, StepsTo
  <2> QED BY <2>1, <2>2, <2>3, <2>4, <2>5, <2>6, <2>7 DEF Next, Main
<1> QED BY <1>1, Invariance, PTL DEF Spec, DrawingComesCloser

-----------------------------------------------------------------------------
(* The layouts.                                                              *)

\* Multiplication and division by a number of columns or rows.
LEMMA TimesIsMonotonic ==
  ASSUME NEW n \in Nat, NEW s \in Nat, NEW t \in Nat
  PROVE  s * n \in Nat /\ (s < t => s * n + n <= t * n)
<1>1. s * n \in Nat
  OBVIOUS
<1>2. ASSUME s < t PROVE s * n + n <= t * n
  <2>1. t - s - 1 \in Nat
    BY <1>2
  <2>2. (t - s - 1) * n >= 0
    BY <2>1
  <2>3. (t - s - 1) * n = t * n - s * n - n
    OBVIOUS
  <2> QED BY <2>2, <2>3, <1>1
<1> QED BY <1>1, <1>2

LEMMA QuotientIsUnique ==
  ASSUME NEW n \in Nat \ {0}, NEW x \in Nat, NEW s \in 0 .. n - 1
  PROVE  (x * n + s) \div n = x /\ (x * n + s) % n = s
<1> DEFINE a == x * n + s
           q == a \div n
           r == a % n
<1>1. a \in Nat
  BY TimesIsMonotonic
<1> HIDE DEF a
<1>2. q \in Nat /\ r \in 0 .. n - 1 /\ a = q * n + r
  BY <1>1
<1> HIDE DEF q, r
<1>3. /\ q < x => q * n + n <= x * n
      /\ x < q => x * n + n <= q * n
      /\ q * n \in Nat /\ x * n \in Nat
  BY <1>2, TimesIsMonotonic
<1>4. q = x
  BY <1>2, <1>3 DEF a
<1> QED BY <1>2, <1>3, <1>4 DEF a, q, r

\* What the YAML keys of a block that can be loaded hold.
LEMMA BlockType ==
  ASSUME layout \in Layouts, NEW k \in 1 .. Len(layout.blocks), Loadable(Block(k))
  PROVE  LET b == Block(k)
         IN  /\ b.strip \in Int /\ b.x \in Int /\ b.y \in Int
             /\ b.pixel_width \in Int /\ b.pixel_height \in Int
             /\ strip_offset(b) \in Int
             /\ b.pattern \in Grids => b.rows \in Int /\ b.columns \in Int
             /\ b.pattern \in Rows => b.size \in Int
<1> DEFINE b == Block(k)
<1>1. k \in DOMAIN layout.blocks
  BY LayoutAssumption
<1>2. \A key \in {"strip", "strip_offset", "x", "y", "pixel_width",
                  "pixel_height", "rows", "columns", "size", "pixel_step"} :
        key \in DOMAIN b => b[key] \in Int
  BY <1>1, LayoutAssumption DEF Block
<1>3. {"strip", "x", "y", "pixel_width", "pixel_height"} \subseteq DOMAIN b
  BY DEF Loadable, RequiredKeys
<1>4. b.pattern \in Grids => "rows" \in DOMAIN b /\ "columns" \in DOMAIN b
  BY DEF Loadable, RequiredKeys
<1>5. b.pattern \in Rows => "size" \in DOMAIN b
  BY DEF Loadable, RequiredKeys, Rows, Grids
<1> HIDE DEF b
<1>6. b.strip \in Int /\ b.x \in Int /\ b.y \in Int /\ b.pixel_width \in Int /\ b.pixel_height \in Int
  BY <1>2, <1>3
<1>7. strip_offset(b) \in Int
  BY <1>2 DEF strip_offset
<1>8. b.pattern \in Grids => b.rows \in Int /\ b.columns \in Int
  BY <1>2, <1>4
<1>9. b.pattern \in Rows => b.size \in Int
  BY <1>2, <1>5
<1> QED BY <1>6, <1>7, <1>8, <1>9 DEF b

\* A row or a column of a grid: the loop that places it.
LEMMA LeftToRightCall ==
  ASSUME NEW b, NEW led \in Int, NEW n \in Int, NEW x, NEW y,
         NEW c \in LeftToRight(b, led, n, x, y)
  PROVE  \E i \in 0 .. n - 1 : c.led = led + i /\ c.x = x + i * b.pixel_width /\ c.y = y
BY DEF LeftToRight

LEMMA RightToLeftCall ==
  ASSUME NEW b, NEW led \in Int, NEW n \in Int, NEW x, NEW y,
         NEW c \in RightToLeft(b, led, n, x, y)
  PROVE  \E i \in 0 .. n - 1 : c.led = led + i /\ c.x = x + (n - 1 - i) * b.pixel_width /\ c.y = y
<1>1. PICK j \in 0 .. n - 1 :
        c = [led |-> led + n - 1 - j, x |-> x + j * b.pixel_width, y |-> y]
  BY DEF RightToLeft
<1>2. n - 1 - j \in 0 .. n - 1 /\ led + n - 1 - j = led + (n - 1 - j) /\ n - 1 - (n - 1 - j) = j
  OBVIOUS
<1> QED BY <1>1, <1>2

LEMMA TopToBottomCall ==
  ASSUME NEW b, NEW led \in Int, NEW n \in Int, NEW x, NEW y,
         NEW c \in TopToBottom(b, led, n, x, y)
  PROVE  \E i \in 0 .. n - 1 : c.led = led + i /\ c.x = x /\ c.y = y + i * b.pixel_height
BY DEF TopToBottom

LEMMA BottomToTopCall ==
  ASSUME NEW b, NEW led \in Int, NEW n \in Int, NEW x, NEW y,
         NEW c \in BottomToTop(b, led, n, x, y)
  PROVE  \E i \in 0 .. n - 1 : c.led = led + i /\ c.x = x /\ c.y = y + (n - 1 - i) * b.pixel_height
<1>1. PICK j \in 0 .. n - 1 :
        c = [led |-> led + n - 1 - j, x |-> x, y |-> y + j * b.pixel_height]
  BY DEF BottomToTop
<1>2. n - 1 - j \in 0 .. n - 1 /\ led + n - 1 - j = led + (n - 1 - j) /\ n - 1 - (n - 1 - j) = j
  OBVIOUS
<1> QED BY <1>1, <1>2

\* What the loops of a block do to a LED is what division and remainder say of
\* its place in the chain.
LEMMA CellOfCall ==
  ASSUME layout \in Layouts, NEW k \in 1 .. Len(layout.blocks), Loadable(Block(k)),
         Block(k).pattern \in Grids \union Rows, NEW c \in Calls(Block(k))
  PROVE  LET b == Block(k)
             cell == Cell(b, c.led - strip_offset(b))
         IN  /\ c.led \in Int /\ c.led - strip_offset(b) \in Nat
             /\ b.pattern = "horizontal_zigzag" => b.columns \in Nat \ {0}
             /\ c.x = b.x + cell[1] * b.pixel_width
             /\ c.y = b.y + cell[2] * b.pixel_height
<1> DEFINE b == Block(k)
           offset == strip_offset(b)
           n == c.led - offset
<1>0. /\ b.x \in Int /\ b.y \in Int /\ b.pixel_width \in Int /\ b.pixel_height \in Int
      /\ offset \in Int
      /\ b.pattern \in Grids => b.rows \in Int /\ b.columns \in Int
      /\ b.pattern \in Rows => b.size \in Int
  BY BlockType
<1>o. offset \in Int
  BY <1>0
<1> SUFFICES ASSUME NEW pattern, b.pattern = pattern, c \in Calls(b),
                    pattern \in Grids \union Rows
             PROVE  /\ c.led \in Int /\ n \in Nat
                    /\ pattern = "horizontal_zigzag" => b.columns \in Nat \ {0}
                    /\ c.x = b.x + Cell(b, n)[1] * b.pixel_width
                    /\ c.y = b.y + Cell(b, n)[2] * b.pixel_height
  OBVIOUS
<1> HIDE DEF b, offset
<1>1. CASE pattern = "horizontal_rectangle"
  <2>1. c \in HorizontalRectangle(b)
    BY <1>1 DEF Calls
  <2>2. b.rows \in Int /\ b.columns \in Int
    BY <1>0, <1>1 DEF Grids
  <2>3. PICK row \in 0 .. b.rows - 1 :
          c \in LeftToRight(b, offset + row * b.columns, b.columns, b.x, b.y + row * b.pixel_height)
    BY <2>1 DEF HorizontalRectangle, offset
  <2> DEFINE m == b.columns
             led == offset + row * m
             x == b.x
             y == b.y + row * b.pixel_height
  <2>4. m \in Int /\ row \in Nat /\ led \in Int
    <3>1. m \in Int /\ row \in Nat
      BY <2>2, <2>3
    <3> HIDE DEF m
    <3> QED BY <3>1, <1>o
  <2>5. c \in LeftToRight(b, led, m, x, y)
    BY <2>3
  <2> HIDE DEF m, led, x, y
  <2>6. PICK i \in 0 .. m - 1 : c.led = led + i /\ c.x = x + i * b.pixel_width /\ c.y = y
    BY <2>4, <2>5, LeftToRightCall
  <2>7. c.led \in Int
    BY <2>4, <2>6
  <2>8. n \in Nat /\ n \div m = row /\ n % m = i
    <3>1. n = row * m + i
      BY <2>4, <2>6, <2>7, <1>o DEF led
    <3>2. m \in Nat \ {0}
      BY <2>4, <2>6
    <3>3. (row * m + i) \div m = row /\ (row * m + i) % m = i
      BY <2>4, <3>2, QuotientIsUnique
    <3>4. row * m + i \in Nat
      BY <2>4, <3>2, TimesIsMonotonic
    <3> QED BY <3>1, <3>3, <3>4
  <2>9. Cell(b, n) = <<i, row>>
    BY <2>8, <1>1 DEF Cell, m
  <2> QED BY <2>6, <2>7, <2>8, <2>9, <1>1 DEF x, y
<1>2. CASE pattern = "vertical_rectangle"
  <2>1. c \in VerticalRectangle(b)
    BY <1>2 DEF Calls
  <2>2. b.rows \in Int /\ b.columns \in Int
    BY <1>0, <1>2 DEF Grids
  <2>3. PICK col \in 0 .. b.columns - 1 :
          c \in TopToBottom(b, offset + col * b.rows, b.rows, b.x + col * b.pixel_width, b.y)
    BY <2>1 DEF VerticalRectangle, offset
  <2> DEFINE m == b.rows
             led == offset + col * m
             x == b.x + col * b.pixel_width
             y == b.y
  <2>4. m \in Int /\ col \in Nat /\ led \in Int
    <3>1. m \in Int /\ col \in Nat
      BY <2>2, <2>3
    <3> HIDE DEF m
    <3> QED BY <3>1, <1>o
  <2>5. c \in TopToBottom(b, led, m, x, y)
    BY <2>3
  <2> HIDE DEF m, led, x, y
  <2>6. PICK i \in 0 .. m - 1 : c.led = led + i /\ c.x = x /\ c.y = y + i * b.pixel_height
    BY <2>4, <2>5, TopToBottomCall
  <2>7. c.led \in Int
    BY <2>4, <2>6
  <2>8. n \in Nat /\ n \div m = col /\ n % m = i
    <3>1. n = col * m + i
      BY <2>4, <2>6, <2>7, <1>o DEF led
    <3>2. m \in Nat \ {0}
      BY <2>4, <2>6
    <3>3. (col * m + i) \div m = col /\ (col * m + i) % m = i
      BY <2>4, <3>2, QuotientIsUnique
    <3>4. col * m + i \in Nat
      BY <2>4, <3>2, TimesIsMonotonic
    <3> QED BY <3>1, <3>3, <3>4
  <2>9. Cell(b, n) = <<col, i>>
    BY <2>8, <1>2 DEF Cell, m
  <2> QED BY <2>6, <2>7, <2>8, <2>9, <1>2 DEF x, y
<1>3. CASE pattern \in {"horizontal_zigzag", "vertical_zigzag"}
  <2>1. c \in HorizontalZigzag(b)
    BY <1>3 DEF Calls
  <2>2. b.rows \in Int /\ b.columns \in Int
    BY <1>0, <1>3 DEF Grids
  <2> DEFINE m == b.columns
             led(row) == offset + row * m
             x == b.x
             y(row) == b.y + row * b.pixel_height
  <2>3. PICK row \in 0 .. b.rows - 1 :
          c \in IF row % 2 = 0 THEN LeftToRight(b, led(row), m, x, y(row))
                               ELSE RightToLeft(b, led(row), m, x, y(row))
    BY <2>1 DEF HorizontalZigzag, offset
  <2>4. m \in Int /\ row \in Nat /\ led(row) \in Int
    <3>1. m \in Int /\ row \in Nat
      BY <2>2, <2>3
    <3> HIDE DEF m
    <3> QED BY <3>1, <1>o
  <2> DEFINE start == led(row)
             top == y(row)
             even == row % 2 = 0
  <2>5. /\ even => c \in LeftToRight(b, start, m, x, top)
        /\ ~even => c \in RightToLeft(b, start, m, x, top)
        /\ start \in Int
    BY <2>3, <2>4
  <2> HIDE DEF m, x, start, top, even
  <2>6. PICK i \in 0 .. m - 1 :
          /\ c.led = start + i
          /\ c.x = x + (IF even THEN i ELSE m - 1 - i) * b.pixel_width
          /\ c.y = top
    <3>1. CASE even
      <4>1. PICK i \in 0 .. m - 1 : c.led = start + i /\ c.x = x + i * b.pixel_width /\ c.y = top
        BY <2>4, <2>5, <3>1, LeftToRightCall
      <4> QED BY <4>1, <3>1
    <3>2. CASE ~even
      <4>1. PICK i \in 0 .. m - 1 :
              c.led = start + i /\ c.x = x + (m - 1 - i) * b.pixel_width /\ c.y = top
        BY <2>4, <2>5, <3>2, RightToLeftCall
      <4> QED BY <4>1, <3>2
    <3> QED BY <3>1, <3>2
  <2>7. c.led \in Int
    BY <2>5, <2>6
  <2>8. n \in Nat /\ n \div m = row /\ n % m = i
    <3>1. n = row * m + i
      BY <2>4, <2>6, <2>7, <1>o DEF start
    <3>2. m \in Nat \ {0}
      BY <2>4, <2>6
    <3>3. (row * m + i) \div m = row /\ (row * m + i) % m = i
      BY <2>4, <3>2, QuotientIsUnique
    <3>4. row * m + i \in Nat
      BY <2>4, <3>2, TimesIsMonotonic
    <3> QED BY <3>1, <3>3, <3>4
  <2>9. Cell(b, n) = <<IF even THEN i ELSE m - 1 - i, row>>
    BY <2>8, <1>3 DEF Cell, m, even
  <2>10. b.columns \in Nat \ {0}
    BY <2>4, <2>6 DEF m
  <2> QED BY <2>6, <2>7, <2>8, <2>9, <2>10 DEF x, top
<1>4. CASE pattern \in Rows
  <2> DEFINE m == b.size
             x == b.x
             y == b.y
  <2>1. m \in Int /\ x \in Int /\ y \in Int
    BY <1>0, <1>4
  <2>2. CASE pattern = "left_to_right"
    <3>1. c \in LeftToRight(b, offset, m, x, y)
      BY <2>2 DEF Calls, offset
    <3> HIDE DEF m, x, y
    <3>2. PICK i \in 0 .. m - 1 :
            c.led = offset + i /\ c.x = x + i * b.pixel_width /\ c.y = y
      BY <3>1, <2>1, <1>o, LeftToRightCall
    <3>3. n = i /\ c.led \in Int
      BY <3>2, <1>0
    <3>4. Cell(b, n) = <<i, 0>>
      BY <3>3, <2>2 DEF Cell, m
    <3>5. b.pixel_width \in Int /\ b.pixel_height \in Int
      BY <1>0, <1>4
    <3>6. c.x = x + Cell(b, n)[1] * b.pixel_width /\ c.y = y + Cell(b, n)[2] * b.pixel_height
      BY <3>2, <3>4, <3>5, <2>1
    <3> QED BY <3>3, <3>6, <1>4 DEF x, y, Rows
  <2>3. CASE pattern = "right_to_left"
    <3>1. c \in RightToLeft(b, offset, m, x, y)
      BY <2>3 DEF Calls, offset
    <3> HIDE DEF m, x, y
    <3>2. PICK i \in 0 .. m - 1 :
            /\ c.led = offset + i
            /\ c.x = x + (m - 1 - i) * b.pixel_width /\ c.y = y
      BY <3>1, <2>1, <1>o, RightToLeftCall
    <3>3. n = i /\ c.led \in Int
      BY <3>2, <1>0
    <3>4. Cell(b, n) = <<m - 1 - i, 0>>
      BY <3>3, <2>3 DEF Cell, m
    <3>5. b.pixel_width \in Int /\ b.pixel_height \in Int
      BY <1>0, <1>4
    <3>6. c.x = x + Cell(b, n)[1] * b.pixel_width /\ c.y = y + Cell(b, n)[2] * b.pixel_height
      BY <3>2, <3>4, <3>5, <2>1
    <3> QED BY <3>3, <3>6, <1>4 DEF x, y, Rows
  <2>4. CASE pattern = "top_to_bottom"
    <3>1. c \in TopToBottom(b, offset, m, x, y)
      BY <2>4 DEF Calls, offset
    <3> HIDE DEF m, x, y
    <3>2. PICK i \in 0 .. m - 1 :
            c.led = offset + i /\ c.x = x /\ c.y = y + i * b.pixel_height
      BY <3>1, <2>1, <1>o, TopToBottomCall
    <3>3. n = i /\ c.led \in Int
      BY <3>2, <1>0
    <3>4. Cell(b, n) = <<0, i>>
      BY <3>3, <2>4 DEF Cell, m
    <3>5. b.pixel_width \in Int /\ b.pixel_height \in Int
      BY <1>0, <1>4
    <3>6. c.x = x + Cell(b, n)[1] * b.pixel_width /\ c.y = y + Cell(b, n)[2] * b.pixel_height
      BY <3>2, <3>4, <3>5, <2>1
    <3> QED BY <3>3, <3>6, <1>4 DEF x, y, Rows
  <2>5. CASE pattern = "bottom_to_top"
    <3>1. c \in BottomToTop(b, offset, m, x, y)
      BY <2>5 DEF Calls, offset
    <3> HIDE DEF m, x, y
    <3>2. PICK i \in 0 .. m - 1 :
            /\ c.led = offset + i
            /\ c.x = x /\ c.y = y + (m - 1 - i) * b.pixel_height
      BY <3>1, <2>1, <1>o, BottomToTopCall
    <3>3. n = i /\ c.led \in Int
      BY <3>2, <1>0
    <3>4. Cell(b, n) = <<0, m - 1 - i>>
      BY <3>3, <2>5 DEF Cell, m
    <3>5. b.pixel_width \in Int /\ b.pixel_height \in Int
      BY <1>0, <1>4
    <3>6. c.x = x + Cell(b, n)[1] * b.pixel_width /\ c.y = y + Cell(b, n)[2] * b.pixel_height
      BY <3>2, <3>4, <3>5, <2>1
    <3> QED BY <3>3, <3>6, <1>4 DEF x, y, Rows
  <2> QED BY <1>4, <2>2, <2>3, <2>4, <2>5 DEF Rows
<1> QED BY <1>1, <1>2, <1>3, <1>4 DEF Grids

\* Where the LED of pixel p stands, if block k is the last to cover it.
LEMMA PlaceOfPixel ==
  ASSUME LayoutInv, IInv, mainPc = "layout", NEW k \in 1 .. loaded, NEW p \in Pixel,
         LastToCover(k, p), Block(k).pattern \in Grids \union Rows
  PROVE  LET b == Block(k)
             cell == Cell(b, PlaceInChain(k, p))
         IN  positions[p] = [x |-> b.x + cell[1] * b.pixel_width,
                             y |-> b.y + cell[2] * b.pixel_height,
                             width |-> b.pixel_width, height |-> b.pixel_height]
<1> DEFINE b == Block(k)
<1>1. layout \in Layouts /\ k \in 1 .. Len(layout.blocks) /\ Loadable(Block(k))
  BY LayoutAssumption DEF LayoutInv, IInv, TypeOK, PlacedInv
<1>2. PICK c \in Calls(Block(k)) :
        pixel_index(Block(k), c) = p /\ positions[p] = PixelPosition(Block(k), c)
  BY DEF IInv, PlacedInv
<1> DEFINE n == c.led - strip_offset(Block(k))
           cell == Cell(Block(k), n)
<1>3. /\ c.led \in Int
      /\ c.x = Block(k).x + cell[1] * Block(k).pixel_width
      /\ c.y = Block(k).y + cell[2] * Block(k).pixel_height
  BY <1>1, CellOfCall
<1>4. PlaceInChain(k, p) = n
  <2> DEFINE first == Block(k).strip * NumPixelsPerStrip
             offset == strip_offset(Block(k))
  <2>1. first \in Int /\ offset \in Int
    BY <1>1, BlockType, LayoutAssumption
  <2>2. p = first + c.led
    BY <1>2 DEF pixel_index
  <2>3. PlaceInChain(k, p) = p - first - offset
    BY DEF PlaceInChain
  <2> HIDE DEF first, offset
  <2>4. p - first - offset = c.led - offset
    BY <2>1, <2>2, <1>3
  <2> QED BY <2>3, <2>4 DEF offset
<1> HIDE DEF n, cell
<1>5. Cell(Block(k), PlaceInChain(k, p)) = cell
  BY <1>4 DEF cell
<1> QED BY <1>2, <1>3, <1>5 DEF PixelPosition

\* fltk-driver.cc:338: a loaded layout shows each LED at its place in the last
\* block that covers it, whatever the layout.
THEOREM LayoutIsPlaced == Spec => []PlacedByLastBlock
<1>1. LayoutInv /\ IInv => PlacedByLastBlock
  <2> SUFFICES ASSUME LayoutInv, IInv, mainPc = "layout" PROVE PlacedByLastBlock
    BY DEF PlacedByLastBlock
  <2>1. \A p \in Pixel : (\A k \in 1 .. loaded : ~Covers(k, p)) => positions[p] = Nowhere
    BY DEF IInv, PlacedInv
  <2> QED BY <2>1, PlaceOfPixel DEF PlacedByLastBlock
<1> QED BY <1>1, Invariance, PTL

\* The LED after LED n of a grid is in the same row, or the first of the next.
LEMMA NextInGrid ==
  ASSUME NEW m \in Nat \ {0}, NEW n \in Nat
  PROVE  /\ n \div m \in Nat /\ n % m \in 0 .. m - 1
         /\ \/ (n + 1) \div m = n \div m /\ (n + 1) % m = (n % m) + 1
            \/ /\ (n + 1) \div m = (n \div m) + 1
               /\ (n + 1) % m = 0 /\ n % m = m - 1
<1> DEFINE q == n \div m
           r == n % m
<1>1. q \in Nat /\ r \in 0 .. m - 1 /\ n = q * m + r
  OBVIOUS
<1> HIDE DEF q, r
<1>2. CASE r + 1 < m
  <2>1. n + 1 = q * m + (r + 1) /\ r + 1 \in 0 .. m - 1
    BY <1>1, <1>2, TimesIsMonotonic
  <2>2. (q * m + (r + 1)) \div m = q /\ (q * m + (r + 1)) % m = r + 1
    <3> DEFINE next == r + 1
    <3>1. next \in 0 .. m - 1
      BY <2>1
    <3> HIDE DEF next
    <3>2. (q * m + next) \div m = q /\ (q * m + next) % m = next
      BY <1>1, <3>1, QuotientIsUnique
    <3> QED BY <3>2 DEF next
  <2> QED BY <1>1, <2>1, <2>2 DEF q, r
<1>3. CASE r = m - 1
  <2> DEFINE down == q + 1
  <2>1. down \in Nat /\ 0 \in 0 .. m - 1
    BY <1>1
  <2>2. n + 1 = down * m + 0
    BY <1>1, <1>3
  <2> HIDE DEF down
  <2>3. (down * m + 0) \div m = down /\ (down * m + 0) % m = 0
    BY <2>1, QuotientIsUnique
  <2>4. (n + 1) \div m = down /\ (n + 1) % m = 0
    BY <2>2, <2>3
  <2> QED BY <1>1, <1>3, <2>4 DEF down, q, r
<1> QED BY <1>1, <1>2, <1>3

\* The cells of LEDs n and n + 1 of a zigzag touch.
LEMMA CellsTouch ==
  ASSUME NEW b, b.pattern = "horizontal_zigzag", b.columns \in Nat \ {0}, NEW n \in Nat
  PROVE  LET s == Cell(b, n)
             t == Cell(b, n + 1)
         IN  /\ s \in Int \X Int /\ t \in Int \X Int
             /\ \/ s[2] = t[2] /\ Apart(s[1], t[1], 1)
                \/ s[1] = t[1] /\ Apart(s[2], t[2], 1)
<1> DEFINE m == b.columns
           q == n \div m
           r == n % m
           q2 == (n + 1) \div m
           r2 == (n + 1) % m
<1>1. /\ m \in Nat \ {0} /\ q \in Nat /\ r \in 0 .. m - 1
      /\ (q2 = q /\ r2 = r + 1) \/ (q2 = q + 1 /\ r2 = 0 /\ r = m - 1)
  <2> HIDE DEF m
  <2>1. m \in Nat \ {0}
    BY DEF m
  <2> QED BY <2>1, NextInGrid
<1>2. /\ Cell(b, n) = IF q % 2 = 0 THEN <<r, q>> ELSE <<m - 1 - r, q>>
      /\ Cell(b, n + 1) = IF q2 % 2 = 0 THEN <<r2, q2>> ELSE <<m - 1 - r2, q2>>
  BY DEF Cell
<1> HIDE DEF m, q, r, q2, r2
<1>3. q2 = q + 1 => (q2 % 2 = 0 <=> q % 2 # 0)
  BY <1>1
<1> QED BY <1>1, <1>2, <1>3 DEF Apart

\* Cells that touch are drawn at the distance of a pixel.
LEMMA ScaledApart ==
  ASSUME NEW u \in Int, NEW v \in Int, Apart(u, v, 1), NEW d \in Int, NEW o \in Int
  PROVE  Apart(o + u * d, o + v * d, d)
<1>1. CASE u = v + 1
  <2>1. u * d = v * d + d
    BY <1>1
  <2> QED BY <2>1 DEF Apart
<1>2. CASE v = u + 1
  <2>1. v * d = u * d + d
    BY <1>2
  <2> QED BY <2>1 DEF Apart
<1> QED BY <1>1, <1>2 DEF Apart

\* fltk-driver.cc:338: a chain folded into a zigzag of any size is connected in
\* the window.
THEOREM ChainIsConnected == Spec => []ZigzagsAreConnected
<1>1. LayoutInv /\ IInv => ZigzagsAreConnected
  <2> SUFFICES ASSUME LayoutInv, IInv, mainPc = "layout", NEW k \in 1 .. loaded, NEW p \in Pixel,
                      Block(k).pattern = "horizontal_zigzag",
                      LastToCover(k, p), LastToCover(k, p + 1)
               PROVE  LET q == positions[p]  r == positions[p + 1]
                      IN  \/ q.y = r.y /\ Apart(q.x, r.x, Block(k).pixel_width)
                          \/ q.x = r.x /\ Apart(q.y, r.y, Block(k).pixel_height)
    BY DEF ZigzagsAreConnected
  <2> DEFINE b == Block(k)
             n == PlaceInChain(k, p)
  <2>1. layout \in Layouts /\ k \in 1 .. Len(layout.blocks) /\ Loadable(Block(k))
    BY LayoutAssumption DEF LayoutInv, IInv, TypeOK, PlacedInv
  <2>2. Block(k).pattern \in Grids
    BY DEF Grids
  <2>3. /\ b.x \in Int /\ b.y \in Int /\ b.pixel_width \in Int /\ b.pixel_height \in Int
        /\ b.strip \in Int /\ strip_offset(b) \in Int /\ b.rows \in Int /\ b.columns \in Int
    BY <2>1, <2>2, BlockType
  <2>4. NumPixels \in Nat /\ p \in Int
    BY LayoutAssumption, TimesIsMonotonic DEF NumPixels, Pixel
  <2>5. p + 1 \in Pixel
    <3>1. PICK c \in Calls(Block(k)) : pixel_index(Block(k), c) = p + 1
      BY DEF LastToCover, Covers
    <3> QED BY <2>1, <2>4, <3>1 DEF Loadable, Pixel
  <2>6. b.columns \in Nat \ {0} /\ n \in Nat /\ PlaceInChain(k, p + 1) = n + 1
    <3>1. PICK c \in Calls(Block(k)) : pixel_index(Block(k), c) = p
      BY DEF LastToCover, Covers
    <3>2. b.columns \in Nat \ {0} /\ c.led \in Int /\ c.led - strip_offset(b) \in Nat
      BY <2>1, <2>2, <3>1, CellOfCall
    <3> DEFINE first == b.strip * NumPixelsPerStrip
               offset == strip_offset(b)
    <3>3. first \in Int /\ offset \in Int
      <4>1. b.strip \in Int /\ offset \in Int /\ NumPixelsPerStrip \in Int
        BY <2>3, LayoutAssumption
      <4> HIDE DEF b, offset
      <4> QED BY <4>1
    <3>4. n = p - first - offset /\ PlaceInChain(k, p + 1) = (p + 1) - first - offset
      BY Zenon DEF PlaceInChain
    <3>5. p = first + c.led
      BY <3>1 DEF pixel_index
    <3> HIDE DEF first, n
    <3>6. n = c.led - offset
      BY <3>2, <3>3, <3>4, <3>5
    <3> QED BY <2>4, <3>2, <3>3, <3>4, <3>6 DEF offset, n
  <2>7. /\ positions[p].x = b.x + Cell(b, n)[1] * b.pixel_width
        /\ positions[p].y = b.y + Cell(b, n)[2] * b.pixel_height
        /\ positions[p + 1].x = b.x + Cell(b, n + 1)[1] * b.pixel_width
        /\ positions[p + 1].y = b.y + Cell(b, n + 1)[2] * b.pixel_height
    <3>1. Block(k).pattern \in Grids \union Rows
      BY <2>2
    <3>2. \A q \in Pixel : LastToCover(k, q) =>
            /\ positions[q].x = b.x + Cell(b, PlaceInChain(k, q))[1] * b.pixel_width
            /\ positions[q].y = b.y + Cell(b, PlaceInChain(k, q))[2] * b.pixel_height
      <4> SUFFICES ASSUME NEW q \in Pixel, LastToCover(k, q)
                   PROVE  /\ positions[q].x = b.x + Cell(b, PlaceInChain(k, q))[1] * b.pixel_width
                          /\ positions[q].y = b.y + Cell(b, PlaceInChain(k, q))[2] * b.pixel_height
        OBVIOUS
      <4>1. positions[q] = [x |-> b.x + Cell(b, PlaceInChain(k, q))[1] * b.pixel_width,
                            y |-> b.y + Cell(b, PlaceInChain(k, q))[2] * b.pixel_height,
                            width |-> b.pixel_width, height |-> b.pixel_height]
        BY <3>1, PlaceOfPixel
      <4> QED BY <4>1
    <3>3. /\ positions[p].x = b.x + Cell(b, n)[1] * b.pixel_width
          /\ positions[p].y = b.y + Cell(b, n)[2] * b.pixel_height
      BY <3>2
    <3>4. /\ positions[p + 1].x = b.x + Cell(b, PlaceInChain(k, p + 1))[1] * b.pixel_width
          /\ positions[p + 1].y = b.y + Cell(b, PlaceInChain(k, p + 1))[2] * b.pixel_height
      BY <3>2, <2>5
    <3> HIDE DEF n, b
    <3> QED BY <3>3, <3>4, <2>6
  <2> DEFINE s == Cell(b, n)
             t == Cell(b, n + 1)
             w == b.pixel_width
             h == b.pixel_height
  <2>8. /\ s \in Int \X Int /\ t \in Int \X Int
        /\ (s[2] = t[2] /\ Apart(s[1], t[1], 1)) \/ (s[1] = t[1] /\ Apart(s[2], t[2], 1))
    <3> HIDE DEF n
    <3> QED BY <2>6, CellsTouch
  <2> HIDE DEF n, s, t, w, h
  <2>9. w \in Int /\ h \in Int /\ b.x \in Int /\ b.y \in Int
    BY <2>3 DEF w, h
  <2>10. /\ positions[p].x = b.x + s[1] * w /\ positions[p].y = b.y + s[2] * h
         /\ positions[p + 1].x = b.x + t[1] * w /\ positions[p + 1].y = b.y + t[2] * h
    BY <2>7 DEF s, t, w, h
  <2>11. Apart(s[1], t[1], 1) => Apart(b.x + s[1] * w, b.x + t[1] * w, w)
    BY <2>8, <2>9, ScaledApart
  <2>12. Apart(s[2], t[2], 1) => Apart(b.y + s[2] * h, b.y + t[2] * h, h)
    BY <2>8, <2>9, ScaledApart
  <2> HIDE DEF b
  <2>13. CASE s[2] = t[2] /\ Apart(s[1], t[1], 1)
    BY <2>10, <2>11, <2>13 DEF w, b
  <2>14. CASE s[1] = t[1] /\ Apart(s[2], t[2], 1)
    BY <2>10, <2>12, <2>14 DEF h, b
  <2> QED BY <2>8, <2>13, <2>14
<1> QED BY <1>1, Invariance, PTL
=============================================================================
