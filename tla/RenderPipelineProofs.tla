----------------------- MODULE RenderPipelineProofs -----------------------
(***************************************************************************)
(* Proofs about RenderPipeline and RenderLatency, for every number of      *)
(* strips, pixels, pictures and frames, with and without dropped frame     *)
(* ends.                                                                   *)
(***************************************************************************)
EXTENDS RenderLatency, TLAPS

\* A pixel of an image is a version.
LEMMA PixelIsVersion ==
  ASSUME NEW f \in Image, NEW s \in Strip, NEW x \in Pixel
  PROVE  f[s][x] \in Version
BY DEF Image

\* The loop over the strips stays within them.
LEMMA NextStripEffect ==
  ASSUME strip \in Strip, NextStrip
  PROVE  strip' \in Strip /\ animPc' \in {"strip", "wait"}
<1> USE PipelineAssumption
<1> QED
  BY DEF NextStrip, Strip

\* SetStripData stores one pixel of the strip and leaves the others alone.
LEMMA CopyPixelEffect ==
  ASSUME TypeOK, NEW y \in Pixel, CopyPixel(y)
  PROVE  /\ frameData' \in Image
         /\ \A t \in Strip, x \in Pixel : frameData'[t][x]
              = IF t = strip /\ x = y THEN pixels[t] ELSE frameData[t][x]
<1>1. /\ frameData \in [Strip -> [Pixel -> Version]] /\ strip \in Strip
      /\ pixels[strip] \in Version
  BY DEF TypeOK, Image
<1>2. frameData' = [frameData EXCEPT ![strip][y] = pixels[strip]]
  BY DEF CopyPixel
<1> QED
  BY <1>1, <1>2 DEF Image

\* What packing one pixel does to the render thread.
PackFacts(x) ==
  /\ renderPc = "pack" /\ x \in unpacked
  /\ buffer' \in Image
  /\ \A t \in Strip, y \in Pixel : buffer'[t][y]
       = IF t = packing /\ y = x THEN frameData[t][y] ELSE buffer[t][y]
  /\ \/ /\ unpacked # {x} /\ unpacked' = unpacked \ {x}
        /\ UNCHANGED <<packing, renderPc>>
     \/ /\ unpacked = {x} /\ packing + 1 < NumStrips /\ packing' = packing + 1
        /\ unpacked' = Pixel /\ UNCHANGED renderPc
     \/ /\ unpacked = {x} /\ packing + 1 = NumStrips /\ packing' = 0
        /\ unpacked' = {} /\ renderPc' = "raw"

\* SetPixelData packs one word and goes on to the next one or the next strip.
LEMMA PackPixelEffect ==
  ASSUME TypeOK, NEW x \in Pixel, PackPixel(x) PROVE PackFacts(x)
<1> USE PipelineAssumption
<1>1. /\ buffer \in [Strip -> [Pixel -> Version]] /\ packing \in Strip
      /\ frameData[packing][x] \in Version
  BY PixelIsVersion DEF TypeOK, Image
<1>2. buffer' = [buffer EXCEPT ![packing][x] = frameData[packing][x]]
  BY DEF PackPixel
<1>3. /\ buffer' \in Image
      /\ \A t \in Strip, y \in Pixel : buffer'[t][y]
           = IF t = packing /\ y = x THEN frameData[packing][x] ELSE buffer[t][y]
  BY <1>1, <1>2 DEF Image
<1>4. /\ renderPc = "pack" /\ x \in unpacked
      /\ \/ unpacked # {x} /\ unpacked' = unpacked \ {x} /\ UNCHANGED <<packing, renderPc>>
         \/ /\ unpacked = {x} /\ packing + 1 < NumStrips /\ packing' = packing + 1
            /\ unpacked' = Pixel /\ UNCHANGED renderPc
         \/ /\ unpacked = {x} /\ ~(packing + 1 < NumStrips) /\ packing' = 0
            /\ unpacked' = {} /\ renderPc' = "raw"
  BY DEF PackPixel
<1>5. ~(packing + 1 < NumStrips) <=> packing + 1 = NumStrips
  BY <1>1 DEF Strip
<1> QED
  BY <1>3, <1>4, <1>5 DEF PackFacts

-----------------------------------------------------------------------------
\* Every step keeps the types.
LEMMA TypeStep == TypeOK /\ [Next]_vars => TypeOK'
<1> SUFFICES ASSUME TypeOK, [Next]_vars PROVE TypeOK'
  OBVIOUS
<1> USE PipelineAssumption
<1>1. CASE Tick
  BY <1>1 DEF TypeOK, Tick, animVars, renderVars, channelVars
<1>2. CASE StartRound
  BY <1>2 DEF TypeOK, StartRound, renderVars, channelVars, Strip
<1>3. CASE EnableStrip
  BY <1>3, NextStripEffect DEF TypeOK, EnableStrip, renderVars, channelVars, Strip
<1>4. CASE RenderStrip
  <2>1. pixels' \in [Strip -> Version]
    BY <1>4 DEF TypeOK, RenderStrip, Version
  <2>2. uncopied' # {} /\ uncopied' \subseteq Pixel
    BY <1>4 DEF RenderStrip, Pixel
  <2> QED
    BY <1>4, <2>1, <2>2 DEF TypeOK, RenderStrip, renderVars, channelVars
<1>5. ASSUME NEW x \in Pixel, CopyPixel(x) PROVE TypeOK'
  <2>1. frameData' \in Image
    BY <1>5, CopyPixelEffect
  <2>2. /\ uncopied' \subseteq Pixel /\ strip' \in Strip
        /\ animPc' \in {"wait", "strip", "copy"}
        /\ animPc' = "copy" <=> uncopied' # {}
    BY <1>5, NextStripEffect DEF TypeOK, CopyPixel
  <2> QED
    BY <1>5, <2>1, <2>2 DEF TypeOK, CopyPixel, renderVars, channelVars
<1>6. CASE StartFrame
  <2>1. Pixel # {} /\ 0 \in Strip
    BY DEF Pixel, Strip
  <2> QED
    BY <1>6, <2>1 DEF TypeOK, StartFrame, animVars, channelVars
<1>7. ASSUME NEW x \in Pixel, PackPixel(x) PROVE TypeOK'
  <2>1. PackFacts(x)
    BY <1>7, PackPixelEffect
  <2>2. /\ unpacked' \subseteq Pixel /\ packing' \in Strip
        /\ renderPc' \in {"wait", "pack", "raw", "draw"}
        /\ renderPc' = "pack" <=> unpacked' # {}
    <3>1. Pixel # {} /\ 0 \in Strip
      BY DEF Pixel, Strip
    <3>2. packing + 1 < NumStrips => packing + 1 \in Strip
      BY DEF TypeOK, Strip
    <3> QED
      BY <2>1, <3>1, <3>2 DEF PackFacts, TypeOK
  <2> QED
    BY <1>7, <2>1, <2>2 DEF TypeOK, PackPixel, PackFacts, animVars, channelVars
<1>8. CASE SetRawData
  <2>1. ledsFrame' \in Image
    BY <1>8, PixelIsVersion DEF TypeOK, SetRawData, Image
  <2> QED
    BY <1>8, <2>1 DEF TypeOK, SetRawData, animVars, channelVars
<1>9. CASE DrawFrame
  BY <1>9 DEF TypeOK, DrawFrame, Channel!Publish, animVars, renderVars
<1>10. ASSUME NEW p \in Pru, TakeFrame(p) PROVE TypeOK'
  BY <1>10 DEF TypeOK, TakeFrame, Channel!Take, animVars, renderVars
<1>11. ASSUME NEW p \in Pru, FinishFrame(p) PROVE TypeOK'
  <2>1. shown' \in Image
    BY <1>11, PixelIsVersion DEF TypeOK, FinishFrame, Image
  <2> QED
    BY <1>11, <2>1 DEF TypeOK, FinishFrame, Channel!Finish, animVars, renderVars
<1>12. CASE UNCHANGED vars
  BY <1>12 DEF TypeOK, vars
<1> QED
  BY <1>1, <1>2, <1>3, <1>4, <1>5, <1>6, <1>7, <1>8, <1>9, <1>10, <1>11, <1>12
  DEF Next, Animate, Render, Show
-----------------------------------------------------------------------------
(* The pictures on their way: versions never increase along the pipe, and    *)
(* what is packed is no older than base.                                     *)

\* The version of each picture, at one pixel, as numbers.
LEMMA PixelFacts ==
  ASSUME TypeOK, NEW s \in Strip, NEW x \in Pixel
  PROVE  /\ frameData[s][x] \in Nat /\ buffer[s][x] \in Nat
         /\ ledsFrame[s][x] \in Nat /\ ddr[s][x] \in Nat
         /\ shown[s][x] \in Nat /\ base[s][x] \in Nat /\ pixels[s] \in Nat
BY DEF TypeOK, Image, Version

images == <<pixels, frameData, buffer, ledsFrame, ddr, shown, base>>

\* Versions never increase along the pipe.
LEMMA PipeStep == IInv /\ [Next]_vars => PipeInv'
<1> SUFFICES ASSUME IInv, [Next]_vars, NEW s \in Strip, NEW x \in Pixel
             PROVE  /\ shown'[s][x] <= ddr'[s][x] /\ ddr'[s][x] <= ledsFrame'[s][x]
                    /\ ledsFrame'[s][x] <= buffer'[s][x]
                    /\ buffer'[s][x] <= frameData'[s][x]
                    /\ frameData'[s][x] <= pixels'[s]
  BY DEF PipeInv
<1>0. /\ TypeOK
      /\ shown[s][x] <= ddr[s][x] /\ ddr[s][x] <= ledsFrame[s][x]
      /\ ledsFrame[s][x] <= buffer[s][x] /\ buffer[s][x] <= frameData[s][x]
      /\ frameData[s][x] <= pixels[s]
      /\ frameData[s][x] \in Nat /\ buffer[s][x] \in Nat
      /\ ledsFrame[s][x] \in Nat /\ ddr[s][x] \in Nat
      /\ shown[s][x] \in Nat /\ pixels[s] \in Nat
  BY PixelFacts DEF IInv, PipeInv
<1>1. CASE UNCHANGED images
  BY <1>0, <1>1 DEF images
<1>2. CASE RenderStrip
  <2>1. pixels'[s] >= pixels[s]
    BY <1>0, <1>2 DEF RenderStrip, TypeOK, Version
  <2>2. pixels'[s] \in Nat
    BY <1>0, <1>2 DEF RenderStrip, TypeOK, Version
  <2> QED
    BY <1>0, <1>2, <2>1, <2>2 DEF RenderStrip, renderVars
<1>3. ASSUME NEW y \in Pixel, CopyPixel(y)
      PROVE  /\ frameData[s][x] <= frameData'[s][x] /\ frameData'[s][x] <= pixels'[s]
             /\ frameData'[s][x] \in Nat
             /\ UNCHANGED <<pixels, buffer, ledsFrame, ddr, shown>>
  <2>1. UNCHANGED <<pixels, buffer, ledsFrame, ddr, shown>>
    BY <1>3 DEF CopyPixel, renderVars
  <2>2. frameData'[s][x] \in {pixels[s], frameData[s][x]}
    BY <1>0, <1>3, CopyPixelEffect
  <2> QED
    BY <1>0, <2>1, <2>2
<1>4. ASSUME NEW y \in Pixel, PackPixel(y)
      PROVE  /\ buffer[s][x] <= buffer'[s][x] /\ buffer'[s][x] <= frameData'[s][x]
             /\ buffer'[s][x] \in Nat
             /\ UNCHANGED <<pixels, frameData, ledsFrame, ddr, shown>>
  <2>1. PackFacts(y)
    BY <1>0, <1>4, PackPixelEffect
  <2>2. UNCHANGED <<pixels, frameData, ledsFrame, ddr, shown>>
    BY <1>4 DEF PackPixel, animVars
  <2> QED
    BY <1>0, <2>1, <2>2 DEF PackFacts
<1>5. CASE SetRawData
  <2>1. /\ ledsFrame'[s][x] = IF Forwarded(s, x) THEN buffer[s][x] ELSE ledsFrame[s][x]
        /\ UNCHANGED <<pixels, frameData, buffer, ddr, shown>>
    BY <1>5 DEF SetRawData, animVars
  <2> QED
    BY <1>0, <2>1
<1>6. CASE DrawFrame
  BY <1>0, <1>6 DEF DrawFrame, animVars
<1>7. ASSUME NEW p \in Pru, FinishFrame(p)
      PROVE  /\ shown'[s][x] \in {shown[s][x], ddr[s][x]}
             /\ UNCHANGED <<pixels, frameData, buffer, ledsFrame, ddr>>
  BY <1>7 DEF FinishFrame, animVars, renderVars
<1>8. Next => \/ UNCHANGED images \/ RenderStrip \/ SetRawData \/ DrawFrame
             \/ StartFrame \/ \E y \in Pixel : CopyPixel(y) \/ PackPixel(y)
             \/ \E p \in Pru : FinishFrame(p)
  BY DEF Next, Animate, Render, Show, Tick, StartRound, EnableStrip, TakeFrame, images,
    animVars, renderVars
<1>9. CASE StartFrame
  BY <1>0, <1>9 DEF StartFrame, animVars
<1>10. CASE UNCHANGED vars
  BY <1>1, <1>10 DEF vars, images
<1> QED
  BY <1>0, <1>1, <1>2, <1>3, <1>4, <1>5, <1>6, <1>7, <1>8, <1>9, <1>10

\* Packed and forwarded pixels are no older than base.
LEMMA FreshStep == IInv /\ [Next]_vars => FreshInv'
<1> SUFFICES ASSUME IInv, [Next]_vars PROVE FreshInv'
  OBVIOUS
<1>0. TypeOK /\ FreshInv /\ PipeInv
  BY DEF IInv
<1>1. CASE UNCHANGED <<frameData, buffer, ledsFrame, base, renderPc, packing, unpacked>>
  BY <1>0, <1>1 DEF FreshInv, Forwarded
<1>2. ASSUME NEW y \in Pixel, CopyPixel(y) PROVE FreshInv'
  <2>1. UNCHANGED <<buffer, ledsFrame, base, renderPc, packing, unpacked>>
    BY <1>2 DEF CopyPixel, renderVars
  <2>2. ASSUME NEW s \in Strip, NEW x \in Pixel PROVE frameData'[s][x] >= base[s][x]
    <3>1. frameData'[s][x] \in {pixels[s], frameData[s][x]}
      BY <1>0, <1>2, CopyPixelEffect
    <3>2. frameData[s][x] >= base[s][x] /\ frameData[s][x] <= pixels[s]
      BY <1>0 DEF FreshInv, PipeInv
    <3> QED
      BY <1>0, <3>1, <3>2, PixelFacts
  <2> QED
    BY <1>0, <2>1, <2>2 DEF FreshInv, Forwarded
<1>3. CASE StartFrame
  <2>1. /\ base' = frameData /\ renderPc' = "pack" /\ packing' = 0 /\ unpacked' = Pixel
        /\ UNCHANGED <<frameData, buffer, ledsFrame>>
    BY <1>3 DEF StartFrame, animVars
  <2> QED
    BY <1>0, <2>1, PixelFacts DEF FreshInv, Strip
<1>4. ASSUME NEW y \in Pixel, PackPixel(y) PROVE FreshInv'
  <2>1. PackFacts(y) /\ UNCHANGED <<frameData, ledsFrame, base>>
    BY <1>0, <1>4, PackPixelEffect DEF PackPixel, animVars
  <2>2. ASSUME NEW s \in Strip, NEW x \in Pixel,
               s < packing \/ (s = packing /\ (x \notin unpacked \/ x = y))
        PROVE  buffer'[s][x] >= base[s][x]
    <3>1. frameData[s][x] >= base[s][x]
      BY <1>0 DEF FreshInv
    <3>2. (s = packing /\ x = y) \/ buffer[s][x] >= base[s][x]
      BY <1>0, <2>1, <2>2 DEF FreshInv, PackFacts
    <3> QED
      BY <2>1, <3>1, <3>2 DEF PackFacts
  <2>3. \A s \in Strip : packing + 1 = NumStrips => s < packing \/ s = packing
    BY <1>0 DEF TypeOK, Strip
  <2>4. \A s \in Strip : s < packing + 1 => s < packing \/ s = packing
    BY <1>0 DEF TypeOK, Strip
  <2> QED
    BY <1>0, <2>1, <2>2, <2>3, <2>4 DEF FreshInv, PackFacts
<1>5. CASE SetRawData
  <2>1. /\ \A s \in Strip, x \in Pixel : ledsFrame'[s][x]
             = IF Forwarded(s, x) THEN buffer[s][x] ELSE ledsFrame[s][x]
        /\ renderPc = "raw" /\ renderPc' = "draw"
        /\ UNCHANGED <<frameData, buffer, base>>
    BY <1>5 DEF SetRawData, animVars
  <2> QED
    BY <1>0, <2>1 DEF FreshInv, Forwarded
<1>6. CASE DrawFrame
  BY <1>0, <1>6 DEF FreshInv, DrawFrame, animVars, Forwarded
<1>7. CASE \/ Tick \/ StartRound \/ EnableStrip \/ RenderStrip
           \/ \E p \in Pru : TakeFrame(p) \/ FinishFrame(p)
  BY <1>1, <1>7 DEF Tick, StartRound, EnableStrip, RenderStrip, TakeFrame, FinishFrame,
    animVars, renderVars
<1> QED
  BY <1>1, <1>2, <1>3, <1>4, <1>5, <1>6, <1>7 DEF vars, Next, Animate, Render, Show

-----------------------------------------------------------------------------
\* All pictures are blank at first.
LEMMA InitialState == Init => IInv
<1> SUFFICES ASSUME Init PROVE IInv
  OBVIOUS
<1> USE PipelineAssumption
<1>1. Blank \in Image /\ \A s \in Strip, x \in Pixel : Blank[s][x] = 0
  BY DEF Blank, Image, Version
<1>2. TypeOK
  BY <1>1 DEF Init, TypeOK, Channel!Init, Version, Strip
<1> QED
  BY <1>1, <1>2 DEF Init, IInv, PipeInv, FreshInv

\* The invariant holds throughout, for every interleaving of both threads.
THEOREM PipelineInvariance == Spec => []IInv
<1>1. Init => IInv
  BY InitialState
<1>2. IInv /\ [Next]_vars => IInv'
  BY TypeStep, PipeStep, FreshStep DEF IInv
<1> QED
  BY <1>1, <1>2, PTL DEF Spec

\* However the unlocked copies interleave, no pixel of a strip goes back to an
\* older picture.
THEOREM StripsNeverGoBack == Spec => NeverGoesBack
<1>1. IInv /\ [Next]_vars =>
        [\A s \in Strip, x \in Pixel : shown'[s][x] >= shown[s][x]]_vars
  <2> SUFFICES ASSUME IInv, Next, NEW s \in Strip, NEW x \in Pixel
               PROVE  shown'[s][x] >= shown[s][x]
    OBVIOUS
  <2>1. /\ shown[s][x] \in Nat /\ ddr[s][x] \in Nat /\ shown[s][x] <= ddr[s][x]
    BY PixelFacts DEF IInv, PipeInv
  <2>2. shown'[s][x] \in {shown[s][x], ddr[s][x]}
    <3>1. CASE \E p \in Pru : FinishFrame(p)
      BY <3>1 DEF FinishFrame
    <3>2. CASE UNCHANGED shown
      BY <3>2
    <3>3. (\E p \in Pru : FinishFrame(p)) \/ UNCHANGED shown
      BY DEF Next, Animate, Render, Show, Tick, StartRound, EnableStrip, RenderStrip,
        CopyPixel, StartFrame, PackPixel, SetRawData, DrawFrame, TakeFrame
    <3> QED
      BY <3>1, <3>2, <3>3
  <2> QED
    BY <2>1, <2>2
<1> QED
  BY <1>1, PipelineInvariance, PTL DEF Spec, NeverGoesBack

\* ledscape_draw is what publishes a frame.
LEMMA OnlyDrawPublishes ==
  ASSUME Next, published' # published PROVE DrawFrame
BY DEF Next, Animate, Render, Show, Tick, StartRound, EnableStrip, RenderStrip,
  CopyPixel, StartFrame, PackPixel, SetRawData, TakeFrame, FinishFrame,
  Channel!Take, Channel!Finish, channelVars

\* What reaches ledscape_draw is as new as frame_data was when the render thread
\* woke.
THEOREM FramesAreFresh == Spec => FrameIsFresh
<1>1. IInv /\ [Next]_vars =>
        [published' # published =>
           \A s \in Strip, x \in Pixel : Forwarded(s, x) =>
             ddr'[s][x] >= base[s][x] /\ ddr'[s][x] <= pixels[s]]_vars
  <2> SUFFICES ASSUME IInv, Next, published' # published,
                      NEW s \in Strip, NEW x \in Pixel, Forwarded(s, x)
               PROVE  ddr'[s][x] >= base[s][x] /\ ddr'[s][x] <= pixels[s]
    OBVIOUS
  <2>1. DrawFrame
    BY OnlyDrawPublishes
  <2>2. ddr' = ledsFrame /\ ledsFrame[s][x] >= base[s][x]
    BY <2>1 DEF DrawFrame, IInv, FreshInv
  <2>3. /\ ledsFrame[s][x] <= buffer[s][x] /\ buffer[s][x] <= frameData[s][x]
        /\ frameData[s][x] <= pixels[s]
    BY DEF IInv, PipeInv
  <2> QED
    BY <2>2, <2>3, PixelFacts DEF IInv
<1> QED
  BY <1>1, PipelineInvariance, PTL DEF Spec, FrameIsFresh

-----------------------------------------------------------------------------
(* How late a picture is                                                     *)

\* A pipeline with a memory is a pipeline.
LEMMA MemoryIsHistory == LSpec => Spec
<1>1. LInit => Init
  BY DEF LInit
<1>2. [LNext]_lateVars => [Next]_vars
  BY DEF LNext, lateVars
<1> QED
  BY <1>1, <1>2, PTL DEF LSpec, Spec

\* No pixel of frame_data goes back.
LEMMA FrameDataGrows ==
  ASSUME IInv, [Next]_vars, NEW s \in Strip, NEW x \in Pixel
  PROVE  frameData'[s][x] >= frameData[s][x] /\ frameData'[s][x] \in Nat
<1>1. /\ TypeOK /\ frameData[s][x] \in Nat /\ pixels[s] \in Nat
      /\ frameData[s][x] <= pixels[s]
  BY PixelFacts DEF IInv, PipeInv
<1>2. ASSUME NEW y \in Pixel, CopyPixel(y)
      PROVE  frameData'[s][x] \in {pixels[s], frameData[s][x]}
  BY <1>1, <1>2, CopyPixelEffect
<1>3. (\E y \in Pixel : CopyPixel(y)) \/ UNCHANGED frameData
  BY DEF Next, Animate, Render, Show, Tick, StartRound, EnableStrip, RenderStrip,
    StartFrame, PackPixel, SetRawData, DrawFrame, TakeFrame, FinishFrame, animVars, vars
<1> QED
  BY <1>1, <1>2, <1>3

\* What a PRU shows once it has answered is what is in DDR.
LEMMA AnsweredStep ==
  ASSUME IInv, [Next]_vars, NEW s \in Strip, NEW x \in Pixel,
         Answered(PruOf(s)) => shown[s][x] = ddr[s][x],
         Answered(PruOf(s))'
  PROVE  shown'[s][x] = ddr'[s][x]
<1> DEFINE p == PruOf(s)
<1>1. /\ p \in Pru /\ published' \notin Timeouts
      /\ taken'[p] = published' /\ ~busy'[p]
      /\ published' = published /\ taken[p] = published /\ ~busy[p]
           => shown[s][x] = ddr[s][x]
  BY DEF Answered, PruOf, Pru
<1>2. /\ published \in Nat /\ taken \in [Pru -> 0 .. MaxFrames]
      /\ busy \in [Pru -> BOOLEAN]
  BY PipelineAssumption DEF IInv, TypeOK
<1> HIDE DEF p
<1>3. CASE UNCHANGED <<published, taken, busy, shown, ddr>>
  BY <1>1, <1>3
<1>4. CASE DrawFrame
  <2>1. taken[p] = published /\ taken'[p] = taken[p] /\ published' = published + 1
    BY <1>1, <1>4 DEF DrawFrame, Channel!Publish
  <2>2. published + 1 # published
    BY <1>2
  <2> QED
    BY <1>1, <2>1, <2>2
<1>5. ASSUME NEW q \in Pru, TakeFrame(q) PROVE shown'[s][x] = ddr'[s][x]
  <2>1. /\ published' = published /\ UNCHANGED <<shown, ddr>>
        /\ taken' = [taken EXCEPT ![q] = published]
        /\ busy' = [busy EXCEPT ![q] = TRUE]
    BY <1>5 DEF TakeFrame, Channel!Take
  <2>2. q # p
    BY <1>1, <1>2, <2>1
  <2>3. taken'[p] = taken[p] /\ busy'[p] = busy[p]
    BY <1>1, <1>2, <2>1, <2>2
  <2> QED
    BY <1>1, <2>1, <2>3
<1>6. ASSUME NEW q \in Pru, FinishFrame(q) PROVE shown'[s][x] = ddr'[s][x]
  <2>1. /\ UNCHANGED <<published, taken, ddr>>
        /\ busy' = [busy EXCEPT ![q] = FALSE]
    BY <1>6 DEF FinishFrame, Channel!Finish
  <2>2. PICK n \in 0 .. NumPixels :
          /\ n < NumPixels => taken[q] \in Timeouts
          /\ shown' = [t \in Strip |-> [y \in Pixel |->
               IF PruOf(t) = q /\ y <= n THEN ddr[t][y] ELSE shown[t][y]]]
    BY <1>6 DEF FinishFrame
  <2>3. shown'[s][x] = IF p = q THEN ddr[s][x] ELSE shown[s][x]
    <3>1. p = q => n = NumPixels /\ x <= n
      BY <1>1, <2>1, <2>2, PipelineAssumption DEF Pixel
    <3> QED
      BY <2>2, <3>1 DEF p
  <2>4. CASE p = q
    BY <2>1, <2>3, <2>4
  <2>5. CASE p # q
    <3>1. busy'[p] = busy[p]
      BY <1>1, <1>2, <2>1, <2>5
    <3> QED
      BY <1>1, <2>1, <2>3, <2>5, <3>1
  <2> QED
    BY <2>4, <2>5
<1>7. \/ UNCHANGED <<published, taken, busy, shown, ddr>> \/ DrawFrame
      \/ \E q \in Pru : TakeFrame(q) \/ FinishFrame(q)
  BY DEF Next, Animate, Render, Show, Tick, StartRound, EnableStrip, RenderStrip,
    CopyPixel, StartFrame, PackPixel, SetRawData, channelVars, vars
<1> QED
  BY <1>3, <1>4, <1>5, <1>6, <1>7

\* The memory stays between the frame being drawn and the one before it.
LEMMA MemoryStep == LInv /\ [LNext]_lateVars => MemoryInv'
<1> SUFFICES ASSUME LInv, [LNext]_lateVars PROVE MemoryInv'
  OBVIOUS
<1>1. /\ IInv /\ MemoryInv /\ [Next]_vars /\ frameData \in Image
      /\ drawn' = IF published' = published THEN drawn ELSE frameData
  BY DEF LInv, IInv, TypeOK, LNext, lateVars, vars, Remember
<1>2. drawn' \in Image
  BY <1>1 DEF MemoryInv
<1>3. ASSUME NEW s \in Strip, NEW x \in Pixel
      PROVE  /\ drawn'[s][x] <= frameData'[s][x]
             /\ renderPc' # "wait" => drawn'[s][x] <= base'[s][x]
             /\ Answered(PruOf(s))' => shown'[s][x] = ddr'[s][x]
  <2>1. /\ drawn[s][x] \in Nat /\ frameData[s][x] \in Nat /\ base[s][x] \in Nat
        /\ drawn[s][x] <= frameData[s][x]
        /\ renderPc # "wait" => drawn[s][x] <= base[s][x]
        /\ Answered(PruOf(s)) => shown[s][x] = ddr[s][x]
    <3>1. TypeOK /\ drawn[s][x] \in Version
      BY <1>1, PixelIsVersion DEF IInv, MemoryInv
    <3> QED
      BY <1>1, <3>1, PixelFacts DEF MemoryInv, Version
  <2>2. frameData'[s][x] >= frameData[s][x] /\ frameData'[s][x] \in Nat
    BY <1>1, FrameDataGrows
  <2>3. CASE published' = published
    <3>1. drawn' = drawn
      BY <1>1, <2>3
    <3>2. CASE UNCHANGED <<renderPc, base>>
      BY <2>1, <2>2, <3>1, <3>2, <1>1, AnsweredStep
    <3>3. CASE ~UNCHANGED <<renderPc, base>>
      <4>1. \/ renderPc # "wait" /\ base' = base
            \/ base' = frameData
        BY <1>1, <3>3 DEF Next, Animate, Render, Show, Tick, StartRound, EnableStrip,
          RenderStrip, CopyPixel, StartFrame, PackPixel, SetRawData, DrawFrame,
          TakeFrame, FinishFrame, renderVars, vars
      <4> QED
        BY <1>1, <2>1, <2>2, <3>1, <4>1, AnsweredStep
    <3> QED
      BY <3>2, <3>3
  <2>4. CASE published' # published
    <3>1. DrawFrame
      <4>1. Next
        BY <1>1, <2>4 DEF vars
      <4> QED
        BY <2>4, <4>1, OnlyDrawPublishes
    <3>2. renderPc' = "wait" /\ drawn' = frameData
      BY <1>1, <2>4, <3>1 DEF DrawFrame
    <3> QED
      BY <1>1, <2>1, <2>2, <3>2, AnsweredStep
  <2> QED
    BY <2>3, <2>4
<1> QED
  BY <1>2, <1>3 DEF MemoryInv

\* The memory of the pipeline is as MemoryInv says, for ever.
THEOREM LatencyInvariance == LSpec => []LInv
<1>1. LInit => LInv
  <2> SUFFICES ASSUME LInit PROVE LInv
    OBVIOUS
  <2>1. Init /\ drawn = Blank
    BY DEF LInit
  <2>2. IInv
    BY <2>1, InitialState
  <2>3. MemoryInv
    BY <2>1, <2>2 DEF Init, MemoryInv, Blank, IInv, TypeOK
  <2> QED
    BY <2>2, <2>3 DEF LInv
<1>2. LInv /\ [LNext]_lateVars => LInv'
  <2>1. [LNext]_lateVars => [Next]_vars
    BY DEF LNext, lateVars
  <2>2. IInv /\ [Next]_vars => IInv'
    BY TypeStep, PipeStep, FreshStep DEF IInv
  <2> QED
    BY <2>1, <2>2, MemoryStep DEF LInv
<1> QED
  BY <1>1, <1>2, PTL DEF LSpec

\* What frame_data held when a frame was drawn is in DDR with the next one, and
\* on its strip when the PRU has answered that, unless it cuts the frame short.
THEOREM PicturesMissOneFrame == LSpec => MissesOneFrame
<1>1. LInv /\ LInv' /\ [LNext]_lateVars =>
        [\A s \in Strip, x \in Pixel : Forwarded(s, x) =>
           /\ published' # published => ddr'[s][x] >= drawn[s][x]
           /\ Answered(PruOf(s))' => shown'[s][x] = ddr'[s][x]]_lateVars
  <2> SUFFICES ASSUME LInv, LInv', LNext, NEW s \in Strip, NEW x \in Pixel, Forwarded(s, x)
               PROVE  /\ published' # published => ddr'[s][x] >= drawn[s][x]
                      /\ Answered(PruOf(s))' => shown'[s][x] = ddr'[s][x]
    OBVIOUS
  <2>1. ASSUME published' # published PROVE ddr'[s][x] >= drawn[s][x]
    <3>1. DrawFrame
      BY <2>1, OnlyDrawPublishes DEF LNext
    <3>2. /\ ddr' = ledsFrame /\ ledsFrame[s][x] >= base[s][x]
          /\ drawn[s][x] <= base[s][x]
      BY <3>1 DEF DrawFrame, LInv, IInv, FreshInv, MemoryInv
    <3>3. drawn[s][x] \in Nat /\ ledsFrame[s][x] \in Nat /\ base[s][x] \in Nat
      <4>1. TypeOK /\ drawn[s][x] \in Version
        BY PixelIsVersion DEF LInv, IInv, MemoryInv
      <4> QED
        BY <4>1, PixelFacts DEF Version
    <3> QED
      BY <3>2, <3>3
  <2>2. ASSUME Answered(PruOf(s))' PROVE shown'[s][x] = ddr'[s][x]
    BY <2>2 DEF LInv, MemoryInv
  <2> QED
    BY <2>1, <2>2
<1> QED
  BY <1>1, LatencyInvariance, PTL DEF LSpec, MissesOneFrame
=============================================================================
