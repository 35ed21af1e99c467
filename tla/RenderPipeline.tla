--------------------------- MODULE RenderPipeline ---------------------------
(***************************************************************************)
(* From effects to strips: the two threads of opc-server and the PRUs.     *)
(*                                                                         *)
(*   animation  Animation::Thread renders every enabled strip once a round *)
(*              and copies it into frame_data (RenderState::SetStripData). *)
(*   render     RenderState::Thread hands frame_data to LedscapeDriver::   *)
(*              SetPixelData, which packs it word by word, copies the      *)
(*              result to leds->frame and calls ledscape_draw.             *)
(*   PRUs       the channel of FrameChannel, which PruHandshake implements.*)
(*                                                                         *)
(* No lock protects frame_data: the threads meet pixel by pixel.  A pixel  *)
(* is abstracted to the number of times its strip had been rendered, and   *)
(* an effect repeats itself after MaxVersion pictures.  The wait for the   *)
(* next frame (RateScheduler) may take any time here.                      *)
(***************************************************************************)
EXTENDS Naturals

CONSTANTS NumStrips,   \* used_strip_count
          NumPixels,   \* words sent to each strip
          PruStrips,   \* strips below this one belong to PRU 0 (24)
          MaxVersion,  \* bound: pictures an effect draws before it repeats
          MaxFrames,   \* bound: frames drawn
          Timeouts     \* the frames of which a PRU may drop the rest

ASSUME PipelineAssumption ==
  /\ NumStrips \in Nat \ {0} /\ NumPixels \in Nat \ {0}
  /\ PruStrips \in Nat /\ MaxVersion \in Nat /\ MaxFrames \in Nat
  /\ Timeouts \subseteq 1 .. MaxFrames

Strip == 0 .. NumStrips - 1
Pixel == 1 .. NumPixels
Pru == {0, 1}
PruOf(s) == IF s < PruStrips THEN 0 ELSE 1

VARIABLES
  passed,     \* strips whose enable_time the clock has passed
  animPc,     \* animation thread: "wait", "strip" or "copy"
  now,        \* passed, as read at the start of the round
  strip,      \* strip_index of the round
  uncopied,   \* pixels SetStripData has yet to copy
  enabled,    \* strip->enabled
  pixels,     \* strip->pixels
  frameData,  \* RenderState::frame_data_
  renderPc,   \* render thread: "wait", "pack", "raw" or "draw"
  packing,    \* strip SetPixelData is packing
  unpacked,   \* pixels of that strip it has yet to read
  buffer,     \* LedscapeDriver::buffer_
  ledsFrame,  \* leds->frame
  ddr,        \* the frame in DDR
  shown,      \* what the strips show
  published, taken, busy,  \* FrameChannel's variables
  base        \* history: frame_data when the render thread's wait ended

animVars == <<animPc, now, strip, uncopied, enabled, pixels, frameData>>
renderVars == <<renderPc, packing, unpacked, buffer, ledsFrame, base>>
channelVars == <<published, taken, busy>>
vars == <<passed, animPc, now, strip, uncopied, enabled, pixels, frameData,
          renderPc, packing, unpacked, buffer, ledsFrame, ddr, shown,
          published, taken, busy, base>>

Channel == INSTANCE FrameChannel

Blank == [s \in Strip |-> [x \in Pixel |-> 0]]

\* frame_data_ and buffer_ come from new[] and hold anything: version 0.
Init ==
  /\ passed = 0
  /\ animPc = "wait" /\ now = 0 /\ strip = 0 /\ uncopied = {}
  /\ enabled = [s \in Strip |-> FALSE] /\ pixels = [s \in Strip |-> 0]
  /\ frameData = Blank
  /\ renderPc = "wait" /\ packing = 0 /\ unpacked = {}
  /\ buffer = Blank /\ ledsFrame = Blank
  /\ ddr = Blank /\ shown = Blank
  /\ Channel!Init
  /\ base = Blank

-----------------------------------------------------------------------------
(* The animation thread                                                      *)

\* The clock passes the enable times in the order Animation::Init read them.
Tick ==
  /\ passed < NumStrips
  /\ passed' = passed + 1
  /\ UNCHANGED <<animVars, renderVars, channelVars, ddr, shown>>

\* Mutant: the clock is read once, before the first round.
StartRoundWithOldTime ==
  /\ animPc = "wait"
  /\ animPc' = "strip" /\ strip' = 0
  /\ UNCHANGED <<passed, now, uncopied, enabled, pixels, frameData, renderVars,
                 channelVars, ddr, shown>>

\* WaitFrame, gettimeofday and the mutex, which no other thread takes.
StartRound ==
  /\ animPc = "wait"
  /\ now' = passed
  /\ animPc' = "strip" /\ strip' = 0
  /\ UNCHANGED <<passed, uncopied, enabled, pixels, frameData, renderVars,
                 channelVars, ddr, shown>>

\* Mutant: the loop runs to strip_index <= num_strips().
NextStripTooFar == IF strip < NumStrips
                   THEN strip' = strip + 1 /\ animPc' = "strip"
                   ELSE strip' = 0 /\ animPc' = "wait"

NextStrip == IF strip + 1 < NumStrips
             THEN strip' = strip + 1 /\ animPc' = "strip"
             ELSE strip' = 0 /\ animPc' = "wait"

\* A strip that is enabled in this round is rendered from the next one on.
EnableStrip ==
  /\ animPc = "strip" /\ ~enabled[strip]
  /\ enabled' = [enabled EXCEPT ![strip] = strip < now]
  /\ NextStrip
  /\ UNCHANGED <<passed, now, uncopied, pixels, frameData, renderVars,
                 channelVars, ddr, shown>>

\* effect->RenderFrame(), in place.
RenderStrip ==
  /\ animPc = "strip" /\ enabled[strip]
  /\ pixels' = [pixels EXCEPT ![strip] = IF @ < MaxVersion THEN @ + 1 ELSE @]
  /\ animPc' = "copy" /\ uncopied' = Pixel
  /\ UNCHANGED <<passed, now, strip, enabled, frameData, renderVars,
                 channelVars, ddr, shown>>

\* Mutant: the strip is cleared before it is copied.
CopyPixelToCleared(x) ==
  /\ animPc = "copy" /\ x \in uncopied
  /\ frameData' = [frameData EXCEPT ![strip] = [y \in Pixel |->
       IF y = x THEN pixels[strip] ELSE IF uncopied = Pixel THEN 0 ELSE @[y]]]
  /\ uncopied' = uncopied \ {x}
  /\ IF uncopied = {x} THEN NextStrip ELSE UNCHANGED <<animPc, strip>>
  /\ UNCHANGED <<passed, now, enabled, pixels, renderVars, channelVars, ddr,
                 shown>>

\* The memcpy of SetStripData, in whatever order the library copies.
CopyPixel(x) ==
  /\ animPc = "copy" /\ x \in uncopied
  /\ frameData' = [frameData EXCEPT ![strip][x] = pixels[strip]]
  /\ uncopied' = uncopied \ {x}
  /\ IF uncopied = {x} THEN NextStrip ELSE UNCHANGED <<animPc, strip>>
  /\ UNCHANGED <<passed, now, enabled, pixels, renderVars, channelVars, ddr,
                 shown>>

-----------------------------------------------------------------------------
(* The render thread                                                         *)

\* Mutant: the loop over the strips starts at 1.
StartFrameAtStripOne ==
  /\ renderPc = "wait"
  /\ renderPc' = "pack" /\ packing' = 1 /\ unpacked' = Pixel
  /\ base' = frameData
  /\ UNCHANGED <<passed, animVars, channelVars, buffer, ledsFrame, ddr, shown>>

StartFrame ==
  /\ renderPc = "wait"
  /\ renderPc' = "pack" /\ packing' = 0 /\ unpacked' = Pixel
  /\ base' = frameData
  /\ UNCHANGED <<passed, animVars, channelVars, buffer, ledsFrame, ddr, shown>>

\* Mutant: a word is packed from the strip before.
PackPixelOfOther(x) ==
  /\ renderPc = "pack" /\ x \in unpacked
  /\ buffer' = [buffer EXCEPT
       ![packing][x] = frameData[IF packing = 0 THEN NumStrips - 1 ELSE packing - 1][x]]
  /\ IF unpacked # {x} THEN unpacked' = unpacked \ {x} /\ UNCHANGED <<packing, renderPc>>
     ELSE IF packing + 1 < NumStrips
     THEN packing' = packing + 1 /\ unpacked' = Pixel /\ UNCHANGED renderPc
     ELSE renderPc' = "raw" /\ packing' = 0 /\ unpacked' = {}
  /\ UNCHANGED <<passed, animVars, channelVars, ledsFrame, base, ddr, shown>>

\* SetPixelData's loops, in the order the compiler leaves within a strip.
PackPixel(x) ==
  /\ renderPc = "pack" /\ x \in unpacked
  /\ buffer' = [buffer EXCEPT ![packing][x] = frameData[packing][x]]
  /\ IF unpacked # {x} THEN unpacked' = unpacked \ {x} /\ UNCHANGED <<packing, renderPc>>
     ELSE IF packing + 1 < NumStrips
     THEN packing' = packing + 1 /\ unpacked' = Pixel /\ UNCHANGED renderPc
     ELSE renderPc' = "raw" /\ packing' = 0 /\ unpacked' = {}
  /\ UNCHANGED <<passed, animVars, channelVars, ledsFrame, base, ddr, shown>>

\* ledscape_set_raw_data copies num_pixels BYTES, that is num_pixels / 4 words.
Forwarded(s, x) == s * NumPixels + x <= (NumStrips * NumPixels) \div 4

SetRawData ==
  /\ renderPc = "raw"
  /\ ledsFrame' = [s \in Strip |-> [x \in Pixel |->
       IF Forwarded(s, x) THEN buffer[s][x] ELSE ledsFrame[s][x]]]
  /\ renderPc' = "draw"
  /\ UNCHANGED <<passed, animVars, channelVars, packing, unpacked, buffer, base,
                 ddr, shown>>

\* ledscape_draw: waits for both PRUs, then copies leds->frame to DDR.
DrawFrame ==
  /\ renderPc = "draw"
  /\ Channel!Publish
  /\ ddr' = ledsFrame
  /\ renderPc' = "wait"
  /\ UNCHANGED <<passed, animVars, packing, unpacked, buffer, ledsFrame, base, shown>>

-----------------------------------------------------------------------------
(* The PRUs                                                                  *)

TakeFrame(p) ==
  /\ Channel!Take(p)
  /\ UNCHANGED <<passed, animVars, renderVars, ddr, shown>>

\* All strips of a PRU are clocked out together, up to pixel n.
FinishFrame(p) ==
  /\ Channel!Finish(p)
  /\ \E n \in 0 .. NumPixels :
       /\ n < NumPixels => taken[p] \in Timeouts
       /\ shown' = [s \in Strip |-> [x \in Pixel |->
            IF PruOf(s) = p /\ x <= n THEN ddr[s][x] ELSE shown[s][x]]]
  /\ UNCHANGED <<passed, animVars, renderVars, ddr>>

-----------------------------------------------------------------------------
Animate == StartRound \/ EnableStrip \/ RenderStrip \/ \E x \in Pixel : CopyPixel(x)
Render == StartFrame \/ (\E x \in Pixel : PackPixel(x)) \/ SetRawData \/ DrawFrame
Show(p) == TakeFrame(p) \/ FinishFrame(p)

Next == Tick \/ Animate \/ Render \/ \E p \in Pru : Show(p)

\* Time passes, both threads are scheduled and the PRUs answer every frame.
Fairness == /\ WF_vars(Tick) /\ WF_vars(Animate) /\ WF_vars(Render)
            /\ \A p \in Pru : WF_vars(Show(p))

Spec == Init /\ [][Next]_vars
FairSpec == Spec /\ Fairness

-----------------------------------------------------------------------------
Version == 0 .. MaxVersion
Image == [Strip -> [Pixel -> Version]]

TypeOK ==
  /\ passed \in 0 .. NumStrips /\ now \in 0 .. NumStrips
  /\ animPc \in {"wait", "strip", "copy"} /\ strip \in Strip
  /\ uncopied \subseteq Pixel /\ (animPc = "copy" <=> uncopied # {})
  /\ enabled \in [Strip -> BOOLEAN] /\ pixels \in [Strip -> Version]
  /\ renderPc \in {"wait", "pack", "raw", "draw"} /\ packing \in Strip
  /\ unpacked \subseteq Pixel /\ (renderPc = "pack" <=> unpacked # {})
  /\ frameData \in Image /\ buffer \in Image /\ ledsFrame \in Image
  /\ ddr \in Image /\ shown \in Image /\ base \in Image
  /\ published \in 0 .. MaxFrames
  /\ taken \in [Pru -> 0 .. MaxFrames] /\ busy \in [Pru -> BOOLEAN]

\* The unlocked copies never take a strip back: although a frame may mix
\* several rounds (render.cc:20), no pixel of a strip ever shows an older
\* picture than it showed before.
NeverGoesBack == [][\A s \in Strip, x \in Pixel : shown'[s][x] >= shown[s][x]]_vars

\* A frame is made of what frame_data held while it was packed: the part of it
\* that reaches ledscape_draw is at least as new as what frame_data held when
\* the render thread woke, however the animation thread interleaves.
FrameIsFresh ==
  [][published' # published =>
       \A s \in Strip, x \in Pixel : Forwarded(s, x) =>
         ddr'[s][x] >= base[s][x] /\ ddr'[s][x] <= pixels[s]]_vars

\* A pixel in frame_data is on its strip at most two frames later: the frame
\* being packed may just have missed it, the next one cannot, unless it is cut
\* short itself.
TwoFramesLate ==
  \A s \in Strip, x \in Pixel, v \in 1 .. MaxVersion : Forwarded(s, x) =>
    (/\ frameData[s][x] >= v
     /\ published + 2 \in (1 .. MaxFrames) \ Timeouts) ~> shown[s][x] >= v

\* Every strip is enabled and rendered eventually, to the last picture.
EveryStripIsRendered == \A s \in Strip : <>[](pixels[s] = MaxVersion)

\* README.md:244: the default configuration drives "strips connected to all of
\* the 48 available output pins": what is rendered for a strip gets there.
EveryStripIsDriven ==
  \A s \in Strip, x \in Pixel :
    (frameData[s][x] > 0 /\ published + 2 <= MaxFrames) ~> shown[s][x] > 0

-----------------------------------------------------------------------------
(* The inductive invariant behind NeverGoesBack and FrameIsFresh.            *)

\* Each copy of the picture is no newer than the one it is made from.
PipeInv == \A s \in Strip, x \in Pixel :
  /\ shown[s][x] <= ddr[s][x] /\ ddr[s][x] <= ledsFrame[s][x]
  /\ ledsFrame[s][x] <= buffer[s][x] /\ buffer[s][x] <= frameData[s][x]
  /\ frameData[s][x] <= pixels[s]

\* Packed pixels are at least as new as base, and so is what was forwarded.
FreshInv == \A s \in Strip, x \in Pixel :
  /\ renderPc = "pack" /\ (s < packing \/ (s = packing /\ x \notin unpacked))
       => buffer[s][x] >= base[s][x]
  /\ renderPc = "raw" => buffer[s][x] >= base[s][x]
  /\ renderPc = "draw" /\ Forwarded(s, x) => ledsFrame[s][x] >= base[s][x]
  /\ frameData[s][x] >= base[s][x]

IInv == TypeOK /\ PipeInv /\ FreshInv
=============================================================================
