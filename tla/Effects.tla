------------------------------- MODULE Effects --------------------------------
(***************************************************************************)
(* The effects of one strip: what an effect keeps from one RenderFrame to  *)
(* the next, and the pixels it reaches by an index.  The strips do not     *)
(* interact, and animation_mutex_ makes a frame one step.                  *)
(*                                                                         *)
(* Positions, speeds and luminosities are floats in the code; here they    *)
(* are integers, in thousandths.  What black, white, fading and breathing  *)
(* strips are filled with is not said, as they are filled with memset or a *)
(* loop over num_pixels_.                                                  *)
(***************************************************************************)
EXTENDS Integers

CONSTANTS
  NumPixels,      \* num_pixels_
  Rand,           \* what rand() may return
  StarSpeed,      \* k |-> exp(3 - k/10), where exp(3) is taken for 20
  DropSpeed,      \* k |-> exp(-k/50)
  NumStars,       \* stars and drops of an effect; they do not interact
  NumDrops,
  SpikeSide,      \* SpikeEffect works on a square of 15 x 15 pixels
  DiagnosticRun,  \* ColorDiagnosticEffect shows 5 pixels of each colour
  Strips,         \* the strips of the default scenario that are looked at
  MaxSets         \* bound on the calls of SetEffect

ASSUME EffectsAssumption ==
  /\ NumPixels \in Nat \ {0}
  /\ Rand \subseteq Nat
  /\ StarSpeed \in [0 .. 99 -> Nat \ {0}] /\ DropSpeed \in [0 .. 99 -> Nat \ {0}]
  /\ NumStars \in Nat /\ NumDrops \in Nat
  /\ SpikeSide \in Nat /\ DiagnosticRun \in Nat
  /\ Strips \subseteq Nat /\ MaxSets \in Nat

VARIABLES
  effect,   \* the effect of the strip, a record of its members
  touched,  \* the pixels the last RenderFrame reached by an index
  sets      \* calls of SetEffect
vars == <<effect, touched, sets>>

Pixel == 0 .. NumPixels - 1
Stars == 1 .. NumStars
Drops == 1 .. NumDrops

\* The conversion of a float to int is towards zero.
Trunc(n) == IF n >= 0 THEN n \div 1000 ELSE -((-n) \div 1000)

-----------------------------------------------------------------------------
(* Stars: each brightens up to its limit, fades, and begins again elsewhere. *)

\* A star made of four calls of rand().
NewStar(r) ==
  LET speed == StarSpeed[r[2] % 100]
      limit == (speed * (200 + (r[3] % 50))) \div 20
  IN  [at |-> r[1] % NumPixels, speed |-> speed, limit |-> limit,
       luminocity |-> 1000 * (r[4] % (1 + limit \div 4000)), fading |-> FALSE]

\* Mutant: a new star is still the fading one.
CreateStarFading ==
  {[NewStar(r) EXCEPT !.fading = TRUE] : r \in Rand \X Rand \X Rand \X Rand}

CreateStar == {NewStar(r) : r \in Rand \X Rand \X Rand \X Rand}

NextStar(s) ==
  IF ~s.fading
  THEN {[s EXCEPT !.luminocity = @ + s.speed,
                  !.fading = s.luminocity + s.speed >= s.limit]}
  ELSE IF s.luminocity - s.speed > 0 THEN {[s EXCEPT !.luminocity = @ - s.speed]}
  ELSE CreateStar

-----------------------------------------------------------------------------
(* Matrix: drops run along the strip, each with a trail that gets darker.    *)

NewDrop(r, forward) ==
  [at |-> IF forward THEN 250 * (r[1] % NumPixels)
                     ELSE 1000 * NumPixels - 250 * (r[1] % NumPixels),
   speed |-> DropSpeed[r[2] % 100],
   trail |-> (r[3] % NumPixels) \div 10 + 1]

CreateDrop(forward) == {NewDrop(r, forward) : r \in Rand \X Rand \X Rand}

Moved(d, forward) ==
  [d EXCEPT !.at = IF forward THEN @ + d.speed ELSE @ - d.speed]

\* Mutant: a drop is gone when its head is.
HeadIsGone(d, forward) ==
  IF forward THEN d.at > 1000 * NumPixels ELSE d.at < 0

IsGone(d, forward) ==
  IF forward THEN d.at - 1000 * d.trail > 1000 * NumPixels
             ELSE d.at + 1000 * d.trail < 0

NextDrop(d, forward) ==
  IF IsGone(Moved(d, forward), forward) THEN CreateDrop(forward)
                                        ELSE {Moved(d, forward)}

\* Mutant: the loop of RenderDrops runs one pixel too far.
TrailWithStop(d, forward) ==
  IF forward THEN Trunc(d.at - 1000 * d.trail) .. Trunc(d.at)
             ELSE Trunc(d.at) .. Trunc(d.at + 1000 * d.trail)

Trail(d, forward) ==
  IF forward THEN Trunc(d.at - 1000 * d.trail) + 1 .. Trunc(d.at)
             ELSE Trunc(d.at) .. Trunc(d.at + 1000 * d.trail) - 1

Shown(d, forward) == {p \in Trail(d, forward) : p >= 0 /\ p < NumPixels}

\* The green of a pixel of a trail, a byte that is lowered from pixel to pixel;
\* the pixel at the head is the first to be lowered.
FromHead(d, p, forward) == 1 + IF forward THEN Trunc(d.at) - p ELSE p - Trunc(d.at)
Green(d, p, forward) == (250 - FromHead(d, p, forward) * (250 \div d.trail)) % 256

-----------------------------------------------------------------------------
(* One strip                                                                 *)

Plain(kind) == [kind |-> kind]
Breathe == [kind |-> "breathe", luminance |-> 0, up |-> TRUE]
Walk(offset) == [kind |-> "walk", offset |-> offset, position |-> offset]
Spike == [kind |-> "spike", spike_pos |-> 0]
StarsEffects == [kind : {"stars"}, stars : [Stars -> CreateStar]]
MatrixEffects(forward) ==
  [kind : {"matrix"}, forward : {forward}, drops : [Drops -> CreateDrop(forward)]]

SetDefaultScenario(strip) ==
  IF strip < 1 THEN {Plain("color_fade")}
  ELSE IF strip < 2 THEN {Spike}
  ELSE IF strip < 24 THEN StarsEffects
  ELSE IF strip < 25 THEN {Breathe}
  ELSE IF strip < 30 THEN {Walk(r % 100) : r \in Rand}
  ELSE IF strip < 40 THEN {Plain("color_fade")}
  ELSE MatrixEffects(TRUE)

SetEffectLocked ==
  {Plain("black"), Plain("white"), Breathe, Plain("color_diagnostic")}
    \union StarsEffects \union MatrixEffects(TRUE) \union MatrixEffects(FALSE)

Init ==
  /\ \E strip \in Strips : effect \in SetDefaultScenario(strip)
  /\ touched = {} /\ sets = 0

\* Nothing in the repository calls SetEffect or SetScenario yet.
SetEffect ==
  /\ sets < MaxSets /\ sets' = sets + 1
  /\ effect' \in SetEffectLocked /\ touched' = {}

RenderPlain ==
  /\ effect.kind \in {"black", "white", "color_fade"}
  /\ touched' = Pixel /\ UNCHANGED effect

RenderColorDiagnostic ==
  /\ effect.kind = "color_diagnostic"
  /\ touched' = 0 .. 4 * (DiagnosticRun + 1) - 1 /\ UNCHANGED effect

\* Mutant: the turn at the top is left out.
RenderBreatheUpwards ==
  /\ effect.kind = "breathe" /\ touched' = Pixel
  /\ effect' = [effect EXCEPT !.luminance = @ + 1]

RenderBreathe ==
  /\ effect.kind = "breathe" /\ touched' = Pixel
  /\ IF effect.up
     THEN effect' = [effect EXCEPT !.luminance = @ + 1,
                                   !.up = effect.luminance + 1 # 250]
     ELSE effect' = [effect EXCEPT !.luminance = @ - 1,
                                   !.up = effect.luminance - 1 = 0]

\* Mutant: the position is not taken back to the strip.
RenderWalkOn ==
  /\ effect.kind = "walk"
  /\ touched' = {effect.position}
  /\ effect' = [effect EXCEPT !.position = @ + 77 + effect.offset]

RenderWalk ==
  /\ effect.kind = "walk"
  /\ touched' = {effect.position}
  /\ effect' = [effect EXCEPT !.position = (@ + 77 + effect.offset) % NumPixels]

\* The blur goes over the square; the spikes are eleven pixels, eleven apart.
RenderSpike ==
  /\ effect.kind = "spike"
  /\ touched' = (0 .. SpikeSide * SpikeSide - 1)
                  \union {(effect.spike_pos + 11 * w) % NumPixels : w \in 0 .. 10}
  /\ effect' = [effect EXCEPT !.spike_pos = (@ + 121) % NumPixels]

RenderStars ==
  /\ effect.kind = "stars"
  /\ \E stars \in [Stars -> UNION {NextStar(effect.stars[i]) : i \in Stars}] :
       /\ \A i \in Stars : stars[i] \in NextStar(effect.stars[i])
       /\ effect' = [effect EXCEPT !.stars = stars]
       /\ touched' = {stars[i].at : i \in Stars}

RenderMatrix ==
  /\ effect.kind = "matrix"
  /\ \E drops \in [Drops -> UNION {NextDrop(effect.drops[i], effect.forward) : i \in Drops}] :
       /\ \A i \in Drops : drops[i] \in NextDrop(effect.drops[i], effect.forward)
       /\ effect' = [effect EXCEPT !.drops = drops]
       /\ touched' = UNION {Shown(drops[i], effect.forward) : i \in Drops}

RenderFrame ==
  /\ \/ RenderPlain \/ RenderColorDiagnostic \/ RenderBreathe \/ RenderWalk
     \/ RenderSpike \/ RenderStars \/ RenderMatrix
  /\ UNCHANGED sets

Next == RenderFrame \/ SetEffect

\* The animation thread renders frame after frame.
Spec == Init /\ [][Next]_vars
FairSpec == Spec /\ WF_vars(RenderFrame)

-----------------------------------------------------------------------------
(* Properties                                                                *)

\* The shortest strip an effect fits on.  Strip 1 of the default scenario needs
\* 225 pixels; the server's default has 250, the emulator's 128.
Needs(e) ==
  IF e.kind = "color_diagnostic" THEN 4 * (DiagnosticRun + 1)
  ELSE IF e.kind = "walk" THEN e.offset + 1
  ELSE IF e.kind = "spike" THEN SpikeSide * SpikeSide
  ELSE 1

\* On a strip that is long enough for its effect, no frame of the effect touches
\* a pixel that is not the strip's.
InStrip == Needs(effect) <= NumPixels => touched \subseteq Pixel

\* A trail never gets brighter towards its end: the byte that is lowered from
\* pixel to pixel does not wrap.
TrailFades ==
  effect.kind = "matrix" =>
    \A i \in Drops :
      LET d == effect.drops[i]
      IN  \A p, q \in Shown(d, effect.forward) :
            FromHead(d, p, effect.forward) < FromHead(d, q, effect.forward) =>
              Green(d, q, effect.forward) <= Green(d, p, effect.forward)

\* A drop is taken away when no pixel of it would be seen, not before.
DropsLeave ==
  [][(RenderFrame /\ effect.kind = "matrix") =>
       \A i \in Drops :
         LET d == Moved(effect.drops[i], effect.forward)
         IN  effect'.drops[i] = d \/ Shown(d, effect.forward) = {}]_vars

\* No star, drop or breath gets stuck: until the effect is replaced, each star
\* shines and fades again and again, each drop comes and goes, and the luminance
\* goes up to the top and down to 0.
Moves(i) ==
  IF effect.kind = "stars" THEN i \in Stars
  ELSE IF effect.kind = "matrix" THEN i \in Drops ELSE effect.kind = "breathe"
IsUp(i) ==
  IF effect.kind = "stars" THEN ~effect.stars[i].fading
  ELSE IF effect.kind = "matrix" THEN Shown(effect.drops[i], effect.forward) # {}
  ELSE effect.up
KeepsMoving ==
  \A i \in Stars \union Drops :
    /\ (Moves(i) /\ IsUp(i)) ~> ~(Moves(i) /\ IsUp(i))
    /\ (Moves(i) /\ ~IsUp(i)) ~> ~(Moves(i) /\ ~IsUp(i))

\* How far a star, drop or breath is from where it turns around or ends.
StarLeft(s) == IF s.fading THEN s.luminocity ELSE s.limit - s.luminocity
DropLeft(d, forward) == IF forward THEN 1000 * (NumPixels + d.trail) - d.at
                                   ELSE d.at + 1000 * d.trail
Remaining(i) ==
  IF effect.kind = "stars" THEN StarLeft(effect.stars[i])
  ELSE IF effect.kind = "matrix" THEN DropLeft(effect.drops[i], effect.forward)
  ELSE IF effect.up THEN 250 - effect.luminance ELSE effect.luminance

Turns(i) ==
  IF effect.kind = "stars" THEN effect'.stars[i].fading # effect.stars[i].fading
  ELSE IF effect.kind = "matrix"
  THEN effect'.drops[i] # Moved(effect.drops[i], effect.forward)
  ELSE effect'.up # effect.up

\* What KeepsMoving rests on: in each frame a star, drop or breath turns around, or
\* gets nearer to where it will and not past it, although the floats of stars and
\* drops step over their limits (effect.cc:243, 323).
EveryFrameCounts ==
  [][RenderFrame =>
       \A i \in Stars \union Drops : Moves(i) =>
         Turns(i) \/ (Remaining(i)' >= 0 /\ Remaining(i)' < Remaining(i))]_vars

-----------------------------------------------------------------------------
(* The inductive invariant of the proofs.                                    *)

\* A star gets past its limit by no more than one step, and is never negative; it
\* may get past 255, which is more than a byte of the strip holds.
StarStates ==
  {s \in [at : Pixel, speed : Nat \ {0}, limit : Nat, luminocity : Nat, fading : BOOLEAN] :
     /\ s.luminocity <= s.limit + s.speed
     /\ ~s.fading => s.luminocity <= s.limit}

DropStates == [at : Int, speed : Nat \ {0}, trail : Nat \ {0}]

BreatheStates ==
  {e \in [kind : {"breathe"}, luminance : Nat, up : BOOLEAN] :
     /\ e.luminance <= 250
     /\ IF e.up THEN e.luminance < 250 ELSE e.luminance > 0}

\* A walk starts at its offset, wherever that is.
WalkStates ==
  {e \in [kind : {"walk"}, offset : Nat, position : Nat] :
     e.position \in Pixel \/ e.position = e.offset}

EffectStates ==
  [kind : {"black", "white", "color_fade", "color_diagnostic"}]
    \union BreatheStates \union WalkStates
    \union [kind : {"spike"}, spike_pos : Pixel]
    \union [kind : {"stars"}, stars : [Stars -> StarStates]]
    \union [kind : {"matrix"}, forward : BOOLEAN, drops : [Drops -> DropStates]]

IInv ==
  /\ effect \in EffectStates /\ sets \in 0 .. MaxSets
  /\ InStrip
=============================================================================
