---------------------------- MODULE EffectsProofs -----------------------------
(***************************************************************************)
(* Theorems about Effects, for every length of the strip, every number of  *)
(* stars and drops, and whatever rand() returns.                           *)
(***************************************************************************)
EXTENDS Effects, TLAPS

-----------------------------------------------------------------------------
(* Random places                                                             *)

\* Division by a number of pixels, as far as the provers need it.
LEMMA Remainder ==
  ASSUME NEW r \in Nat, NEW n \in Nat \ {0}
  PROVE  r % n \in Nat /\ r % n >= 0 /\ r % n < n
OBVIOUS

LEMMA RandomPixel ==
  Rand \subseteq Nat /\ \A r \in Nat : r % NumPixels \in Pixel /\ r % NumPixels \in Nat
<1> SUFFICES ASSUME NEW r \in Nat
             PROVE  r % NumPixels \in Pixel /\ r % NumPixels \in Nat
  BY EffectsAssumption
<1>1. r \in Nat /\ NumPixels \in Nat \ {0}
  BY EffectsAssumption
<1>2. r % NumPixels \in Nat /\ r % NumPixels >= 0 /\ r % NumPixels < NumPixels
  BY <1>1, Remainder
<1> DEFINE p == r % NumPixels
<1> HIDE DEF p
<1>3. p \in Nat /\ p >= 0 /\ p < NumPixels
  BY <1>2 DEF p
<1>4. p \in Pixel
  BY <1>1, <1>3 DEF Pixel
<1> QED BY <1>3, <1>4 DEF p

LEMMA HundredthOf == \A r \in Nat : r % 100 \in 0 .. 99
<1> SUFFICES ASSUME NEW r \in Nat PROVE r % 100 \in 0 .. 99
  OBVIOUS
<1> QED BY Remainder

LEMMA CreateStarType == CreateStar \subseteq StarStates
<1> SUFFICES ASSUME NEW r \in Rand \X Rand \X Rand \X Rand PROVE NewStar(r) \in StarStates
  BY DEF CreateStar
<1> DEFINE speed == StarSpeed[r[2] % 100]
           x == 200 + (r[3] % 50)
           limit == (speed * x) \div 20
           y == r[4] % (1 + limit \div 4000)
<1>1. r[1] \in Rand /\ r[2] \in Nat /\ r[3] \in Nat /\ r[4] \in Nat
  BY EffectsAssumption
<1>2. speed \in Nat \ {0}
  BY <1>1, HundredthOf, EffectsAssumption
<1>3. x \in Nat
  BY <1>1
<1>4. limit \in Nat
  <2>1. \A a, b \in Nat : a * b \in Nat
    OBVIOUS
  <2>2. \A a \in Nat : a \div 20 \in Nat
    OBVIOUS
  <2> QED BY <2>1, <2>2, <1>2, <1>3
<1> HIDE DEF speed, x, limit
<1>5. y \in Nat /\ 4000 * y <= limit
  <2> DEFINE n == 1 + limit \div 4000
  <2>1. n \in Nat \ {0} /\ 4000 * (n - 1) <= limit
    BY <1>4
  <2> HIDE DEF n
  <2>2. r[4] % n \in Nat /\ r[4] % n < n
    BY <1>1, <2>1, Remainder
  <2>3. y = r[4] % n
    BY DEF n
  <2> HIDE DEF y
  <2>4. y \in Nat /\ y < n
    BY <2>2, <2>3
  <2> QED BY <2>1, <2>4, <1>4
<1> HIDE DEF y
<1>6. 1000 * y \in Nat /\ 1000 * y <= limit /\ 1000 * y <= limit + speed
  BY <1>2, <1>4, <1>5
<1>7. [at |-> r[1] % NumPixels, speed |-> speed, limit |-> limit,
       luminocity |-> 1000 * y, fading |-> FALSE] \in StarStates
  <2>1. r[1] % NumPixels \in Pixel
    BY <1>1, RandomPixel
  <2> QED BY <2>1, <1>2, <1>4, <1>6 DEF StarStates
<1> QED BY <1>7 DEF NewStar, speed, x, limit, y

LEMMA NextStarType == \A s \in StarStates : NextStar(s) \subseteq StarStates
<1> SUFFICES ASSUME NEW s \in StarStates, NEW t \in NextStar(s) PROVE t \in StarStates
  OBVIOUS
<1>1. CASE ~s.fading
  <2>1. t = [s EXCEPT !.luminocity = s.luminocity + s.speed,
                      !.fading = s.luminocity + s.speed >= s.limit]
    BY <1>1 DEF NextStar
  <2> DEFINE lum == s.luminocity + s.speed
             turns == lum >= s.limit
  <2>2. /\ s.at \in Pixel /\ s.speed \in Nat \ {0} /\ s.limit \in Nat /\ s.luminocity \in Nat
        /\ s.luminocity <= s.limit
        /\ s = [at |-> s.at, speed |-> s.speed, limit |-> s.limit,
                luminocity |-> s.luminocity, fading |-> s.fading]
    BY <1>1 DEF StarStates
  <2>3. lum \in Nat /\ turns \in BOOLEAN
        /\ lum <= s.limit + s.speed
        /\ (~turns => lum < s.limit)
    BY <2>2
  <2> HIDE DEF lum, turns
  <2>4. t = [at |-> s.at, speed |-> s.speed, limit |-> s.limit,
             luminocity |-> lum, fading |-> turns]
    BY <2>1, <2>2, Zenon DEF lum, turns
  <2> QED BY <2>2, <2>3, <2>4 DEF StarStates
<1>2. CASE s.fading /\ s.luminocity - s.speed > 0
  <2>1. t = [s EXCEPT !.luminocity = s.luminocity - s.speed]
    BY <1>2 DEF NextStar
  <2> QED BY <2>1, <1>2 DEF StarStates
<1>3. CASE s.fading /\ ~(s.luminocity - s.speed > 0)
  BY <1>3, CreateStarType DEF NextStar
<1> QED BY <1>1, <1>2, <1>3

LEMMA CreateDropType == \A forward \in BOOLEAN : CreateDrop(forward) \subseteq DropStates
<1> SUFFICES ASSUME NEW forward \in BOOLEAN, NEW r \in Rand \X Rand \X Rand
             PROVE  NewDrop(r, forward) \in DropStates
  BY DEF CreateDrop
<1>1. r[1] \in Rand /\ r[2] \in Nat /\ r[3] \in Rand
  BY EffectsAssumption
<1>2. DropSpeed[r[2] % 100] \in Nat \ {0}
  BY <1>1, HundredthOf, EffectsAssumption
<1>3. (r[3] % NumPixels) \div 10 + 1 \in Nat \ {0}
  <2>1. \A a \in Nat : a \div 10 + 1 \in Nat \ {0}
    OBVIOUS
  <2> QED BY <2>1, <1>1, RandomPixel
<1>4. (IF forward THEN 250 * (r[1] % NumPixels)
                  ELSE 1000 * NumPixels - 250 * (r[1] % NumPixels)) \in Int
  <2>1. \A a, b \in Nat : 250 * a \in Int /\ 1000 * b - 250 * a \in Int
    OBVIOUS
  <2>2. r[1] % NumPixels \in Nat /\ NumPixels \in Nat
    BY <1>1, RandomPixel, EffectsAssumption
  <2> QED BY <2>1, <2>2
<1> QED BY <1>2, <1>3, <1>4 DEF DropStates, NewDrop

LEMMA NextDropType ==
  \A forward \in BOOLEAN, d \in DropStates : NextDrop(d, forward) \subseteq DropStates
<1> SUFFICES ASSUME NEW forward \in BOOLEAN, NEW d \in DropStates
             PROVE  NextDrop(d, forward) \subseteq DropStates
  OBVIOUS
<1>1. Moved(d, forward) \in DropStates
  BY DEF Moved, DropStates
<1> QED BY <1>1, CreateDropType DEF NextDrop

-----------------------------------------------------------------------------
(* The invariant                                                             *)

LEMMA CreatedEffects ==
  /\ StarsEffects \subseteq EffectStates
  /\ \A forward \in BOOLEAN : MatrixEffects(forward) \subseteq EffectStates
  /\ \A kind \in {"black", "white", "color_fade", "color_diagnostic"} :
       Plain(kind) \in EffectStates
  /\ Breathe \in EffectStates /\ Spike \in EffectStates
  /\ \A offset \in Nat : Walk(offset) \in EffectStates
<1>1. StarsEffects \subseteq [kind : {"stars"}, stars : [Stars -> StarStates]]
  BY CreateStarType DEF StarsEffects
<1>2. ASSUME NEW forward \in BOOLEAN
      PROVE  MatrixEffects(forward)
               \subseteq [kind : {"matrix"}, forward : BOOLEAN, drops : [Drops -> DropStates]]
  BY CreateDropType DEF MatrixEffects
<1>3. Breathe \in BreatheStates
  BY DEF Breathe, BreatheStates
<1>4. ASSUME NEW offset \in Nat PROVE Walk(offset) \in WalkStates
  BY DEF Walk, WalkStates
<1>5. Spike \in [kind : {"spike"}, spike_pos : Pixel]
  BY EffectsAssumption DEF Spike, Pixel
<1>6. ASSUME NEW kind \in {"black", "white", "color_fade", "color_diagnostic"}
      PROVE  Plain(kind) \in [kind : {"black", "white", "color_fade", "color_diagnostic"}]
  BY DEF Plain
<1> QED BY <1>1, <1>2, <1>3, <1>4, <1>5, <1>6 DEF EffectStates

LEMMA InitHolds == Init => IInv
<1> SUFFICES ASSUME Init PROVE IInv
  OBVIOUS
<1>1. PICK strip \in Strips : effect \in SetDefaultScenario(strip)
  BY DEF Init
<1>2. \A r \in Rand : r % 100 \in Nat
  BY EffectsAssumption
<1>3. effect \in EffectStates
  BY <1>1, <1>2, CreatedEffects DEF SetDefaultScenario
<1> QED BY <1>3, EffectsAssumption DEF Init, IInv, InStrip

LEMMA SetEffectStep == IInv /\ SetEffect => IInv'
<1> SUFFICES ASSUME IInv, SetEffect PROVE IInv'
  OBVIOUS
<1>1. effect' \in EffectStates
  BY CreatedEffects DEF SetEffect, SetEffectLocked
<1> QED BY <1>1, EffectsAssumption DEF SetEffect, IInv, InStrip

\* Each kind of effect stays an effect of its kind.
LEMMA KindOf ==
  ASSUME effect \in EffectStates
  PROVE  /\ effect.kind = "breathe" => effect \in BreatheStates
         /\ effect.kind = "walk" => effect \in WalkStates
         /\ effect.kind = "spike" => effect \in [kind : {"spike"}, spike_pos : Pixel]
         /\ effect.kind = "stars" =>
              effect \in [kind : {"stars"}, stars : [Stars -> StarStates]]
         /\ effect.kind = "matrix" =>
              effect \in [kind : {"matrix"}, forward : BOOLEAN, drops : [Drops -> DropStates]]
BY DEF EffectStates, BreatheStates, WalkStates

LEMMA BreatheRecord ==
  ASSUME NEW e \in BreatheStates, NEW l \in Nat, NEW u \in BOOLEAN,
         l <= 250, IF u THEN l < 250 ELSE l > 0
  PROVE  [e EXCEPT !.luminance = l, !.up = u] \in BreatheStates
<1> DEFINE f == [e EXCEPT !.luminance = l, !.up = u]
<1>1. e \in [kind : {"breathe"}, luminance : Nat, up : BOOLEAN]
  BY DEF BreatheStates
<1>2. f \in [kind : {"breathe"}, luminance : Nat, up : BOOLEAN]
  BY <1>1
<1>3. f.luminance = l
  BY <1>1
<1>4. f.up = u
  BY <1>1
<1> HIDE DEF f
<1>5. f \in BreatheStates
  BY <1>2, <1>3, <1>4 DEF BreatheStates
<1> QED BY <1>5 DEF f

LEMMA RenderStep == IInv /\ RenderFrame => IInv'
<1> SUFFICES ASSUME IInv, RenderFrame PROVE effect' \in EffectStates /\ InStrip'
  BY DEF IInv, RenderFrame
<1>0. effect \in EffectStates /\ InStrip
  BY DEF IInv
<1>1. CASE RenderPlain
  BY <1>0, <1>1 DEF RenderPlain, InStrip, Needs
<1>2. CASE RenderColorDiagnostic
  BY <1>0, <1>2, EffectsAssumption DEF RenderColorDiagnostic, InStrip, Needs, Pixel
<1>3. CASE RenderBreathe
  <2>1. effect \in BreatheStates
    BY <1>0, <1>3, KindOf DEF RenderBreathe
  <2>2. effect' \in BreatheStates
    <3>1. CASE effect.up
      <4> DEFINE lum == effect.luminance + 1
                 turns == effect.luminance + 1 # 250
      <4>1. effect' = [effect EXCEPT !.luminance = lum, !.up = turns]
        BY <1>3, <3>1 DEF RenderBreathe
      <4>2. /\ effect = [kind |-> "breathe", luminance |-> effect.luminance, up |-> effect.up]
            /\ effect.luminance \in Nat /\ effect.luminance <= 250 /\ effect.luminance < 250
        BY <2>1, <3>1 DEF BreatheStates
      <4>3. turns \in BOOLEAN /\ lum \in Nat /\ lum <= 250
            /\ IF turns THEN lum < 250 ELSE lum > 0
        BY <4>2
      <4> HIDE DEF lum, turns
      <4>4. [effect EXCEPT !.luminance = lum, !.up = turns] \in BreatheStates
        BY <4>3, <2>1, BreatheRecord, Zenon
      <4> QED BY <4>1, <4>4, Zenon
    <3>2. CASE ~effect.up
      <4> DEFINE lum == effect.luminance - 1
                 turns == effect.luminance - 1 = 0
      <4>1. effect' = [effect EXCEPT !.luminance = lum, !.up = turns]
        BY <1>3, <3>2 DEF RenderBreathe
      <4>2. /\ effect = [kind |-> "breathe", luminance |-> effect.luminance, up |-> effect.up]
            /\ effect.luminance \in Nat /\ effect.luminance <= 250 /\ effect.luminance > 0
        BY <2>1, <3>2 DEF BreatheStates
      <4>3. turns \in BOOLEAN /\ lum \in Nat /\ lum <= 250
            /\ IF turns THEN lum < 250 ELSE lum > 0
        BY <4>2
      <4> HIDE DEF lum, turns
      <4>4. [effect EXCEPT !.luminance = lum, !.up = turns] \in BreatheStates
        BY <4>3, <2>1, BreatheRecord, Zenon
      <4> QED BY <4>1, <4>4, Zenon
    <3> QED BY <3>1, <3>2
  <2> QED BY <2>2, <1>3 DEF RenderBreathe, InStrip, EffectStates
<1>4. CASE RenderWalk
  <2>1. effect \in WalkStates
    BY <1>0, <1>4, KindOf DEF RenderWalk
  <2>2. (effect.position + 77 + effect.offset) % NumPixels \in Pixel
    <3>1. effect.position + 77 + effect.offset \in Nat
      BY <2>1 DEF WalkStates
    <3> QED BY <3>1, RandomPixel
  <2>3. effect' \in WalkStates /\ effect'.offset = effect.offset /\ effect'.kind = "walk"
    BY <1>4, <2>1, <2>2 DEF RenderWalk, WalkStates, Pixel
  <2>4. InStrip'
    BY <1>4, <2>1, <2>3, EffectsAssumption DEF RenderWalk, InStrip, Needs, WalkStates, Pixel
  <2> QED BY <2>3, <2>4 DEF EffectStates
<1>5. CASE RenderSpike
  <2>1. effect \in [kind : {"spike"}, spike_pos : Pixel]
    BY <1>0, <1>5, KindOf DEF RenderSpike
  <2>2. \A a \in Nat : (effect.spike_pos + a) % NumPixels \in Pixel
    <3>1. \A a \in Nat : effect.spike_pos + a \in Nat
      BY <2>1 DEF Pixel
    <3> QED BY <3>1, RandomPixel
  <2>3. effect' \in [kind : {"spike"}, spike_pos : Pixel] /\ effect'.kind = "spike"
    BY <1>5, <2>1, <2>2 DEF RenderSpike
  <2>4. \A w \in 0 .. 10 : (effect.spike_pos + 11 * w) % NumPixels \in Pixel
    BY <2>2
  <2>5. SpikeSide * SpikeSide \in Nat
    BY EffectsAssumption
  <2>6. InStrip'
    <3> DEFINE square == SpikeSide * SpikeSide
    <3>1. square \in Nat
      BY <2>5
    <3>2. touched' = (0 .. square - 1)
                       \union {(effect.spike_pos + 11 * w) % NumPixels : w \in 0 .. 10}
      BY <1>5 DEF RenderSpike
    <3>3. Needs(effect)' = square
      BY <2>3 DEF Needs
    <3> HIDE DEF square
    <3>4. square <= NumPixels => 0 .. square - 1 \subseteq Pixel
      BY <3>1, EffectsAssumption DEF Pixel
    <3> QED BY <3>2, <3>3, <3>4, <2>4 DEF InStrip
  <2> QED BY <2>3, <2>6 DEF EffectStates
<1>6. CASE RenderStars
  <2>1. effect \in [kind : {"stars"}, stars : [Stars -> StarStates]]
    BY <1>0, <1>6, KindOf DEF RenderStars
  <2>2. PICK stars \in [Stars -> UNION {NextStar(effect.stars[i]) : i \in Stars}] :
           /\ \A i \in Stars : stars[i] \in NextStar(effect.stars[i])
           /\ effect' = [effect EXCEPT !.stars = stars]
           /\ touched' = {stars[i].at : i \in Stars}
    BY <1>6 DEF RenderStars
  <2>3. \A i \in Stars : stars[i] \in StarStates
    BY <2>1, <2>2, NextStarType
  <2>4. stars \in [Stars -> StarStates]
    BY <2>2, <2>3
  <2>5. effect' \in [kind : {"stars"}, stars : [Stars -> StarStates]]
    BY <2>1, <2>2, <2>4
  <2>6. \A i \in Stars : stars[i].at \in Pixel
    BY <2>3 DEF StarStates
  <2> QED BY <2>2, <2>5, <2>6 DEF EffectStates, InStrip
<1>7. CASE RenderMatrix
  <2>1. effect \in [kind : {"matrix"}, forward : BOOLEAN, drops : [Drops -> DropStates]]
    BY <1>0, <1>7, KindOf DEF RenderMatrix
  <2>2. PICK drops \in [Drops -> UNION {NextDrop(effect.drops[i], effect.forward) : i \in Drops}] :
           /\ \A i \in Drops : drops[i] \in NextDrop(effect.drops[i], effect.forward)
           /\ effect' = [effect EXCEPT !.drops = drops]
           /\ touched' = UNION {Shown(drops[i], effect.forward) : i \in Drops}
    BY <1>7 DEF RenderMatrix
  <2>3. \A i \in Drops : drops[i] \in DropStates
    BY <2>1, <2>2, NextDropType
  <2>4. drops \in [Drops -> DropStates]
    BY <2>2, <2>3
  <2>5. effect' \in [kind : {"matrix"}, forward : BOOLEAN, drops : [Drops -> DropStates]]
    BY <2>1, <2>2, <2>4
  <2>6. \A i \in Drops : Shown(drops[i], effect.forward) \subseteq Pixel
    <3> SUFFICES ASSUME NEW i \in Drops, NEW p \in Shown(drops[i], effect.forward)
                 PROVE  p \in Pixel
      OBVIOUS
    <3>1. p \in Int /\ p >= 0 /\ p < NumPixels
      BY DEF Shown, Trail
    <3> QED BY <3>1, EffectsAssumption DEF Pixel
  <2> QED BY <2>2, <2>5, <2>6 DEF EffectStates, InStrip
<1> QED BY <1>1, <1>2, <1>3, <1>4, <1>5, <1>6, <1>7 DEF RenderFrame

\* What every effect keeps is in range in every frame.
THEOREM Invariance == Spec => []IInv
<1>1. IInv /\ UNCHANGED vars => IInv'
  BY DEF IInv, InStrip, vars
<1>2. IInv /\ [Next]_vars => IInv'
  BY <1>1, RenderStep, SetEffectStep DEF Next
<1> QED BY InitHolds, <1>2, PTL DEF Spec

\* On a strip that is long enough for its effect, no frame touches a pixel that
\* is not the strip's.
THEOREM NoOverrun == Spec => []InStrip
<1>1. IInv => InStrip
  BY DEF IInv
<1> QED BY Invariance, <1>1, PTL

-----------------------------------------------------------------------------
(* Trails                                                                    *)

\* A trail is not longer than it says, however its ends are rounded.
LEMMA TrailLength ==
  ASSUME NEW forward \in BOOLEAN, NEW d \in DropStates, NEW p \in Trail(d, forward)
  PROVE  p \in Int /\ FromHead(d, p, forward) \in 1 .. d.trail
<1> DEFINE a == d.at
           l == d.trail
<1>1. a \in Int /\ l \in Nat \ {0}
  BY DEF DropStates
<1> HIDE DEF a, l
<1>2. /\ Trunc(a) \in Int /\ Trunc(a - 1000 * l) \in Int /\ Trunc(a + 1000 * l) \in Int
      /\ Trunc(a) - Trunc(a - 1000 * l) <= l /\ Trunc(a + 1000 * l) - Trunc(a) <= l
  BY <1>1 DEF Trunc
<1>3. CASE forward
  <2>1. p \in Trunc(a - 1000 * l) + 1 .. Trunc(a)
    BY <1>3 DEF Trail, a, l
  <2>2. 1 + (Trunc(a) - p) \in 1 .. l
    BY <2>1, <1>1, <1>2
  <2>3. FromHead(d, p, forward) = 1 + (Trunc(a) - p)
    BY <1>3 DEF FromHead, a
  <2> QED BY <2>1, <2>2, <2>3, <1>2 DEF l
<1>4. CASE ~forward
  <2>1. p \in Trunc(a) .. Trunc(a + 1000 * l) - 1
    BY <1>4 DEF Trail, a, l
  <2>2. 1 + (p - Trunc(a)) \in 1 .. l
    BY <2>1, <1>1, <1>2
  <2>3. FromHead(d, p, forward) = 1 + (p - Trunc(a))
    BY <1>4 DEF FromHead, a
  <2> QED BY <2>1, <2>2, <2>3, <1>2 DEF l
<1> QED BY <1>3, <1>4

\* The byte is lowered at most d.trail times by 250 \div d.trail.
LEMMA GreenIsLowered ==
  ASSUME NEW l \in Nat \ {0}, NEW j \in 1 .. l
  PROVE  /\ j * (250 \div l) \in Nat /\ j * (250 \div l) <= 250
         /\ \A i \in 1 .. l : i < j => i * (250 \div l) <= j * (250 \div l)
<1> DEFINE q == 250 \div l
<1>1. q \in Nat /\ l * q <= 250
  <2>1. \A a \in Nat, n \in Nat \ {0} : a \div n \in Nat /\ n * (a \div n) <= a
    OBVIOUS
  <2> QED BY <2>1
<1> HIDE DEF q
<1>2. ASSUME NEW a \in Nat, NEW b \in Nat, a <= b PROVE a * q \in Nat /\ a * q <= b * q
  <2>1. (b - a) * q >= 0
    <3>1. b - a \in Nat
      BY <1>2
    <3> QED BY <3>1, <1>1
  <2>2. (b - a) * q = b * q - a * q /\ a * q \in Nat /\ b * q \in Nat
    BY <1>1
  <2> QED BY <2>1, <2>2
<1>3. j * q \in Nat /\ j * q <= l * q /\ l * q \in Nat
  BY <1>2
<1>4. \A i \in 1 .. l : i < j => i * q <= j * q
  BY <1>2
<1> QED BY <1>1, <1>3, <1>4 DEF q

\* No trail gets brighter towards its end, whatever its length.
THEOREM TrailsFade == Spec => []TrailFades
<1>1. IInv => TrailFades
  <2> SUFFICES ASSUME IInv, effect.kind = "matrix", NEW i \in Drops,
                      NEW p \in Shown(effect.drops[i], effect.forward),
                      NEW q \in Shown(effect.drops[i], effect.forward),
                      FromHead(effect.drops[i], p, effect.forward)
                        < FromHead(effect.drops[i], q, effect.forward)
               PROVE  Green(effect.drops[i], q, effect.forward)
                        <= Green(effect.drops[i], p, effect.forward)
    BY DEF TrailFades
  <2> DEFINE d == effect.drops[i]
             l == d.trail
             j == FromHead(d, p, effect.forward)
             k == FromHead(d, q, effect.forward)
  <2>1. effect.forward \in BOOLEAN /\ d \in DropStates
    BY KindOf DEF IInv
  <2>2. p \in Trail(d, effect.forward) /\ q \in Trail(d, effect.forward)
    BY DEF Shown
  <2>3. l \in Nat \ {0} /\ j \in 1 .. l /\ k \in 1 .. l /\ j < k
    BY <2>1, <2>2, TrailLength DEF DropStates
  <2>4. /\ Green(d, p, effect.forward) = (250 - j * (250 \div l)) % 256
        /\ Green(d, q, effect.forward) = (250 - k * (250 \div l)) % 256
    BY DEF Green
  <2> HIDE DEF d, l, j, k
  <2>5. /\ j * (250 \div l) \in Nat /\ k * (250 \div l) \in Nat
        /\ j * (250 \div l) <= k * (250 \div l) /\ k * (250 \div l) <= 250
    BY <2>3, GreenIsLowered
  <2>6. \A a \in Nat : a <= 250 => (250 - a) % 256 = 250 - a
    OBVIOUS
  <2>7. /\ Green(d, p, effect.forward) = 250 - j * (250 \div l)
        /\ Green(d, q, effect.forward) = 250 - k * (250 \div l)
    BY <2>4, <2>5, <2>6
  <2>8. Green(d, q, effect.forward) <= Green(d, p, effect.forward)
    BY <2>5, <2>7
  <2> QED BY <2>8 DEF d
<1> QED BY Invariance, <1>1, PTL

\* A drop that is gone by the test of UpdateDrops would not be drawn by the loop
\* of RenderDrops.
LEMMA GoneIsUnseen ==
  ASSUME NEW forward \in BOOLEAN, NEW d \in DropStates, IsGone(d, forward)
  PROVE  Shown(d, forward) = {}
<1> SUFFICES ASSUME NEW p \in Shown(d, forward) PROVE FALSE
  OBVIOUS
<1>1. d.at \in Int /\ d.trail \in Nat \ {0} /\ NumPixels \in Nat
  BY EffectsAssumption DEF DropStates
<1>2. \A a \in Int, n \in Nat : /\ Trunc(a) \in Int
                               /\ (a > 1000 * n => Trunc(a) >= n)
                               /\ (a < 0 => Trunc(a) <= 0)
  BY DEF Trunc
<1>3. p \in Int /\ p >= 0 /\ p < NumPixels
  BY DEF Shown, Trail
<1>4. CASE forward
  <2>1. p \in Trunc(d.at - 1000 * d.trail) + 1 .. Trunc(d.at)
    BY <1>4 DEF Shown, Trail
  <2>2. d.at - 1000 * d.trail \in Int /\ d.at - 1000 * d.trail > 1000 * NumPixels
    BY <1>1, <1>4 DEF IsGone
  <2>3. Trunc(d.at - 1000 * d.trail) >= NumPixels /\ Trunc(d.at - 1000 * d.trail) \in Int
    BY <2>2, <1>1, <1>2
  <2> QED BY <2>1, <2>3, <1>1, <1>2, <1>3
<1>5. CASE ~forward
  <2>1. p \in Trunc(d.at) .. Trunc(d.at + 1000 * d.trail) - 1
    BY <1>5 DEF Shown, Trail
  <2>2. d.at + 1000 * d.trail \in Int /\ d.at + 1000 * d.trail < 0
    BY <1>1, <1>5 DEF IsGone
  <2>3. Trunc(d.at + 1000 * d.trail) <= 0 /\ Trunc(d.at + 1000 * d.trail) \in Int
    BY <2>2, <1>2
  <2> QED BY <2>1, <2>3, <1>1, <1>2, <1>3
<1> QED BY <1>4, <1>5

\* A drop is taken away only when no pixel of it would be seen.
THEOREM DropsLeaveUnseen == Spec => DropsLeave
<1> DEFINE Leaves ==
      (RenderFrame /\ effect.kind = "matrix") =>
        \A i \in Drops :
          LET d == Moved(effect.drops[i], effect.forward)
          IN  effect'.drops[i] = d \/ Shown(d, effect.forward) = {}
<1>1. IInv => Leaves
  <2> SUFFICES ASSUME IInv, RenderFrame, effect.kind = "matrix", NEW i \in Drops
               PROVE  \/ effect'.drops[i] = Moved(effect.drops[i], effect.forward)
                      \/ Shown(Moved(effect.drops[i], effect.forward), effect.forward) = {}
    OBVIOUS
  <2>1. effect \in [kind : {"matrix"}, forward : BOOLEAN, drops : [Drops -> DropStates]]
    BY KindOf DEF IInv
  <2>2. RenderMatrix
    BY DEF RenderFrame, RenderPlain, RenderColorDiagnostic, RenderBreathe, RenderWalk,
       RenderSpike, RenderStars
  <2>3. PICK drops \in [Drops -> UNION {NextDrop(effect.drops[k], effect.forward) : k \in Drops}] :
           /\ \A k \in Drops : drops[k] \in NextDrop(effect.drops[k], effect.forward)
           /\ effect' = [effect EXCEPT !.drops = drops]
    BY <2>2 DEF RenderMatrix
  <2>4. effect'.drops[i] \in NextDrop(effect.drops[i], effect.forward)
    BY <2>1, <2>3
  <2>5. Moved(effect.drops[i], effect.forward) \in DropStates /\ effect.forward \in BOOLEAN
    BY <2>1 DEF Moved, DropStates
  <2> QED BY <2>4, <2>5, GoneIsUnseen DEF NextDrop
<1>2. IInv => [Leaves]_vars
  BY <1>1
<1>3. DropsLeave <=> [][Leaves]_vars
  BY DEF DropsLeave
<1> QED BY Invariance, <1>2, <1>3, PTL

-----------------------------------------------------------------------------
(* Every frame counts                                                        *)

\* A star turns around, or is nearer to where it will.
LEMMA StarCounts ==
  ASSUME NEW s \in StarStates, NEW t \in NextStar(s), t.fading = s.fading
  PROVE  StarLeft(t) >= 0 /\ StarLeft(t) < StarLeft(s)
<1>1. /\ s.speed \in Nat \ {0} /\ s.limit \in Nat /\ s.luminocity \in Nat
      /\ s \in [at : Pixel, speed : Nat \ {0}, limit : Nat, luminocity : Nat,
                fading : BOOLEAN]
  BY DEF StarStates
<1>2. CASE ~s.fading
  <2> DEFINE lum == s.luminocity + s.speed
             turns == lum >= s.limit
  <2>1. t = [s EXCEPT !.luminocity = lum, !.fading = turns]
    BY <1>2 DEF NextStar
  <2>2. lum \in Nat /\ lum > s.luminocity /\ turns \in BOOLEAN
        /\ (~turns => lum < s.limit)
    BY <1>1
  <2> HIDE DEF lum, turns
  <2>3. t.luminocity = lum /\ t.limit = s.limit /\ t.fading = turns
    BY <1>1, <2>1, <2>2
  <2>4. ~turns
    BY <1>2, <2>3
  <2> QED BY <1>1, <1>2, <2>2, <2>3, <2>4 DEF StarLeft
<1>3. CASE s.fading /\ s.luminocity - s.speed > 0
  <2>1. t = [s EXCEPT !.luminocity = s.luminocity - s.speed]
    BY <1>3 DEF NextStar
  <2>2. t.luminocity = s.luminocity - s.speed
    BY <1>1, <2>1
  <2> QED BY <1>1, <1>3, <2>2 DEF StarLeft
<1>4. CASE s.fading /\ ~(s.luminocity - s.speed > 0)
  <2>1. t \in CreateStar
    BY <1>4 DEF NextStar
  <2>2. t.fading = FALSE
    BY <2>1 DEF CreateStar, NewStar
  <2> QED BY <1>4, <2>2
<1> QED BY <1>2, <1>3, <1>4

\* No drop is gone when it is made.
LEMMA NewDropIsThere ==
  ASSUME NEW forward \in BOOLEAN, NEW d \in CreateDrop(forward)
  PROVE  ~IsGone(d, forward)
<1>1. PICK r \in Rand \X Rand \X Rand : d = NewDrop(r, forward)
  BY DEF CreateDrop
<1> DEFINE x == r[1] % NumPixels
<1>2. d.at = IF forward THEN 250 * x ELSE 1000 * NumPixels - 250 * x
  BY <1>1 DEF NewDrop
<1>3. d.trail \in Nat \ {0}
  BY CreateDropType DEF DropStates
<1>4. x \in Nat /\ x < NumPixels /\ NumPixels \in Nat
  <2>1. r[1] \in Nat /\ NumPixels \in Nat \ {0}
    BY EffectsAssumption
  <2> QED BY <2>1, Remainder
<1> HIDE DEF x
<1> QED BY <1>2, <1>3, <1>4 DEF IsGone

\* A drop is replaced, or is nearer to its end and not past it.
LEMMA DropCounts ==
  ASSUME NEW forward \in BOOLEAN, NEW d \in DropStates, NEW e \in NextDrop(d, forward),
         e = Moved(d, forward)
  PROVE  DropLeft(e, forward) >= 0 /\ DropLeft(e, forward) < DropLeft(d, forward)
<1>1. ~IsGone(e, forward)
  BY NewDropIsThere DEF NextDrop
<1>2. d.at \in Int /\ d.speed \in Nat \ {0} /\ d.trail \in Nat \ {0} /\ NumPixels \in Nat
  BY EffectsAssumption DEF DropStates
<1>3. /\ e.at = IF forward THEN d.at + d.speed ELSE d.at - d.speed
      /\ e.trail = d.trail
  BY DEF Moved, DropStates
<1> QED BY <1>1, <1>2, <1>3 DEF IsGone, DropLeft

\* In each frame everything that moves turns around or gets nearer to where it will.
THEOREM EffectsGetOn == Spec => EveryFrameCounts
<1> DEFINE Nearer(i) == Remaining(i)' >= 0 /\ Remaining(i)' < Remaining(i)
           Counts == RenderFrame =>
                       \A i \in Stars \union Drops : Moves(i) => Turns(i) \/ Nearer(i)
<1>1. IInv => Counts
  <2> SUFFICES ASSUME IInv, RenderFrame, NEW i \in Stars \union Drops, Moves(i), ~Turns(i)
               PROVE  Nearer(i)
    OBVIOUS
  <2>0. effect \in EffectStates
    BY DEF IInv
  <2>1. CASE effect.kind = "stars"
    <3>1. effect \in [kind : {"stars"}, stars : [Stars -> StarStates]] /\ i \in Stars
      BY <2>0, <2>1, KindOf DEF Moves
    <3>2. RenderStars
      BY <2>1 DEF RenderFrame, RenderPlain, RenderColorDiagnostic, RenderBreathe,
         RenderWalk, RenderSpike, RenderMatrix
    <3>3. PICK stars \in [Stars -> UNION {NextStar(effect.stars[k]) : k \in Stars}] :
             /\ \A k \in Stars : stars[k] \in NextStar(effect.stars[k])
             /\ effect' = [effect EXCEPT !.stars = stars]
      BY <3>2 DEF RenderStars
    <3>4. /\ effect'.kind = "stars" /\ effect'.stars[i] \in NextStar(effect.stars[i])
          /\ effect.stars[i] \in StarStates
      BY <3>1, <3>3
    <3>5. effect'.stars[i].fading = effect.stars[i].fading
      BY <2>1 DEF Turns
    <3>6. /\ StarLeft(effect'.stars[i]) >= 0
          /\ StarLeft(effect'.stars[i]) < StarLeft(effect.stars[i])
      BY <3>4, <3>5, StarCounts
    <3> QED BY <2>1, <3>4, <3>6 DEF Remaining
  <2>2. CASE effect.kind = "matrix"
    <3>1. /\ effect \in [kind : {"matrix"}, forward : BOOLEAN, drops : [Drops -> DropStates]]
          /\ i \in Drops
      BY <2>0, <2>2, KindOf DEF Moves
    <3>2. RenderMatrix
      BY <2>2 DEF RenderFrame, RenderPlain, RenderColorDiagnostic, RenderBreathe,
         RenderWalk, RenderSpike, RenderStars
    <3>3. PICK drops \in [Drops -> UNION {NextDrop(effect.drops[k], effect.forward) : k \in Drops}] :
             /\ \A k \in Drops : drops[k] \in NextDrop(effect.drops[k], effect.forward)
             /\ effect' = [effect EXCEPT !.drops = drops]
      BY <3>2 DEF RenderMatrix
    <3>4. /\ effect'.kind = "matrix" /\ effect'.forward = effect.forward
          /\ effect'.drops[i] \in NextDrop(effect.drops[i], effect.forward)
          /\ effect.drops[i] \in DropStates /\ effect.forward \in BOOLEAN
      BY <3>1, <3>3
    <3>5. effect'.drops[i] = Moved(effect.drops[i], effect.forward)
      BY <2>2 DEF Turns
    <3>6. /\ DropLeft(effect'.drops[i], effect.forward) >= 0
          /\ DropLeft(effect'.drops[i], effect.forward)
               < DropLeft(effect.drops[i], effect.forward)
      BY <3>4, <3>5, DropCounts
    <3> QED BY <2>2, <3>4, <3>6 DEF Remaining
  <2>3. CASE effect.kind = "breathe"
    <3>1. effect \in BreatheStates
      BY <2>0, <2>3, KindOf
    <3>2. /\ effect.luminance \in Nat /\ effect.luminance <= 250 /\ effect.up \in BOOLEAN
          /\ IF effect.up THEN effect.luminance < 250 ELSE effect.luminance > 0
          /\ effect \in [kind : {"breathe"}, luminance : Nat, up : BOOLEAN]
      BY <3>1 DEF BreatheStates
    <3>3. effect'.up = effect.up
      BY <2>3 DEF Turns
    <3>4. RenderBreathe
      BY <2>3 DEF RenderFrame, RenderPlain, RenderColorDiagnostic, RenderStars,
         RenderWalk, RenderSpike, RenderMatrix
    <3>5. /\ effect'.kind = "breathe"
          /\ effect'.luminance = IF effect.up THEN effect.luminance + 1
                                 ELSE effect.luminance - 1
      <4> DEFINE lum == IF effect.up THEN effect.luminance + 1 ELSE effect.luminance - 1
                 turns == IF effect.up THEN effect.luminance + 1 # 250
                          ELSE effect.luminance - 1 = 0
      <4>1. effect' = [effect EXCEPT !.luminance = lum, !.up = turns]
        BY <3>4, Zenon DEF RenderBreathe
      <4>2. DOMAIN effect = {"kind", "luminance", "up"} /\ effect.kind = "breathe"
        BY <3>2
      <4> HIDE DEF lum, turns
      <4>3. effect'.kind = "breathe" /\ effect'.luminance = lum
        BY <4>1, <4>2
      <4> QED BY <4>3 DEF lum
    <3> QED BY <2>3, <3>2, <3>3, <3>5 DEF Remaining
  <2> QED BY <2>1, <2>2, <2>3 DEF Moves
<1>2. IInv => [Counts]_vars
  BY <1>1
<1>3. EveryFrameCounts <=> [][Counts]_vars
  BY DEF EveryFrameCounts
<1> QED BY Invariance, <1>2, <1>3, PTL
=============================================================================
