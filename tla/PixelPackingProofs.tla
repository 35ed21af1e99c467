------------------------- MODULE PixelPackingProofs -------------------------
(***************************************************************************)
(* Proofs about PixelPacking, for every number of white LEDs, strips and   *)
(* LEDs per strip.                                                         *)
(***************************************************************************)
EXTENDS PixelPacking, TLAPS

-----------------------------------------------------------------------------
(* Addresses                                                                 *)

\* Multiplication by leds_per_strip, as far as the provers need it.
LEMMA TimesIsMonotonic ==
  ASSUME NEW n \in Nat, NEW s \in Nat, NEW t \in Nat
  PROVE  /\ s * n \in Nat
         /\ s < t => s * n + n <= t * n
<1>1. s * n \in Nat
  OBVIOUS
<1>2. ASSUME s < t PROVE s * n + n <= t * n
  <2>1. t - s - 1 \in Nat
    BY <1>2
  <2>2. (t - s - 1) * n >= 0
    BY <2>1
  <2>3. (t - s - 1) * n = t * n - s * n - n
    OBVIOUS
  <2> QED
    BY <2>2, <2>3, <1>1
<1> QED
  BY <1>1, <1>2

\* The strips of buffer_ follow one another.
LEMMA StripsFollow ==
  ASSUME leds \in Nat, used \in Nat
  PROVE  /\ BufferSize \in Nat
         /\ \A s \in 0 .. used - 1 : Start(s) \in Nat /\ Start(s) + leds <= BufferSize
         /\ \A s, t \in 0 .. used - 1 : s < t => Start(s) + leds <= Start(t)
<1>1. BufferSize \in Nat
  BY TimesIsMonotonic DEF BufferSize
<1>2. ASSUME NEW s \in 0 .. used - 1
      PROVE  Start(s) \in Nat /\ Start(s) + leds <= BufferSize
  BY TimesIsMonotonic DEF BufferSize, Start
<1>3. ASSUME NEW s \in 0 .. used - 1, NEW t \in 0 .. used - 1, s < t
      PROVE  Start(s) + leds <= Start(t)
  BY <1>3, TimesIsMonotonic DEF Start
<1> QED
  BY <1>1, <1>2, <1>3

\* How many words a strip takes.
LEMMA WordsBound ==
  ASSUME leds \in Nat \ {0}
  PROVE  /\ Words \in Nat /\ Rgbw <= Words /\ Words <= leds + Rgbw + 3
         /\ CountFits => Words <= leds
         /\ leds > Rgbw => /\ 4 * (Words - Rgbw) >= 3 * (leds - Rgbw)
                           /\ 4 * (Words - Rgbw) <= 3 * (leds - Rgbw + 3)
BY PackingAssumption DEF Words, CountFits

\* Where the loops stand: there is room for the next word or group, and at the
\* end of the second loop pos is Words.
LEMMA LoopBounds ==
  ASSUME leds \in Nat \ {0}, i \in Nat, pos \in Nat, LoopInv, pc = "pack"
  PROVE  /\ i < Rgbw => pos + 1 <= Words
         /\ i >= Rgbw /\ i < leds => pos + 3 <= Words
         /\ i >= Rgbw /\ i >= leds => pos = Words
         /\ i >= Rgbw => pos >= Rgbw /\ 4 * (pos - Rgbw) = 3 * (i - Rgbw)
         /\ pos <= Words
BY PackingAssumption DEF LoopInv, Words

-----------------------------------------------------------------------------
(* What a step leaves alone                                                  *)

\* The meaning of a word depends on the configuration only.
LEMMA SameLeds ==
  ASSUME UNCHANGED configVars
  PROVE  /\ leds' = leds /\ used' = used /\ lut' = lut
         /\ Led' = Led /\ Words' = Words /\ BufferSize' = BufferSize
BY DEF configVars, Led, Words, BufferSize

LEMMA SameMeaning ==
  ASSUME UNCHANGED configVars, NEW s, NEW x, NEW b
  PROVE  /\ Start(s)' = Start(s)
         /\ Forwarded(Start(s) + x, b)' = Forwarded(Start(s) + x, b)
         /\ drawn' = drawn => Sent(drawn, s, x, b)' = Sent(drawn, s, x, b)
         /\ frame' = frame =>
              /\ Packed(frame, s, x, b)' = Packed(frame, s, x, b)
              /\ Sent(frame, s, x, b)' = Sent(frame, s, x, b)
BY DEF configVars, Start, BufferSize, Forwarded, Packed, Sent, Looked, Colour

LEMMA DdrUnchanged ==
  ASSUME DdrInv, UNCHANGED <<configVars, ddr, drawn>> PROVE DdrInv'
<1> SUFFICES ASSUME drawn # 0,
                    NEW s \in 0 .. NumStrips - 1, NEW x \in Led', NEW b \in 0 .. 3,
                    x < Words' \/ ~Forwarded(Start(s) + x, b)'
             PROVE  ddr[x * NumStrips + s][b] = Sent(drawn, s, x, b)'
  BY DEF DdrInv
<1> QED
  BY SameLeds, SameMeaning DEF DdrInv

LEMMA WireUnchanged ==
  ASSUME WireInv, UNCHANGED <<configVars, ddr, drawn, pruVars>> PROVE WireInv'
BY DEF WireInv, configVars, pruVars

\* While the frame is packed or waits, the words passed on are those of before.
LEMMA LedsUnchanged ==
  ASSUME LedsInv, UNCHANGED <<configVars, ledsFrame>>, pc' # "draw" PROVE LedsInv'
<1> SUFFICES ASSUME NEW s \in 0 .. NumStrips - 1, NEW x \in Led, NEW b \in 0 .. 3,
                    ~Forwarded(Start(s) + x, b)
             PROVE  ledsFrame[Start(s) + x][b] = Dark
  BY DEF LedsInv, configVars, Start, BufferSize, Led, Forwarded, Sent
<1> QED
  BY DEF LedsInv, Sent

-----------------------------------------------------------------------------
(* Types                                                                     *)

\* The bytes SetPixelData writes.
LEMMA ByteTypes ==
  ASSUME frame \in 1 .. 2, lut \in BOOLEAN, NEW p \in Nat,
         NEW ch \in {"r", "g", "b", "w"}
  PROVE  Looked(frame, p, ch) \in Byte /\ Colour(frame, p, ch) \in Byte
BY DEF Looked, Colour, Byte, Table

\* Where the bytes of a group come from.
LEMMA GroupOrderType ==
  ASSUME NEW n \in 1 .. 12
  PROVE  GroupOrder[n][1] \in 0 .. 3 /\ GroupOrder[n][2] \in {"r", "g", "b"}
<1>1. n = 1 \/ n = 2 \/ n = 3 \/ n = 4 \/ n = 5 \/ n = 6 \/ n = 7 \/ n = 8
      \/ n = 9 \/ n = 10 \/ n = 11 \/ n = 12
  OBVIOUS
<1> QED
  BY <1>1 DEF GroupOrder

\* TypeOK without the arrays.
ScalarsOK ==
  /\ leds \in Nat \ {0} /\ used \in 1 .. NumStrips /\ lut \in BOOLEAN
  /\ frame \in 0 .. 2 /\ pc \in {"idle", "pack", "raw", "draw"}
  /\ strip \in 0 .. used - 1 /\ i \in Nat /\ pos \in Nat /\ top \in Nat

LEMMA Scalars == TypeOK => ScalarsOK
BY PackingAssumption DEF TypeOK, ScalarsOK, NumStrips

-----------------------------------------------------------------------------
(* Steps of SetPixelData                                                     *)

LEMMA StartFrameStep == IInv /\ StartFrame => IInv'
<1> SUFFICES ASSUME IInv, StartFrame PROVE IInv'
  OBVIOUS
<1> USE DEF IInv, StartFrame
<1>1. ScalarsOK
  BY Scalars
<1>2. TypeOK'
  BY <1>1, SameLeds DEF TypeOK, ScalarsOK, configVars, pruVars, Addr, FrameAddr,
     BufferSize
<1>3. PackInv'
  <2>1. FrameInv' /\ LoopInv' /\ TopInv'
    BY SameLeds, PackingAssumption DEF PackInv, FrameInv, LoopInv, TopInv
  <2>2. ContentInv'
    BY <1>1, SameLeds DEF ContentInv, Led, ScalarsOK
  <2> QED
    BY <2>1, <2>2 DEF PackInv
<1>4. LedsInv' /\ DdrInv' /\ WireInv'
  BY LedsUnchanged, DdrUnchanged, WireUnchanged
<1> QED
  BY <1>2, <1>3, <1>4

\* What the two loops have in common: a step stores some bytes between pos and
\* the end of the strip and leaves all others alone.
LEMMA PackStep ==
  ASSUME IInv, pc = "pack",
         UNCHANGED <<configVars, frame, pc, strip, ledsFrame, ddr, pruVars, drawn>>,
         i' \in Nat, pos' \in Nat, pos' <= Words, pos <= pos',
         buffer' \in [Addr -> [0 .. 3 -> Byte \cup {Unwritten}]],
         top' = Larger(top, Start(strip) + pos'),
         LoopInv',
         \A a \in Addr : a < Start(strip) + pos => buffer'[a] = buffer[a],
         \A x \in Led, b \in 0 .. 3 : pos <= x /\ x < pos' =>
           buffer'[Start(strip) + x][b] = Packed(frame, strip, x, b)
  PROVE  IInv'
<1> USE DEF IInv
<1>1. ScalarsOK /\ leds \in Nat /\ used \in Nat /\ strip \in 0 .. used - 1
  BY Scalars DEF ScalarsOK, NumStrips
<1>2. TypeOK'
  <2>1. Start(strip) \in Nat
    BY <1>1, StripsFollow
  <2>2. top' \in Nat
    BY <1>1, <2>1 DEF Larger, ScalarsOK
  <2> QED
    BY <1>1, <2>2, SameLeds
       DEF TypeOK, ScalarsOK, configVars, pruVars, Addr, FrameAddr, BufferSize
<1>3. FrameInv'
  BY DEF PackInv, FrameInv
<1>4. TopInv'
  <2>1. Start(strip) \in Nat /\ Start(strip) + leds <= BufferSize
    BY <1>1, StripsFollow
  <2>2. Start(strip) + pos' <= BufferSize - leds + Words
    BY <1>1, <2>1, StripsFollow, WordsBound DEF ScalarsOK
  <2> QED
    BY <2>2, <1>1, SameLeds DEF PackInv, TopInv, Larger
<1>5. ContentInv'
  <2> SUFFICES ASSUME NEW s \in 0 .. used - 1, NEW x \in Led, NEW b \in 0 .. 3,
                      s < strip \/ (s = strip /\ x < pos'), x < Words
               PROVE  buffer'[Start(s) + x][b] = Packed(frame, s, x, b)
    BY SameLeds, SameMeaning, <1>1 DEF ContentInv
  <2>1. CASE s < strip \/ x < pos
    <3>1. /\ Start(s) + x \in Nat /\ Start(s) + x < BufferSize
          /\ s < strip => Start(s) + x < Start(strip)
          /\ Start(strip) \in Nat /\ pos \in Nat /\ BufferSize \in Nat /\ x \in Nat
      BY <1>1, StripsFollow DEF Led, ScalarsOK
    <3>2. Start(s) + x \in Addr
      BY <3>1, PackingAssumption DEF Addr
    <3>6. Start(s) + x < Start(strip) + pos
      BY <2>1, <3>1
    <3>3. buffer'[Start(s) + x] = buffer[Start(s) + x]
      BY <3>2, <3>6
    <3>4. s < strip \/ (s = strip /\ x < pos)
      BY <2>1
    <3>5. buffer[Start(s) + x][b] = Packed(frame, s, x, b)
      BY <3>4 DEF PackInv, ContentInv
    <3> QED
      BY <3>3, <3>5
  <2>2. CASE s = strip /\ ~(x < pos)
    BY <2>2, <1>1 DEF Led, ScalarsOK
  <2> QED
    BY <2>1, <2>2
<1>6. LedsInv' /\ DdrInv' /\ WireInv'
  BY LedsUnchanged, DdrUnchanged, WireUnchanged
<1> QED
  BY <1>2, <1>3, <1>4, <1>5, <1>6 DEF PackInv

LEMMA PackRgbwStep == IInv /\ PackRgbw => IInv'
<1> SUFFICES ASSUME IInv, PackRgbw PROVE IInv'
  OBVIOUS
<1>1. /\ ScalarsOK /\ leds \in Nat \ {0} /\ used \in Nat
      /\ strip \in 0 .. used - 1 /\ LoopInv
      /\ pc = "pack" /\ frame \in 1 .. 2 /\ i \in Nat /\ pos \in Nat /\ i < Rgbw
  BY Scalars DEF ScalarsOK, NumStrips, IInv, PackInv, FrameInv, PackRgbw
<1>2. pos = i /\ i' = i + 1 /\ pos' = pos + 1 /\ pos' <= Words
  BY <1>1, LoopBounds, PackingAssumption DEF LoopInv, PackRgbw
<1>3. Start(strip) \in Nat /\ Start(strip) + leds <= BufferSize /\ BufferSize \in Nat
  BY <1>1, StripsFollow
<1> DEFINE word == [b \in 0 .. 3 |->
                      Looked(frame, Start(strip) + i, RgbwOrder[b + 1])]
<1>4. buffer' = [buffer EXCEPT ![Start(strip) + pos] = word]
  BY DEF PackRgbw
<1>5. word \in [0 .. 3 -> Byte]
  <2>1. \A b \in 0 .. 3 : RgbwOrder[b + 1] \in {"r", "g", "b", "w"}
    BY DEF RgbwOrder
  <2> QED
    BY <2>1, <1>1, <1>3, ByteTypes DEF ScalarsOK
<1> HIDE DEF word
<1>6. /\ buffer' \in [Addr -> [0 .. 3 -> Byte \cup {Unwritten}]]
      /\ Start(strip) + pos \in Addr
      /\ \A a \in Addr : buffer'[a] = IF a = Start(strip) + pos THEN word ELSE buffer[a]
  <2>1. Start(strip) + pos \in Addr
    BY <1>1, <1>2, <1>3, WordsBound, PackingAssumption DEF Addr
  <2> QED
    BY <2>1, <1>4, <1>5 DEF IInv, TypeOK
<1>7. LoopInv'
  BY <1>1, <1>2, SameLeds, PackingAssumption DEF LoopInv, PackRgbw
<1>8. ASSUME NEW x \in Led, NEW b \in 0 .. 3, pos <= x, x < pos'
      PROVE  buffer'[Start(strip) + x][b] = Packed(frame, strip, x, b)
  <2>1. x = pos
    BY <1>8, <1>1, <1>2 DEF Led
  <2> QED
    BY <2>1, <1>1, <1>2, <1>6 DEF Packed, word
<1>9. UNCHANGED <<configVars, frame, pc, strip, ledsFrame, ddr, pruVars, drawn>>
  BY DEF PackRgbw
<1>10. top' = Larger(top, Start(strip) + pos')
  <2>1. Start(strip) + pos + 1 = Start(strip) + pos'
    BY <1>1, <1>2, <1>3
  <2> QED
    BY <2>1 DEF PackRgbw
<1>11. \A a \in Addr : a < Start(strip) + pos => buffer'[a] = buffer[a]
  BY <1>6, <1>1, <1>3 DEF Addr
<1>12. i' \in Nat /\ pos' \in Nat /\ pos <= pos'
  BY <1>1, <1>2
<1> QED
  BY <1>1, <1>2, <1>6, <1>7, <1>8, <1>9, <1>10, <1>11, <1>12, PackStep

\* GroupOrder lists the bytes of four pixels in the order of the wire.
LEMMA GroupOrderIsWireOrder ==
  ASSUME NEW word \in 0 .. 2, NEW b \in 0 .. 3
  PROVE  LET n == 4 * word + 3 - b
         IN  /\ GroupOrder[4 * word + b + 1][1] = n \div 3
             /\ GroupOrder[4 * word + b + 1][2] = <<"g", "r", "b">>[(n % 3) + 1]
<1>1. word = 0 \/ word = 1 \/ word = 2
  OBVIOUS
<1>2. b = 0 \/ b = 1 \/ b = 2 \/ b = 3
  OBVIOUS
<1>3. CASE word = 0
  BY <1>2, <1>3 DEF GroupOrder
<1>4. CASE word = 1
  BY <1>2, <1>4 DEF GroupOrder
<1>5. CASE word = 2
  BY <1>2, <1>5 DEF GroupOrder
<1> QED
  BY <1>1, <1>3, <1>4, <1>5

LEMMA PackGroupStep == IInv /\ PackGroup => IInv'
<1> SUFFICES ASSUME IInv, PackGroup PROVE IInv'
  OBVIOUS
<1>1. /\ ScalarsOK /\ leds \in Nat \ {0} /\ used \in Nat
      /\ strip \in 0 .. used - 1 /\ LoopInv
      /\ pc = "pack" /\ frame \in 1 .. 2 /\ i \in Nat /\ pos \in Nat
      /\ i >= Rgbw /\ i < leds
  BY Scalars DEF ScalarsOK, NumStrips, IInv, PackInv, FrameInv, PackGroup
<1>2. /\ i' = i + 4 /\ pos' = pos + 3 /\ pos' <= Words
      /\ pos >= Rgbw /\ 4 * (pos - Rgbw) = 3 * (i - Rgbw)
  BY <1>1, LoopBounds DEF PackGroup
<1>3. Start(strip) \in Nat /\ Start(strip) + leds <= BufferSize /\ BufferSize \in Nat
  BY <1>1, StripsFollow
<1> DEFINE From(word, b) == GroupOrder[4 * word + b + 1]
           Word(word) == [b \in 0 .. 3 |->
             Colour(frame, Start(strip) + i + From(word, b)[1], From(word, b)[2])]
<1>4. buffer' = [a \in Addr |-> IF a - (Start(strip) + pos) \in 0 .. 2
                                THEN Word(a - (Start(strip) + pos)) ELSE buffer[a]]
  BY DEF PackGroup
<1>5. \A word \in 0 .. 2 : Word(word) \in [0 .. 3 -> Byte]
  <2> SUFFICES ASSUME NEW word \in 0 .. 2, NEW b \in 0 .. 3
               PROVE  Colour(frame, Start(strip) + i + From(word, b)[1],
                             From(word, b)[2]) \in Byte
    OBVIOUS
  <2>1. From(word, b)[1] \in 0 .. 3 /\ From(word, b)[2] \in {"r", "g", "b"}
    BY GroupOrderType
  <2>2. Start(strip) + i + From(word, b)[1] \in Nat
    BY <2>1, <1>1, <1>3
  <2> QED
    BY <2>1, <2>2, <1>1, ByteTypes DEF ScalarsOK
<1>6. ASSUME NEW x \in Led, NEW b \in 0 .. 3, pos <= x, x < pos'
      PROVE  Word(x - pos)[b] = Packed(frame, strip, x, b)
  <2> DEFINE word == x - pos
             n == 4 * (x - Rgbw) + 3 - b
             m == 4 * word + 3 - b
  <2>1. word \in 0 .. 2 /\ ~(x < Rgbw) /\ Rgbw \in Nat
    BY <1>6, <1>1, <1>2, PackingAssumption DEF Led
  <2>2. n = 3 * (i - Rgbw) + m
    BY <1>1, <1>2, <2>1 DEF Led
  <2>3. n \div 3 = (i - Rgbw) + (m \div 3) /\ n % 3 = m % 3 /\ m \div 3 \in Int
    <3>1. i - Rgbw \in Int /\ m \in Int
      BY <1>1, <2>1
    <3> HIDE DEF n, m
    <3> QED
      BY <2>2, <3>1
  <2>4. Start(strip) + Rgbw + (n \div 3) = Start(strip) + i + From(word, b)[1]
    <3>1. From(word, b)[1] = m \div 3
      BY <2>1, GroupOrderIsWireOrder
    <3> HIDE DEF n, m, From
    <3> QED
      BY <3>1, <2>3, <1>1, <1>3, <2>1
  <2>5. <<"g", "r", "b">>[(n % 3) + 1] = From(word, b)[2]
    <3>1. From(word, b)[2] = <<"g", "r", "b">>[(m % 3) + 1]
      BY <2>1, GroupOrderIsWireOrder
    <3> HIDE DEF n, m, From
    <3> QED
      BY <3>1, <2>3
  <2> QED
    BY <2>1, <2>4, <2>5 DEF Packed
<1> HIDE DEF Word, From
<1>8. buffer' \in [Addr -> [0 .. 3 -> Byte \cup {Unwritten}]]
  <2>1. \A a \in Addr : buffer[a] \in [0 .. 3 -> Byte \cup {Unwritten}]
    BY DEF IInv, TypeOK
  <2>2. \A word \in 0 .. 2 : Word(word) \in [0 .. 3 -> Byte \cup {Unwritten}]
    BY <1>5
  <2> QED
    BY <2>1, <2>2, <1>4
<1>9. \A a \in Addr : a < Start(strip) + pos => buffer'[a] = buffer[a]
  <2>1. \A a \in Addr : a < Start(strip) + pos
                          => a - (Start(strip) + pos) \notin 0 .. 2
    BY <1>1, <1>3, PackingAssumption DEF Addr
  <2> QED
    BY <2>1, <1>4
<1>10. ASSUME NEW x \in Led, NEW b \in 0 .. 3, pos <= x, x < pos'
       PROVE  buffer'[Start(strip) + x][b] = Packed(frame, strip, x, b)
  <2>1. /\ x \in Nat /\ Start(strip) + x \in Addr
        /\ (Start(strip) + x) - (Start(strip) + pos) = x - pos /\ x - pos \in 0 .. 2
    BY <1>10, <1>1, <1>2, <1>3, PackingAssumption DEF Addr, Led
  <2> QED
    BY <2>1, <1>4, <1>6, <1>10
<1>11. LoopInv'
  BY <1>1, <1>2, SameLeds, PackingAssumption DEF LoopInv, PackGroup
<1>12. UNCHANGED <<configVars, frame, pc, strip, ledsFrame, ddr, pruVars, drawn>>
  BY DEF PackGroup
<1>13. top' = Larger(top, Start(strip) + pos')
  <2>1. Start(strip) + pos + 3 = Start(strip) + pos'
    BY <1>1, <1>2, <1>3
  <2> QED
    BY <2>1 DEF PackGroup
<1>14. i' \in Nat /\ pos' \in Nat /\ pos <= pos'
  BY <1>1, <1>2
<1> QED
  BY <1>1, <1>2, <1>8, <1>9, <1>10, <1>11, <1>12, <1>13, <1>14, PackStep

LEMMA NextStripStep == IInv /\ NextStrip => IInv'
<1> SUFFICES ASSUME IInv, NextStrip PROVE IInv'
  OBVIOUS
<1> USE DEF IInv
<1>1. /\ ScalarsOK /\ leds \in Nat \ {0} /\ used \in 1 .. NumStrips
      /\ strip \in 0 .. used - 1 /\ i \in Nat /\ pos \in Nat /\ LoopInv
  BY Scalars DEF ScalarsOK, PackInv
<1>2. pos = Words
  BY <1>1, LoopBounds DEF NextStrip
<1>3. TypeOK'
  <2>1. strip' \in 0 .. used - 1 /\ pc' \in {"pack", "raw"}
    BY <1>1 DEF NextStrip, NumStrips
  <2> QED
    BY <1>1, <2>1, SameLeds DEF NextStrip, TypeOK, ScalarsOK, configVars, pruVars,
       Addr, FrameAddr, BufferSize
<1>4. FrameInv' /\ LoopInv' /\ TopInv'
  BY SameLeds, PackingAssumption DEF NextStrip, PackInv, FrameInv, LoopInv, TopInv
<1>5. ContentInv'
  <2> SUFFICES ASSUME NEW s \in 0 .. used - 1, NEW x \in Led, NEW b \in 0 .. 3,
                      (pc' = "pack" /\ (s < strip' \/ (s = strip' /\ x < pos')))
                        \/ pc' = "raw",
                      x < Words
               PROVE  buffer[Start(s) + x][b] = Packed(frame, s, x, b)
    BY SameLeds, SameMeaning DEF ContentInv, NextStrip
  <2>1. s < strip \/ (s = strip /\ x < pos)
    BY <1>1, <1>2 DEF NextStrip, Led, NumStrips
  <2> QED
    BY <2>1 DEF PackInv, ContentInv, NextStrip
<1>6. LedsInv' /\ DdrInv' /\ WireInv'
  BY LedsUnchanged, DdrUnchanged, WireUnchanged DEF NextStrip
<1> QED
  BY <1>3, <1>4, <1>5, <1>6 DEF PackInv

-----------------------------------------------------------------------------
(* Words of all strips                                                       *)

\* Division, as far as the provers need it: the quotient and the remainder are
\* the only numbers that make up a.
LEMMA Division ==
  ASSUME NEW a \in Nat, NEW n \in Nat \ {0}
  PROVE  /\ a \div n \in Nat /\ a % n \in 0 .. n - 1
         /\ a = (a \div n) * n + (a % n)
OBVIOUS

LEMMA QuotientIsUnique ==
  ASSUME NEW n \in Nat \ {0}, NEW x \in Nat, NEW s \in 0 .. n - 1
  PROVE  (x * n + s) \div n = x /\ (x * n + s) % n = s
<1> DEFINE a == x * n + s
<1>1. x * n \in Nat /\ a \in Nat
  BY TimesIsMonotonic
<1>2. a \div n \in Nat /\ a % n \in 0 .. n - 1 /\ a = (a \div n) * n + (a % n)
  BY <1>1, Division
<1> DEFINE q == a \div n
<1> HIDE DEF q
<1>3. q \in Nat /\ a % n \in 0 .. n - 1 /\ a = q * n + (a % n)
  BY <1>2 DEF q
<1>4. q = x
  <2>1. q < x => q * n + n <= x * n
    BY <1>3, TimesIsMonotonic
  <2>2. x < q => x * n + n <= q * n
    BY <1>3, TimesIsMonotonic
  <2>3. q * n \in Nat
    BY <1>3, TimesIsMonotonic
  <2> QED
    BY <2>1, <2>2, <2>3, <1>1, <1>3
<1> QED
  BY <1>1, <1>3, <1>4 DEF q

\* Word x of strip s has a place in leds->frame and one in DDR.
LEMMA FrameAddresses ==
  ASSUME leds \in Nat, NEW s \in 0 .. NumStrips - 1, NEW x \in Led
  PROVE  /\ NumStrips \in Nat \ {0} /\ x \in Nat /\ s \in Nat
         /\ Start(s) + x \in FrameAddr /\ x * NumStrips + s \in FrameAddr
         /\ Start(s) \in Nat
<1>1. NumStrips \in Nat \ {0} /\ x \in Nat /\ x < leds /\ s \in Nat /\ s < NumStrips
  BY PackingAssumption DEF NumStrips, Led
<1>2. s * leds \in Nat /\ s * leds + leds <= NumStrips * leds
  BY <1>1, TimesIsMonotonic
<1>3. x * NumStrips \in Nat /\ x * NumStrips + NumStrips <= leds * NumStrips
  BY <1>1, TimesIsMonotonic
<1>4. leds * NumStrips = NumStrips * leds /\ NumStrips * leds \in Nat
  BY <1>1, TimesIsMonotonic
<1> QED
  BY <1>1, <1>2, <1>3, <1>4 DEF Start, FrameAddr

\* What is passed on lies in buffer_, within a strip that is used.
LEMMA ForwardedIsUsed ==
  ASSUME leds \in Nat, used \in 1 .. NumStrips, NEW s \in 0 .. NumStrips - 1,
         NEW x \in Led, NEW b \in 0 .. 3, Forwarded(Start(s) + x, b)
  PROVE  s \in 0 .. used - 1
<1>1. Start(s) \in Nat /\ x \in Nat /\ s \in Nat /\ NumStrips \in Nat
  BY FrameAddresses
<1>2. Start(s) < BufferSize
  <2>1. BufferSize \in Nat
    BY <1>1, TimesIsMonotonic DEF BufferSize
  <2> QED
    BY <1>1, <2>1 DEF Forwarded
<1>3. used < s => used * leds + leds <= s * leds
  BY <1>1, TimesIsMonotonic
<1>4. ~(used <= s)
  <2>1. CASE used = s
    BY <2>1, <1>2, <1>1 DEF Start, BufferSize
  <2>2. CASE used < s
    <3>1. used * leds \in Nat
      BY <1>1, TimesIsMonotonic
    <3> QED
      BY <2>2, <3>1, <1>2, <1>3, <1>1 DEF Start, BufferSize
  <2> QED
    BY <2>1, <2>2, <1>1
<1> QED
  BY <1>1, <1>4

\* Every strip belongs to one of the two PRUs.
LEMMA PruOfStrip ==
  ASSUME NEW s \in 0 .. NumStrips - 1 PROVE s \div Channels \in Pru
<1> DEFINE q == s \div Channels
<1>1. Channels \in Nat \ {0} /\ s \in Nat /\ s < 2 * Channels
  BY PackingAssumption DEF NumStrips
<1>2. q \in Nat /\ s % Channels \in 0 .. Channels - 1
      /\ s = q * Channels + (s % Channels)
  BY <1>1, Division
<1> HIDE DEF q
<1>3. 1 < q => 1 * Channels + Channels <= q * Channels
  BY <1>1, <1>2, TimesIsMonotonic
<1>4. q * Channels \in Nat
  BY <1>1, <1>2, TimesIsMonotonic
<1>5. q \in {0, 1}
  BY <1>1, <1>2, <1>3, <1>4
<1> QED
  BY <1>5 DEF Pru, q

LEMMA SetRawDataStep == IInv /\ SetRawData => IInv'
<1> SUFFICES ASSUME IInv, SetRawData PROVE IInv'
  OBVIOUS
<1>1. /\ ScalarsOK /\ leds \in Nat \ {0} /\ used \in 1 .. NumStrips
      /\ pc = "raw" /\ pc' = "draw"
      /\ UNCHANGED <<configVars, frame, packVars, ddr, pruVars, drawn>>
  BY Scalars DEF ScalarsOK, IInv, SetRawData
<1>2. ledsFrame' = [a \in FrameAddr |-> [b \in 0 .. 3 |->
        IF Forwarded(a, b) THEN buffer[a][b] ELSE ledsFrame[a][b]]]
  BY DEF SetRawData
<1>3. ledsFrame' \in [FrameAddr -> [0 .. 3 -> Byte \cup {Unwritten, Dark}]]
  <2> SUFFICES ASSUME NEW a \in FrameAddr, NEW b \in 0 .. 3
               PROVE  (IF Forwarded(a, b) THEN buffer[a][b] ELSE ledsFrame[a][b])
                        \in Byte \cup {Unwritten, Dark}
    BY <1>2
  <2>1. CASE Forwarded(a, b)
    <3>1. BufferSize \in Nat /\ a \in Nat
      <4>1. NumStrips \in Nat
        BY PackingAssumption DEF NumStrips
      <4> QED
        BY <1>1, <4>1, StripsFollow DEF FrameAddr
    <3>2. a \in Addr
      BY <2>1, <3>1, PackingAssumption DEF Forwarded, Addr
    <3> QED
      BY <2>1, <3>2 DEF IInv, TypeOK
  <2>2. CASE ~Forwarded(a, b)
    BY <2>2 DEF IInv, TypeOK
  <2> QED
    BY <2>1, <2>2
<1>4. TypeOK'
  BY <1>1, <1>3, SameLeds DEF TypeOK, IInv, ScalarsOK, configVars, pruVars, packVars,
     Addr, FrameAddr, BufferSize
<1>5. PackInv'
  BY <1>1, SameLeds DEF IInv, PackInv, FrameInv, LoopInv, ContentInv, TopInv, packVars
<1>6. LedsInv'
  <2> SUFFICES ASSUME NEW s \in 0 .. NumStrips - 1, NEW x \in Led, NEW b \in 0 .. 3,
                      x < Words \/ ~Forwarded(Start(s) + x, b)
               PROVE  ledsFrame'[Start(s) + x][b] = Sent(frame, s, x, b)
    BY <1>1, SameLeds, SameMeaning DEF LedsInv
  <2>1. Start(s) + x \in FrameAddr
    BY <1>1, FrameAddresses
  <2>2. CASE Forwarded(Start(s) + x, b)
    <3>1. s \in 0 .. used - 1
      BY <1>1, <2>2, ForwardedIsUsed
    <3>2. buffer[Start(s) + x][b] = Packed(frame, s, x, b)
      BY <1>1, <2>2, <3>1 DEF IInv, PackInv, ContentInv
    <3> QED
      BY <1>2, <2>1, <2>2, <3>2 DEF Sent
  <2>3. CASE ~Forwarded(Start(s) + x, b)
    <3>1. ledsFrame[Start(s) + x][b] = Sent(frame, s, x, b)
      BY <2>3 DEF IInv, LedsInv
    <3> QED
      BY <1>2, <2>1, <2>3, <3>1
  <2> QED
    BY <2>2, <2>3
<1>7. DdrInv' /\ WireInv'
  BY <1>1, DdrUnchanged, WireUnchanged DEF IInv
<1> QED
  BY <1>4, <1>5, <1>6, <1>7 DEF IInv

LEMMA DrawFrameStep == IInv /\ DrawFrame => IInv'
<1> SUFFICES ASSUME IInv, DrawFrame PROVE IInv'
  OBVIOUS
<1>1. /\ ScalarsOK /\ leds \in Nat \ {0} /\ pc = "draw" /\ frame # 0
      /\ frame \in 0 .. 2 /\ NumStrips \in Nat \ {0}
      /\ UNCHANGED <<configVars, frame, packVars, ledsFrame>>
      /\ drawn' = frame /\ pc' = "idle" /\ addr' = [p \in Pru |-> 0]
      /\ len' = [p \in Pru |-> leds] /\ wire' = [s \in 0 .. NumStrips - 1 |-> <<>>]
  BY Scalars, PackingAssumption
     DEF ScalarsOK, IInv, DrawFrame, PackInv, FrameInv, NumStrips
<1>2. ddr' = [a \in FrameAddr |->
                ledsFrame[(a % NumStrips) * leds + (a \div NumStrips)]]
  BY DEF DrawFrame
<1>3. ddr' \in [FrameAddr -> [0 .. 3 -> Byte \cup {Unwritten, Dark}]]
  <2> SUFFICES ASSUME NEW a \in FrameAddr
               PROVE  (a % NumStrips) * leds + (a \div NumStrips) \in FrameAddr
    BY <1>2 DEF IInv, TypeOK
  <2> DEFINE q == a \div NumStrips
             r == a % NumStrips
  <2>1. /\ NumStrips * leds \in Nat /\ a \in Nat /\ a < NumStrips * leds
        /\ NumStrips * leds = leds * NumStrips
    BY <1>1, TimesIsMonotonic DEF FrameAddr
  <2>2. q \in Nat /\ r \in 0 .. NumStrips - 1 /\ a = q * NumStrips + r
    BY <1>1, <2>1, Division
  <2> HIDE DEF q, r
  <2>3. q < leds
    <3>1. leds < q => leds * NumStrips + NumStrips <= q * NumStrips
      BY <1>1, <2>2, TimesIsMonotonic
    <3>2. q * NumStrips \in Nat /\ q * NumStrips <= a
      BY <1>1, <2>1, <2>2, TimesIsMonotonic
    <3>3. q # leds
      BY <2>1, <3>2
    <3> QED
      BY <1>1, <2>1, <2>2, <3>1, <3>2, <3>3
  <2>4. q \in Led
    BY <1>1, <2>2, <2>3 DEF Led
  <2>5. Start(r) + q \in FrameAddr
    BY <1>1, <2>2, <2>4, FrameAddresses
  <2> QED
    BY <2>5 DEF Start, q, r
<1>4. TypeOK'
  <2>1. /\ addr' \in [Pru -> Nat] /\ len' \in [Pru -> Nat]
        /\ wire' \in [0 .. NumStrips - 1 -> Seq([0 .. 3 -> Byte \cup {Unwritten, Dark}])]
    BY <1>1
  <2> QED
    BY <1>1, <1>3, <2>1, SameLeds DEF TypeOK, IInv, ScalarsOK, configVars, packVars,
       Addr, FrameAddr, BufferSize
<1>5. PackInv'
  BY <1>1, SameLeds DEF IInv, PackInv, FrameInv, LoopInv, ContentInv, TopInv, packVars
<1>6. LedsInv'
  BY <1>1, LedsUnchanged DEF IInv
<1>7. DdrInv'
  <2> SUFFICES ASSUME NEW s \in 0 .. NumStrips - 1, NEW x \in Led, NEW b \in 0 .. 3,
                      x < Words \/ ~Forwarded(Start(s) + x, b)
               PROVE  ddr'[x * NumStrips + s][b] = Sent(frame, s, x, b)
    BY <1>1, SameLeds, SameMeaning DEF DdrInv
  <2>1. /\ x \in Nat /\ s \in 0 .. NumStrips - 1
        /\ x * NumStrips + s \in FrameAddr
    BY <1>1, FrameAddresses
  <2>2. (x * NumStrips + s) % NumStrips = s /\ (x * NumStrips + s) \div NumStrips = x
    BY <1>1, <2>1, QuotientIsUnique
  <2>3. ddr'[x * NumStrips + s] = ledsFrame[s * leds + x]
    BY <1>2, <2>1, <2>2
  <2>4. ledsFrame[Start(s) + x][b] = Sent(frame, s, x, b)
    BY <1>1 DEF IInv, LedsInv
  <2> QED
    BY <2>3, <2>4 DEF Start
<1>8. WireInv'
  <2>1. \A p \in Pru : len'[p] = leds /\ addr'[p] = 0
    BY <1>1
  <2>2. leds - leds = 0 /\ 0 * NumStrips = 0
    BY <1>1
  <2>3. \A s \in 0 .. NumStrips - 1 : s \div Channels \in Pru
    BY PackingAssumption, PruOfStrip
  <2> QED
    BY <1>1, <2>1, <2>2, <2>3, SameLeds DEF WireInv
<1> QED
  BY <1>4, <1>5, <1>6, <1>7, <1>8 DEF IInv

LEMMA ClockWordStep == ASSUME IInv, NEW p \in Pru, ClockWord(p) PROVE IInv'
<1>1. /\ ScalarsOK /\ leds \in Nat \ {0} /\ NumStrips \in Nat \ {0}
      /\ len[p] > 0 /\ len \in [Pru -> Nat] /\ addr \in [Pru -> Nat]
      /\ UNCHANGED <<configVars, frame, pc, packVars, ledsFrame, ddr, drawn>>
      /\ addr' = [addr EXCEPT ![p] = @ + NumStrips]
      /\ len' = [len EXCEPT ![p] = @ - 1]
  <2>1. ScalarsOK /\ leds \in Nat \ {0}
    BY Scalars DEF ScalarsOK, IInv
  <2>2. NumStrips \in Nat \ {0}
    BY PackingAssumption DEF NumStrips
  <2>3. len \in [Pru -> Nat] /\ addr \in [Pru -> Nat]
    BY DEF IInv, TypeOK
  <2> QED
    BY <2>1, <2>2, <2>3 DEF ClockWord
<1>2. drawn # 0 /\ len[p] <= leds /\ addr[p] = (leds - len[p]) * NumStrips
  BY <1>1 DEF IInv, WireInv
<1> DEFINE x == leds - len[p]
<1>3. x \in Led /\ x \in Nat
  BY <1>1, <1>2 DEF Led
<1>4. wire' = [s \in 0 .. NumStrips - 1 |->
                 IF s \div Channels = p
                 THEN Append(wire[s], ddr[addr[p] + p * Channels + (s % Channels)])
                 ELSE wire[s]]
  BY DEF ClockWord
<1>5. \A s \in 0 .. NumStrips - 1 : wire'[s] =
        IF s \div Channels = p THEN Append(wire[s], ddr[x * NumStrips + s]) ELSE wire[s]
  <2> SUFFICES ASSUME NEW s \in 0 .. NumStrips - 1, s \div Channels = p
               PROVE  addr[p] + p * Channels + (s % Channels) = x * NumStrips + s
    BY <1>4
  <2>1. s = p * Channels + (s % Channels) /\ s \in Nat /\ s % Channels \in Nat
    <3>1. s \in Nat /\ Channels \in Nat \ {0}
      BY PackingAssumption, <1>1
    <3>2. /\ s = (s \div Channels) * Channels + (s % Channels)
          /\ s % Channels \in 0 .. Channels - 1
      BY <3>1, Division
    <3> QED
      BY <3>1, <3>2
  <2>2. p * Channels \in Nat
    BY PackingAssumption, TimesIsMonotonic DEF Pru
  <2>3. addr[p] = x * NumStrips /\ addr[p] \in Nat
    BY <1>1, <1>2
  <2> QED
    BY <2>1, <2>2, <2>3
<1> HIDE DEF x
<1>6. TypeOK'
  <2>1. addr' \in [Pru -> Nat] /\ len' \in [Pru -> Nat]
    BY <1>1
  <2>2. wire' \in [0 .. NumStrips - 1 -> Seq([0 .. 3 -> Byte \cup {Unwritten, Dark}])]
    <3> DEFINE WordType == [0 .. 3 -> Byte \cup {Unwritten, Dark}]
    <3>1. ddr \in [FrameAddr -> WordType] /\ wire \in [0 .. NumStrips - 1 -> Seq(WordType)]
      BY DEF IInv, TypeOK
    <3> HIDE DEF WordType
    <3>2. \A s \in 0 .. NumStrips - 1 : ddr[x * NumStrips + s] \in WordType
      BY <1>1, <1>3, <3>1, FrameAddresses DEF ScalarsOK
    <3>3. ASSUME NEW s \in 0 .. NumStrips - 1 PROVE wire'[s] \in Seq(WordType)
      <4>1. /\ wire[s] \in Seq(WordType)
            /\ Append(wire[s], ddr[x * NumStrips + s]) \in Seq(WordType)
        BY <3>1, <3>2
      <4> QED
        BY <4>1, <1>5
    <3>4. wire' \in [0 .. NumStrips - 1 -> Seq(WordType)]
      BY <3>3, <1>4
    <3> QED
      BY <3>4 DEF WordType
  <2> QED
    BY <1>1, <2>1, <2>2, SameLeds DEF TypeOK, IInv, ScalarsOK, configVars, packVars,
       Addr, FrameAddr, BufferSize
<1>7. PackInv'
  <2>1. FrameInv' /\ LoopInv' /\ TopInv'
    BY <1>1, SameLeds DEF IInv, PackInv, FrameInv, LoopInv, TopInv, packVars
  <2>2. ContentInv'
    BY <1>1, SameLeds, SameMeaning DEF IInv, PackInv, ContentInv, packVars
  <2> QED
    BY <2>1, <2>2 DEF PackInv
<1>8. LedsInv'
  BY <1>1, SameLeds, SameMeaning DEF IInv, LedsInv
<1>9. DdrInv'
  BY <1>1, DdrUnchanged DEF IInv
<1>10. WireInv'
  <2>1. \A q \in Pru : len'[q] <= leds /\ addr'[q] = (leds - len'[q]) * NumStrips
    <3>1. (leds - (len[p] - 1)) * NumStrips = (leds - len[p]) * NumStrips + NumStrips
      BY <1>1
    <3> QED
      BY <1>1, <1>2, <3>1 DEF IInv, WireInv
  <2>2. ASSUME NEW s \in 0 .. NumStrips - 1
        PROVE  /\ Len(wire'[s]) = leds - len'[s \div Channels]
               /\ \A y \in 1 .. Len(wire'[s]) : wire'[s][y] = ddr[(y - 1) * NumStrips + s]
    <3>1. /\ Len(wire[s]) = leds - len[s \div Channels] /\ s \div Channels \in Pru
          /\ \A y \in 1 .. Len(wire[s]) : wire[s][y] = ddr[(y - 1) * NumStrips + s]
          /\ wire[s] \in Seq([0 .. 3 -> Byte \cup {Unwritten, Dark}])
      BY <1>2, PruOfStrip DEF IInv, WireInv, TypeOK
    <3>2. CASE s \div Channels = p
      <4>1. wire'[s] = Append(wire[s], ddr[x * NumStrips + s]) /\ Len(wire[s]) = x
        BY <3>1, <3>2, <1>5 DEF x
      <4>2. /\ Len(wire'[s]) = x + 1
            /\ \A y \in 1 .. x : wire'[s][y] = wire[s][y]
            /\ wire'[s][x + 1] = ddr[x * NumStrips + s]
        BY <3>1, <4>1, <1>3
      <4>3. leds - len'[p] = x + 1
        BY <1>1 DEF x
      <4>4. (x + 1) - 1 = x
        BY <1>3
      <4>5. \A y \in 1 .. x + 1 : y \in 1 .. x \/ y = x + 1
        BY <1>3
      <4> QED
        BY <3>1, <3>2, <4>1, <4>2, <4>3, <4>4, <4>5
    <3>3. CASE s \div Channels # p
      BY <3>1, <3>3, <1>1, <1>5
    <3> QED
      BY <3>2, <3>3
  <2> QED
    BY <1>1, <1>2, <2>1, <2>2, SameLeds DEF WireInv
<1> QED
  BY <1>6, <1>7, <1>8, <1>9, <1>10 DEF IInv

-----------------------------------------------------------------------------
(* What the chains of LEDs make of the words                                 *)

\* A byte that an LED takes is packed, and is a colour of that LED's pixel.
LEMMA LedTakesItsColour ==
  ASSUME leds \in Nat \ {0}, lut \in BOOLEAN, NEW f, NEW s, Start(s) \in Nat,
         NEW k \in Led, NEW c \in 1 .. Len(ChannelsOf(k)), lut \/ k >= Rgbw,
         NEW x, NEW b, x = WireByte(k, c) \div 4, b = 3 - (WireByte(k, c) % 4)
  PROVE  /\ x \in Led /\ b \in 0 .. 3 /\ x < Words
         /\ Packed(f, s, x, b) = Want(f, s, k, c)
<1>1. k \in Nat /\ k < leds /\ Rgbw \in Nat
  BY PackingAssumption DEF Led
<1>2. CASE k < Rgbw
  <2>1. c \in 1 .. 4 /\ ChannelsOf(k) = <<"g", "r", "b", "w">> /\ lut
    BY <1>2, <1>1 DEF ChannelsOf
  <2>2. WireByte(k, c) = 4 * k + (c - 1)
    BY <1>1, <1>2, <2>1 DEF WireByte
  <2>3. x = k /\ b = 4 - c
    BY <1>1, <2>1, <2>2
  <2>4. RgbwOrder[b + 1] = ChannelsOf(k)[c]
    <3>1. c = 1 \/ c = 2 \/ c = 3 \/ c = 4
      BY <2>1
    <3> QED
      BY <2>1, <2>3, <3>1 DEF RgbwOrder
  <2>5. x \in Led /\ b \in 0 .. 3 /\ x < Words
    BY <1>1, <1>2, <2>1, <2>3, WordsBound
  <2> QED
    BY <1>2, <2>1, <2>3, <2>4, <2>5 DEF Packed, Looked, Want
<1>3. CASE ~(k < Rgbw)
  <2> DEFINE d == k - Rgbw
             n == 4 * (x - Rgbw) + 3 - b
  <2>1. c \in 1 .. 3 /\ ChannelsOf(k) = <<"g", "r", "b">> /\ d \in Nat
    BY <1>1, <1>3 DEF ChannelsOf
  <2>2. WireByte(k, c) = 4 * Rgbw + (3 * d + c - 1)
    BY <1>1, <1>3, <2>1 DEF WireByte
  <2>3. /\ x - Rgbw = (3 * d + c - 1) \div 4 /\ b = 3 - ((3 * d + c - 1) % 4)
        /\ x \in Nat /\ b \in 0 .. 3 /\ x >= Rgbw
    BY <1>1, <2>1, <2>2
  <2>4. n = 3 * d + c - 1
    BY <1>1, <2>1, <2>3
  <2>5. n \div 3 = d /\ n % 3 = c - 1
    BY <2>1, <2>4
  <2>6. x \in Led /\ x < Words
    <3>1. 4 * (x - Rgbw) <= 3 * d + 2
      BY <1>1, <2>1, <2>3
    <3>2. leds > Rgbw /\ 4 * (Words - Rgbw) >= 3 * (leds - Rgbw) /\ Words \in Nat
      BY <1>1, <1>3, WordsBound
    <3> QED
      BY <1>1, <1>3, <2>3, <3>1, <3>2 DEF Led
  <2>7. <<"g", "r", "b">>[(n % 3) + 1] = ChannelsOf(k)[c]
    BY <2>1, <2>5
  <2>8. Start(s) + Rgbw + (n \div 3) = Start(s) + k
    BY <1>1, <2>1, <2>5
  <2>9. ChannelsOf(k)[c] \in {"g", "r", "b"}
    BY <2>1
  <2>10. Packed(f, s, x, b) = Colour(f, Start(s) + k, ChannelsOf(k)[c])
    BY <1>1, <2>3, <2>7, <2>8 DEF Packed
  <2> QED
    BY <2>3, <2>6, <2>9, <2>10 DEF Colour, Looked, Want
<1> QED
  BY <1>1, <1>2, <1>3

\* The invariant gives the properties.
LEMMA InvariantImplies ==
  ASSUME IInv PROVE PackedInOrder /\ WritesInBuffer /\ LedsShowTheirPixels
<1> USE DEF IInv
<1>1. /\ ScalarsOK /\ leds \in Nat \ {0} /\ used \in 1 .. NumStrips
      /\ lut \in BOOLEAN /\ NumStrips \in Nat
  BY Scalars, PackingAssumption DEF ScalarsOK, NumStrips
<1>2. WritesInBuffer
  BY <1>1, WordsBound, StripsFollow DEF WritesInBuffer, PackInv, TopInv, ScalarsOK
<1>3. PackedInOrder
  <2> SUFFICES ASSUME pc = "raw", NEW s \in 0 .. used - 1, NEW k \in Led,
                      NEW c \in 1 .. Len(ChannelsOf(k)), lut \/ k >= Rgbw
               PROVE  /\ WireByte(k, c) \div 4 < leds
                      /\ Taken([x \in Led |-> buffer[Start(s) + x]], k, c)
                           = Want(frame, s, k, c)
    BY DEF PackedInOrder
  <2> DEFINE x == WireByte(k, c) \div 4
             b == 3 - (WireByte(k, c) % 4)
  <2>1. Start(s) \in Nat
    BY <1>1, StripsFollow
  <2>2. /\ x \in Led /\ b \in 0 .. 3 /\ x < Words
        /\ Packed(frame, s, x, b) = Want(frame, s, k, c)
    BY <1>1, <2>1, LedTakesItsColour
  <2>3. buffer[Start(s) + x][b] = Packed(frame, s, x, b)
    BY <2>2 DEF PackInv, ContentInv
  <2>4. Taken([y \in Led |-> buffer[Start(s) + y]], k, c) = buffer[Start(s) + x][b]
    BY <2>2 DEF Taken
  <2>5. x < leds
    BY <1>1, <2>2 DEF Led
  <2> QED
    BY <2>2, <2>3, <2>4, <2>5
<1>4. LedsShowTheirPixels
  <2> SUFFICES ASSUME NEW s \in 0 .. NumStrips - 1, NEW k \in Led,
                      NEW c \in 1 .. Len(ChannelsOf(k)),
                      WireByte(k, c) \div 4 < Len(wire[s]), lut \/ k >= Rgbw
               PROVE  wire[s][(WireByte(k, c) \div 4) + 1][3 - (WireByte(k, c) % 4)] =
                        IF Forwarded(Start(s) + (WireByte(k, c) \div 4),
                                     3 - (WireByte(k, c) % 4))
                        THEN Want(drawn, s, k, c) ELSE Dark
    BY DEF LedsShowTheirPixels
  <2> DEFINE x == WireByte(k, c) \div 4
             b == 3 - (WireByte(k, c) % 4)
  <2>1. Start(s) \in Nat
    BY <1>1, FrameAddresses
  <2>2. /\ x \in Led /\ b \in 0 .. 3 /\ x < Words
        /\ Packed(drawn, s, x, b) = Want(drawn, s, k, c)
    BY <1>1, <2>1, LedTakesItsColour
  <2> HIDE DEF x, b
  <2>3. /\ x \in Nat /\ x + 1 \in 1 .. Len(wire[s]) /\ (x + 1) - 1 = x
        /\ Len(wire[s]) \in Nat
    <3>1. x \in Nat /\ x < Len(wire[s])
      BY <1>1, <2>2 DEF Led, x
    <3>2. Len(wire[s]) \in Nat
      BY DEF TypeOK
    <3> QED
      BY <3>1, <3>2
  <2>4. wire[s][x + 1] = ddr[x * NumStrips + s]
    BY <2>3 DEF WireInv
  <2>5. drawn # 0
    BY <2>3 DEF WireInv
  <2>6. ddr[x * NumStrips + s][b] = Sent(drawn, s, x, b)
    BY <2>2, <2>5 DEF DdrInv
  <2> QED
    BY <2>2, <2>4, <2>6 DEF Sent, x, b
<1> QED
  BY <1>2, <1>3, <1>4

-----------------------------------------------------------------------------
(* The theorems                                                              *)

LEMMA InitInv == Init => IInv
<1> SUFFICES ASSUME Init PROVE IInv
  OBVIOUS
<1> USE DEF Init
<1>1. /\ leds \in Nat \ {0} /\ used \in 1 .. NumStrips /\ NumStrips \in Nat \ {0}
      /\ Rgbw \in Nat
  BY PackingAssumption DEF NumStrips
<1>2. TypeOK
  BY <1>1 DEF TypeOK
<1>3. PackInv
  <2>1. top <= BufferSize - leds + Words
    <3>1. 0 \in 0 .. used - 1 /\ used \in Nat
      BY <1>1
    <3>2. Start(0) \in Nat /\ Start(0) + leds <= BufferSize /\ BufferSize \in Nat
      BY <1>1, <3>1, StripsFollow
    <3> QED
      BY <1>1, <3>2, WordsBound
  <2> QED
    BY <2>1 DEF PackInv, FrameInv, LoopInv, ContentInv, TopInv
<1>4. LedsInv
  <2> SUFFICES ASSUME NEW s \in 0 .. NumStrips - 1, NEW x \in Led, NEW b \in 0 .. 3
               PROVE  ledsFrame[Start(s) + x][b] = Dark
    BY DEF LedsInv, Sent
  <2> QED
    BY <1>1, FrameAddresses
<1>5. DdrInv
  BY DEF DdrInv
<1>6. WireInv
  <2>1. \A s \in 0 .. NumStrips - 1 : Len(wire[s]) = 0
    OBVIOUS
  <2>2. \A s \in 0 .. NumStrips - 1 : 1 .. Len(wire[s]) = {}
    BY <2>1
  <2> QED
    BY <2>1, <2>2 DEF WireInv
<1> QED
  BY <1>2, <1>3, <1>4, <1>5, <1>6 DEF IInv

\* No step disturbs a word that another loop, copy or PRU still relies on.
LEMMA NextInv == IInv /\ [Next]_vars => IInv'
<1> SUFFICES ASSUME IInv, [Next]_vars PROVE IInv'
  OBVIOUS
<1>1. CASE StartFrame
  BY <1>1, StartFrameStep
<1>2. CASE PackRgbw
  BY <1>2, PackRgbwStep
<1>3. CASE PackGroup
  BY <1>3, PackGroupStep
<1>4. CASE NextStrip
  BY <1>4, NextStripStep
<1>5. CASE SetRawData
  BY <1>5, SetRawDataStep
<1>6. CASE DrawFrame
  BY <1>6, DrawFrameStep
<1>7. CASE \E p \in Pru : ClockWord(p)
  BY <1>7, ClockWordStep
<1>8. CASE UNCHANGED vars
  <2>1. UNCHANGED <<configVars, frame, pc, packVars, ledsFrame, ddr, pruVars, drawn>>
    BY <1>8 DEF vars
  <2>2. UNCHANGED <<strip, i, pos, buffer, top, addr, len, wire>>
    BY <2>1 DEF packVars, pruVars
  <2>3. TypeOK'
    BY <2>1, <2>2, SameLeds DEF IInv, TypeOK, Addr, FrameAddr
  <2>4. FrameInv' /\ LoopInv' /\ TopInv'
    BY <2>1, <2>2, SameLeds DEF IInv, PackInv, FrameInv, LoopInv, TopInv
  <2>5. ContentInv' /\ LedsInv'
    BY <2>1, <2>2, SameLeds, SameMeaning DEF IInv, PackInv, ContentInv, LedsInv
  <2> QED
    BY <2>1, <2>3, <2>4, <2>5, DdrUnchanged, WireUnchanged DEF IInv, PackInv
<1> QED
  BY <1>1, <1>2, <1>3, <1>4, <1>5, <1>6, <1>7, <1>8 DEF Next

\* The inductive invariant of SetPixelData, ledscape_draw and the word loop.
THEOREM PackingInvariance == Spec => []IInv
<1>1. Init => IInv
  BY InitInv
<1>2. IInv /\ [Next]_vars => IInv'
  BY NextInv
<1> QED
  BY <1>1, <1>2, PTL DEF Spec

\* For the strip lengths of CountFits, SetPixelData writes to nothing but
\* buffer_ (ledscape_driver.cc:55-107).
THEOREM WritesStayInBuffer == Spec => []WritesInBuffer
<1>1. IInv => WritesInBuffer
  BY InvariantImplies
<1> QED
  BY <1>1, PackingInvariance, PTL

\* The words packed for a strip hold the colours of each of its LEDs where the
\* chain takes them, for every number of white LEDs and every strip length.
THEOREM EveryLedIsPacked == Spec => []PackedInOrder
<1>1. IInv => PackedInOrder
  BY InvariantImplies
<1> QED
  BY <1>1, PackingInvariance, PTL

\* The PRUs clock out to each LED the colours of its own pixel in the frame
\* that was drawn, as far as ledscape_set_raw_data passed them on.
THEOREM StripsShowTheFrame == Spec => []LedsShowTheirPixels
<1>1. IInv => LedsShowTheirPixels
  BY InvariantImplies
<1> QED
  BY <1>1, PackingInvariance, PTL
=============================================================================
