---------------------------- MODULE PixelPacking ----------------------------
(***************************************************************************)
(* From pixels to bits: LedscapeDriver::SetPixelData packs a frame for     *)
(* strips that begin with Rgbw LEDs of four colours and go on with LEDs of *)
(* three, ledscape_draw interleaves the strips in DDR, and the PRUs clock  *)
(* out one word of 32 bits for every LED that is configured.               *)
(*                                                                         *)
(* Memory is arrays of words; byte b of a word has address 4 * word + b.   *)
(* A byte is abstracted to where it comes from: frame, index in frame_data,*)
(* channel, and lookup table.  The PRU sends a word from its high bit, so  *)
(* byte 3 is the first on the wire.  How the draws and the PRUs keep off   *)
(* each other is the subject of PruHandshake; here a draw is one step.     *)
(***************************************************************************)
EXTENDS Integers, Sequences

CONSTANTS Rgbw,      \* LEDs with a white channel at the head of a strip (135)
          Channels,  \* strips per PRU (24)
          Counts,    \* the values of leds_per_strip
          Useds      \* the values of used_strip_count

ASSUME PackingAssumption ==
  /\ Rgbw \in Nat /\ Channels \in Nat \ {0}
  /\ Counts \subseteq Nat \ {0} /\ Useds \subseteq 1 .. 2 * Channels

NumStrips == 2 * Channels
Pru == {0, 1}

VARIABLES
  leds, used, lut,  \* the configuration: leds_per_strip, used_strip_count,
                    \* lut_enabled
  frame,            \* the frame being packed: 1, 2, 1, ... (0: none yet)
  pc,               \* render thread: "idle", "pack", "raw" or "draw"
  strip, i, pos,    \* the loop variables; pos is buffer_pos, in words
  buffer,           \* buffer_, and the memory behind it
  ledsFrame,        \* leds->frame
  ddr,              \* the frame in DDR
  addr, len,        \* registers of the PRUs: r_data_addr (in words), r_data_len
  wire,             \* words clocked out to each strip
  top,              \* history: end of the words SetPixelData ever wrote
  drawn             \* history: the frame in DDR (0: none yet)

configVars == <<leds, used, lut>>
packVars == <<strip, i, pos, buffer, top>>
pruVars == <<addr, len, wire>>
vars == <<configVars, frame, pc, packVars, ledsFrame, ddr, pruVars, drawn>>

Byte == (1 .. 2) \X Nat \X {"r", "g", "b", "w"} \X {"r", "g", "b", "raw", "unset"}
Unwritten == <<0, 0, "none", "raw">>  \* of buffer_, which comes from new[]
Dark == <<0, 0, "none", "zero">>      \* of leds->frame, which is cleared

Start(s) == s * leds
BufferSize == used * leds
\* buffer_ and as much of the memory behind it as a strip can reach.
Addr == 0 .. BufferSize + Rgbw + 3
FrameAddr == 0 .. NumStrips * leds - 1

\* White goes through the table of blue.
Table(ch) == IF ch = "w" THEN "b" ELSE ch

\* BuildLookupTables fills the tables only if they are enabled.
Looked(f, p, ch) == <<f, p, ch, IF lut THEN Table(ch) ELSE "unset">>
Colour(f, p, ch) == IF lut THEN Looked(f, p, ch) ELSE <<f, p, ch, "raw">>

\* What bytes 0 to 3 of a word hold of one pixel, and bytes 0 to 11 of three
\* words of four.
RgbwOrder == <<"w", "b", "r", "g">>

\* Mutant: the bytes of a word are not reversed.
GroupOrderUnreversed == << <<0, "g">>, <<0, "r">>, <<0, "b">>, <<1, "g">>,
                           <<1, "r">>, <<1, "b">>, <<2, "g">>, <<2, "r">>,
                           <<2, "b">>, <<3, "g">>, <<3, "r">>, <<3, "b">> >>

GroupOrder == << <<1, "g">>, <<0, "b">>, <<0, "r">>, <<0, "g">>,
                 <<2, "r">>, <<2, "g">>, <<1, "b">>, <<1, "r">>,
                 <<3, "b">>, <<3, "r">>, <<3, "g">>, <<2, "b">> >>

Larger(m, n) == IF m > n THEN m ELSE n

Init ==
  /\ leds \in Counts /\ used \in Useds /\ lut \in BOOLEAN
  /\ frame = 0 /\ pc = "idle" /\ strip = 0 /\ i = 0 /\ pos = 0
  /\ buffer = [a \in Addr |-> [b \in 0 .. 3 |-> Unwritten]]
  /\ ledsFrame = [a \in FrameAddr |-> [b \in 0 .. 3 |-> Dark]]
  /\ ddr = ledsFrame
  /\ addr = [p \in Pru |-> 0] /\ len = [p \in Pru |-> 0]
  /\ wire = [s \in 0 .. NumStrips - 1 |-> <<>>]
  /\ top = 0 /\ drawn = 0

-----------------------------------------------------------------------------
(* SetPixelData                                                              *)

StartFrame ==
  /\ pc = "idle"
  /\ pc' = "pack" /\ frame' = IF frame = 1 THEN 2 ELSE 1
  /\ strip' = 0 /\ i' = 0 /\ pos' = 0
  /\ UNCHANGED <<configVars, buffer, top, ledsFrame, ddr, pruVars, drawn>>

\* The first loop: pixel i, one word.
PackRgbw ==
  /\ pc = "pack" /\ i < Rgbw
  /\ buffer' = [buffer EXCEPT ![Start(strip) + pos] =
       [b \in 0 .. 3 |-> Looked(frame, Start(strip) + i, RgbwOrder[b + 1])]]
  /\ top' = Larger(top, Start(strip) + pos + 1)
  /\ i' = i + 1 /\ pos' = pos + 1
  /\ UNCHANGED <<configVars, frame, pc, strip, ledsFrame, ddr, pruVars, drawn>>

\* Mutant: a group advances buffer_pos by a word for each of its pixels.
PackGroupFourWords ==
  /\ pc = "pack" /\ i >= Rgbw /\ i < leds
  /\ buffer' = [a \in Addr |->
       LET word == a - (Start(strip) + pos)
       IN  IF word \in 0 .. 2
           THEN [b \in 0 .. 3 |->
                   LET from == GroupOrder[4 * word + b + 1]
                   IN  Colour(frame, Start(strip) + i + from[1], from[2])]
           ELSE buffer[a]]
  /\ top' = Larger(top, Start(strip) + pos + 3)
  /\ i' = i + 4 /\ pos' = pos + 4
  /\ UNCHANGED <<configVars, frame, pc, strip, ledsFrame, ddr, pruVars, drawn>>

\* The second loop: pixels i to i + 3, three words.
PackGroup ==
  /\ pc = "pack" /\ i >= Rgbw /\ i < leds
  /\ buffer' = [a \in Addr |->
       LET word == a - (Start(strip) + pos)
       IN  IF word \in 0 .. 2
           THEN [b \in 0 .. 3 |->
                   LET from == GroupOrder[4 * word + b + 1]
                   IN  Colour(frame, Start(strip) + i + from[1], from[2])]
           ELSE buffer[a]]
  /\ top' = Larger(top, Start(strip) + pos + 3)
  /\ i' = i + 4 /\ pos' = pos + 3
  /\ UNCHANGED <<configVars, frame, pc, strip, ledsFrame, ddr, pruVars, drawn>>

\* Mutant: buffer_pos is not set back to the start of the strip.
NextStripGoesOn ==
  /\ pc = "pack" /\ i >= Rgbw /\ i >= leds
  /\ i' = 0 /\ UNCHANGED pos
  /\ IF strip + 1 < used
     THEN strip' = strip + 1 /\ UNCHANGED pc
     ELSE strip' = 0 /\ pc' = "raw"
  /\ UNCHANGED <<configVars, frame, buffer, top, ledsFrame, ddr, pruVars, drawn>>

NextStrip ==
  /\ pc = "pack" /\ i >= Rgbw /\ i >= leds
  /\ i' = 0 /\ pos' = 0
  /\ IF strip + 1 < used
     THEN strip' = strip + 1 /\ UNCHANGED pc
     ELSE strip' = 0 /\ pc' = "raw"
  /\ UNCHANGED <<configVars, frame, buffer, top, ledsFrame, ddr, pruVars, drawn>>

\* ledscape_set_raw_data is told the number of pixels and copies as many bytes.
Forwarded(a, b) == 4 * a + b < BufferSize

SetRawData ==
  /\ pc = "raw"
  /\ ledsFrame' = [a \in FrameAddr |-> [b \in 0 .. 3 |->
       IF Forwarded(a, b) THEN buffer[a][b] ELSE ledsFrame[a][b]]]
  /\ pc' = "draw"
  /\ UNCHANGED <<configVars, frame, packVars, ddr, pruVars, drawn>>

\* ledscape_draw, once both PRUs are done: word x of strip s of the frame is
\* word x * NumStrips + s in DDR.
DrawFrame ==
  /\ pc = "draw" /\ \A p \in Pru : len[p] = 0
  /\ ddr' = [a \in FrameAddr |->
               ledsFrame[(a % NumStrips) * leds + (a \div NumStrips)]]
  /\ addr' = [p \in Pru |-> 0] /\ len' = [p \in Pru |-> leds]
  /\ wire' = [s \in 0 .. NumStrips - 1 |-> <<>>]
  /\ drawn' = frame /\ pc' = "idle"
  /\ UNCHANGED <<configVars, frame, packVars, ledsFrame>>

-----------------------------------------------------------------------------
(* The PRUs                                                                  *)

\* Mutant: PRU 1 reads the words of PRU 0.
ClockWordOfPru0(p) ==
  /\ len[p] > 0
  /\ wire' = [s \in 0 .. NumStrips - 1 |->
       IF s \div Channels = p THEN Append(wire[s], ddr[addr[p] + (s % Channels)])
       ELSE wire[s]]
  /\ addr' = [addr EXCEPT ![p] = @ + NumStrips]
  /\ len' = [len EXCEPT ![p] = @ - 1]
  /\ UNCHANGED <<configVars, frame, pc, packVars, ledsFrame, ddr, drawn>>

\* The word loop: the 32 bits of one word for each of the PRU's strips.
ClockWord(p) ==
  /\ len[p] > 0
  /\ wire' = [s \in 0 .. NumStrips - 1 |->
       IF s \div Channels = p
       THEN Append(wire[s], ddr[addr[p] + p * Channels + (s % Channels)])
       ELSE wire[s]]
  /\ addr' = [addr EXCEPT ![p] = @ + NumStrips]
  /\ len' = [len EXCEPT ![p] = @ - 1]
  /\ UNCHANGED <<configVars, frame, pc, packVars, ledsFrame, ddr, drawn>>

Next == StartFrame \/ PackRgbw \/ PackGroup \/ NextStrip \/ SetRawData
        \/ DrawFrame \/ \E p \in Pru : ClockWord(p)

Spec == Init /\ [][Next]_vars

-----------------------------------------------------------------------------
(* A chain of LEDs takes its bits as they come: four bytes each for the first*)
(* Rgbw of them, three for the others.                                       *)

Led == 0 .. leds - 1
ChannelsOf(k) == IF k < Rgbw THEN <<"g", "r", "b", "w">> ELSE <<"g", "r", "b">>
\* The number, on the wire, of the c-th byte that LED k takes.
WireByte(k, c) == IF k < Rgbw THEN 4 * k + c - 1
                  ELSE 4 * Rgbw + 3 * (k - Rgbw) + c - 1

\* The colour channel c of LED k of strip s in frame f, when the lookup is
\* used as configured.
Want(f, s, k, c) ==
  LET ch == ChannelsOf(k)[c]
  IN  <<f, Start(s) + k, ch, IF lut THEN Table(ch) ELSE "raw">>

TypeOK ==
  /\ leds \in Counts /\ used \in Useds /\ lut \in BOOLEAN
  /\ frame \in 0 .. 2 /\ drawn \in 0 .. 2 /\ pc \in {"idle", "pack", "raw", "draw"}
  /\ strip \in 0 .. used - 1 /\ i \in Nat /\ pos \in Nat
  /\ buffer \in [Addr -> [0 .. 3 -> Byte \cup {Unwritten}]]
  /\ ledsFrame \in [FrameAddr -> [0 .. 3 -> Byte \cup {Unwritten, Dark}]]
  /\ ddr \in [FrameAddr -> [0 .. 3 -> Byte \cup {Unwritten, Dark}]]
  /\ addr \in [Pru -> Nat] /\ len \in [Pru -> Nat]
  /\ wire \in [0 .. NumStrips - 1 -> Seq([0 .. 3 -> Byte \cup {Unwritten, Dark}])]
  /\ top \in Nat

\* The byte that reaches LED k as the c-th one, in a strip's words.
Taken(words, k, c) == words[WireByte(k, c) \div 4][3 - (WireByte(k, c) % 4)]

\* Strips overrun their part of buffer_ when they end within the first loop or
\* early in a group, and are then overwritten by the next strip.  All the same,
\* when SetPixelData has packed the last strip, the words the PRU will send for
\* any strip hold every colour of every LED at the place where the chain takes
\* it (ledscape_driver.cc:60-61).  Without lookup tables this is said of the
\* three-colour LEDs only: the others are looked up in tables nobody filled.
PackedInOrder ==
  pc = "raw" =>
    \A s \in 0 .. used - 1, k \in Led :
      \A c \in 1 .. Len(ChannelsOf(k)) : lut \/ k >= Rgbw =>
        /\ WireByte(k, c) \div 4 < leds
        /\ Taken([x \in Led |-> buffer[Start(s) + x]], k, c) = Want(frame, s, k, c)

\* leds_per_strip is such that the words packed for a strip are not more than
\* its LEDs.
CountFits == leds >= Rgbw /\ leds - Rgbw \notin {1, 2, 5}

\* For these counts SetPixelData writes to nothing but buffer_.  The others,
\* which server-config.cc:345 accepts too, make it write behind it.
WritesInBuffer == CountFits => top <= BufferSize

\* What a strip shows, while a frame is clocked out and after it: of the bytes
\* that ledscape_set_raw_data passed on, each LED has those of its own pixel in
\* the frame that was drawn; all other bytes, and those of unused strips, are 0.
LedsShowTheirPixels ==
  \A s \in 0 .. NumStrips - 1, k \in Led :
    \A c \in 1 .. Len(ChannelsOf(k)) :
      LET word == WireByte(k, c) \div 4
          byte == 3 - (WireByte(k, c) % 4)
      IN  word < Len(wire[s]) /\ (lut \/ k >= Rgbw) =>
            wire[s][word + 1][byte] =
              IF Forwarded(Start(s) + word, byte) THEN Want(drawn, s, k, c) ELSE Dark

-----------------------------------------------------------------------------
(* The inductive invariant behind the properties above.                      *)

\* The words the two loops write for a strip.
Words == IF leds <= Rgbw THEN Rgbw ELSE Rgbw + 3 * ((leds - Rgbw + 3) \div 4)

\* Four pixels of the second loop take three words.
LoopInv ==
  pc = "pack" =>
    \/ i <= Rgbw /\ pos = i
    \/ /\ i > Rgbw /\ i - 4 < leds /\ (i - Rgbw) % 4 = 0
       /\ 4 * (pos - Rgbw) = 3 * (i - Rgbw)

\* What belongs into byte b of word x of strip s in frame f.
Packed(f, s, x, b) ==
  IF x < Rgbw THEN Looked(f, Start(s) + x, RgbwOrder[b + 1])
  ELSE LET n == 4 * (x - Rgbw) + 3 - b
       IN  Colour(f, Start(s) + Rgbw + (n \div 3), <<"g", "r", "b">>[(n % 3) + 1])

\* Strips before this one are packed up to their end, this one up to pos.
ContentInv ==
  \A s \in 0 .. used - 1, x \in Led :
    \/ pc = "pack" /\ (s < strip \/ (s = strip /\ x < pos)) /\ x < Words
    \/ pc = "raw" /\ x < Words
    => \A b \in 0 .. 3 : buffer[Start(s) + x][b] = Packed(frame, s, x, b)

FrameInv == pc # "idle" => frame # 0
TopInv == top <= BufferSize - leds + Words

PackInv == FrameInv /\ LoopInv /\ ContentInv /\ TopInv

\* What belongs into byte b of word x of strip s on its way to the PRUs.
Sent(f, s, x, b) ==
  IF Forwarded(Start(s) + x, b) THEN Packed(f, s, x, b) ELSE Dark

LedsInv ==
  \A s \in 0 .. NumStrips - 1, x \in Led, b \in 0 .. 3 :
    (pc = "draw" /\ x < Words) \/ ~Forwarded(Start(s) + x, b) =>
      ledsFrame[Start(s) + x][b] = Sent(frame, s, x, b)

DdrInv ==
  drawn # 0 =>
    \A s \in 0 .. NumStrips - 1, x \in Led, b \in 0 .. 3 :
      x < Words \/ ~Forwarded(Start(s) + x, b) =>
        ddr[x * NumStrips + s][b] = Sent(drawn, s, x, b)

\* The words on a wire are those of its strip in DDR, from the first one on.
WireInv ==
  /\ \A p \in Pru : IF drawn = 0 THEN len[p] = 0
                    ELSE len[p] <= leds /\ addr[p] = (leds - len[p]) * NumStrips
  /\ \A s \in 0 .. NumStrips - 1 :
       /\ Len(wire[s]) = IF drawn = 0 THEN 0 ELSE leds - len[s \div Channels]
       /\ \A x \in 1 .. Len(wire[s]) : wire[s][x] = ddr[(x - 1) * NumStrips + s]

IInv == TypeOK /\ PackInv /\ LedsInv /\ DdrInv /\ WireInv
=============================================================================
