------------------------ MODULE PruHandshakeProofs ------------------------
(***************************************************************************)
(* Proofs about PruHandshake, for every number of pixels and of frames,    *)
(* with and without ledscape_close.  IInv is inductive: each of its parts  *)
(* has a lemma saying that every step keeps it.  The safety properties     *)
(* follow from IInv, and so does the step simulation of FrameChannel.      *)
(***************************************************************************)
EXTENDS PruHandshake, TLAPS

-----------------------------------------------------------------------------
(* What the two steps that write an element of a two-dimensional table do.   *)

CopyFacts ==
  /\ \A q \in Pru, x \in Pixel :
       ddr'[q][x] = IF q = armPru /\ x = copied + 1 THEN frame ELSE ddr[q][x]
  /\ ddr' \in [Pru -> [Pixel -> Nat]]
  /\ copied' \in 0 .. NumPixels - 1
  /\ \/ /\ copied + 1 < NumPixels /\ copied' = copied + 1
        /\ armPru' = armPru /\ armPc' = "copy"
     \/ /\ copied + 1 = NumPixels /\ copied' = 0 /\ armPru' = 1
        /\ \/ armPru = 0 /\ armPc' = "copy"
           \/ armPru = 1 /\ armPc' = "dma"
  /\ armPc = "copy"
  /\ UNCHANGED <<cont, mapped, frame, dma, command, response, sysevt, hostEn,
                 uio, pruPc, len, showing, lit>>

\* ledscape_copy_frame_to_pru stores one pixel and moves on in strip-major
\* order, to the next pixel, the next strip or the rest of ledscape_draw.
LEMMA CopyPixelEffect == TypeOK /\ CopyPixel => CopyFacts
<1> SUFFICES ASSUME TypeOK, CopyPixel PROVE CopyFacts
  OBVIOUS
<1> USE ConstantsAssumption
<1>1. /\ copied \in 0 .. NumPixels - 1 /\ armPru \in Pru /\ frame \in Nat
      /\ ddr \in [Pru -> [Pixel -> Nat]]
  BY DEF TypeOK
<1>2. copied \in Nat /\ copied + 1 \in Pixel /\ copied + 1 \in Nat
  BY <1>1 DEF Pixel
<1>3. ddr' = [ddr EXCEPT ![armPru][copied + 1] = frame]
  BY DEF CopyPixel
<1>4. ASSUME NEW q \in Pru, NEW x \in Pixel
      PROVE  ddr'[q][x] = IF q = armPru /\ x = copied + 1 THEN frame ELSE ddr[q][x]
  BY <1>1, <1>2, <1>3
<1>5. ddr' \in [Pru -> [Pixel -> Nat]]
  BY <1>1, <1>2, <1>3
<1>6. /\ copied' \in 0 .. NumPixels - 1
      /\ \/ /\ copied + 1 < NumPixels /\ copied' = copied + 1
            /\ armPru' = armPru /\ armPc' = "copy"
         \/ /\ copied + 1 = NumPixels /\ copied' = 0 /\ armPru' = 1
            /\ \/ armPru = 0 /\ armPc' = "copy"
               \/ armPru = 1 /\ armPc' = "dma"
  <2>1. CASE copied + 1 < NumPixels
    BY <1>1, <1>2, <2>1 DEF CopyPixel
  <2>2. CASE copied + 1 = NumPixels
    BY <1>1, <1>2, <2>2 DEF CopyPixel, Pru
  <2> QED
    BY <1>1, <1>2, <2>1, <2>2
<1>7. /\ armPc = "copy"
      /\ UNCHANGED <<cont, mapped, frame, dma, command, response, sysevt,
                     hostEn, uio, pruPc, len, showing, lit>>
  BY DEF CopyPixel, ramVars, intcVars, pruVars
<1> QED
  BY <1>4, <1>5, <1>6, <1>7 DEF CopyFacts

WordFacts(p) ==
  /\ \A q \in Pru, x \in Pixel :
       lit'[q][x] = IF q = p /\ x = NumPixels - len[p] + 1 THEN ddr[p][x] ELSE lit[q][x]
  /\ lit' \in [Pru -> [Pixel -> Nat]]
  /\ len[p] \in 1 .. NumPixels
  /\ len' = [len EXCEPT ![p] = len[p] - 1]
  /\ len' \in [Pru -> 0 .. NumPixels]
  /\ pruPc[p] = "word"
  /\ pruPc'[p] = IF len[p] = 1 THEN "done" ELSE "word"
  /\ pruPc' \in [Pru -> PruPc]
  /\ \A q \in Pru : q # p => pruPc'[q] = pruPc[q]
  /\ UNCHANGED <<armPc, armPru, cont, copied, mapped, frame, ddr, dma,
                 command, response, sysevt, hostEn, uio, showing>>

\* One turn of l_word_loop shows the pixel DDR holds at the next position.
LEMMA PruWordEffect ==
  ASSUME TypeOK, LitInv, NEW p \in Pru, PruWord(p)
  PROVE  WordFacts(p)
<1> USE ConstantsAssumption
<1>1. /\ len \in [Pru -> 0 .. NumPixels] /\ pruPc \in [Pru -> PruPc]
      /\ lit \in [Pru -> [Pixel -> Nat]] /\ ddr \in [Pru -> [Pixel -> Nat]]
  BY DEF TypeOK
<1>2. pruPc[p] = "word" /\ len[p] > 0
  BY DEF PruWord, LitInv
<1>3. len[p] \in 1 .. NumPixels
  BY <1>1, <1>2
<1>4. PICK x0 \in Pixel : x0 = NumPixels - len[p] + 1
  BY <1>3 DEF Pixel
<1>5. lit' = [lit EXCEPT ![p][x0] = ddr[p][x0]] /\ ddr[p][x0] \in Nat
  BY <1>1, <1>4 DEF PruWord
<1>6. ASSUME NEW q \in Pru, NEW x \in Pixel
      PROVE  lit'[q][x] = IF q = p /\ x = x0 THEN ddr[p][x] ELSE lit[q][x]
  BY <1>1, <1>5
<1>7. lit' \in [Pru -> [Pixel -> Nat]]
  BY <1>1, <1>5
<1>8. len' = [len EXCEPT ![p] = len[p] - 1]
  BY DEF PruWord
<1>9. len' \in [Pru -> 0 .. NumPixels]
  BY <1>1, <1>3, <1>8
<1>10. /\ pruPc'[p] = IF len[p] = 1 THEN "done" ELSE "word"
       /\ pruPc' \in [Pru -> PruPc]
       /\ \A q \in Pru : q # p => pruPc'[q] = pruPc[q]
  BY <1>1 DEF PruWord, PruPc
<1>11. UNCHANGED <<armPc, armPru, cont, copied, mapped, frame, ddr, dma,
                   command, response, sysevt, hostEn, uio, showing>>
  BY DEF PruWord, armVars, ramVars, intcVars
<1> QED
  BY <1>2, <1>3, <1>4, <1>6, <1>7, <1>8, <1>9, <1>10, <1>11 DEF WordFacts

-----------------------------------------------------------------------------
(* The parts of the invariant, one lemma each.                               *)

\* Every step keeps the types; a PRU in its word loop has pixels left.
LEMMA TypeStep == TypeOK /\ LitInv /\ [Next]_vars => TypeOK'
<1> SUFFICES ASSUME TypeOK, LitInv, [Next]_vars PROVE TypeOK'
  OBVIOUS
<1> USE ConstantsAssumption
<1>0. 0 \in Pru /\ 1 \in Pru /\ NumPixels \in 0 .. NumPixels /\ 0 \in 0 .. NumPixels
  BY DEF Pru
<1>1. CASE InitPrus
  BY <1>0, <1>1 DEF TypeOK, ArmPc, InitPrus, pruVars
<1>2. CASE ExecPru
  BY <1>2 DEF TypeOK, ArmPc, PruPc, ExecPru, ramVars, intcVars
<1>3. CASE SpinStarted
  BY <1>0, <1>3 DEF TypeOK, ArmPc, SpinStarted, pruVars, ramVars, intcVars
<1>4. CASE WaitEvent
  BY <1>0, <1>4 DEF TypeOK, ArmPc, WaitEvent, pruVars, ramVars
<1>5. CASE ClearEvent
  BY <1>5 DEF TypeOK, ArmPc, ClearEvent, pruVars, ramVars
<1>6. CASE Fault
  BY <1>6 DEF TypeOK, ArmPc, Fault, pruVars, ramVars, intcVars
<1>7. CASE EnableHost
  BY <1>0, <1>7 DEF TypeOK, ArmPc, EnableHost, pruVars, ramVars
<1>8. CASE Draw \/ WaitAgain
  BY <1>8 DEF TypeOK, ArmPc, Draw, WaitAgain, pruVars, ramVars, intcVars
<1>9. CASE WaitReturns
  <2>1. /\ armPc' \in ArmPc /\ armPru' \in Pru /\ frame' \in Nat
        /\ copied' \in 0 .. NumPixels - 1
    BY <1>0, <1>9 DEF TypeOK, ArmPc, WaitReturns
  <2> QED
    BY <2>1, <1>9 DEF TypeOK, WaitReturns, pruVars, ramVars, intcVars
<1>10. CASE CopyPixel
  <2>1. CopyFacts
    BY <1>10, CopyPixelEffect
  <2>2. armPru' \in Pru /\ armPc' \in ArmPc
    BY <1>0, <2>1 DEF CopyFacts, TypeOK, ArmPc
  <2> QED
    BY <2>1, <2>2 DEF CopyFacts, TypeOK
<1>11. CASE SetDma
  BY <1>11 DEF TypeOK, ArmPc, SetDma, pruVars, intcVars
<1>12. CASE CommandsClear
  BY <1>0, <1>12 DEF TypeOK, ArmPc, CommandsClear, pruVars, ramVars, intcVars
<1>13. CASE ZeroResponse
  BY <1>0, <1>13 DEF TypeOK, ArmPc, ZeroResponse, pruVars, intcVars
<1>14. CASE SendStart
  BY <1>0, <1>14 DEF TypeOK, ArmPc, SendStart, pruVars, intcVars
<1>15. CASE Close
  BY <1>0, <1>15 DEF TypeOK, ArmPc, Close, pruVars, ramVars, intcVars
<1>16. CASE SendAbort
  BY <1>0, <1>16 DEF TypeOK, ArmPc, SendAbort, pruVars, intcVars
<1>17. CASE DisablePru
  <2>1. pruPc' \in [Pru -> PruPc]
    BY <1>17 DEF TypeOK, PruPc, DisablePru
  <2> QED
    BY <1>17, <2>1 DEF TypeOK, ArmPc, DisablePru, ramVars, intcVars
<1>18. ASSUME NEW p \in Pru, Interrupt(p) PROVE TypeOK'
  BY <1>18 DEF TypeOK, Interrupt, armVars, pruVars, ramVars
<1>19. ASSUME NEW p \in Pru, PruRead(p) PROVE TypeOK'
  <2>1. pruPc' \in [Pru -> PruPc]
    BY <1>19 DEF TypeOK, PruPc, PruRead
  <2> QED
    BY <1>19, <2>1 DEF TypeOK, PruRead, armVars, ramVars, intcVars
<1>20. ASSUME NEW p \in Pru, PruRaise(p) PROVE TypeOK'
  <2>1. pruPc' \in [Pru -> PruPc] /\ sysevt' \in [Pru -> BOOLEAN]
    BY <1>20 DEF TypeOK, PruPc, PruRaise
  <2> QED
    BY <1>20, <2>1 DEF TypeOK, PruRaise, armVars, ramVars
<1>21. ASSUME NEW p \in Pru, PruHalt(p) PROVE TypeOK'
  <2>1. pruPc' \in [Pru -> PruPc] /\ sysevt' \in [Pru -> BOOLEAN]
    BY <1>21 DEF TypeOK, PruPc, PruHalt
  <2> QED
    BY <1>21, <2>1 DEF TypeOK, PruHalt, armVars, ramVars
<1>22. ASSUME NEW p \in Pru, PruStart(p) PROVE TypeOK'
  <2>1. pruPc' \in [Pru -> PruPc] /\ response' \in [Pru -> {0, 1, 255}]
    BY <1>22 DEF TypeOK, PruPc, PruStart
  <2> QED
    BY <1>22, <2>1 DEF TypeOK, PruStart, armVars, intcVars
<1>23. ASSUME NEW p \in Pru, PruDone(p) PROVE TypeOK'
  <2>1. pruPc' \in [Pru -> PruPc] /\ response' \in [Pru -> {0, 1, 255}]
    BY <1>23 DEF TypeOK, PruPc, PruDone
  <2> QED
    BY <1>23, <2>1 DEF TypeOK, PruDone, armVars, intcVars
<1>24. ASSUME NEW p \in Pru, PruExit(p) PROVE TypeOK'
  <2>1. pruPc' \in [Pru -> PruPc] /\ response' \in [Pru -> {0, 1, 255}]
    BY <1>24 DEF TypeOK, PruPc, PruExit
  <2> QED
    BY <1>24, <2>1 DEF TypeOK, PruExit, armVars, intcVars
<1>25. ASSUME NEW p \in Pru, PruAckStart(p) PROVE TypeOK'
  <2>1. /\ pruPc' \in [Pru -> PruPc] /\ command' \in [Pru -> {0, 1, 255}]
        /\ len' \in [Pru -> 0 .. NumPixels] /\ showing' \in [Pru -> Nat]
    BY <1>0, <1>25 DEF TypeOK, PruPc, PruAckStart
  <2> QED
    BY <1>25, <2>1 DEF TypeOK, PruAckStart, armVars, intcVars
<1>26. ASSUME NEW p \in Pru, PruAckExit(p) PROVE TypeOK'
  <2>1. pruPc' \in [Pru -> PruPc] /\ command' \in [Pru -> {0, 1, 255}]
    BY <1>26 DEF TypeOK, PruPc, PruAckExit
  <2> QED
    BY <1>26, <2>1 DEF TypeOK, PruAckExit, armVars, intcVars
<1>27. ASSUME NEW p \in Pru, PruWord(p) PROVE TypeOK'
  <2>1. WordFacts(p)
    BY <1>27, PruWordEffect
  <2> QED
    BY <2>1 DEF TypeOK, WordFacts
<1>28. ASSUME NEW p \in Pru, PruTimeout(p) PROVE TypeOK'
  <2>1. pruPc' \in [Pru -> PruPc] /\ len' \in [Pru -> 0 .. NumPixels]
    BY <1>0, <1>28 DEF TypeOK, PruPc, PruTimeout
  <2> QED
    BY <1>28, <2>1 DEF TypeOK, PruTimeout, armVars, ramVars, intcVars
<1>29. CASE UNCHANGED vars
  BY <1>29 DEF TypeOK, vars
<1> QED
  BY <1>1, <1>2, <1>3, <1>4, <1>5, <1>6, <1>7, <1>8, <1>9, <1>10, <1>11,
     <1>12, <1>13, <1>14, <1>15, <1>16, <1>17, <1>18, <1>19, <1>20, <1>21,
     <1>22, <1>23, <1>24, <1>25, <1>26, <1>27, <1>28, <1>29
  DEF Next, Arm, ArmInit, ArmWait, ArmDraw, ArmClose, Program

\* The variables the hand-shake itself reads, and their types.
CtlOK ==
  /\ armPc \in ArmPc /\ armPru \in {0, 1} /\ frame \in Nat
  /\ dma \in [Pru -> BOOLEAN] /\ command \in [Pru -> {0, 1, 255}]
  /\ response \in [Pru -> {0, 1, 255}] /\ pruPc \in [Pru -> PruPc]
  /\ showing \in [Pru -> Nat]

LEMMA CtlTypes == TypeOK => CtlOK
BY DEF TypeOK, CtlOK, Pru

\* Start-up: one PRU after the other, each answering before it is used.
LEMMA BootStep == IInv /\ [Next]_vars => BootInv'
<1> SUFFICES ASSUME IInv, [Next]_vars PROVE BootInv'
  OBVIOUS
<1>0. CtlOK /\ BootInv /\ (armPc # "init" => WorkInv)
  BY CtlTypes DEF IInv
<1>1. CASE InitPrus
  BY <1>0, <1>1 DEF CtlOK, BootInv, Starting, Closing, Pru, InitPrus, pruVars
<1>2. CASE ExecPru
  BY <1>0, <1>2 DEF CtlOK, BootInv, Starting, Pru, ExecPru, ramVars
<1>3. CASE SpinStarted
  <2>1. /\ armPc = "spin" /\ response[armPru] # 0 /\ armPru' = 1
        /\ UNCHANGED <<cont, frame, command, response, pruPc, showing>>
    BY <1>3 DEF SpinStarted, ramVars, pruVars
  <2>2. pruPc[armPru] \notin {"start", "off"}
    BY <1>0, <2>1 DEF CtlOK, BootInv, Pru
  <2>3. CASE armPru = 0 /\ armPc' = "exec"
    BY <1>0, <2>1, <2>2, <2>3 DEF BootInv, Starting, Pru
  <2>4. CASE armPru = 1 /\ armPc' = "idle"
    <3>1. \A p \in Pru : pruPc[p] \notin {"start", "off"}
      BY <1>0, <2>1, <2>2, <2>4 DEF BootInv, Pru
    <3> QED
      BY <2>1, <2>4, <3>1 DEF BootInv, Starting
  <2> QED
    BY <1>0, <1>3, <2>3, <2>4 DEF SpinStarted, CtlOK
<1>4. CASE ArmWait
  <2>1. /\ armPc \notin Starting \cup {"abort"}
        /\ armPc' \notin Starting \cup {"abort"} /\ UNCHANGED <<cont, pruPc>>
    BY <1>4 DEF ArmWait, WaitEvent, ClearEvent, Fault, EnableHost, Starting, pruVars
  <2> QED
    BY <1>0, <2>1 DEF BootInv, Starting, Closing
<1>5. CASE ArmDraw
  <2>1. /\ armPc \notin Starting \cup {"abort"}
        /\ armPc' \notin Starting \cup {"abort"} /\ UNCHANGED <<cont, pruPc>>
    BY <1>5 DEF ArmDraw, Draw, WaitAgain, WaitReturns, CopyPixel, SetDma,
                CommandsClear, ZeroResponse, SendStart, Starting, pruVars
  <2> QED
    BY <1>0, <2>1 DEF BootInv, Starting, Closing
<1>6. CASE ArmClose
  <2>1. /\ armPc \notin Starting /\ armPc' \notin Starting /\ Closing'
        /\ \A p \in Pru : pruPc'[p] = "start" => pruPc[p] = "start"
    BY <1>0, <1>6 DEF ArmClose, Close, SendAbort, DisablePru, Starting, Closing,
                      CtlOK, CloseInv, Pru, pruVars
  <2> QED
    BY <1>0, <2>1 DEF BootInv, Starting
<1>7. ASSUME NEW p \in Pru, PruStart(p) PROVE BootInv'
  <2>1. /\ UNCHANGED <<armPc, armPru, cont, frame, command, showing>>
        /\ pruPc[p] = "start" /\ pruPc'[p] = "raise"
        /\ \A q \in Pru : q # p => pruPc'[q] = pruPc[q] /\ response'[q] = response[q]
    BY <1>0, <1>7 DEF PruStart, CtlOK, armVars
  <2> QED
    BY <1>0, <2>1 DEF BootInv, Starting, Closing
<1>8. ASSUME NEW p \in Pru, Program(p), ~PruStart(p) PROVE BootInv'
  <2>1. /\ UNCHANGED <<armPc, armPru, cont, frame>>
        /\ pruPc[p] \notin {"start", "off"} /\ pruPc'[p] \notin {"start", "off"}
        /\ \A q \in Pru : q # p => /\ pruPc'[q] = pruPc[q] /\ response'[q] = response[q]
                                   /\ command'[q] = command[q]
    BY <1>0, <1>8 DEF Program, PruRaise, PruRead, PruAckStart, PruAckExit, PruWord,
       PruTimeout, PruDone, PruExit, PruHalt, CtlOK, armVars, ramVars
  <2>2. command[p] = 0 => command'[p] = 0
    BY <1>0, <1>8 DEF Program, PruRaise, PruRead, PruAckStart, PruAckExit, PruWord,
       PruTimeout, PruDone, PruExit, PruHalt, CtlOK, armVars, ramVars
  <2>3. pruPc[p] = "ackStart" => armPc \notin Starting
    BY <1>0 DEF WorkInv, Working, BootInv
  <2>4. armPc \in Starting => \A q \in Pru : showing'[q] = showing[q]
    BY <1>0, <1>8, <2>3 DEF Program, PruRaise, PruRead, PruAckStart, PruAckExit, PruWord,
       PruTimeout, PruDone, PruExit, PruHalt, CtlOK, armVars, ramVars
  <2> QED
    BY <1>0, <2>1, <2>2, <2>4 DEF BootInv, Starting, Closing
<1>9. CASE UNCHANGED vars \/ \E p \in Pru : Interrupt(p)
  <2>1. UNCHANGED <<armPc, armPru, cont, frame, command, response, pruPc, showing>>
    BY <1>9 DEF vars, Interrupt, armVars, ramVars, pruVars
  <2> QED
    BY <1>0, <2>1 DEF BootInv, Starting, Closing
<1> QED
  BY <1>1, <1>2, <1>3, <1>4, <1>5, <1>6, <1>7, <1>8, <1>9 DEF Next, Arm, ArmInit

\* DDR holds one frame outside ledscape_copy_frame_to_pru, and the part copied
\* so far inside it.
LEMMA CopyStep == IInv /\ [Next]_vars => CopyInv'
<1> SUFFICES ASSUME IInv, [Next]_vars PROVE CopyInv'
  OBVIOUS
<1> USE ConstantsAssumption
<1>0. TypeOK /\ CopyInv
  BY DEF IInv
<1>1. CASE ArmInit \/ ArmWait \/ ArmClose
  <2>1. armPc # "copy" /\ armPc' # "copy" /\ UNCHANGED <<frame, ddr>>
    BY <1>1 DEF ArmInit, InitPrus, ExecPru, SpinStarted, ArmWait, WaitEvent,
       ClearEvent, Fault, EnableHost, ArmClose, Close, SendAbort, DisablePru
  <2> QED
    BY <1>0, <2>1 DEF CopyInv
<1>2. CASE Draw \/ WaitAgain \/ SetDma \/ CommandsClear \/ ZeroResponse \/ SendStart
  <2>1. armPc # "copy" /\ armPc' # "copy" /\ UNCHANGED <<frame, ddr>>
    BY <1>2 DEF Draw, WaitAgain, SetDma, CommandsClear, ZeroResponse, SendStart
  <2> QED
    BY <1>0, <2>1 DEF CopyInv
<1>3. CASE WaitReturns
  BY <1>3 DEF WaitReturns, CopyInv, Pru, Pixel
<1>4. CASE CopyPixel
  <2>1. CopyFacts
    BY <1>0, <1>4, CopyPixelEffect
  <2>2. /\ armPru \in {0, 1} /\ copied \in Nat
        /\ \A q \in Pru, x \in Pixel :
             q < armPru \/ (q = armPru /\ x <= copied) => ddr[q][x] = frame
    BY <1>0, <2>1 DEF CopyFacts, CopyInv, TypeOK, Pru
  <2>3. ASSUME NEW q \in Pru, NEW x \in Pixel,
               q < armPru \/ (q = armPru /\ x <= copied + 1)
        PROVE  ddr'[q][x] = frame
    <3>1. CASE q = armPru /\ x = copied + 1
      BY <2>1, <3>1 DEF CopyFacts
    <3>2. CASE ~(q = armPru /\ x = copied + 1)
      <4>1. ddr'[q][x] = ddr[q][x]
        BY <2>1, <3>2 DEF CopyFacts
      <4>2. q < armPru \/ (q = armPru /\ x <= copied)
        BY <2>2, <2>3, <3>2 DEF Pru, Pixel
      <4> QED
        BY <2>2, <4>1, <4>2
    <3> QED
      BY <3>1, <3>2
  <2>4. frame' = frame
    BY <2>1 DEF CopyFacts
  <2>5. CASE copied + 1 < NumPixels
    <3>1. armPru' = armPru /\ armPc' = "copy" /\ copied' = copied + 1
      BY <2>1, <2>5 DEF CopyFacts
    <3> QED
      BY <2>3, <2>4, <3>1 DEF CopyInv
  <2>6. CASE copied + 1 = NumPixels
    <3>1. ASSUME NEW q \in Pru, NEW x \in Pixel, q <= armPru
          PROVE  ddr'[q][x] = frame
      BY <2>2, <2>3, <2>6, <3>1 DEF Pru, Pixel
    <3>2. /\ copied' = 0 /\ armPru' = 1
          /\ \/ armPru = 0 /\ armPc' = "copy"
             \/ armPru = 1 /\ armPc' = "dma"
      BY <2>1, <2>6 DEF CopyFacts
    <3> QED
      BY <2>2, <2>4, <3>1, <3>2 DEF CopyInv, Pru, Pixel
  <2> QED
    BY <2>1, <2>5, <2>6 DEF CopyFacts
<1>5. CASE UNCHANGED vars \/ \E p \in Pru : Interrupt(p) \/ Program(p)
  <2>1. UNCHANGED <<armPc, armPru, copied, frame, ddr>>
    BY <1>5 DEF vars, Interrupt, Program, PruStart, PruRaise, PruRead, PruAckStart,
       PruAckExit, PruWord, PruTimeout, PruDone, PruExit, PruHalt, armVars
  <2> QED
    BY <1>0, <2>1 DEF CopyInv
<1> QED
  BY <1>1, <1>2, <1>3, <1>4, <1>5 DEF Next, Arm, ArmDraw

\* Both programs have been started, by this process.
Started ==
  /\ CtlOK /\ armPc \notin Starting
  /\ \A p \in Pru : pruPc[p] # "start" /\ (pruPc[p] = "off" => Closing)

\* A PRU at work is never overtaken by the ARM, once both programs run.
LEMMA WorkKept ==
  ASSUME Started, WorkInv, CloseInv, [Next]_vars PROVE WorkInv'
<1> USE DEF Started, CtlOK, WorkInv, Starting, Writing, Working, Pru
<1>4. CASE WaitEvent \/ ClearEvent \/ Fault \/ EnableHost \/ Draw \/ WaitAgain \/ Close
  <2>1. /\ armPc \notin Writing \cup {"send", "init"}
        /\ armPc' \notin Starting \cup Writing \cup {"send"}
        /\ UNCHANGED <<dma, command, response, pruPc>>
    BY <1>4 DEF WaitEvent, ClearEvent, Fault, EnableHost, Draw, WaitAgain,
                Close, pruVars, ramVars
  <2> QED
    BY <2>1
<1>5. CASE WaitReturns
  BY <1>5 DEF WaitReturns, pruVars, ramVars
<1>6. CASE CopyPixel
  <2>1. /\ armPc = "copy" /\ armPc' \in {"copy", "dma"}
        /\ UNCHANGED <<dma, command, response, pruPc>>
    BY <1>6 DEF CopyPixel, pruVars, ramVars
  <2> QED
    BY <2>1
<1>7. CASE SetDma
  BY <1>7 DEF SetDma, pruVars
<1>8. CASE CommandsClear
  BY <1>8 DEF CommandsClear, pruVars, ramVars
<1>9. CASE ZeroResponse
  BY <1>9 DEF ZeroResponse, pruVars
<1>10. CASE SendStart
  BY <1>10 DEF SendStart, CloseInv, Closing, ExitPc, PruPc, pruVars
<1>11. CASE SendAbort
  <2>1. /\ armPc = "abort" /\ armPc' \in {"abort", "wait"}
        /\ UNCHANGED <<dma, response, pruPc>>
        /\ \A p \in Pru : command'[p] = 1 => command[p] = 1
    BY <1>11 DEF SendAbort, pruVars
  <2> QED
    BY <2>1
<1>12. CASE DisablePru
  <2>1. /\ armPc = "disable" /\ armPc' \in {"wait", "closed"}
        /\ UNCHANGED <<dma, command, response>>
        /\ \A p \in Pru : command[p] # 1
        /\ \A p \in Pru : pruPc'[p] = pruPc[p] \/ pruPc'[p] = "off"
    BY <1>12 DEF DisablePru, CloseInv, ramVars
  <2> QED
    BY <2>1
<1>13. ASSUME NEW p \in Pru, Program(p) PROVE WorkInv'
  <2>1. /\ armPc # "init" /\ UNCHANGED <<armPc, armPru, dma>>
        /\ \A q \in Pru : q # p => /\ pruPc'[q] = pruPc[q]
                                   /\ command'[q] = command[q]
                                   /\ response'[q] = response[q]
    BY <1>13 DEF Program, PruStart, PruRaise, PruRead, PruAckStart, PruAckExit,
       PruWord, PruTimeout, PruDone, PruExit, PruHalt, armVars, ramVars
  <2>2. CASE PruStart(p)
    BY <2>2 DEF PruStart
  <2>3. CASE PruRaise(p) \/ PruRead(p) \/ PruAckExit(p) \/ PruHalt(p)
    <3>1. /\ response'[p] = response[p]
          /\ command'[p] = 1 => command[p] = 1 /\ pruPc'[p] \in {"read", "ackStart"}
          /\ pruPc'[p] = "ackStart" => command[p] \notin {0, 255}
          /\ pruPc'[p] \notin {"word", "done"}
      BY <2>3 DEF PruRaise, PruRead, PruAckExit, PruHalt, CloseInv, ExitPc, ramVars
    <3> QED
      BY <2>1, <3>1
  <2>4. CASE PruAckStart(p) \/ PruWord(p) \/ PruTimeout(p)
    <3>1. /\ pruPc[p] \in {"ackStart", "word"} /\ pruPc'[p] \in {"word", "done"}
          /\ response'[p] = response[p] /\ command'[p] # 1
      BY <2>4 DEF PruAckStart, PruWord, PruTimeout, ramVars
    <3> QED
      BY <2>1, <3>1
  <2>5. CASE PruDone(p)
    <3>1. pruPc[p] = "done" /\ pruPc'[p] = "raise" /\ command'[p] # 1
      BY <2>5 DEF PruDone
    <3> QED
      BY <2>1, <3>1
  <2>6. CASE PruExit(p)
    <3>1. /\ armPc \notin {"busy", "zero", "send"} /\ command'[p] # 1
          /\ pruPc'[p] = "exitRaise"
      BY <2>6 DEF PruExit, CloseInv, Closing, ExitPc
    <3> QED
      BY <2>1, <3>1
  <2> QED
    BY <1>13, <2>2, <2>3, <2>4, <2>5, <2>6 DEF Program
<1>14. CASE UNCHANGED vars \/ \E p \in Pru : Interrupt(p)
  <2>1. UNCHANGED <<armPc, armPru, dma, command, response, pruPc>>
    BY <1>14 DEF vars, Interrupt, armVars, ramVars, pruVars
  <2> QED
    BY <2>1
<1> HIDE DEF CtlOK, WorkInv, Pru
<1>15. ~ArmInit
  BY DEF ArmInit, InitPrus, ExecPru, SpinStarted, Starting
<1> QED
  BY <1>15, <1>4, <1>5, <1>6, <1>7, <1>8, <1>9, <1>10, <1>11,
     <1>12, <1>13, <1>14 DEF Next, Arm, ArmWait, ArmDraw, ArmClose

LEMMA WorkStep == IInv /\ [Next]_vars => (armPc # "init" => WorkInv)'
<1> SUFFICES ASSUME IInv, [Next]_vars PROVE (armPc # "init" => WorkInv)'
  OBVIOUS
<1>0. CtlOK /\ BootInv /\ (armPc # "init" => WorkInv /\ CloseInv)
  BY CtlTypes DEF IInv
<1>1. CASE armPc \in Starting
  <2> USE <1>0, <1>1 DEF CtlOK, BootInv, WorkInv, Starting, Writing, Working, Pru
  <2>1. CASE InitPrus
    BY <2>1 DEF InitPrus, pruVars
  <2>2. CASE ExecPru
    BY <2>2 DEF ExecPru, ramVars
  <2>3. CASE SpinStarted
    BY <2>3 DEF SpinStarted, pruVars, ramVars
  <2>4. ASSUME NEW p \in Pru, Program(p) PROVE WorkInv'
    <3>1. /\ armPc # "init" /\ command[p] = 0 /\ response'[p] \in {response[p], 1, 255}
          /\ pruPc[p] \in {"start", "raise", "read", "exit", "exitRaise", "ackExit"}
          /\ UNCHANGED <<armPc, armPru, dma, command>>
          /\ pruPc'[p] \in {"raise", "read", "exitRaise", "halt", "exit"}
          /\ \A q \in Pru : q # p => pruPc'[q] = pruPc[q]
      BY <2>4 DEF Program, PruStart, PruRaise, PruRead, PruAckStart, PruAckExit,
         PruWord, PruTimeout, PruDone, PruExit, PruHalt, armVars, ramVars
    <3> QED
      BY <3>1
  <2>5. CASE UNCHANGED vars \/ \E p \in Pru : Interrupt(p)
    <3>1. UNCHANGED <<armPc, armPru, dma, command, response, pruPc>>
      BY <2>5 DEF vars, Interrupt, armVars, ramVars, pruVars
    <3> QED
      BY <3>1
  <2>6. ~ArmWait /\ ~ArmDraw /\ ~ArmClose
    BY DEF ArmWait, WaitEvent, ClearEvent, Fault, EnableHost, ArmDraw, Draw,
       WaitAgain, WaitReturns, CopyPixel, SetDma, CommandsClear, ZeroResponse,
       SendStart, ArmClose, Close, SendAbort, DisablePru
  <2> HIDE DEF CtlOK, BootInv, WorkInv, Pru
  <2> QED
    BY <2>1, <2>2, <2>3, <2>4, <2>5, <2>6 DEF Next, Arm, ArmInit
<1>2. CASE armPc \notin Starting
  BY <1>0, <1>2, WorkKept DEF BootInv, Started, Starting
<1> QED BY <1>1, <1>2

\* Aborts are written, and PRUs exit, in ledscape_close only.
LEMMA CloseKept ==
  ASSUME Started, CloseInv, [Next]_vars PROVE CloseInv'
<1> USE DEF Started, CtlOK, CloseInv, Closing, Starting, Pru
<1>4. CASE WaitEvent \/ ClearEvent \/ Fault \/ EnableHost
  <2>1. /\ armPc \notin {"init", "abort"}
        /\ armPc' \in {"clear", "enable", "dead", "test", "disable"}
        /\ armPc' \in {"test"} => cont = "draw"
        /\ armPc' = "disable" => cont # "draw"
        /\ UNCHANGED <<cont, mapped, command, pruPc>>
    BY <1>4 DEF WaitEvent, ClearEvent, Fault, EnableHost, pruVars, ramVars
  <2> QED
    BY <2>1
<1>5. CASE Draw \/ WaitAgain \/ WaitReturns \/ CopyPixel \/ SetDma
           \/ CommandsClear \/ ZeroResponse
  <2>1. /\ armPc \in {"idle", "test", "copy", "dma", "busy", "zero"}
        /\ armPc' \notin {"abort", "disable", "closed"}
        /\ UNCHANGED <<cont, mapped, command, pruPc>>
    BY <1>5 DEF Draw, WaitAgain, WaitReturns, CopyPixel, SetDma, CommandsClear,
                ZeroResponse, pruVars, ramVars
  <2> QED
    BY <2>1
<1>6. CASE SendStart
  <2>1. /\ armPc = "send" /\ armPc' \in {"send", "idle"}
        /\ UNCHANGED <<cont, mapped, pruPc>>
        /\ \A p \in Pru : command'[p] \in {1, command[p]}
    BY <1>6 DEF SendStart, pruVars
  <2> QED
    BY <2>1
<1>7. CASE Close
  BY <1>7 DEF Close, pruVars, ramVars
<1>8. CASE SendAbort
  <2>1. armPc = "abort" /\ UNCHANGED <<mapped, pruPc>>
    BY <1>8 DEF SendAbort, pruVars
  <2>2. CASE armPru = 0
    <3>1. /\ armPc' = "abort" /\ UNCHANGED cont
          /\ command'[0] = 255 /\ command'[1] = command[1]
      BY <1>8, <2>2 DEF SendAbort
    <3> QED
      BY <2>1, <3>1
  <2>3. CASE armPru = 1
    <3>1. /\ armPc' = "wait" /\ cont' = "close0"
          /\ command'[0] = command[0] /\ command'[1] = 255
      BY <1>8, <2>3 DEF SendAbort
    <3> QED
      BY <2>1, <2>3, <3>1
  <2> QED
    BY <2>2, <2>3
<1>9. CASE DisablePru
  <2>1. /\ cont' = "close1" /\ armPc' \in {"wait", "closed"}
        /\ \A p \in Pru : command'[p] = command[p] /\ command[p] # 1
    BY <1>9 DEF DisablePru, ramVars
  <2> HIDE DEF CtlOK
  <2> QED
    BY <2>1
<1>10. ASSUME NEW p \in Pru, Program(p) PROVE CloseInv'
  <2>1. /\ armPc # "init" /\ UNCHANGED <<armPc, armPru, cont, mapped>>
        /\ \A q \in Pru : q # p => pruPc'[q] = pruPc[q] /\ command'[q] = command[q]
        /\ command'[p] \in {0, command[p]}
    BY <1>10 DEF Program, PruStart, PruRaise, PruRead, PruAckStart, PruAckExit, PruWord,
       PruTimeout, PruDone, PruExit, PruHalt, armVars, ramVars
  <2>2. CASE PruRead(p)
    <3>1. pruPc'[p] \in ExitPc => pruPc'[p] = "ackExit" /\ command[p] = 255
                                  /\ command'[p] = 255
      BY <2>2 DEF PruRead, ExitPc, ramVars
    <3> QED
      BY <2>1, <3>1
  <2>3. CASE ~PruRead(p)
    <3>1. pruPc'[p] \in ExitPc => pruPc[p] \in ExitPc
      BY <1>10, <2>3 DEF Program, PruStart, PruRaise, PruAckStart, PruAckExit,
         PruWord, PruTimeout, PruDone, PruExit, PruHalt, ExitPc
    <3> QED
      BY <2>1, <3>1
  <2> QED
    BY <2>2, <2>3
<1>11. CASE UNCHANGED vars \/ \E p \in Pru : Interrupt(p)
  <2>1. UNCHANGED <<armPc, armPru, cont, mapped, command, pruPc>>
    BY <1>11 DEF vars, Interrupt, armVars, ramVars, pruVars
  <2> QED
    BY <2>1
<1> HIDE DEF CtlOK, CloseInv, Pru
<1>12. ~ArmInit
  BY DEF ArmInit, InitPrus, ExecPru, SpinStarted, Starting
<1> QED
  BY <1>12, <1>4, <1>5, <1>6, <1>7, <1>8, <1>9, <1>10, <1>11
  DEF Next, Arm, ArmWait, ArmDraw, ArmClose

LEMMA CloseStep == IInv /\ [Next]_vars => (armPc # "init" => CloseInv)'
<1> SUFFICES ASSUME IInv, [Next]_vars PROVE (armPc # "init" => CloseInv)'
  OBVIOUS
<1>0. CtlOK /\ BootInv /\ (armPc # "init" => WorkInv /\ CloseInv)
  BY CtlTypes DEF IInv
<1>1. CASE armPc \in Starting
  <2> USE <1>0, <1>1 DEF CtlOK, BootInv, CloseInv, Closing, Starting, ExitPc, Pru
  <2>1. CASE InitPrus
    BY <2>1 DEF InitPrus, pruVars
  <2>2. CASE ExecPru
    BY <2>2 DEF ExecPru, ramVars
  <2>3. CASE SpinStarted
    BY <2>3 DEF SpinStarted, pruVars, ramVars
  <2>4. ASSUME NEW p \in Pru, Program(p) PROVE CloseInv'
    <3>1. /\ armPc # "init" /\ command[p] = 0 /\ command'[p] = 0
          /\ UNCHANGED <<armPc, armPru, cont, mapped>>
          /\ pruPc'[p] \in ExitPc => pruPc[p] \in ExitPc
          /\ \A q \in Pru : q # p => pruPc'[q] = pruPc[q] /\ command'[q] = command[q]
      BY <2>4 DEF Program, PruStart, PruRaise, PruRead, PruAckStart, PruAckExit,
         PruWord, PruTimeout, PruDone, PruExit, PruHalt, armVars, ramVars
    <3> QED
      BY <3>1
  <2>5. CASE UNCHANGED vars \/ \E p \in Pru : Interrupt(p)
    <3>1. UNCHANGED <<armPc, armPru, cont, mapped, command, pruPc>>
      BY <2>5 DEF vars, Interrupt, armVars, ramVars, pruVars
    <3> QED
      BY <3>1
  <2>6. ~ArmWait /\ ~ArmDraw /\ ~ArmClose
    BY DEF ArmWait, WaitEvent, ClearEvent, Fault, EnableHost, ArmDraw, Draw,
       WaitAgain, WaitReturns, CopyPixel, SetDma, CommandsClear, ZeroResponse,
       SendStart, ArmClose, Close, SendAbort, DisablePru
  <2> HIDE DEF CtlOK, BootInv, CloseInv, Pru
  <2> QED
    BY <2>1, <2>2, <2>3, <2>4, <2>5, <2>6 DEF Next, Arm, ArmInit
<1>2. CASE armPc \notin Starting
  BY <1>0, <1>2, CloseKept DEF BootInv, Started, Starting
<1> QED BY <1>1, <1>2

\* Each PRU is at the frame in DDR or at the one before it.
LEMMA ShowStep == IInv /\ [Next]_vars => (armPc # "init" => ShowInv)'
<1> SUFFICES ASSUME IInv, [Next]_vars PROVE (armPc # "init" => ShowInv)'
  OBVIOUS
<1>0. CtlOK /\ BootInv /\ (armPc # "init" => WorkInv /\ CloseInv /\ ShowInv)
  BY CtlTypes DEF IInv
<1> USE <1>0 DEF CtlOK, ShowInv, Closing, Writing, Pru
<1>1. CASE InitPrus
  BY <1>1 DEF InitPrus, BootInv, Starting, pruVars
<1>2. CASE ExecPru
  BY <1>2 DEF ExecPru, BootInv, Starting, ramVars
<1>3. CASE SpinStarted
  BY <1>3 DEF SpinStarted, BootInv, Starting, pruVars, ramVars
<1>4. CASE WaitEvent \/ ClearEvent \/ Fault \/ EnableHost \/ WaitAgain
  <2>1. /\ armPc \in {"wait", "clear", "enable", "test"}
        /\ armPc' \notin Writing \cup {"send", "abort"}
        /\ UNCHANGED <<cont, frame, command, response, pruPc, showing>>
    BY <1>4 DEF WaitEvent, ClearEvent, Fault, EnableHost, WaitAgain, pruVars, ramVars
  <2> QED
    BY <2>1
<1>5. CASE Draw
  <2>1. /\ armPc = "idle" /\ armPc' = "wait" /\ frame < MaxFrames
        /\ UNCHANGED <<cont, frame, command, response, pruPc, showing>>
    BY <1>5 DEF Draw, pruVars, ramVars
  <2> QED
    BY <2>1
<1>6. CASE WaitReturns
  <2>1. \A p \in Pru : showing[p] = frame /\ ~Working(p)
    BY <1>6 DEF WaitReturns, WorkInv, CloseInv
  <2>2. /\ armPc' = "copy" /\ frame' = frame + 1
        /\ UNCHANGED <<cont, command, response, pruPc, showing>>
    BY <1>6 DEF WaitReturns, pruVars, ramVars
  <2> QED
    BY <2>1, <2>2 DEF Working
<1>7. CASE CopyPixel
  <2>1. /\ armPc = "copy" /\ armPc' \in {"copy", "dma"}
        /\ UNCHANGED <<cont, frame, command, response, pruPc, showing>>
    BY <1>7 DEF CopyPixel, pruVars, ramVars
  <2> QED
    BY <2>1
<1>8. CASE SetDma \/ CommandsClear \/ ZeroResponse
  <2>1. /\ armPc \in {"dma", "busy", "zero"} /\ armPc' \in {"busy", "zero", "send"}
        /\ UNCHANGED <<cont, frame, command, pruPc, showing>>
        /\ armPc' = "send" => \A p \in Pru : response'[p] = 0
    BY <1>8 DEF SetDma, CommandsClear, ZeroResponse, WorkInv, pruVars, ramVars
  <2> QED
    BY <2>1
<1>9. CASE SendStart
  <2>1. /\ armPc = "send" /\ armPc' \in {"send", "idle"} /\ cont = "draw"
        /\ UNCHANGED <<cont, frame, response, pruPc, showing>>
    BY <1>9 DEF SendStart, CloseInv, pruVars
  <2>2. /\ \A p \in Pru : p = armPru \/ command'[p] = command[p]
        /\ \A p \in Pru : p >= armPru => response[p] = 0
        /\ armPc' = "send" => armPru = 0 /\ armPru' = 1
    BY <1>9 DEF SendStart, WorkInv
  <2> QED
    BY <2>1, <2>2
<1>10. CASE Close \/ SendAbort
  <2>1. /\ armPc' \in {"abort", "wait"} /\ Closing'
        /\ UNCHANGED <<frame, response, pruPc, showing>>
        /\ \A p \in Pru : command'[p] = 1 => command[p] = 1
        /\ armPc' = "wait" => cont' # "draw"
    BY <1>10 DEF Close, SendAbort, pruVars, ramVars
  <2> QED
    BY <1>10, <2>1 DEF Close, SendAbort
<1>11. CASE DisablePru
  <2>1. /\ armPc = "disable" /\ armPc' \in {"wait", "closed"} /\ cont' = "close1"
        /\ UNCHANGED <<frame, command, response, showing>>
        /\ \A p \in Pru : pruPc'[p] = pruPc[p] \/ pruPc'[p] = "off"
    BY <1>11 DEF DisablePru, ramVars
  <2> QED
    BY <2>1
<1>12. ASSUME NEW p \in Pru, Program(p) PROVE ShowInv'
  <2>1. /\ armPc # "init" /\ UNCHANGED <<armPc, armPru, cont, frame>>
        /\ \A q \in Pru : q # p => /\ pruPc'[q] = pruPc[q] /\ showing'[q] = showing[q]
                                   /\ command'[q] = command[q]
                                   /\ response'[q] = response[q]
    BY <1>12 DEF Program, PruStart, PruRaise, PruRead, PruAckStart, PruAckExit, PruWord,
       PruTimeout, PruDone, PruExit, PruHalt, BootInv, armVars, ramVars
  <2>2. CASE PruStart(p) \/ PruExit(p)
    <3>1. /\ showing'[p] = showing[p] /\ command'[p] = command[p]
          /\ pruPc'[p] \in {"raise", "exitRaise"}
          /\ (armPc = "spin" /\ showing[p] = frame) \/ Closing
      BY <2>2 DEF PruStart, PruExit, BootInv, CloseInv, Starting, ExitPc
    <3> QED
      BY <2>1, <3>1
  <2>3. CASE PruRaise(p) \/ PruRead(p) \/ PruAckExit(p) \/ PruHalt(p)
    <3>1. /\ showing'[p] = showing[p] /\ response'[p] = response[p]
          /\ command'[p] \in {0, command[p]}
          /\ pruPc'[p] = "ackStart" => command[p] = 1
          /\ pruPc'[p] \notin {"word", "done"}
      BY <2>3 DEF PruRaise, PruRead, PruAckExit, PruHalt, ramVars
    <3> QED
      BY <2>1, <3>1
  <2>4. CASE PruAckStart(p)
    <3>1. /\ showing'[p] = frame /\ pruPc'[p] = "word" /\ command'[p] = 0
          /\ armPc \notin Writing /\ (armPc = "send" => p < armPru)
      BY <2>4 DEF PruAckStart, WorkInv, Working
    <3> QED
      BY <2>1, <3>1
  <2>5. CASE PruWord(p) \/ PruTimeout(p)
    <3>1. /\ pruPc[p] = "word" /\ pruPc'[p] \in {"word", "done"}
          /\ UNCHANGED <<showing, response, command>>
      <4> HIDE DEF ShowInv
      <4> QED
        BY <2>5 DEF PruWord, PruTimeout, ramVars
    <3>2. showing[p] = frame
      BY <2>1, <3>1
    <3> QED
      BY <2>1, <3>1, <3>2
  <2>6. CASE PruDone(p)
    <3>1. /\ pruPc[p] = "done" /\ pruPc'[p] = "raise"
          /\ UNCHANGED <<showing, command>>
      <4> HIDE DEF ShowInv
      <4> QED
        BY <2>6 DEF PruDone
    <3>2. showing[p] = frame
      BY <2>1, <3>1
    <3> QED
      BY <2>1, <3>1, <3>2
  <2> QED
    BY <1>12, <2>2, <2>3, <2>4, <2>5, <2>6 DEF Program
<1>13. CASE UNCHANGED vars \/ \E p \in Pru : Interrupt(p)
  <2>1. UNCHANGED <<armPc, armPru, cont, frame, command, response, pruPc, showing>>
    BY <1>13 DEF vars, Interrupt, armVars, ramVars, pruVars
  <2> QED
    BY <2>1
<1> HIDE DEF CtlOK, ShowInv, Pru
<1> QED
  BY <1>1, <1>2, <1>3, <1>4, <1>5, <1>6, <1>7, <1>8, <1>9, <1>10, <1>11,
     <1>12, <1>13 DEF Next, Arm, ArmInit, ArmWait, ArmDraw, ArmClose

\* A step that neither shows a pixel nor starts a frame keeps LitInv.
LEMMA LitStutter ==
  ASSUME LitInv, UNCHANGED <<frame, lit, len>>,
         \A p \in Pru : pruPc'[p] = "word" => pruPc[p] = "word"
  PROVE  LitInv'
BY DEF LitInv

\* Pixels are shown from the nearest on, all of the frame in DDR.
LEMMA LitKept ==
  ASSUME TypeOK, LitInv, NoTornFrame, [Next]_vars,
         WaitReturns => \A p \in Pru : pruPc[p] # "word"
  PROVE  LitInv'
<1> USE ConstantsAssumption
<1>0. /\ TypeOK /\ LitInv
      /\ pruPc \in [Pru -> PruPc] /\ len \in [Pru -> 0 .. NumPixels]
      /\ frame \in Nat /\ lit \in [Pru -> [Pixel -> Nat]]
  BY DEF TypeOK
<1>1. CASE ArmInit
  <2>1. UNCHANGED <<frame, lit, len>>
    BY <1>1 DEF ArmInit, InitPrus, ExecPru, SpinStarted, pruVars
  <2>2. \A p \in Pru : pruPc'[p] = "word" => pruPc[p] = "word"
    BY <1>0, <1>1 DEF ArmInit, InitPrus, ExecPru, SpinStarted, pruVars
  <2> QED
    BY <1>0, <2>1, <2>2, LitStutter
<1>2. CASE ArmWait
  <2>1. UNCHANGED <<frame, lit, len, pruPc>>
    BY <1>2 DEF ArmWait, WaitEvent, ClearEvent, Fault, EnableHost, pruVars
  <2> QED
    BY <1>0, <2>1, LitStutter
<1>3. CASE Draw \/ WaitAgain \/ SetDma \/ CommandsClear \/ ZeroResponse \/ SendStart
  <2>1. UNCHANGED <<frame, lit, len, pruPc>>
    BY <1>3 DEF Draw, WaitAgain, SetDma, CommandsClear, ZeroResponse, SendStart,
                pruVars
  <2> QED
    BY <1>0, <2>1, LitStutter
<1>4. CASE WaitReturns
  <2>1. \A p \in Pru : pruPc[p] # "word"
    BY <1>4
  <2>2. frame' = frame + 1 /\ UNCHANGED <<pruPc, lit>>
    BY <1>4 DEF WaitReturns, pruVars
  <2>3. \A p \in Pru, x \in Pixel : lit[p][x] \in Nat /\ lit[p][x] <= frame
    BY <1>0 DEF LitInv
  <2>4. \A p \in Pru, x \in Pixel : lit'[p][x] <= frame'
    BY <1>0, <2>2, <2>3
  <2> QED
    BY <1>0, <2>1, <2>2, <2>4 DEF LitInv
<1>5. CASE CopyPixel
  BY <1>0, <1>5, CopyPixelEffect, LitStutter DEF CopyFacts
<1>6. CASE ArmClose
  <2>1. UNCHANGED <<frame, lit, len>>
    BY <1>6 DEF ArmClose, Close, SendAbort, DisablePru, pruVars
  <2>2. \A p \in Pru : pruPc'[p] = "word" => pruPc[p] = "word"
    BY <1>0, <1>6 DEF ArmClose, Close, SendAbort, DisablePru, pruVars
  <2> QED
    BY <1>0, <2>1, <2>2, LitStutter
<1>7. ASSUME NEW p \in Pru,
             Interrupt(p) \/ PruStart(p) \/ PruRaise(p) \/ PruRead(p)
             \/ PruAckExit(p) \/ PruDone(p) \/ PruExit(p) \/ PruHalt(p)
      PROVE  LitInv'
  <2>1. UNCHANGED <<frame, lit, len>>
    BY <1>7 DEF Interrupt, PruStart, PruRaise, PruRead, PruAckExit, PruDone,
                PruExit, PruHalt, pruVars
  <2>2. \A q \in Pru : pruPc'[q] = "word" => pruPc[q] = "word"
    BY <1>0, <1>7 DEF Interrupt, PruStart, PruRaise, PruRead, PruAckExit,
                      PruDone, PruExit, PruHalt, pruVars
  <2> QED
    BY <1>0, <2>1, <2>2, LitStutter
<1>8. ASSUME NEW p \in Pru, PruAckStart(p) PROVE LitInv'
  <2>1. /\ UNCHANGED <<frame, lit>> /\ len'[p] = NumPixels
        /\ \A q \in Pru : q # p => len'[q] = len[q] /\ pruPc'[q] = pruPc[q]
    BY <1>0, <1>8 DEF PruAckStart
  <2>2. \A x \in Pixel : ~(x <= NumPixels - len'[p])
    BY <2>1 DEF Pixel
  <2>3. len'[p] > 0
    BY <2>1
  <2> QED
    BY <1>0, <2>1, <2>2, <2>3 DEF LitInv
<1>9. ASSUME NEW p \in Pru, PruWord(p) PROVE LitInv'
  <2>1. WordFacts(p)
    BY <1>0, <1>9, PruWordEffect
  <2>2. PICK x0 \in Pixel : x0 = NumPixels - len[p] + 1
    BY <2>1 DEF WordFacts, Pixel
  <2>3. \A x \in Pixel : ddr[p][x] = frame
    BY <2>1 DEF WordFacts, NoTornFrame
  <2>4. \A q \in Pru, x \in Pixel : lit'[q][x] = IF q = p /\ x = x0 THEN frame ELSE lit[q][x]
    BY <2>1, <2>2, <2>3 DEF WordFacts
  <2>5. \A q \in Pru, x \in Pixel : lit[q][x] \in Nat /\ lit[q][x] <= frame
    BY <1>0 DEF LitInv
  <2>6. ASSUME NEW x \in Pixel, x < x0 PROVE lit[p][x] = frame
    <3>1. x <= NumPixels - len[p]
      BY <1>0, <2>2, <2>6 DEF Pixel
    <3> QED
      BY <1>0, <2>1, <3>1 DEF WordFacts, LitInv
  <2>7. frame' = frame
    BY <2>1 DEF WordFacts
  <2>8. ASSUME NEW q \in Pru, NEW x \in Pixel PROVE lit'[q][x] <= frame'
    BY <1>0, <2>4, <2>5, <2>7
  <2>9. ASSUME NEW q \in Pru, NEW x \in Pixel, NEW y \in Pixel, x < y
        PROVE  lit'[q][x] >= lit'[q][y]
    <3>1. lit[q][x] >= lit[q][y]
      BY <1>0, <2>9 DEF LitInv
    <3>2. CASE q # p
      BY <2>4, <3>1, <3>2
    <3>3. CASE q = p /\ y = x0
      BY <1>0, <2>4, <2>6, <2>9, <3>3
    <3>4. CASE q = p /\ y # x0
      BY <1>0, <2>4, <2>5, <3>1, <3>4
    <3> QED
      BY <3>2, <3>3, <3>4
  <2>10. ASSUME NEW q \in Pru, pruPc'[q] = "word"
         PROVE  /\ len'[q] > 0
                /\ \A x \in Pixel : x <= NumPixels - len'[q] => lit'[q][x] = frame'
    <3>1. CASE q = p
      <4>1. len[p] > 1 /\ len'[p] = len[p] - 1 /\ len[p] \in Nat
        BY <1>0, <2>1, <2>10, <3>1 DEF WordFacts
      <4>2. \A x \in Pixel : x <= NumPixels - len'[p] => x < x0 \/ x = x0
        BY <2>2, <4>1 DEF Pixel
      <4> QED
        BY <2>4, <2>6, <2>7, <3>1, <4>1, <4>2
    <3>2. CASE q # p
      <4>1. len'[q] = len[q] /\ pruPc[q] = "word"
        BY <1>0, <2>1, <2>10, <3>2 DEF WordFacts
      <4> QED
        BY <1>0, <2>4, <2>7, <3>2, <4>1 DEF LitInv
    <3> QED
      BY <3>1, <3>2
  <2> QED
    BY <2>8, <2>9, <2>10 DEF LitInv
<1>10. ASSUME NEW p \in Pru, PruTimeout(p) PROVE LitInv'
  <2>1. /\ UNCHANGED <<frame, lit>> /\ pruPc'[p] # "word"
        /\ \A q \in Pru : q # p => len'[q] = len[q] /\ pruPc'[q] = pruPc[q]
    BY <1>0, <1>10 DEF PruTimeout
  <2> QED
    BY <1>0, <2>1 DEF LitInv
<1>11. CASE UNCHANGED vars
  BY <1>0, <1>11, LitStutter DEF vars
<1> QED
  BY <1>1, <1>2, <1>3, <1>4, <1>5, <1>6, <1>7, <1>8, <1>9, <1>10, <1>11
  DEF Next, Arm, ArmDraw, Program

\* A PRU that reads a frame in DDR is at work, and keeps the ARM out of it.
LEMMA WholeFrames == IInv => NoTornFrame
<1> SUFFICES ASSUME IInv, NEW p \in Pru, pruPc[p] \in {"ackStart", "word"}
             PROVE  dma[p] /\ \A q \in Pru, x \in Pixel : ddr[q][x] = frame
  BY DEF NoTornFrame
<1>1. Working(p) /\ armPc # "init"
  BY DEF Working, IInv, BootInv
<1>2. dma[p] /\ armPc # "copy"
  BY <1>1 DEF IInv, WorkInv, Writing
<1> QED
  BY <1>2 DEF IInv, CopyInv

LEMMA LitStep == IInv /\ [Next]_vars => LitInv'
<1> SUFFICES ASSUME IInv, [Next]_vars PROVE LitInv'
  OBVIOUS
<1>1. TypeOK /\ LitInv /\ NoTornFrame
  BY WholeFrames DEF IInv
<1>2. WaitReturns => \A p \in Pru : pruPc[p] # "word"
  BY DEF IInv, WorkInv, Working, WaitReturns
<1> QED BY <1>1, <1>2, LitKept

-----------------------------------------------------------------------------
(* What the ARM waits for.                                                   *)

\* The steps between two accesses to the interrupt controller do not touch it.
LEMMA WakeKept ==
  ASSUME hostEn \in [Pru -> BOOLEAN], uio \in BOOLEAN, armPru \in Pru, [Next]_vars,
         mapped => hostEn[0] \/ uio \/ (armPc \in {"clear", "enable"} /\ armPru = 0)
  PROVE  mapped' => hostEn'[0] \/ uio' \/ (armPc' \in {"clear", "enable"} /\ armPru' = 0)
<1>1. CASE InitPrus
  BY <1>1 DEF InitPrus, Pru
<1>2. CASE WaitEvent
  BY <1>2 DEF WaitEvent
<1>3. CASE ClearEvent
  BY <1>3 DEF ClearEvent
<1>4. CASE EnableHost
  BY <1>4 DEF EnableHost, Pru
<1>5. ASSUME NEW h \in Pru, Interrupt(h)
      PROVE  mapped' => hostEn'[0] \/ uio' \/ (armPc' \in {"clear", "enable"} /\ armPru' = 0)
  BY <1>5 DEF Interrupt, armVars, Pru
<1>6. CASE ExecPru \/ SpinStarted \/ ArmDraw \/ ArmClose
  <2>1. UNCHANGED <<hostEn, uio>> /\ armPc \notin {"clear", "enable"} /\ (mapped' => mapped)
    BY <1>6 DEF ExecPru, SpinStarted, ArmDraw, Draw, WaitAgain, WaitReturns,
       CopyPixel, SetDma, CommandsClear, ZeroResponse, SendStart, ArmClose, Close,
       SendAbort, DisablePru, intcVars
  <2> QED BY <2>1
<1>8. CASE Fault
  BY <1>8 DEF Fault
<1>7. CASE UNCHANGED vars \/ \E p \in Pru : Program(p)
  <2>1. UNCHANGED <<armPc, armPru, mapped, hostEn, uio>>
    BY <1>7 DEF vars, Program, PruStart, PruRaise, PruRead, PruAckStart, PruAckExit,
       PruWord, PruTimeout, PruDone, PruExit, PruHalt, armVars, intcVars
  <2> QED BY <2>1
<1> QED
  BY <1>1, <1>2, <1>3, <1>4, <1>5, <1>6, <1>7, <1>8 DEF Next, Arm, ArmInit, ArmWait

\* The answers ledscape_init_with_programs spins for are on their way.
LEMMA AnswerKept ==
  ASSUME CtlOK, WaitInv, [Next]_vars
  PROVE  armPc' \in {"exec", "spin"} => \A p \in Pru :
           /\ p < armPru' => response'[p] # 0
           /\ p = armPru' /\ armPc' = "spin" => response'[p] # 0 \/ pruPc'[p] = "start"
<1> SUFFICES ASSUME armPc' \in {"exec", "spin"}, NEW p \in Pru
             PROVE  /\ p < armPru' => response'[p] # 0
                    /\ p = armPru' /\ armPc' = "spin" => response'[p] # 0 \/ pruPc'[p] = "start"
  OBVIOUS
<1> USE DEF CtlOK, Pru
<1>1. CASE InitPrus
  BY <1>1 DEF InitPrus
<1>2. CASE ExecPru
  BY <1>2 DEF ExecPru, WaitInv, ramVars
<1>3. CASE SpinStarted
  BY <1>3 DEF SpinStarted, WaitInv, ramVars, pruVars
<1>4. ~ArmWait /\ ~ArmDraw /\ ~ArmClose
  BY DEF ArmWait, WaitEvent, ClearEvent, Fault, EnableHost, ArmDraw, Draw, WaitAgain,
     WaitReturns, CopyPixel, SetDma, CommandsClear, ZeroResponse, SendStart, ArmClose,
     Close, SendAbort, DisablePru
<1>5. ASSUME NEW q \in Pru, Program(q)
      PROVE  /\ p < armPru' => response'[p] # 0
             /\ p = armPru' /\ armPc' = "spin" => response'[p] # 0 \/ pruPc'[p] = "start"
  <2>1. /\ UNCHANGED <<armPc, armPru>>
        /\ response[p] # 0 => response'[p] # 0
        /\ pruPc[p] = "start" => response'[p] # 0 \/ pruPc'[p] = "start"
    BY <1>5 DEF Program, PruStart, PruRaise, PruRead, PruAckStart, PruAckExit, PruWord,
       PruTimeout, PruDone, PruExit, PruHalt, armVars, ramVars
  <2> QED BY <2>1 DEF WaitInv
<1>6. CASE UNCHANGED vars \/ \E q \in Pru : Interrupt(q)
  <2>1. UNCHANGED <<armPc, armPru, response, pruPc>>
    BY <1>6 DEF vars, Interrupt, armVars, ramVars, pruVars
  <2> QED BY <2>1 DEF WaitInv
<1> QED
  BY <1>1, <1>2, <1>3, <1>4, <1>5, <1>6 DEF Next, Arm, ArmInit

\* The PRU whose response is missing has a frame to finish.
Owed(p) == response[p] # 0 \/ Working(p) \/ armPc = "zero" \/ (armPc = "send" /\ p >= armPru)

LEMMA OwedKept ==
  ASSUME CtlOK, WaitInv, armPc \notin Starting => WorkInv /\ CloseInv, [Next]_vars
  PROVE  ~Closing' /\ armPc' \notin Starting => \A p \in Pru : Owed(p)'
<1> SUFFICES ASSUME ~Closing', armPc' \notin Starting, NEW p \in Pru PROVE Owed(p)'
  OBVIOUS
<1>0. ~Closing /\ armPc \notin Starting => WorkInv /\ CloseInv /\ Owed(p)
  BY DEF WaitInv, Owed
<1> USE DEF CtlOK, Pru, Owed, Working
<1>1. CASE InitPrus \/ ExecPru
  BY <1>1 DEF InitPrus, ExecPru, Starting
<1>2. CASE SpinStarted
  BY <1>2 DEF SpinStarted, WaitInv, Starting, ramVars
<1>3. CASE ArmWait \/ Draw \/ WaitAgain \/ CopyPixel \/ SetDma \/ CommandsClear \/ Close
  <2>1. /\ armPc \notin Starting \cup {"zero", "send"} /\ UNCHANGED <<command, response, pruPc>>
        /\ Closing => Closing'
    BY <1>3 DEF ArmWait, WaitEvent, ClearEvent, Fault, EnableHost, Draw, WaitAgain,
       CopyPixel, SetDma, CommandsClear, Close, Starting, Closing, ramVars, pruVars
  <2> QED BY <1>0, <2>1
<1>4. CASE WaitReturns
  <2>1. response[p] # 0 /\ response' = response
    BY <1>4 DEF WaitReturns, ramVars
  <2> QED BY <2>1
<1>5. CASE ZeroResponse
  BY <1>5 DEF ZeroResponse
<1>6. CASE SendStart
  <2>1. /\ armPc = "send" /\ UNCHANGED <<cont, response, pruPc>>
        /\ command' = [command EXCEPT ![armPru] = 1]
        /\ armPru = 0 => armPc' = "send" /\ armPru' = 1
    BY <1>6 DEF SendStart, pruVars
  <2>2. Owed(p)
    BY <1>0, <2>1 DEF Starting, Closing, CloseInv
  <2> QED BY <2>1, <2>2
<1>7. CASE SendAbort \/ DisablePru
  BY <1>7 DEF SendAbort, DisablePru, Closing
<1>8. ASSUME NEW q \in Pru, Program(q) PROVE Owed(p)'
  <2>1. UNCHANGED <<armPc, armPru, cont>>
    BY <1>8 DEF Program, PruStart, PruRaise, PruRead, PruAckStart, PruAckExit, PruWord,
       PruTimeout, PruDone, PruExit, PruHalt, armVars
  <2>2. WorkInv /\ CloseInv /\ Owed(p) /\ ~Closing
    BY <1>0, <2>1 DEF Closing
  <2>3. pruPc[p] \notin ExitPc /\ command[p] # 255
    BY <2>2 DEF CloseInv
  <2>4. /\ response[p] # 0 => response'[p] # 0
        /\ Working(p) => Working(p)' \/ response'[p] # 0
    BY <1>8, <2>3 DEF Program, PruStart, PruRaise, PruRead, PruAckStart, PruAckExit, PruWord,
       PruTimeout, PruDone, PruExit, PruHalt, ramVars, ExitPc
  <2> QED BY <2>1, <2>2, <2>4
<1>9. CASE UNCHANGED vars \/ \E q \in Pru : Interrupt(q)
  <2>1. UNCHANGED <<armPc, armPru, cont, command, response, pruPc>>
    BY <1>9 DEF vars, Interrupt, armVars, ramVars, pruVars
  <2> QED BY <1>0, <2>1 DEF Closing
<1> QED
  BY <1>1, <1>2, <1>3, <1>4, <1>5, <1>6, <1>7, <1>8, <1>9
  DEF Next, Arm, ArmInit, ArmDraw, ArmClose

\* Also for a process that was started again, whatever the data RAM held.
LEMMA WaitKept ==
  ASSUME TypeOK, WaitInv, armPc \notin Starting => WorkInv /\ CloseInv, [Next]_vars
  PROVE  WaitInv'
<1>1. /\ CtlOK /\ hostEn \in [Pru -> BOOLEAN] /\ uio \in BOOLEAN /\ armPru \in Pru
      /\ mapped => hostEn[0] \/ uio \/ (armPc \in {"clear", "enable"} /\ armPru = 0)
  BY CtlTypes DEF TypeOK, WaitInv
<1> QED
  BY <1>1, WakeKept, AnswerKept, OwedKept DEF WaitInv, Owed

\* A process that has started both programs, and is not closing, meets PRUs that
\* come round to their events.
LEMMA WaitsAreReal ==
  ASSUME CtlOK, WaitInv, armPc \notin Starting => Started /\ WorkInv /\ CloseInv
  PROVE  NoWaitInVain
<1> SUFFICES ASSUME ~Closing
             PROVE  /\ armPc = "spin" => response[armPru] # 0 \/ pruPc[armPru] = "start"
                    /\ armPc = "wait" => (uio \/ hostEn[0]) /\ Running(0)
                    /\ armPc \in {"wait", "clear", "enable", "test"} =>
                         \A p \in Pru : response[p] # 0 \/ Working(p)
                    /\ armPc = "busy" => \A p \in Pru : command[p] = 0
  BY DEF NoWaitInVain
<1>1. armPc = "spin" => response[armPru] # 0 \/ pruPc[armPru] = "start"
  BY DEF WaitInv, CtlOK, Pru
<1>2. armPc = "wait" => (uio \/ hostEn[0]) /\ Running(0)
  BY DEF WaitInv, CloseInv, Closing, Started, CtlOK, Starting, Running, PruPc, ExitPc, Pru
<1>3. armPc \in {"wait", "clear", "enable", "test"} =>
        \A p \in Pru : response[p] # 0 \/ Working(p)
  BY DEF WaitInv, Starting
<1>4. armPc = "busy" => \A p \in Pru : command[p] = 0
  BY DEF WorkInv, CloseInv, Started, CtlOK, Starting, Writing, Working
<1> QED
  BY <1>1, <1>2, <1>3, <1>4

-----------------------------------------------------------------------------
(* The theorems.                                                             *)

\* The power-on states satisfy the invariant, whatever data RAM holds.
LEMMA InitIInv == Init => IInv
<1> SUFFICES ASSUME Init PROVE IInv
  OBVIOUS
<1> USE ConstantsAssumption DEF Init, Pru
<1>1. TypeOK
  <2>1. 0 \in 0 .. NumPixels - 1 /\ 0 \in 0 .. NumPixels
    OBVIOUS
  <2>2. /\ command \in [Pru -> {0, 1, 255}] /\ response \in [Pru -> {0, 1, 255}]
        /\ ddr \in [Pru -> [Pixel -> Nat]] /\ lit \in [Pru -> [Pixel -> Nat]]
    OBVIOUS
  <2>3. len \in [Pru -> 0 .. NumPixels] /\ copied \in 0 .. NumPixels - 1
    BY <2>1
  <2> QED
    BY <2>2, <2>3 DEF TypeOK, ArmPc, PruPc
<1>2. BootInv /\ CopyInv /\ LitInv /\ WaitInv
  BY DEF BootInv, CopyInv, LitInv, WaitInv, Starting, Pixel
<1> QED
  BY <1>1, <1>2 DEF IInv

\* IInv holds throughout: the hand-shake keeps its invariant for every number
\* of pixels and of frames.
THEOREM Invariance == Spec => []IInv
<1>1. IInv /\ [Next]_vars => IInv'
  BY TypeStep, BootStep, CopyStep, WorkStep, CloseStep, ShowStep, LitStep,
     WaitKept DEF IInv, Starting
<1> QED
  BY InitIInv, <1>1, PTL DEF Spec

\* Every variable keeps its type; in particular a PRU's pixel counter never
\* wraps below zero (ws281x.p:178).
THEOREM TypeCorrect == Spec => []TypeOK
<1>1. IInv => TypeOK
  BY DEF IInv
<1> QED
  BY <1>1, Invariance, PTL

\* ledscape_draw never writes to DDR while a PRU reads the frame there.
THEOREM FramesAreWhole == Spec => []NoTornFrame
BY WholeFrames, Invariance, PTL

\* A frame cut short leaves older pixels at the far end of a strip only.
THEOREM OldPixelsAreATail == Spec => []OnlyTailIsOld
<1>1. IInv => OnlyTailIsOld
  BY DEF IInv, LitInv, OnlyTailIsOld
<1> QED
  BY <1>1, Invariance, PTL

\* Start-up, pru_wait_interrupt, ledscape_wait and the busy wait always wait for
\* something that is on its way.
THEOREM WaitsAreAnswered == Spec => []NoWaitInVain
<1>1. IInv => NoWaitInVain
  <2> SUFFICES ASSUME IInv PROVE NoWaitInVain
    OBVIOUS
  <2>1. /\ CtlOK /\ BootInv /\ WaitInv /\ (armPc # "init" => WorkInv /\ CloseInv)
    BY CtlTypes DEF IInv
  <2> QED BY <2>1, WaitsAreReal DEF BootInv, Started, Starting
<1> QED
  BY <1>1, Invariance, PTL

\* A PRU begins every frame once and in order.
THEOREM FramesInOrder == Spec => EachFrameOnce
<1>1. IInv /\ [Next]_vars =>
        [\A p \in Pru : (pruPc[p] = "ackStart" /\ pruPc'[p] = "word") =>
           showing'[p] = showing[p] + 1]_vars
  <2> SUFFICES ASSUME IInv, Next, NEW p \in Pru,
                      pruPc[p] = "ackStart", pruPc'[p] = "word"
               PROVE  showing'[p] = showing[p] + 1
    OBVIOUS
  <2>1. pruPc \in [Pru -> PruPc] /\ showing \in [Pru -> Nat]
    BY DEF IInv, TypeOK
  <2>2. PruAckStart(p)
    <3>1. CASE Arm
      BY <2>1, <3>1 DEF Arm, ArmInit, ArmWait, ArmDraw, ArmClose, InitPrus, ExecPru,
        SpinStarted, WaitEvent, ClearEvent, Fault, EnableHost, Draw, WaitAgain,
        WaitReturns, CopyPixel, SetDma, CommandsClear, ZeroResponse, SendStart,
        Close, SendAbort, DisablePru, pruVars
    <3>2. ASSUME NEW q \in Pru, Interrupt(q) \/ Program(q) PROVE PruAckStart(p)
      BY <2>1, <3>2 DEF Interrupt, Program, PruStart, PruRaise, PruRead, PruAckStart,
        PruAckExit, PruWord, PruTimeout, PruDone, PruExit, PruHalt, pruVars
    <3> QED
      BY <3>1, <3>2 DEF Next
  <2>3. armPc # "init" /\ showing[p] + 1 = frame
    BY DEF IInv, BootInv, ShowInv
  <2> QED
    BY <2>1, <2>2, <2>3 DEF PruAckStart
<1> QED
  BY <1>1, Invariance, PTL DEF Spec, EachFrameOnce

\* A step of PRU 0's program raises its event or brings it closer, unless it is
\* on its way out or has just been loaded.
LEMMA ProgramNearsEvent ==
  ASSUME TypeOK, LitInv, Program(0), Running(0), command[0] # 255
  PROVE  EventComesCloser
<1> USE ConstantsAssumption DEF Pru
<1>1. /\ pruPc \in [Pru -> PruPc] /\ len \in [Pru -> 0 .. NumPixels]
      /\ sysevt \in [Pru -> BOOLEAN]
  BY DEF TypeOK
<1>2. CASE PruRaise(0)
  BY <1>1, <1>2 DEF PruRaise, EventComesCloser
<1>3. CASE PruDone(0)
  <2>1. pruPc[0] = "done" /\ pruPc'[0] = "raise"
    BY <1>1, <1>3 DEF PruDone
  <2> QED BY <2>1 DEF EventComesCloser, StepsToEvent, Running
<1>4. CASE PruRead(0)
  <2>1. pruPc[0] = "read" /\ pruPc'[0] \in {"raise", "ackStart"}
    BY <1>1, <1>4 DEF PruRead
  <2> QED BY <2>1 DEF EventComesCloser, StepsToEvent, Running
<1>5. CASE PruAckStart(0)
  <2>1. pruPc[0] = "ackStart" /\ pruPc'[0] = "word" /\ len'[0] = NumPixels
    BY <1>1, <1>5 DEF PruAckStart
  <2> QED BY <2>1 DEF EventComesCloser, StepsToEvent, Running
<1>6. CASE PruWord(0)
  <2>1. WordFacts(0)
    BY <1>6, PruWordEffect
  <2>2. /\ pruPc[0] = "word" /\ pruPc'[0] \in {"word", "done"}
        /\ len[0] \in Nat /\ len[0] >= 1 /\ len'[0] = len[0] - 1
    BY <1>1, <2>1 DEF WordFacts
  <2> QED BY <2>2 DEF EventComesCloser, StepsToEvent, Running
<1>7. CASE PruTimeout(0)
  <2>1. pruPc[0] = "word" /\ pruPc'[0] = "done" /\ len[0] > 0 /\ len[0] \in Nat
    BY <1>1, <1>7 DEF PruTimeout, LitInv
  <2> QED BY <2>1 DEF EventComesCloser, StepsToEvent, Running
<1>8. ~PruStart(0) /\ ~PruAckExit(0) /\ ~PruExit(0) /\ ~PruHalt(0)
  BY DEF Running, PruStart, PruAckExit, PruExit, PruHalt
<1> QED
  BY <1>2, <1>3, <1>4, <1>5, <1>6, <1>7, <1>8 DEF Program

\* No wake-up is lost: while ledscape_wait sleeps its event stays pending on an
\* enabled line or comes closer, until the kernel wakes it (pru.c:97-106).
THEOREM SleepersAreWoken == Spec => WakeUpComesCloser
<1>1. IInv /\ Next =>
        (armPc = "wait" /\ ~Closing /\ ~uio /\ ~uio' =>
           /\ armPc' = "wait" /\ ~Closing' /\ hostEn'[0]
           /\ sysevt[0] => sysevt'[0]
           /\ ~sysevt[0] => EventComesCloser \/ UNCHANGED <<pruPc[0], len[0]>>)
  <2> SUFFICES ASSUME IInv, Next, armPc = "wait", ~Closing, ~uio, ~uio'
               PROVE  /\ armPc' = "wait" /\ ~Closing' /\ hostEn'[0]
                      /\ sysevt[0] => sysevt'[0]
                      /\ ~sysevt[0] => EventComesCloser \/ UNCHANGED <<pruPc[0], len[0]>>
    OBVIOUS
  <2> USE DEF Pru
  <2>1. /\ CtlOK /\ TypeOK /\ LitInv /\ BootInv /\ WaitInv
        /\ armPc # "init" => WorkInv /\ CloseInv
    BY CtlTypes DEF IInv
  <2>2. NoWaitInVain
    BY <2>1, WaitsAreReal DEF BootInv, Started, Starting
  <2>3. hostEn[0] /\ Running(0) /\ mapped /\ command[0] # 255
    BY <2>1, <2>2 DEF NoWaitInVain, CloseInv, Closing
  <2>4. sysevt \in [Pru -> BOOLEAN] /\ hostEn \in [Pru -> BOOLEAN]
    BY <2>1 DEF TypeOK
  <2>5. ~Arm
    BY <2>3 DEF Arm, ArmInit, ArmWait, ArmDraw, ArmClose, InitPrus, ExecPru,
        SpinStarted, WaitEvent, ClearEvent, Fault, EnableHost, Draw, WaitAgain,
        WaitReturns, CopyPixel, SetDma, CommandsClear, ZeroResponse, SendStart,
        Close, SendAbort, DisablePru
  <2>6. ASSUME NEW h \in Pru, Interrupt(h)
        PROVE  /\ UNCHANGED <<armPc, cont, sysevt, pruPc, len>> /\ hostEn'[0]
    BY <2>3, <2>4, <2>6 DEF Interrupt, armVars, pruVars
  <2>7. ASSUME NEW p \in Pru, Program(p)
        PROVE  /\ UNCHANGED <<armPc, cont, hostEn>> /\ (sysevt[0] => sysevt'[0])
               /\ p = 0 => EventComesCloser
               /\ p # 0 => UNCHANGED <<pruPc[0], len[0]>>
    <3>1. UNCHANGED <<armPc, cont, hostEn>> /\ (sysevt[0] => sysevt'[0])
      BY <2>4, <2>7 DEF Program, PruStart, PruRaise, PruRead, PruAckStart, PruAckExit,
         PruWord, PruTimeout, PruDone, PruExit, PruHalt, armVars, intcVars
    <3>2. ASSUME p # 0 PROVE UNCHANGED <<pruPc[0], len[0]>>
      BY <2>1, <2>7, <3>2 DEF TypeOK, Program, PruStart, PruRaise, PruRead, PruAckStart,
         PruAckExit, PruWord, PruTimeout, PruDone, PruExit, PruHalt
    <3>3. p = 0 => EventComesCloser
      BY <2>1, <2>3, <2>7, ProgramNearsEvent
    <3> QED BY <3>1, <3>2, <3>3
  <2> QED
    BY <2>3, <2>5, <2>6, <2>7 DEF Next, Closing
<1> QED
  BY <1>1, Invariance, PTL DEF Spec, WakeUpComesCloser

-----------------------------------------------------------------------------
(* PruHandshake implements FrameChannel: publishing is the return of         *)
(* ledscape_wait, taking is the acknowledgement, finishing is the response   *)
(* (or pru_close disabling a PRU in mid frame); every other step stutters.   *)

\* Steps that change neither the frame number nor whether a PRU is busy.
LEMMA ChannelStutter ==
  ASSUME UNCHANGED <<frame, showing>>,
         \A p \in Pru : pruPc'[p] \in {"word", "done"} <=> pruPc[p] \in {"word", "done"}
  PROVE  UNCHANGED Channel!vars
BY DEF Channel!vars

\* A step that makes PRU p busy or idle, and leaves the other PRU's state alone.
LEMMA BusyUpdate ==
  ASSUME NEW p \in Pru, NEW b \in BOOLEAN,
         \A q \in Pru : (pruPc'[q] \in {"word", "done"})
                         = (IF q = p THEN b ELSE pruPc[q] \in {"word", "done"})
  PROVE  [q \in Pru |-> pruPc'[q] \in {"word", "done"}]
         = [[q \in Pru |-> pruPc[q] \in {"word", "done"}] EXCEPT ![p] = b]
BY Zenon

\* The same for a step that only makes p idle: FrameChannel's Finish.
LEMMA BusyCleared ==
  ASSUME NEW p \in Pru, pruPc'[p] \notin {"word", "done"},
         \A q \in Pru : q # p => pruPc'[q] = pruPc[q]
  PROVE  [q \in Pru |-> pruPc'[q] \in {"word", "done"}]
         = [[q \in Pru |-> pruPc[q] \in {"word", "done"}] EXCEPT ![p] = FALSE]
<1>1. ASSUME NEW q \in Pru
      PROVE  (pruPc'[q] \in {"word", "done"})
             = (IF q = p THEN FALSE ELSE pruPc[q] \in {"word", "done"})
  <2>1. CASE q = p
    <3>1. (pruPc'[q] \in {"word", "done"}) = FALSE
      BY <2>1
    <3> QED
      BY <2>1, <3>1, Zenon
  <2>2. CASE q # p
    BY <2>2, Zenon
  <2> QED
    BY <2>1, <2>2
<1> QED
  BY <1>1, BusyUpdate, Zenon

\* Every step of the hand-shake is a step of the channel, or stutters.
LEMMA ChannelStep == IInv /\ [Next]_vars => [Channel!Next]_(Channel!vars)
<1> SUFFICES ASSUME IInv, [Next]_vars PROVE [Channel!Next]_(Channel!vars)
  OBVIOUS
<1>0. /\ pruPc \in [Pru -> PruPc] /\ showing \in [Pru -> Nat]
      /\ response \in [Pru -> {0, 1, 255}] /\ frame \in Nat
  BY DEF IInv, TypeOK
<1>1. CASE ArmInit
  <2>1. UNCHANGED <<frame, showing>>
    BY <1>1 DEF ArmInit, InitPrus, ExecPru, SpinStarted, pruVars
  <2>2. \A p \in Pru : pruPc'[p] \in {"word", "done"} <=> pruPc[p] \in {"word", "done"}
    BY <1>0, <1>1 DEF ArmInit, InitPrus, ExecPru, SpinStarted, pruVars, IInv, BootInv
  <2> QED
    BY <2>1, <2>2, ChannelStutter
<1>2. CASE ArmWait \/ Draw \/ WaitAgain \/ CopyPixel \/ SetDma \/ CommandsClear
           \/ ZeroResponse \/ SendStart \/ Close \/ SendAbort
  <2>1. UNCHANGED <<frame, showing, pruPc>>
    BY <1>2 DEF ArmWait, WaitEvent, ClearEvent, Fault, EnableHost, Draw, WaitAgain,
      CopyPixel, SetDma, CommandsClear, ZeroResponse, SendStart, Close, SendAbort,
      pruVars
  <2> QED
    BY <2>1, ChannelStutter
<1>3. CASE WaitReturns
  <2>1. /\ armPc = "test" /\ \A p \in Pru : response[p] # 0
        /\ frame' = frame + 1 /\ UNCHANGED <<pruPc, showing>>
    BY <1>3 DEF WaitReturns, pruVars
  <2>2. cont = "draw" /\ ~Closing /\ frame < MaxFrames
    BY <2>1 DEF IInv, CloseInv, ShowInv, Closing
  <2>3. \A p \in Pru : showing[p] = frame /\ pruPc[p] \notin {"word", "done"}
    BY <2>1, <2>2 DEF IInv, ShowInv, WorkInv, Working, Writing
  <2>4. Channel!Publish
    BY <2>1, <2>2, <2>3 DEF Channel!Publish
  <2> QED
    BY <2>4 DEF Channel!Next
<1>4. CASE DisablePru
  <2>1. PICK p \in Pru : pruPc' = [pruPc EXCEPT ![p] = "off"]
    BY <1>4 DEF DisablePru, Pru
  <2>2. UNCHANGED <<frame, showing>>
    BY <1>4 DEF DisablePru
  <2>3. CASE pruPc[p] \in {"word", "done"}
    <3>1. /\ pruPc'[p] \notin {"word", "done"}
          /\ \A q \in Pru : q # p => pruPc'[q] = pruPc[q]
      BY <1>0, <2>1
    <3>2. Channel!Finish(p)
      BY <2>2, <2>3, <3>1, BusyCleared DEF Channel!Finish
    <3> QED
      BY <3>2 DEF Channel!Next
  <2>4. CASE pruPc[p] \notin {"word", "done"}
    BY <1>0, <2>1, <2>2, <2>4, ChannelStutter
  <2> QED
    BY <2>3, <2>4
<1>5. ASSUME NEW p \in Pru,
             Interrupt(p) \/ PruStart(p) \/ PruRaise(p) \/ PruRead(p)
             \/ PruAckExit(p) \/ PruWord(p) \/ PruTimeout(p) \/ PruExit(p) \/ PruHalt(p)
      PROVE  UNCHANGED Channel!vars
  <2>1. UNCHANGED <<frame, showing>>
    BY <1>5 DEF Interrupt, PruStart, PruRaise, PruRead, PruAckExit, PruWord,
      PruTimeout, PruExit, PruHalt, pruVars
  <2>2. \A q \in Pru : pruPc'[q] \in {"word", "done"} <=> pruPc[q] \in {"word", "done"}
    BY <1>0, <1>5 DEF Interrupt, PruStart, PruRaise, PruRead, PruAckExit, PruWord,
      PruTimeout, PruExit, PruHalt, pruVars
  <2> QED
    BY <2>1, <2>2, ChannelStutter
<1>6. ASSUME NEW p \in Pru, PruAckStart(p) PROVE Channel!Next
  <2>1. showing[p] + 1 = frame
    BY <1>6 DEF PruAckStart, IInv, BootInv, ShowInv
  <2>2. /\ showing' = [showing EXCEPT ![p] = frame] /\ frame' = frame
        /\ pruPc' = [pruPc EXCEPT ![p] = "word"]
    BY <1>6 DEF PruAckStart
  <2>3. \A q \in Pru : (pruPc'[q] \in {"word", "done"})
                        = (IF q = p THEN TRUE ELSE pruPc[q] \in {"word", "done"})
    BY <1>0, <2>2
  <2>4. showing[p] < frame
    BY <1>0, <2>1
  <2>5. Channel!Take(p)
    BY <2>2, <2>3, <2>4, BusyUpdate DEF Channel!Take
  <2> QED
    BY <2>5 DEF Channel!Next
<1>7. ASSUME NEW p \in Pru, PruDone(p) PROVE Channel!Next
  <2>1. /\ pruPc[p] = "done" /\ pruPc' = [pruPc EXCEPT ![p] = "raise"]
        /\ UNCHANGED <<frame, showing>>
    BY <1>7 DEF PruDone
  <2>2. /\ pruPc'[p] \notin {"word", "done"}
        /\ \A q \in Pru : q # p => pruPc'[q] = pruPc[q]
    BY <1>0, <2>1
  <2>3. Channel!Finish(p)
    BY <2>1, <2>2, BusyCleared DEF Channel!Finish
  <2> QED
    BY <2>3 DEF Channel!Next
<1>8. CASE UNCHANGED vars
  BY <1>8, ChannelStutter DEF vars
<1> QED
  BY <1>1, <1>2, <1>3, <1>4, <1>5, <1>6, <1>7, <1>8
  DEF Next, Arm, ArmDraw, ArmClose, Program

\* Initial states map to initial states, and every step to a step or a stutter.
THEOREM ChannelImplemented == Spec => ImplementsChannel
<1>1. Init => Channel!Init
  <2> SUFFICES ASSUME Init PROVE Channel!Init
    OBVIOUS
  <2>1. \A p \in Pru : (pruPc[p] \in {"word", "done"}) = FALSE
    BY DEF Init
  <2>2. [p \in Pru |-> pruPc[p] \in {"word", "done"}] = [p \in Pru |-> FALSE]
    BY <2>1, Zenon
  <2> QED
    BY <2>2 DEF Init, Channel!Init
<1> QED
  BY <1>1, ChannelStep, Invariance, PTL DEF Spec, ImplementsChannel, Channel!Safety
=============================================================================
