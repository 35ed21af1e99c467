-------------------------- MODULE PruRestartProofs --------------------------
(***************************************************************************)
(* Proofs about PruRestart, for every number of pixels, frames and deaths, *)
(* with and without ledscape_close.  While both programs are running the   *)
(* lemmas of PruHandshakeProofs apply; what is new is how a process gets   *)
(* there from what another one has left.                                   *)
(***************************************************************************)
EXTENDS PruRestart, PruHandshakeProofs

-----------------------------------------------------------------------------
(* The steps of the restarted system.                                        *)

\* A step is one of PruHandshake, out of start-up only when the PRUs have
\* drained, or a death.
LEMMA RestartSteps ==
  ASSUME [RNext]_rvars
  PROVE  \/ /\ [Next]_vars /\ crashes' = crashes
            /\ InitPrus => Drained
         \/ Crash
<1>1. CASE RArm
  BY <1>1 DEF RArm, Next, InitPrus
<1>2. ASSUME NEW p \in Pru, RInterrupt(p) \/ RProgram(p)
      PROVE  [Next]_vars /\ crashes' = crashes /\ armPc' = armPc
  BY <1>2 DEF RInterrupt, RProgram, Next, Interrupt, Program, PruStart, PruRaise, PruRead,
     PruAckStart, PruAckExit, PruWord, PruTimeout, PruDone, PruExit, PruHalt, armVars
<1>3. armPc' = armPc => ~InitPrus
  BY DEF InitPrus
<1>4. CASE UNCHANGED rvars
  BY <1>4, <1>3 DEF rvars, vars
<1> QED BY <1>1, <1>2, <1>3, <1>4 DEF RNext

\* Nobody has been told what to do, and no answer is on its way.
LEMMA DrainedIsIdle ==
  ASSUME Drained, NEW p \in Pru
  PROVE  pruPc[p] \in {"off", "halt", "raise", "read"}
BY DEF Drained

\* While the ARM starts the programs it does nothing else.
LEMMA StartingSteps ==
  ASSUME [Next]_vars, armPc \in Starting
  PROVE  \/ InitPrus \/ ExecPru \/ SpinStarted
         \/ \E p \in Pru : Interrupt(p) \/ Program(p)
         \/ UNCHANGED vars
BY DEF Next, Arm, ArmInit, Starting, ArmWait, WaitEvent, ClearEvent, Fault, EnableHost,
       ArmDraw, Draw, WaitAgain, WaitReturns, CopyPixel, SetDma, CommandsClear,
       ZeroResponse, SendStart, ArmClose, Close, SendAbort, DisablePru

\* It does not start them again.
LEMMA RunningSteps ==
  ASSUME [Next]_vars, armPc \notin Starting
  PROVE  /\ armPc' \notin Starting
         /\ \/ ArmWait \/ ArmDraw \/ ArmClose
            \/ \E p \in Pru : Interrupt(p) \/ Program(p)
            \/ UNCHANGED vars
<1>1. ~ArmInit
  BY DEF ArmInit, InitPrus, ExecPru, SpinStarted, Starting
<1>2. CASE ArmWait \/ ArmDraw \/ ArmClose
  BY <1>2 DEF Starting, ArmWait, WaitEvent, ClearEvent, Fault, EnableHost,
       ArmDraw, Draw, WaitAgain, WaitReturns, CopyPixel, SetDma, CommandsClear,
       ZeroResponse, SendStart, ArmClose, Close, SendAbort, DisablePru
<1>3. ASSUME NEW p \in Pru, Interrupt(p) \/ Program(p) PROVE armPc' = armPc
  BY <1>3 DEF Interrupt, Program, PruStart, PruRaise, PruRead, PruAckStart, PruAckExit,
       PruWord, PruTimeout, PruDone, PruExit, PruHalt, armVars
<1> QED BY <1>1, <1>2, <1>3 DEF Next, Arm, vars

\* What a step of a PRU's program does to the words it shares with the ARM.
ProgramFacts(p) ==
  /\ UNCHANGED <<armPc, armPru, cont, copied, mapped, frame, ddr, dma>>
  /\ \A q \in Pru : q # p => /\ pruPc'[q] = pruPc[q] /\ showing'[q] = showing[q]
                             /\ command'[q] = command[q] /\ response'[q] = response[q]
  /\ command'[p] \in {0, command[p]}
  /\ pruPc[p] \notin {"off", "halt"} /\ pruPc'[p] \notin {"off", "start"}
  /\ showing'[p] = IF pruPc[p] = "ackStart" THEN frame ELSE showing[p]
  /\ response'[p] # response[p] => pruPc[p] \in {"start", "done", "exit"}
  /\ pruPc[p] \in {"raise", "read"} /\ command[p] = 0 => pruPc'[p] \in {"raise", "read"}
  /\ pruPc[p] = "start" => pruPc'[p] = "raise" /\ command'[p] = command[p]
  /\ pruPc[p] = "raise" => pruPc'[p] = "read"
  /\ pruPc[p] = "read" /\ command[p] = 1 => pruPc'[p] = "ackStart"
  /\ pruPc[p] = "ackStart" => pruPc'[p] = "word" /\ command'[p] = 0
  /\ command'[p] # command[p] => pruPc[p] \in {"ackStart", "ackExit"}
  /\ pruPc'[p] = "ackStart" => pruPc[p] = "read" /\ command[p] = 1
  /\ pruPc'[p] \in {"word", "done"} => pruPc[p] \in {"ackStart", "word"}

LEMMA ProgramStep ==
  ASSUME CtlOK, NEW p \in Pru, Program(p) PROVE ProgramFacts(p)
BY DEF CtlOK, Program, ProgramFacts, PruStart, PruRaise, PruRead, PruAckStart, PruAckExit,
       PruWord, PruTimeout, PruDone, PruExit, PruHalt, armVars, ramVars

\* What is gone with the process, and what is not.
LEMMA CrashStep ==
  ASSUME Crash
  PROVE  /\ armPc' = "init" /\ armPru' = 0 /\ cont' = "draw" /\ copied' = 0
         /\ mapped' = FALSE /\ uio' = FALSE /\ crashes' = crashes + 1
         /\ UNCHANGED <<frame, ddr, dma, command, response, sysevt, hostEn,
                        pruPc, len, showing, lit>>
BY DEF Crash, ramVars, pruVars

\* Interrupts, and steps of nobody, touch nothing the invariant speaks of.
LEMMA QuietStep ==
  ASSUME UNCHANGED vars \/ \E p \in Pru : Interrupt(p)
  PROVE  UNCHANGED <<armPc, armPru, cont, copied, mapped, frame, ddr, dma, command,
                     response, pruPc, len, showing, lit>>
BY DEF vars, Interrupt, armVars, ramVars, pruVars

-----------------------------------------------------------------------------
(* The parts of the invariant, one lemma each.                               *)

LEMMA RTypeStep == RInv /\ [RNext]_rvars => TypeOK' /\ crashes' \in Nat
<1> SUFFICES ASSUME RInv, [RNext]_rvars PROVE TypeOK' /\ crashes' \in Nat
  OBVIOUS
<1> USE ConstantsAssumption
<1>1. CASE Crash
  <2>1. 0 \in 0 .. NumPixels - 1
    OBVIOUS
  <2> QED BY <1>1, <2>1, CrashStep DEF RInv, TypeOK, ArmPc, Pru
<1>2. CASE [Next]_vars /\ crashes' = crashes
  BY <1>2, TypeStep DEF RInv
<1> QED BY <1>1, <1>2, RestartSteps

\* A process meets idle programs and zeroed words, and leaves a PRU that has
\* answered before it loads the other.
LEMMA RBootStep == RInv /\ [RNext]_rvars => RBootInv'
<1> SUFFICES ASSUME RInv, [RNext]_rvars PROVE RBootInv'
  OBVIOUS
<1>0. CtlOK /\ RBootInv /\ (armPc \notin Starting => CloseInv)
  BY CtlTypes DEF RInv
<1>1. CASE Crash
  <2>1. \A p \in Pru : pruPc[p] = "start" => command[p] = 0
    BY <1>0 DEF RBootInv
  <2> QED BY <1>1, <2>1, CrashStep DEF RBootInv, Starting
<1>2. CASE InitPrus /\ Drained
  <2>1. /\ armPc' = "exec" /\ armPru' = 0 /\ cont' = "draw" /\ mapped' /\ UNCHANGED pruPc
        /\ \A p \in Pru : command'[p] = 0 /\ response'[p] = 0
    BY <1>2 DEF InitPrus, pruVars
  <2>2. \A p \in Pru : pruPc[p] \in {"off", "halt", "raise", "read"}
    BY <1>2, DrainedIsIdle
  <2> QED BY <2>1, <2>2 DEF RBootInv, Starting, Pru
<1>3. CASE ExecPru
  <2>1. /\ armPc = "exec" /\ armPc' = "spin" /\ pruPc'[armPru] = "start"
        /\ \A p \in Pru : p # armPru => pruPc'[p] = pruPc[p]
        /\ UNCHANGED <<armPru, cont, mapped, command, response>>
    BY <1>0, <1>3 DEF ExecPru, CtlOK, ramVars, Pru
  <2> QED BY <1>0, <2>1 DEF RBootInv, CtlOK, Starting, Pru
<1>4. CASE SpinStarted
  <2>1. /\ armPc = "spin" /\ response[armPru] # 0 /\ armPru' = 1
        /\ armPc' = IF armPru = 0 THEN "exec" ELSE "idle"
        /\ UNCHANGED <<cont, mapped, command, response, pruPc>>
    BY <1>4 DEF SpinStarted, ramVars, pruVars
  <2>2. \A p \in Pru : pruPc[p] # "start"
    BY <1>0, <2>1 DEF RBootInv, CtlOK, Pru
  <2> QED BY <1>0, <2>1, <2>2 DEF RBootInv, CtlOK, Starting, Pru
<1>5. CASE armPc \notin Starting /\ (ArmWait \/ ArmDraw \/ ArmClose)
  <2>1. CASE ArmWait \/ ArmDraw
    <3>1. /\ armPc \notin Starting \cup {"abort"}
          /\ armPc' \notin Starting \cup {"abort"} /\ UNCHANGED <<cont, pruPc>>
      BY <2>1 DEF ArmWait, WaitEvent, ClearEvent, Fault, EnableHost, ArmDraw, Draw,
         WaitAgain, WaitReturns, CopyPixel, SetDma, CommandsClear, ZeroResponse,
         SendStart, Starting, pruVars
    <3> QED BY <1>0, <3>1 DEF RBootInv, Closing, Starting
  <2>2. CASE ArmClose
    <3>1. /\ armPc' \notin Starting /\ Closing'
          /\ \A p \in Pru : pruPc'[p] = "start" => pruPc[p] = "start"
      BY <1>0, <1>5, <2>2 DEF ArmClose, Close, SendAbort, DisablePru, Starting, Closing,
                      CtlOK, CloseInv, Pru, pruVars
    <3> QED BY <1>0, <1>5, <3>1 DEF RBootInv, Starting
  <2> QED BY <1>5, <2>1, <2>2
<1>6. ASSUME NEW p \in Pru, Program(p) PROVE RBootInv'
  BY <1>0, <1>6, ProgramStep DEF ProgramFacts, RBootInv, CtlOK, Starting, Closing, Pru
<1>7. CASE UNCHANGED vars \/ \E p \in Pru : Interrupt(p)
  BY <1>0, <1>7, QuietStep DEF RBootInv, Starting, Closing
<1> QED BY <1>1, <1>2, <1>3, <1>4, <1>5, <1>6, <1>7, RestartSteps, StartingSteps, RunningSteps

\* From the end of start-up on, the ARM and the PRUs keep to the hand-shake.
LEMMA RWorkStep == RInv /\ [RNext]_rvars => (armPc \notin Starting => WorkInv /\ CloseInv)'
<1> SUFFICES ASSUME RInv, [RNext]_rvars, armPc' \notin Starting PROVE WorkInv' /\ CloseInv'
  OBVIOUS
<1>0. CtlOK /\ RBootInv /\ (armPc \notin Starting => WorkInv /\ CloseInv)
  BY CtlTypes DEF RInv
<1>1. ~Crash
  BY CrashStep DEF Starting
<1>2. CASE armPc \notin Starting
  <2>1. Started
    BY <1>0, <1>2 DEF Started, RBootInv, Starting
  <2> QED BY <1>0, <1>1, <1>2, <2>1, RestartSteps, WorkKept, CloseKept
<1>3. CASE armPc \in Starting
  <2>1. SpinStarted
    <3>1. ~InitPrus /\ ~ExecPru
      BY DEF InitPrus, ExecPru, Starting
    <3>2. ~UNCHANGED vars /\ \A p \in Pru : ~Interrupt(p) /\ ~Program(p)
      BY <1>0, <1>3, QuietStep, ProgramStep DEF ProgramFacts
    <3> QED BY <1>1, <1>3, <3>1, <3>2, RestartSteps, StartingSteps
  <2>2. /\ armPc = "spin" /\ response[armPru] # 0 /\ armPru = 1 /\ armPc' = "idle"
        /\ UNCHANGED <<cont, mapped, command, response, pruPc, dma>>
    BY <1>0, <2>1 DEF SpinStarted, CtlOK, Starting, ramVars, pruVars
  <2>3. /\ cont = "draw" /\ mapped
        /\ \A p \in Pru : command[p] = 0 /\ pruPc[p] \in {"start", "raise", "read"}
    BY <1>0, <2>2 DEF RBootInv, Pru, Starting
  <2>4. \A p \in Pru : command[p] = 0 /\ pruPc[p] \in {"raise", "read"}
    BY <1>0, <2>2, <2>3 DEF RBootInv
  <2> QED BY <2>2, <2>3, <2>4 DEF WorkInv, CloseInv, Closing, Working, ExitPc, Starting
<1> QED BY <1>2, <1>3

\* Every step but those that follow leaves DDR alone and gives no PRU anything
\* to do.
LEMMA CopyStutter ==
  ASSUME RCopyInv, UNCHANGED <<frame, ddr>>,
         armPc' \in {"dma", "busy", "zero", "send"} => WholeFrame, armPc' # "copy",
         \A p \in Pru : (dma[p] => dma'[p]) /\ (Active(p)' => Active(p))
  PROVE  RCopyInv'
BY DEF RCopyInv, WholeFrame

\* A frame that is being read is whole, whichever process wrote it and died.
LEMMA RCopyStep == RInv /\ [RNext]_rvars => RCopyInv'
<1> SUFFICES ASSUME RInv, [RNext]_rvars PROVE RCopyInv'
  OBVIOUS
<1> USE ConstantsAssumption
<1>0. /\ TypeOK /\ CtlOK /\ RBootInv /\ RCopyInv
      /\ armPc \notin Starting => WorkInv /\ CloseInv
  BY CtlTypes DEF RInv
<1>1. CASE Crash
  <2>1. armPc' = "init" /\ UNCHANGED <<frame, ddr, dma, command, pruPc>>
    BY <1>1, CrashStep
  <2> QED BY <1>0, <2>1, CopyStutter DEF Active
<1>2. CASE InitPrus /\ Drained
  <2>1. armPc' = "exec" /\ UNCHANGED <<frame, ddr>> /\ \A p \in Pru : ~Active(p)'
    BY <1>2, DrainedIsIdle DEF InitPrus, pruVars, Active
  <2> QED BY <1>0, <2>1 DEF RCopyInv
<1>3. CASE ExecPru \/ SpinStarted
  <2>1. /\ armPc \in {"exec", "spin"} /\ armPc' \in {"exec", "spin", "idle"}
        /\ UNCHANGED <<frame, ddr, command, dma>>
        /\ \A p \in Pru : pruPc'[p] \in {"start", pruPc[p]}
    BY <1>0, <1>3 DEF ExecPru, SpinStarted, CtlOK, ramVars, pruVars
  <2>2. \A p \in Pru : command[p] = 0
    BY <1>0, <2>1 DEF RBootInv
  <2> QED BY <1>0, <2>1, <2>2, CopyStutter DEF Active
<1>4. CASE armPc \notin Starting /\ ArmWait
  <2>1. /\ armPc' \notin {"copy", "dma", "busy", "zero", "send"}
        /\ UNCHANGED <<frame, ddr, dma, command, pruPc>>
    BY <1>4 DEF ArmWait, WaitEvent, ClearEvent, Fault, EnableHost, ramVars, pruVars
  <2> QED BY <1>0, <2>1, CopyStutter DEF Active
<1>5. CASE Draw \/ WaitAgain
  <2>1. /\ armPc' = "wait" /\ UNCHANGED <<frame, ddr, dma, command, pruPc>>
    BY <1>5 DEF Draw, WaitAgain, ramVars, pruVars
  <2> QED BY <1>0, <2>1, CopyStutter DEF Active
<1>6. CASE armPc \notin Starting /\ WaitReturns
  <2>1. \A p \in Pru : ~Working(p)
    BY <1>0, <1>6 DEF WaitReturns, WorkInv
  <2>2. /\ armPc' = "copy" /\ armPru' = 0 /\ copied' = 0
        /\ UNCHANGED <<command, pruPc>>
    BY <1>6 DEF WaitReturns, ramVars, pruVars
  <2>3. \A p \in Pru : ~Active(p)'
    BY <2>1, <2>2 DEF Active, Working
  <2> QED BY <2>2, <2>3 DEF RCopyInv, Pru, Pixel
<1>7. CASE CopyPixel
  <2>1. CopyFacts
    BY <1>0, <1>7, CopyPixelEffect
  <2>2. /\ armPru \in {0, 1} /\ copied \in Nat
        /\ \A q \in Pru, x \in Pixel :
             q < armPru \/ (q = armPru /\ x <= copied) => ddr[q][x] = frame
    BY <1>0, <2>1 DEF CopyFacts, RCopyInv, TypeOK, Pru
  <2>3. ASSUME NEW q \in Pru, NEW x \in Pixel,
               q < armPru \/ (q = armPru /\ x <= copied + 1)
        PROVE  ddr'[q][x] = frame
    <3>1. CASE q = armPru /\ x = copied + 1
      BY <2>1, <3>1 DEF CopyFacts
    <3>2. CASE ~(q = armPru /\ x = copied + 1)
      <4>1. ddr'[q][x] = ddr[q][x]
        BY <2>1, <3>2 DEF CopyFacts
      <4>2. q < armPru \/ (q = armPru /\ x <= copied)
        BY <2>2, <2>3, <3>2 DEF Pru, Pixel
      <4> QED BY <2>2, <4>1, <4>2
    <3> QED BY <3>1, <3>2
  <2>4. \A p \in Pru : ~Active(p)'
    <3>1. \A p \in Pru : ~Working(p)
      BY <1>0, <2>1 DEF CopyFacts, WorkInv, Writing, Starting
    <3> QED BY <2>1, <3>1 DEF CopyFacts, Active, Working
  <2>5. frame' = frame
    BY <2>1 DEF CopyFacts
  <2>6. CASE copied + 1 < NumPixels
    <3>1. copied' = copied + 1 /\ armPru' = armPru /\ armPc' = "copy"
      BY <2>1, <2>6 DEF CopyFacts
    <3> QED BY <2>3, <2>4, <2>5, <3>1 DEF RCopyInv
  <2>7. CASE copied + 1 = NumPixels
    <3>1. copied' = 0 /\ armPru' = 1 /\ armPc' = (IF armPru = 0 THEN "copy" ELSE "dma")
      BY <2>1, <2>7 DEF CopyFacts
    <3>2. \A q \in Pru, x \in Pixel : q <= armPru => ddr'[q][x] = frame
      BY <2>2, <2>3, <2>7 DEF Pru, Pixel
    <3>3. \A q \in Pru, x \in Pixel : q < 1 \/ armPru = 1 => ddr'[q][x] = frame
      BY <2>2, <3>2 DEF Pru
    <3>4. \A q \in Pru, x \in Pixel : q = 1 => ~(x <= 0)
      BY DEF Pixel
    <3> QED BY <2>2, <2>4, <2>5, <3>1, <3>3, <3>4 DEF RCopyInv, WholeFrame, Pru
  <2> QED BY <1>0, <2>6, <2>7 DEF TypeOK
<1>8. CASE SetDma \/ CommandsClear \/ ZeroResponse
  <2>1. /\ armPc \in {"dma", "busy", "zero"} /\ armPc' # "copy"
        /\ UNCHANGED <<frame, ddr, command, pruPc>>
        /\ \A p \in Pru : dma[p] => dma'[p]
    BY <1>0, <1>8 DEF SetDma, CommandsClear, ZeroResponse, CtlOK, ramVars, pruVars
  <2>2. WholeFrame
    BY <1>0, <2>1 DEF RCopyInv
  <2> QED BY <1>0, <2>1, <2>2, CopyStutter DEF Active
<1>9. CASE SendStart
  <2>1. /\ armPc = "send" /\ armPc' \in {"send", "idle"}
        /\ UNCHANGED <<frame, ddr, dma, pruPc>>
    BY <1>9 DEF SendStart, pruVars
  <2>2. WholeFrame /\ \A p \in Pru : dma[p]
    BY <1>0, <2>1 DEF RCopyInv, WorkInv, Starting
  <2> QED BY <2>1, <2>2 DEF RCopyInv, WholeFrame
<1>10. CASE armPc \notin Starting /\ ArmClose
  <2>1. /\ armPc' \in {"abort", "wait", "closed"} /\ UNCHANGED <<frame, ddr, dma>>
        /\ \A p \in Pru : /\ command'[p] = 1 => command[p] = 1
                          /\ pruPc'[p] \in {"off", pruPc[p]}
    BY <1>0, <1>10 DEF ArmClose, Close, SendAbort, DisablePru, CtlOK, ramVars, pruVars
  <2> QED BY <1>0, <2>1, CopyStutter DEF Active
<1>11. ASSUME NEW p \in Pru, Program(p) PROVE RCopyInv'
  <2>1. ProgramFacts(p)
    BY <1>0, <1>11, ProgramStep
  <2>2. \A q \in Pru : Active(q)' => Active(q)
    <3>1. command[p] = 1 /\ pruPc[p] # "off" => Active(p)
      BY DEF Active
    <3> QED BY <2>1, <3>1 DEF ProgramFacts, Active
  <2> QED BY <1>0, <2>1, <2>2 DEF ProgramFacts, RCopyInv, WholeFrame
<1>12. CASE UNCHANGED vars \/ \E p \in Pru : Interrupt(p)
  <2>1. UNCHANGED <<armPc, armPru, copied, frame, ddr, dma, command, pruPc>>
    BY <1>12, QuietStep
  <2> QED BY <1>0, <2>1 DEF RCopyInv, WholeFrame, Active
<1> QED
  BY <1>1, <1>2, <1>3, <1>4, <1>5, <1>6, <1>7, <1>8, <1>9, <1>10, <1>11, <1>12,
     RestartSteps, StartingSteps, RunningSteps DEF ArmDraw

\* A death costs a PRU the frame that had not been finished, and no more.
LEMMA RShowStep == RInv /\ [RNext]_rvars => RShowInv'
<1> SUFFICES ASSUME RInv, [RNext]_rvars PROVE RShowInv'
  OBVIOUS
<1>0. /\ CtlOK /\ crashes \in Nat /\ RBootInv /\ RCopyInv /\ RShowInv
      /\ armPc \notin Starting => WorkInv /\ CloseInv
  BY CtlTypes DEF RInv
<1>t. \A p \in Pru : showing[p] \in Nat /\ frame \in Nat
  BY <1>0 DEF CtlOK
<1>1. CASE Crash
  <2>1. crashes' = crashes + 1 /\ UNCHANGED <<frame, pruPc, showing>>
    BY <1>1, CrashStep
  <2> QED BY <1>0, <1>t, <2>1 DEF RShowInv
<1> SUFFICES ASSUME [Next]_vars, crashes' = crashes, InitPrus => Drained PROVE RShowInv'
  BY <1>1, RestartSteps
<1>2. CASE armPc \in Starting /\ (InitPrus \/ ExecPru \/ SpinStarted)
  <2>1. /\ UNCHANGED <<frame, showing>>
        /\ \A p \in Pru : pruPc'[p] \in {pruPc[p], "start"}
    BY <1>0, <1>2 DEF InitPrus, ExecPru, SpinStarted, CtlOK, pruVars
  <2> QED BY <1>0, <1>t, <1>2, <2>1 DEF RShowInv
<1>3. CASE armPc \notin Starting /\ (ArmWait \/ Draw \/ WaitAgain)
  <2>1. /\ armPc \in {"wait", "clear", "enable", "idle", "test"}
        /\ armPc' \notin Starting \cup {"abort"}
        /\ UNCHANGED <<cont, frame, response, pruPc, showing>>
    BY <1>3 DEF ArmWait, WaitEvent, ClearEvent, Fault, EnableHost, Draw, WaitAgain,
                Starting, ramVars, pruVars
  <2> QED BY <1>0, <2>1 DEF RShowInv, Closing, Writing, Starting
<1>4. CASE armPc \notin Starting /\ WaitReturns
  <2>1. \A p \in Pru : frame <= showing[p] + crashes /\ ~Working(p)
    BY <1>0, <1>4 DEF WaitReturns, WorkInv, CloseInv, Closing, RShowInv, Writing
  <2>2. armPc' = "copy" /\ frame' = frame + 1 /\ UNCHANGED <<pruPc, showing>>
    BY <1>4 DEF WaitReturns, pruVars
  <2> QED BY <1>0, <1>t, <2>1, <2>2 DEF RShowInv, Working, Writing, Starting
<1>5. CASE armPc \notin Starting /\ (CopyPixel \/ SetDma \/ CommandsClear \/ ZeroResponse)
  <2>1. /\ armPc \in Writing /\ armPc' \in Writing \cup {"send"}
        /\ UNCHANGED <<frame, pruPc, showing>>
    BY <1>5 DEF CopyPixel, SetDma, CommandsClear, ZeroResponse, Writing, ramVars, pruVars
  <2>2. armPc' = "send" => \A p \in Pru : response'[p] = 0
    BY <1>0, <1>5 DEF CopyPixel, SetDma, CommandsClear, ZeroResponse, WorkInv, CtlOK, Pru
  <2> QED BY <1>0, <2>1, <2>2 DEF RShowInv, Writing, Starting
<1>6. CASE armPc \notin Starting /\ SendStart
  <2>1. /\ armPc = "send" /\ armPc' \in {"send", "idle"}
        /\ UNCHANGED <<cont, frame, response, pruPc, showing>>
    BY <1>6 DEF SendStart, pruVars
  <2> QED BY <1>0, <2>1 DEF RShowInv, Closing, Writing, Starting
<1>7. CASE armPc \notin Starting /\ ArmClose
  <2>1. /\ armPc' \notin Starting /\ Closing' /\ UNCHANGED <<frame, showing>>
        /\ \A p \in Pru : pruPc'[p] \in {"off", pruPc[p]}
    BY <1>0, <1>7 DEF ArmClose, Close, SendAbort, DisablePru, CtlOK, CloseInv, Closing,
                      Starting, ramVars, pruVars
  <2> QED BY <1>0, <2>1 DEF RShowInv
<1>8. ASSUME NEW p \in Pru, Program(p) PROVE RShowInv'
  <2>1. ProgramFacts(p)
    BY <1>0, <1>8, ProgramStep
  <2>2. pruPc[p] = "ackStart" \/ showing'[p] = showing[p]
    BY <2>1 DEF ProgramFacts
  <2>3. /\ showing'[p] <= frame /\ frame <= showing'[p] + 1 + crashes
        /\ frame <= showing[p] + crashes => frame <= showing'[p] + crashes
    BY <1>0, <1>t, <2>1 DEF ProgramFacts, RShowInv
  <2>4. pruPc'[p] \in {"word", "done"} => showing'[p] = frame
    BY <1>0, <2>1 DEF ProgramFacts, RShowInv
  <2>5. response'[p] # response[p] /\ ~Closing => frame <= showing'[p] + crashes
    <3>1. CASE pruPc[p] = "start"
      BY <1>0, <2>3, <3>1 DEF RBootInv, RShowInv, Starting
    <3>2. CASE pruPc[p] = "done"
      BY <1>0, <1>t, <2>2, <3>2 DEF RShowInv
    <3>3. CASE pruPc[p] = "exit"
      BY <1>0, <2>3, <3>3 DEF CloseInv, ExitPc, RShowInv
    <3> QED BY <2>1, <3>1, <3>2, <3>3 DEF ProgramFacts
  <2>6. UNCHANGED <<armPc, cont, frame>>
    BY <2>1 DEF ProgramFacts
  <2>7. ASSUME NEW q \in Pru
        PROVE  /\ showing'[q] <= frame' /\ frame' <= showing'[q] + 1 + crashes'
               /\ pruPc'[q] \in {"word", "done"} => showing'[q] = frame'
               /\ (armPc' \in Starting \/ (response'[q] # 0 /\ ~Closing' /\ armPc' \notin Writing))
                    => frame' <= showing'[q] + crashes'
    <3>1. CASE q = p
      BY <1>0, <2>3, <2>4, <2>5, <2>6, <3>1 DEF RShowInv, Closing
    <3>2. CASE q # p
      <4>1. pruPc'[q] = pruPc[q] /\ showing'[q] = showing[q] /\ response'[q] = response[q]
        BY <2>1, <3>2 DEF ProgramFacts
      <4> QED BY <1>0, <2>6, <4>1 DEF RShowInv, Closing
    <3> QED BY <3>1, <3>2
  <2> QED BY <2>7 DEF RShowInv
<1>9. CASE UNCHANGED vars \/ \E p \in Pru : Interrupt(p)
  BY <1>0, <1>9, QuietStep DEF RShowInv, Closing
<1> QED
  BY <1>2, <1>3, <1>4, <1>5, <1>6, <1>7, <1>8, <1>9, StartingSteps, RunningSteps DEF ArmDraw

\* A PRU that reads a frame reads a whole one.
LEMMA RWholeFrames == RInv => NoTornFrame
BY DEF RInv, RCopyInv, Active, WholeFrame, NoTornFrame

LEMMA RLitStep == RInv /\ [RNext]_rvars => LitInv'
<1> SUFFICES ASSUME RInv, [RNext]_rvars PROVE LitInv'
  OBVIOUS
<1>1. TypeOK /\ LitInv /\ NoTornFrame
  BY RWholeFrames DEF RInv
<1>2. WaitReturns => \A p \in Pru : pruPc[p] # "word"
  BY DEF RInv, WorkInv, Working, WaitReturns, Starting
<1>3. CASE Crash
  BY <1>1, <1>3, CrashStep, LitStutter
<1> QED BY <1>1, <1>2, <1>3, LitKept, RestartSteps

\* A death clears what the process had mapped; all else is the hand-shake's.
LEMMA RWaitStep == RInv /\ [RNext]_rvars => WaitInv'
<1> SUFFICES ASSUME RInv, [RNext]_rvars PROVE WaitInv'
  OBVIOUS
<1>1. TypeOK /\ WaitInv /\ (armPc \notin Starting => WorkInv /\ CloseInv)
  BY DEF RInv
<1>2. CASE Crash
  BY <1>2, CrashStep DEF WaitInv, Starting
<1> QED BY <1>1, <1>2, WaitKept, RestartSteps

\* The ARM stores a start command for a program that polls.
LEMMA SendIsHeard ==
  ASSUME CtlOK, RBootInv, armPc = "send", armPc \notin Starting => WorkInv /\ CloseInv
  PROVE  pruPc[armPru] \in {"raise", "read"}
<1>1. armPru \in Pru /\ pruPc[armPru] \in PruPc
  BY DEF CtlOK, Pru
<1>2. pruPc[armPru] \notin {"ackStart", "word", "done"}
  BY <1>1 DEF CtlOK, WorkInv, Working, Starting
<1>3. pruPc[armPru] \notin {"start", "off"} /\ pruPc[armPru] \notin ExitPc
  BY <1>1 DEF RBootInv, CloseInv, Closing, Starting
<1> QED BY <1>1, <1>2, <1>3 DEF PruPc, ExitPc

\* A start command that survives its process is still for a frame the PRU has not
\* begun, and for the program that was told.
LEMMA RTakeStep == RInv /\ [RNext]_rvars => TakeInv'
<1> SUFFICES ASSUME RInv, [RNext]_rvars PROVE TakeInv'
  OBVIOUS
<1>0. /\ CtlOK /\ RBootInv /\ RShowInv /\ TakeInv
      /\ armPc \notin Starting => WorkInv /\ CloseInv
  BY CtlTypes DEF RInv
<1>1. CASE Crash
  <2>1. armPc' = "init" /\ UNCHANGED <<frame, command, pruPc, showing>>
    BY <1>1, CrashStep
  <2> QED BY <1>0, <2>1 DEF TakeInv, Coming, Writing
<1> SUFFICES ASSUME [Next]_vars, InitPrus => Drained PROVE TakeInv'
  BY <1>1, RestartSteps
<1>2. CASE InitPrus
  <2>1. armPc' = "exec" /\ \A p \in Pru : command'[p] = 0 /\ pruPc'[p] # "ackStart"
    BY <1>2, DrainedIsIdle DEF InitPrus, pruVars
  <2> QED BY <2>1 DEF TakeInv, Coming, Writing
<1>3. CASE ExecPru \/ SpinStarted
  <2>1. /\ armPc \in {"exec", "spin"} /\ armPc' \in {"exec", "spin", "idle"}
        /\ UNCHANGED command /\ \A p \in Pru : pruPc'[p] \in {"start", pruPc[p]}
    BY <1>0, <1>3 DEF ExecPru, SpinStarted, CtlOK, ramVars, pruVars
  <2>2. \A p \in Pru : command[p] = 0 /\ pruPc[p] # "ackStart"
    BY <1>0, <2>1 DEF RBootInv
  <2> QED BY <2>1, <2>2 DEF TakeInv, Coming, Writing
<1>4. CASE ArmWait \/ Draw \/ WaitAgain \/ Close
  <2>1. /\ armPc' \notin Writing \cup {"send"}
        /\ UNCHANGED <<frame, command, pruPc, showing>>
    BY <1>4 DEF ArmWait, WaitEvent, ClearEvent, Fault, EnableHost, Draw, WaitAgain,
       Close, Writing, ramVars, pruVars
  <2> QED BY <1>0, <2>1 DEF TakeInv, Coming
<1>5. CASE WaitReturns
  <2>1. frame' = frame + 1 /\ UNCHANGED <<command, pruPc, showing>>
    BY <1>5 DEF WaitReturns, ramVars, pruVars
  <2>2. \A p \in Pru : showing[p] < frame + 1
    BY <1>0 DEF RShowInv, CtlOK
  <2> QED BY <1>0, <2>1, <2>2 DEF TakeInv
<1>6. CASE CopyPixel \/ SetDma \/ CommandsClear \/ ZeroResponse
  <2>1. armPc \in Writing /\ UNCHANGED <<frame, command, pruPc, showing>>
    BY <1>6 DEF CopyPixel, SetDma, CommandsClear, ZeroResponse, Writing, ramVars, pruVars
  <2>2. \A p \in Pru : showing[p] < frame
    BY <1>0, <2>1 DEF TakeInv, Coming
  <2> QED BY <1>0, <2>1, <2>2 DEF TakeInv
<1>7. CASE SendStart
  <2>1. /\ armPc = "send" /\ armPc' \in {"send", "idle"}
        /\ command' = [command EXCEPT ![armPru] = 1]
        /\ armPru' = 1 /\ UNCHANGED <<frame, pruPc, showing>>
    BY <1>7 DEF SendStart, pruVars
  <2>2. pruPc[armPru] \in {"raise", "read"}
    BY <1>0, <2>1, SendIsHeard
  <2>3. showing[armPru] < frame
    BY <1>0, <2>1 DEF TakeInv, Coming, CtlOK, Pru
  <2>4. ASSUME NEW p \in Pru, p # armPru
        PROVE  command'[p] = command[p] /\ (Coming(p)' => Coming(p))
    BY <1>0, <2>1, <2>4 DEF CtlOK, Coming, Writing, Pru
  <2> QED BY <1>0, <2>1, <2>2, <2>3, <2>4 DEF TakeInv
<1>8. CASE SendAbort \/ DisablePru
  <2>1. /\ armPc' \in {"abort", "wait", "closed"} /\ UNCHANGED <<frame, showing>>
        /\ \A p \in Pru : /\ command'[p] = 1 => command[p] = 1
                          /\ pruPc'[p] \in {"off", pruPc[p]}
    BY <1>0, <1>8 DEF SendAbort, DisablePru, CtlOK, ramVars, pruVars
  <2> QED BY <1>0, <2>1 DEF TakeInv, Coming, Writing
<1>9. ASSUME NEW p \in Pru, Program(p) PROVE TakeInv'
  <2>1. ProgramFacts(p)
    BY <1>0, <1>9, ProgramStep
  <2>2. \A q \in Pru : q # p => UNCHANGED <<command[q], pruPc[q], showing[q]>>
                                /\ (Coming(q)' => Coming(q))
    BY <2>1 DEF ProgramFacts, Coming
  <2>3. command'[p] = 1 => pruPc'[p] \in {"off", "raise", "read", "ackStart"}
    BY <1>0, <2>1 DEF ProgramFacts, TakeInv
  <2>4. CASE pruPc[p] = "ackStart"
    <3>1. armPc \notin Writing /\ (armPc = "send" => p < armPru)
      BY <1>0, <2>4 DEF WorkInv, Working, Writing, Starting
    <3>2. /\ command'[p] = 0 /\ pruPc'[p] = "word" /\ UNCHANGED <<armPc, armPru>>
          /\ p \in {0, 1} /\ armPru \in {0, 1}
      BY <1>0, <2>1, <2>4 DEF ProgramFacts, CtlOK, Pru
    <3>3. ~Coming(p)'
      BY <3>1, <3>2 DEF Coming
    <3> QED BY <1>0, <2>1, <2>2, <2>3, <3>3 DEF ProgramFacts, TakeInv
  <2>5. CASE pruPc[p] # "ackStart"
    <3>1. Coming(p)' => Coming(p)
      BY <1>0, <2>1, <2>5 DEF ProgramFacts, Coming, TakeInv
    <3> QED BY <1>0, <2>1, <2>2, <2>3, <2>5, <3>1 DEF ProgramFacts, TakeInv
  <2> QED BY <2>4, <2>5
<1>10. CASE UNCHANGED vars \/ \E p \in Pru : Interrupt(p)
  BY <1>0, <1>10, QuietStep DEF TakeInv, Coming
<1> QED
  BY <1>2, <1>3, <1>4, <1>5, <1>6, <1>7, <1>8, <1>9, <1>10
  DEF Next, Arm, ArmInit, ArmDraw, ArmClose

LEMMA RInitInv == RInit => RInv
<1> SUFFICES ASSUME RInit PROVE RInv
  OBVIOUS
<1>1. TypeOK /\ LitInv /\ Init /\ crashes = 0
  BY InitIInv DEF RInit, IInv
<1>2. RBootInv /\ RCopyInv
  BY <1>1 DEF Init, RBootInv, RCopyInv, Active, Starting
<1>3. RShowInv
  BY <1>1 DEF Init, RShowInv
<1>4. TakeInv /\ WaitInv
  BY <1>1, InitIInv DEF Init, IInv, TakeInv, Coming, Writing
<1> QED BY <1>1, <1>2, <1>3, <1>4 DEF RInv, Init, Starting

-----------------------------------------------------------------------------
(* The theorems.                                                             *)

\* RInv holds throughout, however often the process dies and wherever.
THEOREM RestartInvariance == RSpec => []RInv
<1>1. RInv /\ [RNext]_rvars => RInv'
  BY RTypeStep, RBootStep, RWorkStep, RCopyStep, RShowStep, RLitStep, RWaitStep,
     RTakeStep DEF RInv
<1> QED BY RInitInv, <1>1, PTL DEF RSpec

\* ledscape.c:128: no PRU ever reads a frame that is half copied, even when the
\* process died copying it.
THEOREM DeathsTearNoFrame == RSpec => []NoTornFrame
BY RestartInvariance, RWholeFrames, PTL

\* ledscape.c:212: when start-up returns, both new programs have started.  That
\* the PRUs have drained when a process starts is assumed, and stated: an old
\* program that finishes its frame meanwhile stores the word that is waited for.
THEOREM StartupIsSeen == RSpecAnytime /\ StartsDrained => []StartupMeansRunning
<1>1. RInv => StartupMeansRunning
  BY DEF RInv, RBootInv, StartupMeansRunning
<1>2. /\ [RNextAnytime]_rvars
      /\ [armPc = "init" /\ armPc' # "init" => Drained]_rvars
      => [RNext]_rvars
  <2>1. Arm /\ armPc = "init" => armPc' # "init"
    BY DEF Arm, ArmInit, ArmWait, ArmDraw, ArmClose, InitPrus, ExecPru, SpinStarted,
       WaitEvent, ClearEvent, Fault, EnableHost, Draw, WaitAgain, WaitReturns, CopyPixel,
       SetDma, CommandsClear, ZeroResponse, SendStart, Close, SendAbort, DisablePru
  <2>2. UNCHANGED rvars => UNCHANGED armPc
    BY DEF rvars, vars
  <2> QED BY <2>1, <2>2 DEF RNextAnytime, RNext, RArm
<1> QED
  BY <1>1, <1>2, RestartInvariance, PTL DEF RSpec, RSpecAnytime, StartsDrained

\* A process that was started again does not wait in vain either: not for the
\* answer of a program (ledscape.c:214), and not for the wake-up of an event the
\* process before it has consumed (pru.c:97).
THEOREM RestartedWaitsAreAnswered == RSpec => []NoWaitInVain
<1>1. RInv => NoWaitInVain
  <2> SUFFICES ASSUME RInv PROVE NoWaitInVain
    OBVIOUS
  <2>1. /\ CtlOK /\ RBootInv /\ WaitInv /\ (armPc \notin Starting => WorkInv /\ CloseInv)
    BY CtlTypes DEF RInv
  <2> QED BY <2>1, WaitsAreReal DEF RBootInv, Started, Starting
<1> QED BY <1>1, RestartInvariance, PTL

-----------------------------------------------------------------------------
(* PruRestart implements LossyChannel.  Beyond what PruHandshake does to     *)
(* FrameChannel, a death, an abort stored over a start command, and the halt *)
(* of a PRU that was about to take the frame lose it.                        *)

\* A PRU's frame is lost or not by what is said of it in Coming.
LEMMA LostSame ==
  ASSUME UNCHANGED <<frame, showing>>, \A p \in Pru : Coming(p)' <=> Coming(p)
  PROVE  Lost' = Lost
BY DEF Lost

\* Steps that leave the frame where it is, for every PRU.
LEMMA LossyStutter ==
  ASSUME UNCHANGED <<frame, showing, crashes>>, \A p \in Pru : Coming(p)' <=> Coming(p),
         Closing' = Closing,
         \A p \in Pru : pruPc'[p] \in {"word", "done"} <=> pruPc[p] \in {"word", "done"}
  PROVE  UNCHANGED Lossy!vars
<1>1. Lost' = Lost
  BY LostSame
<1>2. [p \in Pru |-> pruPc'[p] \in {"word", "done"}]
      = [p \in Pru |-> pruPc[p] \in {"word", "done"}]
  OBVIOUS
<1> QED BY <1>1, <1>2 DEF Lossy!vars

\* One PRU that the frame was coming to is not told of it any more.
LEMMA OneLost ==
  ASSUME NEW p \in Pru, UNCHANGED <<frame, showing>>, showing[p] < frame, ~Coming(p)',
         \A q \in Pru : q # p => (Coming(q)' <=> Coming(q))
  PROVE  Lost' = Lost \cup {p}
BY DEF Lost

\* Every step with its deaths is a step of the lossy channel, or stutters.
LEMMA LossyStep == RInv /\ [RNext]_rvars => [Lossy!Next]_(Lossy!vars)
<1> SUFFICES ASSUME RInv, [RNext]_rvars PROVE [Lossy!Next]_(Lossy!vars)
  OBVIOUS
<1>0. /\ CtlOK /\ crashes \in Nat /\ RBootInv /\ RShowInv /\ TakeInv
      /\ armPc \notin Starting => WorkInv /\ CloseInv
  BY CtlTypes DEF RInv
<1>1. CASE Crash
  <2>1. /\ armPc' = "init" /\ cont' = "draw" /\ crashes' = crashes + 1
        /\ UNCHANGED <<frame, command, pruPc, showing>>
    BY <1>1, CrashStep
  <2>2. \A p \in Pru : Coming(p)' => Coming(p)
    BY <2>1 DEF Coming, Writing
  <2>3. Lost' = Lost \cup Lost' /\ Lost' \in SUBSET {p \in Pru : showing[p] < frame}
    BY <2>1, <2>2 DEF Lost
  <2>4. (~Closing)' = TRUE
    BY <2>1 DEF Closing
  <2>5. Lossy!Die
    BY <2>1, <2>3, <2>4 DEF Lossy!Die
  <2> QED BY <2>5 DEF Lossy!Next
<1> SUFFICES ASSUME [Next]_vars, crashes' = crashes, InitPrus => Drained
             PROVE  [Lossy!Next]_(Lossy!vars)
  BY <1>1, RestartSteps
<1>2. CASE ArmInit
  <2>1. UNCHANGED <<frame, showing>> /\ armPc \in Starting
        /\ armPc' \notin Writing \cup {"send", "abort"} /\ cont' = "draw"
    BY <1>0, <1>2 DEF ArmInit, InitPrus, ExecPru, SpinStarted, RBootInv, Starting,
       Writing, pruVars
  <2>2. Closing' = Closing
    <3>1. Closing = FALSE /\ Closing' = FALSE
      BY <1>0, <2>1 DEF Closing, RBootInv, Starting
    <3> QED BY <3>1, Zenon
  <2>3. \A p \in Pru : /\ pruPc[p] \notin {"ackStart", "word", "done"}
                       /\ pruPc[p] \in {"raise", "read"} => command[p] = 0
    BY <1>0, <1>2, DrainedIsIdle DEF ArmInit, InitPrus, ExecPru, SpinStarted, RBootInv, Drained
  <2>4. \A p \in Pru : pruPc'[p] \in {pruPc[p], "start"} /\ command'[p] \in {command[p], 0}
    BY <1>0, <1>2 DEF ArmInit, InitPrus, ExecPru, SpinStarted, CtlOK, ramVars, pruVars
  <2>5. \A p \in Pru : ~Coming(p) /\ ~Coming(p)'
    BY <2>1, <2>3, <2>4 DEF Coming, Starting, Writing
  <2> QED BY <2>1, <2>2, <2>3, <2>4, <2>5, LossyStutter
<1>3. CASE ArmWait \/ Draw \/ WaitAgain \/ CopyPixel \/ SetDma \/ CommandsClear \/ ZeroResponse
  <2>1. /\ UNCHANGED <<cont, frame, command, pruPc, showing>>
        /\ armPc # "abort" /\ armPc' # "abort"
    BY <1>3 DEF ArmWait, WaitEvent, ClearEvent, Fault, EnableHost, Draw, WaitAgain,
       CopyPixel, SetDma, CommandsClear, ZeroResponse, ramVars, pruVars
  <2>2. \/ armPc \notin Writing \cup {"send"} /\ armPc' \notin Writing \cup {"send"}
        \/ armPc \in Writing /\ (armPc' \in Writing \/ (armPc' = "send" /\ armPru' = 0))
    BY <1>3 DEF ArmWait, WaitEvent, ClearEvent, Fault, EnableHost, Draw, WaitAgain,
       CopyPixel, SetDma, CommandsClear, ZeroResponse, Writing
  <2>3. \A p \in Pru : Coming(p)' <=> Coming(p)
    BY <2>1, <2>2 DEF Coming, Pru
  <2>4. Closing' = Closing
    BY <2>1 DEF Closing
  <2> QED BY <2>1, <2>3, <2>4, LossyStutter
<1>4. CASE WaitReturns
  <2>1. /\ armPc = "test" /\ armPc' = "copy" /\ frame' = frame + 1
        /\ \A p \in Pru : response[p] # 0
        /\ UNCHANGED <<cont, command, pruPc, showing>>
    BY <1>4 DEF WaitReturns, ramVars, pruVars
  <2>2. \A p \in Pru : ~Working(p) /\ showing[p] <= frame
    BY <1>0, <2>1 DEF WorkInv, RShowInv, Starting
  <2>3. \A p \in Pru : pruPc[p] \notin {"word", "done"} /\ ~Coming(p)
    BY <2>1, <2>2 DEF Working, Coming, Writing
  <2>4. \A p \in Pru : showing[p] = frame \/ p \in Lost
    BY <1>0, <2>2, <2>3 DEF Lost, CtlOK
  <2>5. Lost' = {}
    BY <2>1 DEF Lost, Coming, Writing
  <2>6. Closing = FALSE /\ Closing' = FALSE
    BY <1>0, <2>1 DEF Closing, CloseInv, Starting
  <2>7. (~Closing) /\ (~Closing)' = (~Closing)
    BY <2>6
  <2>8. Lossy!Publish
    BY <2>1, <2>3, <2>4, <2>5, <2>7 DEF Lossy!Publish
  <2> QED BY <2>8 DEF Lossy!Next
<1>5. CASE SendStart
  <2>1. /\ armPc = "send" /\ armPc' = (IF armPru = 0 THEN "send" ELSE "idle") /\ armPru' = 1
        /\ command' = [command EXCEPT ![armPru] = 1]
        /\ UNCHANGED <<cont, frame, pruPc, showing>>
    BY <1>5 DEF SendStart, pruVars
  <2>2. pruPc[armPru] \in {"raise", "read"}
    BY <1>0, <2>1, SendIsHeard
  <2>3. \A p \in Pru : Coming(p)' <=> Coming(p)
    BY <1>0, <2>1, <2>2 DEF Coming, Writing, CtlOK, Pru
  <2>4. Closing' = Closing
    BY <2>1 DEF Closing
  <2> QED BY <2>1, <2>3, <2>4, LossyStutter
<1>6. CASE Close
  <2>1. /\ armPc = "idle" /\ armPc' = "abort"
        /\ UNCHANGED <<cont, frame, command, pruPc, showing>>
    BY <1>6 DEF Close, ramVars, pruVars
  <2>2. (~Closing) /\ (~Closing)' = FALSE
    BY <1>0, <2>1 DEF Closing, CloseInv, Starting
  <2>3. Lost' = Lost
    BY <2>1, LostSame DEF Coming, Writing
  <2>4. Lossy!Close
    BY <2>1, <2>2, <2>3 DEF Lossy!Close
  <2> QED BY <2>4 DEF Lossy!Next
<1>7. CASE SendAbort
  <2>1. /\ armPc = "abort" /\ armPc' \in {"abort", "wait"}
        /\ armPc' = "wait" => cont' = "close0"
        /\ command' = [command EXCEPT ![armPru] = 255]
        /\ UNCHANGED <<frame, pruPc, showing>>
    BY <1>7 DEF SendAbort, pruVars
  <2>2. Closing = TRUE /\ Closing' = TRUE
    BY <2>1 DEF Closing
  <2> PICK p \in Pru : p = armPru
    BY <1>0 DEF CtlOK, Pru
  <2>3. \A q \in Pru : q # p => (Coming(q)' <=> Coming(q))
    BY <1>0, <2>1 DEF Coming, Writing, CtlOK
  <2>4. CASE command[p] = 1 /\ pruPc[p] \in {"raise", "read"}
    <3>1. Coming(p) /\ ~Coming(p)'
      BY <1>0, <2>1, <2>3, <2>4 DEF Coming, Writing, CtlOK
    <3>2. showing[p] < frame /\ p \notin Lost
      BY <1>0, <2>3, <3>1 DEF TakeInv, Lost
    <3>3. Lost' = Lost \cup {p}
      BY <2>1, <2>3, <3>1, <3>2, OneLost
    <3>4. Lossy!Abandon(p)
      BY <2>1, <2>2, <3>2, <3>3 DEF Lossy!Abandon
    <3> QED BY <2>3, <3>4 DEF Lossy!Next
  <2>5. CASE ~(command[p] = 1 /\ pruPc[p] \in {"raise", "read"})
    <3>1. Coming(p)' <=> Coming(p)
      BY <1>0, <2>1, <2>3, <2>5 DEF Coming, Writing, CtlOK
    <3>2. \A q \in Pru : Coming(q)' <=> Coming(q)
      BY <2>3, <3>1
    <3> QED BY <2>1, <2>2, <3>2, LossyStutter
  <2> QED BY <2>4, <2>5
<1>8. CASE DisablePru
  <2>1. PICK p \in Pru : pruPc' = [pruPc EXCEPT ![p] = "off"]
    BY <1>8 DEF DisablePru, Pru
  <2>2. /\ armPc = "disable" /\ armPc' \in {"wait", "closed"} /\ cont # "draw"
        /\ cont' = "close1" /\ UNCHANGED <<frame, command, showing>>
        /\ \A q \in Pru : command[q] # 1
    BY <1>0, <1>8 DEF DisablePru, CloseInv, Starting, ramVars
  <2>3. Closing = TRUE /\ Closing' = TRUE
    BY <2>2 DEF Closing
  <2>4. pruPc'[p] = "off" /\ \A q \in Pru : q # p => pruPc'[q] = pruPc[q]
    BY <1>0, <2>1 DEF CtlOK
  <2>5. ~Coming(p)' /\ \A q \in Pru : q # p => (Coming(q)' <=> Coming(q))
    BY <2>2, <2>4 DEF Coming, Writing
  <2>6. CASE pruPc[p] \in {"word", "done"}
    <3>1. \A q \in Pru : Coming(q)' <=> Coming(q)
      BY <2>2, <2>5, <2>6 DEF Coming, Writing
    <3>2. Lossy!Finish(p)
      BY <2>2, <2>3, <2>4, <2>6, <3>1, BusyCleared, LostSame DEF Lossy!Finish
    <3> QED BY <3>2 DEF Lossy!Next
  <2>7. CASE pruPc[p] = "ackStart"
    <3>1. Coming(p) /\ showing[p] < frame /\ p \notin Lost
      BY <1>0, <2>7 DEF Coming, TakeInv, Lost
    <3>2. Lost' = Lost \cup {p}
      BY <2>2, <2>5, <3>1, OneLost
    <3>3. \A q \in Pru : pruPc'[q] \in {"word", "done"} <=> pruPc[q] \in {"word", "done"}
      BY <2>4, <2>7
    <3>4. [q \in Pru |-> pruPc'[q] \in {"word", "done"}]
          = [q \in Pru |-> pruPc[q] \in {"word", "done"}]
      BY <3>3
    <3>5. Lossy!Abandon(p)
      BY <2>2, <2>3, <3>1, <3>2, <3>4 DEF Lossy!Abandon
    <3> QED BY <3>5 DEF Lossy!Next
  <2>8. CASE pruPc[p] \notin {"word", "done", "ackStart"}
    <3>1. \A q \in Pru : Coming(q)' <=> Coming(q)
      BY <2>2, <2>5, <2>8 DEF Coming, Writing
    <3>2. \A q \in Pru : pruPc'[q] \in {"word", "done"} <=> pruPc[q] \in {"word", "done"}
      BY <2>4, <2>8
    <3> QED BY <2>2, <2>3, <3>1, <3>2, LossyStutter
  <2> QED BY <2>6, <2>7, <2>8
<1>9. ASSUME NEW p \in Pru, Program(p) PROVE [Lossy!Next]_(Lossy!vars)
  <2>1. ProgramFacts(p)
    BY <1>0, <1>9, ProgramStep
  <2>2. /\ UNCHANGED <<armPc, armPru, cont, frame>> /\ Closing' = Closing
        /\ \A q \in Pru : q # p => /\ UNCHANGED <<command[q], pruPc[q], showing[q]>>
                                   /\ (Coming(q)' <=> Coming(q))
    BY <2>1 DEF ProgramFacts, Coming, Closing
  <2>3. CASE pruPc[p] = "ackStart"
    <3>1. armPc \notin Writing /\ (armPc = "send" => p < armPru)
      BY <1>0, <2>3 DEF WorkInv, Working, Writing, Starting
    <3>2. /\ command'[p] = 0 /\ pruPc'[p] = "word" /\ showing'[p] = frame
          /\ p \in {0, 1} /\ armPru \in {0, 1} /\ frame \in Nat
      BY <1>0, <2>1, <2>3 DEF ProgramFacts, CtlOK, Pru
    <3>3. PruAckStart(p)
      BY <1>9, <2>3 DEF Program, PruStart, PruRaise, PruRead, PruAckExit, PruWord,
         PruTimeout, PruDone, PruExit, PruHalt
    <3>4. Coming(p) /\ showing[p] < frame /\ p \notin Lost
      BY <1>0, <2>3 DEF Coming, TakeInv, Lost
    <3>5. Lost' = Lost
      <4>1. p \notin Lost'
        BY <2>2, <3>2 DEF Lost
      <4>2. \A q \in Pru : q # p => (q \in Lost' <=> q \in Lost)
        BY <2>2 DEF Lost
      <4> QED BY <3>4, <4>1, <4>2 DEF Lost
    <3>6. showing' = [showing EXCEPT ![p] = frame] /\ pruPc' = [pruPc EXCEPT ![p] = "word"]
      BY <3>3 DEF PruAckStart
    <3>7. \A q \in Pru : (pruPc'[q] \in {"word", "done"})
                          = (IF q = p THEN TRUE ELSE pruPc[q] \in {"word", "done"})
      BY <1>0, <3>6 DEF CtlOK
    <3>8. Lossy!Take(p)
      BY <2>2, <3>4, <3>5, <3>6, <3>7, BusyUpdate DEF Lossy!Take
    <3> QED BY <3>8 DEF Lossy!Next
  <2>4. CASE pruPc[p] # "ackStart"
    <3>1. Coming(p)' <=> Coming(p)
      BY <1>0, <2>1, <2>4 DEF ProgramFacts, Coming, TakeInv
    <3>2. \A q \in Pru : Coming(q)' <=> Coming(q)
      BY <2>2, <3>1
    <3>3. showing' = showing
      BY <1>0, <1>9, <2>4 DEF Program, PruStart, PruRaise, PruRead, PruAckStart, PruAckExit,
         PruWord, PruTimeout, PruDone, PruExit, PruHalt
    <3>4. CASE PruDone(p)
      <4>1. pruPc[p] = "done" /\ pruPc'[p] \notin {"word", "done"}
        BY <1>0, <3>4 DEF PruDone, CtlOK
      <4>2. Lossy!Finish(p)
        BY <2>2, <3>2, <3>3, <4>1, BusyCleared, LostSame DEF Lossy!Finish
      <4> QED BY <4>2 DEF Lossy!Next
    <3>5. CASE ~PruDone(p)
      <4>1. pruPc'[p] \in {"word", "done"} <=> pruPc[p] \in {"word", "done"}
        BY <1>0, <1>9, <2>4, <3>5 DEF Program, PruStart, PruRaise, PruRead, PruAckStart,
           PruAckExit, PruWord, PruTimeout, PruExit, PruHalt, CtlOK
      <4>2. \A q \in Pru : pruPc'[q] \in {"word", "done"} <=> pruPc[q] \in {"word", "done"}
        BY <2>2, <4>1
      <4> QED BY <2>2, <3>2, <3>3, <4>2, LossyStutter
    <3> QED BY <3>4, <3>5
  <2> QED BY <2>3, <2>4
<1>10. CASE UNCHANGED vars \/ \E p \in Pru : Interrupt(p)
  BY <1>10, QuietStep, LossyStutter DEF Coming, Closing
<1> QED
  BY <1>2, <1>3, <1>4, <1>5, <1>6, <1>7, <1>8, <1>9, <1>10
  DEF Next, Arm, ArmDraw, ArmClose

\* ledscape.c:143: whatever the process dies of and wherever, each PRU takes each
\* frame once, in order, and misses only what a process had not handed over.
THEOREM LossyChannelImplemented == RSpec => ImplementsLossyChannel
<1>1. RInit => Lossy!Init
  <2> SUFFICES ASSUME RInit PROVE Lossy!Init
    OBVIOUS
  <2>1. \A p \in Pru : (pruPc[p] \in {"word", "done"}) = FALSE
    BY DEF RInit, Init
  <2>2. [p \in Pru |-> pruPc[p] \in {"word", "done"}] = [p \in Pru |-> FALSE]
    BY <2>1, Zenon
  <2>3. Lost = {} /\ (~Closing) = TRUE
    BY DEF RInit, Init, Lost, Closing
  <2> QED
    BY <2>2, <2>3 DEF RInit, Init, Lossy!Init
<1> QED
  BY <1>1, LossyStep, RestartInvariance, PTL DEF RSpec, ImplementsLossyChannel, Lossy!Safety
=============================================================================
