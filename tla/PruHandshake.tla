---------------------------- MODULE PruHandshake ----------------------------
(***************************************************************************)
(* The hand-shake by which ledscape/ledscape.c, running on the ARM, hands  *)
(* a frame to the two PRUs, each running pru/templates/ws281x.p.           *)
(*                                                                         *)
(*   ARM    ledscape_init_with_programs, then ledscape_draw repeatedly,    *)
(*          then possibly ledscape_close.  armPc names the next access to  *)
(*          memory a PRU or the interrupt controller shares.               *)
(*   PRU    one program per PRU; pruPc[p] names the next access of PRU p.  *)
(*   INTC   a PRU raises its system event; the kernel's UIO driver turns a *)
(*          pending event on an enabled host line into a wake-up and       *)
(*          disables the line until the ARM enables it again.              *)
(*                                                                         *)
(* A strip's data is abstracted to the number of the frame it belongs to,  *)
(* and the 24 strips of a PRU to one.                                      *)
(***************************************************************************)
EXTENDS Naturals

CONSTANTS NumPixels,  \* leds_per_strip
          MaxFrames,  \* bound: the caller draws at most this many frames
          MayClose    \* whether the caller may call ledscape_close

ASSUME ConstantsAssumption ==
  /\ NumPixels \in Nat \ {0}
  /\ MaxFrames \in Nat
  /\ MayClose \in BOOLEAN

Pru == {0, 1}
Pixel == 1 .. NumPixels

VARIABLES
  armPc,     \* next step of the ARM
  armPru,    \* the PRU, event or strip the ARM's step is about
  cont,      \* who called pru_wait_interrupt: "draw", "close0" or "close1"
  copied,    \* pixels of the current strip already copied to DDR
  mapped,    \* the ARM still has the PRU subsystem mapped and UIO open
  frame,     \* frames copied, or being copied, to DDR so far
  ddr,       \* ddr[p][x]: frame number of pixel x of p's strips in DDR
  dma,       \* dma[p]: pixels_dma of p points at the frame in DDR
  command,   \* command word in p's data RAM: 0, 1 (start), 255 (abort)
  response,  \* response word: 0, 1 (started or done), 255 (exited)
  sysevt,    \* p's system event is pending in the interrupt controller
  hostEn,    \* host interrupt line p (EVTOUT_p) is enabled
  uio,       \* a wake-up of /dev/uio0 (EVTOUT_0) has not been read yet
  pruPc,     \* next step of each PRU
  len,       \* r_data_len: pixels the PRU has yet to clock out
  showing,   \* history: the last frame p began to clock out
  lit        \* lit[p][x]: frame number shown by pixel x of p's strips

armVars == <<armPc, armPru, cont, copied, mapped>>
ramVars == <<dma, command, response>>
intcVars == <<sysevt, hostEn, uio>>
pruVars == <<pruPc, len, showing, lit>>
vars == <<armPc, armPru, cont, copied, mapped, frame, ddr, dma, command,
          response, sysevt, hostEn, uio, pruPc, len, showing, lit>>

-----------------------------------------------------------------------------
(* Power-on: no PRU runs, and data RAM holds whatever it held before.        *)
Init ==
  /\ armPc = "init" /\ armPru = 0 /\ cont = "draw" /\ copied = 0
  /\ mapped = FALSE
  /\ frame = 0 /\ ddr = [p \in Pru |-> [x \in Pixel |-> 0]]
  /\ dma = [p \in Pru |-> FALSE]
  /\ command \in [Pru -> {0, 1, 255}]
  /\ response \in [Pru -> {0, 1}]
  /\ sysevt = [p \in Pru |-> FALSE] /\ hostEn = [p \in Pru |-> FALSE]
  /\ uio = FALSE
  /\ pruPc = [p \in Pru |-> "off"] /\ len = [p \in Pru |-> 0]
  /\ showing = [p \in Pru |-> 0]
  /\ lit = [p \in Pru |-> [x \in Pixel |-> 0]]

-----------------------------------------------------------------------------
(* ledscape_init_with_programs                                               *)

\* Mutant: the command structures keep the response of an earlier run.
InitPrusKeepsResponse ==
  /\ armPc = "init"
  /\ armPc' = "exec" /\ armPru' = 0 /\ cont' = "draw" /\ mapped' = TRUE
  /\ dma' = [p \in Pru |-> FALSE]
  /\ command' = [p \in Pru |-> 0]
  /\ sysevt' = [p \in Pru |-> FALSE]
  /\ hostEn' = [p \in Pru |-> TRUE]
  /\ uio' = FALSE
  /\ UNCHANGED <<copied, frame, ddr, response, pruVars>>

\* pru_init(0), pru_init(1) and the zeroing of both command structures.
InitPrus ==
  /\ armPc = "init"
  /\ armPc' = "exec" /\ armPru' = 0 /\ cont' = "draw" /\ mapped' = TRUE
  /\ dma' = [p \in Pru |-> FALSE]
  /\ command' = [p \in Pru |-> 0]
  /\ response' = [p \in Pru |-> 0]
  /\ sysevt' = [p \in Pru |-> FALSE]
  /\ hostEn' = [p \in Pru |-> TRUE]
  /\ uio' = FALSE
  /\ UNCHANGED <<copied, frame, ddr, pruVars>>

\* Mutant: every start-up loads and starts PRU 0.
ExecPru0Again ==
  /\ armPc = "exec"
  /\ pruPc' = [pruPc EXCEPT ![0] = "start"]
  /\ armPc' = "spin"
  /\ UNCHANGED <<armPru, cont, copied, mapped, frame, ddr, ramVars, intcVars,
                 len, showing, lit>>

\* pru_exec: disable the PRU, load its program, let it run from START.
ExecPru ==
  /\ armPc = "exec"
  /\ pruPc' = [pruPc EXCEPT ![armPru] = "start"]
  /\ armPc' = "spin"
  /\ UNCHANGED <<armPru, cont, copied, mapped, frame, ddr, ramVars, intcVars,
                 len, showing, lit>>

\* The spin on the PRU's response; PRU 1 is started after PRU 0 answered.
SpinStarted ==
  /\ armPc = "spin"
  /\ response[armPru] # 0
  /\ armPc' = IF armPru = 0 THEN "exec" ELSE "idle"
  /\ armPru' = 1
  /\ UNCHANGED <<cont, copied, mapped, frame, ddr, ramVars, intcVars, pruVars>>

-----------------------------------------------------------------------------
(* pru_wait_interrupt                                                        *)

\* The blocking read of /dev/uio0; it fails at once when the fd is closed.
WaitEvent ==
  /\ armPc = "wait"
  /\ uio \/ ~mapped
  /\ uio' = FALSE
  /\ armPc' = "clear" /\ armPru' = 0
  /\ UNCHANGED <<cont, copied, mapped, frame, ddr, ramVars, sysevt, hostEn,
                 pruVars>>

\* prussdrv_pru_clear_event: the system event first ...
ClearEvent ==
  /\ armPc = "clear" /\ mapped
  /\ sysevt' = [sysevt EXCEPT ![armPru] = FALSE]
  /\ armPc' = "enable"
  /\ UNCHANGED <<armPru, cont, copied, mapped, frame, ddr, ramVars, hostEn,
                 uio, pruVars>>

\* ... through a mapping prussdrv_exit may have removed: SIGSEGV.
Fault ==
  /\ armPc = "clear" /\ ~mapped
  /\ armPc' = "dead"
  /\ UNCHANGED <<armPru, cont, copied, mapped, frame, ddr, ramVars, intcVars,
                 pruVars>>

\* Mutant: only EVTOUT_1 is enabled again.
EnableOnlyHost1 ==
  /\ armPc = "enable"
  /\ hostEn' = [hostEn EXCEPT ![1] = TRUE]
  /\ armPru' = 1
  /\ armPc' = IF armPru = 0 THEN "clear"
              ELSE IF cont = "draw" THEN "test" ELSE "disable"
  /\ UNCHANGED <<cont, copied, mapped, frame, ddr, ramVars, sysevt, uio,
                 pruVars>>

\* ... then the host line.  EVTOUT_0 is handled before EVTOUT_1.
EnableHost ==
  /\ armPc = "enable"
  /\ hostEn' = [hostEn EXCEPT ![armPru] = TRUE]
  /\ armPru' = 1
  /\ armPc' = IF armPru = 0 THEN "clear"
              ELSE IF cont = "draw" THEN "test" ELSE "disable"
  /\ UNCHANGED <<cont, copied, mapped, frame, ddr, ramVars, sysevt, uio,
                 pruVars>>

-----------------------------------------------------------------------------
(* ledscape_draw                                                             *)

\* The caller's next frame is in leds->frame; ledscape_draw enters ledscape_wait.
Draw ==
  /\ armPc = "idle" /\ frame < MaxFrames
  /\ armPc' = "wait"
  /\ UNCHANGED <<armPru, cont, copied, mapped, frame, ddr, ramVars, intcVars,
                 pruVars>>

\* ledscape_wait's loop: not both PRUs have responded.
WaitAgain ==
  /\ armPc = "test"
  /\ \E p \in Pru : response[p] = 0
  /\ armPc' = "wait"
  /\ UNCHANGED <<armPru, cont, copied, mapped, frame, ddr, ramVars, intcVars,
                 pruVars>>

\* Mutant: the loop of ledscape_wait tests with || instead of &&.
WaitReturnsOnEither ==
  /\ armPc = "test"
  /\ \E p \in Pru : response[p] # 0
  /\ armPc' = "copy" /\ armPru' = 0 /\ copied' = 0
  /\ frame' = frame + 1
  /\ UNCHANGED <<cont, mapped, ddr, ramVars, intcVars, pruVars>>

WaitReturns ==
  /\ armPc = "test"
  /\ \A p \in Pru : response[p] # 0
  /\ armPc' = "copy" /\ armPru' = 0 /\ copied' = 0
  /\ frame' = frame + 1
  /\ UNCHANGED <<cont, mapped, ddr, ramVars, intcVars, pruVars>>

\* ledscape_copy_frame_to_pru, strip by strip and pixel by pixel.
CopyPixel ==
  /\ armPc = "copy"
  /\ ddr' = [ddr EXCEPT ![armPru][copied + 1] = frame]
  /\ IF copied + 1 < NumPixels
     THEN copied' = copied + 1 /\ UNCHANGED <<armPru, armPc>>
     ELSE /\ copied' = 0 /\ armPru' = 1
          /\ armPc' = IF armPru = 0 THEN "copy" ELSE "dma"
  /\ UNCHANGED <<cont, mapped, frame, ramVars, intcVars, pruVars>>

\* Mutant: pixels_dma is set for PRU 0 only.
SetDmaOfPru0 ==
  /\ armPc = "dma"
  /\ dma' = [dma EXCEPT ![0] = TRUE]
  /\ armPc' = "busy"
  /\ UNCHANGED <<armPru, cont, copied, mapped, frame, ddr, command, response,
                 intcVars, pruVars>>

SetDma ==
  /\ armPc = "dma"
  /\ dma' = [p \in Pru |-> TRUE]
  /\ armPc' = "busy"
  /\ UNCHANGED <<armPru, cont, copied, mapped, frame, ddr, command, response,
                 intcVars, pruVars>>

\* The busy wait for both commands to have been acknowledged.
CommandsClear ==
  /\ armPc = "busy"
  /\ \A p \in Pru : command[p] = 0
  /\ armPc' = "zero" /\ armPru' = 1
  /\ UNCHANGED <<cont, copied, mapped, frame, ddr, ramVars, intcVars, pruVars>>

\* Mutant: only ws281x_0's response is zeroed.
ZeroResponseOfPru0 ==
  /\ armPc = "zero"
  /\ response' = [response EXCEPT ![0] = 0]
  /\ armPru' = 0
  /\ armPc' = IF armPru = 1 THEN "zero" ELSE "send"
  /\ UNCHANGED <<cont, copied, mapped, frame, ddr, dma, command, intcVars,
                 pruVars>>

\* Mutant: the responses are not zeroed.
ZeroNoResponse ==
  /\ armPc = "zero"
  /\ armPru' = 0 /\ armPc' = "send"
  /\ UNCHANGED <<cont, copied, mapped, frame, ddr, ramVars, intcVars, pruVars>>

\* response_0 = response_1 = 0 stores PRU 1's word first.
ZeroResponse ==
  /\ armPc = "zero"
  /\ response' = [response EXCEPT ![armPru] = 0]
  /\ armPru' = 0
  /\ armPc' = IF armPru = 1 THEN "zero" ELSE "send"
  /\ UNCHANGED <<cont, copied, mapped, frame, ddr, dma, command, intcVars,
                 pruVars>>

SendStart ==
  /\ armPc = "send"
  /\ command' = [command EXCEPT ![armPru] = 1]
  /\ armPru' = 1
  /\ armPc' = IF armPru = 0 THEN "send" ELSE "idle"
  /\ UNCHANGED <<cont, copied, mapped, frame, ddr, dma, response, intcVars,
                 pruVars>>

-----------------------------------------------------------------------------
(* ledscape_close                                                            *)

Close ==
  /\ MayClose /\ armPc = "idle"
  /\ armPc' = "abort" /\ armPru' = 0
  /\ UNCHANGED <<cont, copied, mapped, frame, ddr, ramVars, intcVars, pruVars>>

\* Mutant: ledscape_close writes the start command.
SendStartForAbort ==
  /\ armPc = "abort"
  /\ command' = [command EXCEPT ![armPru] = 1]
  /\ armPru' = 1
  /\ IF armPru = 0 THEN UNCHANGED <<armPc, cont>>
                   ELSE armPc' = "wait" /\ cont' = "close0"
  /\ UNCHANGED <<copied, mapped, frame, ddr, dma, response, intcVars, pruVars>>

\* command = 0xFF, without looking at what the word holds.
SendAbort ==
  /\ armPc = "abort"
  /\ command' = [command EXCEPT ![armPru] = 255]
  /\ armPru' = 1
  /\ IF armPru = 0 THEN UNCHANGED <<armPc, cont>>
                   ELSE armPc' = "wait" /\ cont' = "close0"
  /\ UNCHANGED <<copied, mapped, frame, ddr, dma, response, intcVars, pruVars>>

\* pru_close after its wait: halt that PRU, then prussdrv_exit unmaps the
\* whole subsystem and closes /dev/uio0.
DisablePru ==
  /\ armPc = "disable"
  /\ LET p == IF cont = "close0" THEN 0 ELSE 1
     IN  pruPc' = [pruPc EXCEPT ![p] = "off"]
  /\ mapped' = FALSE
  /\ cont' = "close1"
  /\ armPc' = IF cont = "close0" THEN "wait" ELSE "closed"
  /\ UNCHANGED <<armPru, copied, frame, ddr, ramVars, intcVars, len, showing,
                 lit>>

-----------------------------------------------------------------------------
(* The UIO driver's interrupt handler: one per host line, only /dev/uio0 is  *)
(* read.  It disables the line and counts the event; counts coalesce.        *)
Interrupt(h) ==
  /\ sysevt[h] /\ hostEn[h]
  /\ hostEn' = [hostEn EXCEPT ![h] = FALSE]
  /\ uio' = (uio \/ h = 0)
  /\ UNCHANGED <<armVars, frame, ddr, ramVars, sysevt, pruVars>>

-----------------------------------------------------------------------------
(* The PRU program                                                           *)

PruStart(p) ==
  /\ pruPc[p] = "start"
  /\ response' = [response EXCEPT ![p] = 1]
  /\ pruPc' = [pruPc EXCEPT ![p] = "raise"]
  /\ UNCHANGED <<armVars, frame, ddr, dma, command, intcVars, len, showing, lit>>

\* Every turn of _LOOP raises the event again, idle turns included.
PruRaise(p) ==
  /\ pruPc[p] = "raise"
  /\ sysevt' = [sysevt EXCEPT ![p] = TRUE]
  /\ pruPc' = [pruPc EXCEPT ![p] = "read"]
  /\ UNCHANGED <<armVars, frame, ddr, ramVars, hostEn, uio, len, showing, lit>>

\* Mutant: an idle PRU polls the command without raising its event again.
PruReadIdlesSilently(p) ==
  /\ pruPc[p] = "read"
  /\ pruPc' = [pruPc EXCEPT ![p] = IF command[p] = 0 THEN "read"
                                   ELSE IF command[p] = 255 THEN "ackExit"
                                   ELSE "ackStart"]
  /\ UNCHANGED <<armVars, frame, ddr, ramVars, intcVars, len, showing, lit>>

\* One burst read of address, length and command; the registers keep them.
PruRead(p) ==
  /\ pruPc[p] = "read"
  /\ pruPc' = [pruPc EXCEPT ![p] = IF command[p] = 0 THEN "raise"
                                   ELSE IF command[p] = 255 THEN "ackExit"
                                   ELSE "ackStart"]
  /\ UNCHANGED <<armVars, frame, ddr, ramVars, intcVars, len, showing, lit>>

\* Mutant: the command word is left as it is.
PruStartsWithoutAck(p) ==
  /\ pruPc[p] = "ackStart"
  /\ pruPc' = [pruPc EXCEPT ![p] = "word"]
  /\ len' = [len EXCEPT ![p] = NumPixels]
  /\ showing' = [showing EXCEPT ![p] = frame]
  /\ UNCHANGED <<armVars, frame, ddr, ramVars, intcVars, lit>>

\* Zero the command word, whatever the ARM wrote there since the read.
PruAckStart(p) ==
  /\ pruPc[p] = "ackStart"
  /\ command' = [command EXCEPT ![p] = 0]
  /\ pruPc' = [pruPc EXCEPT ![p] = "word"]
  /\ len' = [len EXCEPT ![p] = NumPixels]
  /\ showing' = [showing EXCEPT ![p] = frame]
  /\ UNCHANGED <<armVars, frame, ddr, dma, response, intcVars, lit>>

PruAckExit(p) ==
  /\ pruPc[p] = "ackExit"
  /\ command' = [command EXCEPT ![p] = 0]
  /\ pruPc' = [pruPc EXCEPT ![p] = "exit"]
  /\ UNCHANGED <<armVars, frame, ddr, dma, response, intcVars, len, showing,
                 lit>>

\* One pixel of every strip, read from DDR and clocked out.
PruWord(p) ==
  /\ pruPc[p] = "word"
  /\ LET x == NumPixels - len[p] + 1
     IN  lit' = [lit EXCEPT ![p][x] = ddr[p][x]]
  /\ len' = [len EXCEPT ![p] = @ - 1]
  /\ pruPc' = [pruPc EXCEPT ![p] = IF len[p] = 1 THEN "done" ELSE "word"]
  /\ UNCHANGED <<armVars, frame, ddr, ramVars, intcVars, showing>>

\* Mutant: after a timeout the frame is begun again.
PruTimeoutStartsOver(p) ==
  /\ pruPc[p] = "word"
  /\ len' = [len EXCEPT ![p] = NumPixels]
  /\ UNCHANGED <<armVars, frame, ddr, ramVars, intcVars, pruPc, showing, lit>>

\* CHECK_TIMEOUT: a read of DDR took too long, the rest of the frame is dropped.
PruTimeout(p) ==
  /\ pruPc[p] = "word"
  /\ pruPc' = [pruPc EXCEPT ![p] = "done"]
  /\ len' = [len EXCEPT ![p] = 0]
  /\ UNCHANGED <<armVars, frame, ddr, ramVars, intcVars, showing, lit>>

\* FRAME_DONE: the response is the cycle counter, of which only # 0 is tested.
PruDone(p) ==
  /\ pruPc[p] = "done"
  /\ response' = [response EXCEPT ![p] = 1]
  /\ pruPc' = [pruPc EXCEPT ![p] = "raise"]
  /\ UNCHANGED <<armVars, frame, ddr, dma, command, intcVars, len, showing, lit>>

PruExit(p) ==
  /\ pruPc[p] = "exit"
  /\ response' = [response EXCEPT ![p] = 255]
  /\ pruPc' = [pruPc EXCEPT ![p] = "exitRaise"]
  /\ UNCHANGED <<armVars, frame, ddr, dma, command, intcVars, len, showing, lit>>

PruHalt(p) ==
  /\ pruPc[p] = "exitRaise"
  /\ sysevt' = [sysevt EXCEPT ![p] = TRUE]
  /\ pruPc' = [pruPc EXCEPT ![p] = "halt"]
  /\ UNCHANGED <<armVars, frame, ddr, ramVars, hostEn, uio, len, showing, lit>>

-----------------------------------------------------------------------------
ArmInit == InitPrus \/ ExecPru \/ SpinStarted
ArmWait == WaitEvent \/ ClearEvent \/ Fault \/ EnableHost
ArmDraw == \/ Draw \/ WaitAgain \/ WaitReturns \/ CopyPixel \/ SetDma
           \/ CommandsClear \/ ZeroResponse \/ SendStart
ArmClose == Close \/ SendAbort \/ DisablePru
Arm == ArmInit \/ ArmWait \/ ArmDraw \/ ArmClose

Program(p) == \/ PruStart(p) \/ PruRaise(p) \/ PruRead(p) \/ PruAckStart(p)
              \/ PruAckExit(p) \/ PruWord(p) \/ PruTimeout(p) \/ PruDone(p)
              \/ PruExit(p) \/ PruHalt(p)

Next == Arm \/ \E p \in Pru : Interrupt(p) \/ Program(p)

\* The ARM thread is scheduled, the PRUs never stop fetching and the kernel
\* serves its interrupts: each is a process of its own that keeps stepping.
Fairness == /\ WF_vars(Arm)
            /\ \A p \in Pru : WF_vars(Interrupt(p)) /\ WF_vars(Program(p))

Spec == Init /\ [][Next]_vars
FairSpec == Spec /\ Fairness

-----------------------------------------------------------------------------
ArmPc == {"init", "exec", "spin", "idle", "wait", "clear", "enable", "test",
          "copy", "dma", "busy", "zero", "send", "abort", "disable", "dead",
          "closed"}
PruPc == {"off", "start", "raise", "read", "ackStart", "ackExit", "word",
          "done", "exit", "exitRaise", "halt"}

\* The ARM is in ledscape_close: it will never send a start command again.
Closing == cont # "draw" \/ armPc = "abort"

\* PRU p has, or will take, the frame in DDR and has not finished it.
Working(p) == command[p] = 1 \/ pruPc[p] \in {"ackStart", "word", "done"}

\* PRU p's program comes round to raising its event again, whatever it reads.
Running(p) == pruPc[p] \in {"raise", "read", "ackStart", "word", "done"}

TypeOK ==
  /\ armPc \in ArmPc /\ armPru \in Pru
  /\ cont \in {"draw", "close0", "close1"}
  /\ copied \in 0 .. NumPixels - 1 /\ mapped \in BOOLEAN
  /\ frame \in Nat
  /\ ddr \in [Pru -> [Pixel -> Nat]]
  /\ dma \in [Pru -> BOOLEAN]
  /\ command \in [Pru -> {0, 1, 255}] /\ response \in [Pru -> {0, 1, 255}]
  /\ sysevt \in [Pru -> BOOLEAN] /\ hostEn \in [Pru -> BOOLEAN]
  /\ uio \in BOOLEAN
  /\ pruPc \in [Pru -> PruPc]
  /\ len \in [Pru -> 0 .. NumPixels]
  /\ showing \in [Pru -> Nat] /\ lit \in [Pru -> [Pixel -> Nat]]

\* From the moment a PRU has read a start command until it has clocked the
\* last pixel, its DMA address is set and all of DDR holds one frame: the ARM
\* never writes a frame (ledscape.c:128) that a PRU is still reading.
NoTornFrame ==
  \A p \in Pru : pruPc[p] \in {"ackStart", "word"} =>
    dma[p] /\ \A q \in Pru, x \in Pixel : ddr[q][x] = frame

\* A frame cut short by CHECK_TIMEOUT leaves older pixels only behind newer
\* ones on the strip: no pixel is newer than one nearer to the PRU.
OnlyTailIsOld ==
  \A p \in Pru, x, y \in Pixel : x < y => lit[p][x] >= lit[p][y]

\* What the ARM waits for is always on its way.  Start-up spins on a program
\* that has yet to answer (ledscape.c:214); a reader of /dev/uio0 has a wake-up
\* counted or EVTOUT_0 enabled, and PRU 0 is on its way to its next event
\* (pru.c:97); a response ledscape_wait misses belongs to a PRU with the frame
\* still to finish; and both commands are clear before the busy wait
\* (ledscape.c:133).
NoWaitInVain ==
  ~Closing =>
    /\ armPc = "spin" => response[armPru] # 0 \/ pruPc[armPru] = "start"
    /\ armPc = "wait" => (uio \/ hostEn[0]) /\ Running(0)
    /\ armPc \in {"wait", "clear", "enable", "test"} =>
         \A p \in Pru : response[p] # 0 \/ Working(p)
    /\ armPc = "busy" => \A p \in Pru : command[p] = 0

\* A PRU begins the frames in order, none skipped and none begun twice.
EachFrameOnce ==
  [][\A p \in Pru : (pruPc[p] = "ackStart" /\ pruPc'[p] = "word") =>
       showing'[p] = showing[p] + 1]_vars

\* At most so many steps of its program separate a running PRU p from raising
\* its event.
StepsToEvent(p) ==
  CASE pruPc[p] = "raise"    -> 1
    [] pruPc[p] = "done"     -> 2
    [] pruPc[p] = "word"     -> len[p] + 2
    [] pruPc[p] = "ackStart" -> NumPixels + 3
    [] pruPc[p] = "read"     -> NumPixels + 4

\* PRU 0 raises its event, or is closer to it than it was.
EventComesCloser == sysevt'[0] \/ (Running(0)' /\ StepsToEvent(0)' < StepsToEvent(0))

\* ledscape_wait blocked on /dev/uio0 is on its way to be woken, whoever steps:
\* the kernel wakes it, or EVTOUT_0 stays enabled and PRU 0's event stays
\* pending, so that only the kernel's step is missing, or comes closer with
\* every step of PRU 0's program (pru.c:97, ws281x.p:69-180).
WakeUpComesCloser ==
  [][armPc = "wait" /\ ~Closing /\ ~uio /\ ~uio' =>
       /\ armPc' = "wait" /\ ~Closing' /\ hostEn'[0]
       /\ sysevt[0] => sysevt'[0]
       /\ ~sysevt[0] => EventComesCloser \/ UNCHANGED <<pruPc[0], len[0]>>]_vars

-----------------------------------------------------------------------------
(* The inductive invariant behind the properties above.                      *)

Starting == {"init", "exec", "spin"}
Writing == {"copy", "dma", "busy", "zero"}
ExitPc == {"ackExit", "exit", "exitRaise", "halt"}

\* The PRUs are started one after the other, with zeroed command structures.
BootInv ==
  /\ armPc = "init" => \A p \in Pru : pruPc[p] = "off"
  /\ armPc \in {"exec", "spin"} => \A p \in Pru :
       /\ command[p] = 0
       /\ pruPc[p] = "off" <=> p > armPru \/ (p = armPru /\ armPc = "exec")
       /\ pruPc[p] = "off" => response[p] = 0
  /\ armPc \in Starting => frame = 0 /\ cont = "draw" /\ \A p \in Pru : showing[p] = 0
  /\ \A p \in Pru : pruPc[p] = "start" =>
       armPc = "spin" /\ armPru = p /\ response[p] = 0
  /\ \A p \in Pru : pruPc[p] = "off" => armPc \in Starting \/ Closing

\* DDR holds one frame, except while it is being copied strip by strip.
CopyInv ==
  /\ armPc # "copy" => \A q \in Pru, x \in Pixel : ddr[q][x] = frame
  /\ armPc = "copy" => \A q \in Pru, x \in Pixel :
       q < armPru \/ (q = armPru /\ x <= copied) => ddr[q][x] = frame

\* A PRU at work has an unanswered command, and the ARM is not touching DDR.
WorkInv ==
  /\ \A p \in Pru : Working(p) =>
       /\ response[p] = 0 /\ dma[p]
       /\ armPc \notin Starting \cup Writing
       /\ armPc = "send" => p < armPru
  /\ \A p \in Pru : command[p] = 1 => pruPc[p] \in {"raise", "read", "ackStart"}
  /\ armPc \in {"busy", "zero", "send"} => \A p \in Pru : dma[p]
  /\ armPc = "zero" /\ armPru = 0 => response[1] = 0
  /\ armPc = "send" => \A p \in Pru : p >= armPru => response[p] = 0

\* Aborts and exits happen in ledscape_close only.
CloseInv ==
  /\ \A p \in Pru : command[p] = 255 => Closing
  /\ \A p \in Pru : pruPc[p] \in ExitPc => Closing /\ command[p] # 1
  /\ cont # "draw" =>
       /\ armPc \in {"wait", "clear", "enable", "disable", "dead", "closed"}
       /\ \A p \in Pru : command[p] # 1
  /\ armPc \in {"disable", "closed"} => cont # "draw"
  /\ armPc = "abort" /\ armPru = 1 => command[0] # 1
  /\ ~mapped => cont = "close1"

\* How far each PRU is: at the frame in DDR, or at the one before.
ShowInv ==
  /\ \A p \in Pru :
       /\ showing[p] = frame \/ showing[p] + 1 = frame
       /\ command[p] = 1 \/ pruPc[p] = "ackStart" => showing[p] + 1 = frame
       /\ pruPc[p] \in {"word", "done"} => showing[p] = frame
       /\ armPc \in Writing => showing[p] + 1 = frame
       /\ armPc = "send" /\ p >= armPru => showing[p] + 1 = frame
       /\ response[p] # 0 /\ ~Closing /\ armPc \notin Writing => showing[p] = frame
  /\ armPc \in {"wait", "clear", "enable", "test"} /\ cont = "draw" =>
       frame < MaxFrames

\* What the strips show: nothing newer than DDR, the newest nearest.
LitInv ==
  \A p \in Pru :
    /\ \A x \in Pixel : lit[p][x] <= frame
    /\ \A x, y \in Pixel : x < y => lit[p][x] >= lit[p][y]
    /\ pruPc[p] = "word" =>
         /\ len[p] > 0
         /\ \A x \in Pixel : x <= NumPixels - len[p] => lit[p][x] = frame

\* EVTOUT_0 stays enabled until it has woken the reader of /dev/uio0, a program
\* that is waited for at start-up answers, and a response is missing only
\* while its PRU has a frame to finish or is about to be sent one.
WaitInv ==
  /\ mapped => hostEn[0] \/ uio \/ (armPc \in {"clear", "enable"} /\ armPru = 0)
  /\ armPc \in {"exec", "spin"} => \A p \in Pru :
       /\ p < armPru => response[p] # 0
       /\ p = armPru /\ armPc = "spin" => response[p] # 0 \/ pruPc[p] = "start"
  /\ ~Closing /\ armPc \notin Starting => \A p \in Pru :
       \/ response[p] # 0 \/ Working(p)
       \/ armPc = "zero" \/ (armPc = "send" /\ p >= armPru)

\* Before InitPrus the data RAM is arbitrary and no PRU runs.
IInv == /\ TypeOK /\ BootInv /\ CopyInv /\ LitInv /\ WaitInv
        /\ armPc # "init" => WorkInv /\ CloseInv /\ ShowInv

-----------------------------------------------------------------------------
\* The hand-shake implements the one-place channel of FrameChannel.
Channel == INSTANCE FrameChannel WITH
  published <- frame,
  taken <- showing,
  busy <- [p \in Pru |-> pruPc[p] \in {"word", "done"}]

ImplementsChannel == Channel!Safety

\* With the fairness above both PRUs begin the last frame of the bound (hence,
\* by EachFrameOnce, every frame) unless the caller closes first: the ARM sleeps
\* on PRU 0's event only, and is still woken after PRU 1 finishes, because an
\* idle PRU 0 keeps raising its event (ws281x.p:69-80).
EveryFrameIsShown == \A p \in Pru : <>(Closing \/ showing[p] = MaxFrames)

\* ws281x.p:7: "To stop, the ARM can write a 0xFF to the command, which will
\* cause the PRU code to exit."  Both PRUs stop once ledscape_close has begun.
CloseStopsPrus ==
  \A p \in Pru : armPc = "abort" ~> pruPc[p] \in {"halt", "off"}
=============================================================================
