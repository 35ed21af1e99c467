----------------------------- MODULE PruRestart -----------------------------
(***************************************************************************)
(* PruHandshake with an ARM process that may die anywhere and be started   *)
(* again (die(), a signal, `systemctl restart ledscape').  The PRUs are    *)
(* not told: their programs, the data RAM and DDR survive the process, and *)
(* ledscape_init_with_programs meets whatever they hold.                   *)
(***************************************************************************)
EXTENDS PruHandshake

CONSTANT MaxCrashes  \* bound on the number of times the process dies

ASSUME RestartAssumption == MaxCrashes \in Nat

VARIABLE crashes

rvars == <<vars, crashes>>

RInit == Init /\ crashes = 0

\* Both PRUs are idle, halted or off: a frame takes tens of milliseconds.
Drained == \A p \in Pru :
  \/ pruPc[p] \in {"off", "halt"}
  \/ pruPc[p] \in {"raise", "read"} /\ command[p] = 0

\* The process dies; the kernel closes /dev/uio0 and drops its mappings.
Crash ==
  /\ armPc # "init" /\ crashes < MaxCrashes
  /\ crashes' = crashes + 1
  /\ armPc' = "init" /\ armPru' = 0 /\ cont' = "draw" /\ copied' = 0
  /\ mapped' = FALSE /\ uio' = FALSE
  /\ UNCHANGED <<frame, ddr, ramVars, sysevt, hostEn, pruVars>>

\* The ARM's step.  A start-up takes longer than a START block and the rest of
\* a frame; without this a new process may take an old program's answer for the
\* new one's.
RArm == /\ Arm
        /\ armPc = "init" => Drained
        /\ UNCHANGED crashes

RInterrupt(p) == Interrupt(p) /\ UNCHANGED crashes
RProgram(p) == Program(p) /\ UNCHANGED crashes

RNext == \/ RArm
         \/ Crash
         \/ \E p \in Pru : RInterrupt(p) \/ RProgram(p)

RFairness == /\ WF_rvars(RArm)
             /\ \A p \in Pru : WF_rvars(RInterrupt(p)) /\ WF_rvars(RProgram(p))

RSpec == RInit /\ [][RNext]_rvars
RFairSpec == RSpec /\ RFairness

\* The same with nothing said about the time of a restart, and what RArm says of
\* it: a process starts when the PRUs have drained.
RNextAnytime == \/ Arm /\ UNCHANGED crashes
                \/ Crash
                \/ \E p \in Pru : RInterrupt(p) \/ RProgram(p)

RSpecAnytime == RInit /\ [][RNextAnytime]_rvars

StartsDrained == [][armPc = "init" /\ armPc' # "init" => Drained]_rvars

-----------------------------------------------------------------------------
\* ledscape.c:212 and 222: "Watch for a done response that indicates a proper
\* startup".  When ledscape_init_with_programs has returned, the program it
\* loaded in each PRU has passed its START block.  Under StartsDrained: an old
\* program still at work would store the word the new process waits for.
StartupMeansRunning == armPc = "idle" => \A p \in Pru : pruPc[p] # "start"

\* A restarted process gets through start-up, wherever the old one died.
ComesBack == armPc = "init" ~> armPc = "idle"

-----------------------------------------------------------------------------
(* The inductive invariant of the proofs.                                    *)
(* Unlike that of PruHandshake it says nothing about a PRU that an earlier   *)
(* process left behind but that the frame it reads is whole.                 *)

\* PRU p is reading the frame in DDR, or will, whoever told it to.
Active(p) == \/ pruPc[p] \in {"ackStart", "word", "done"}
             \/ command[p] = 1 /\ pruPc[p] # "off"

WholeFrame == \A q \in Pru, x \in Pixel : ddr[q][x] = frame

\* A program that has not been loaded again is idle, or no program, with its
\* words zeroed; the one in its START block is the one the ARM waits for.
RBootInv ==
  /\ armPc \in Starting => cont = "draw"
  /\ armPc \in {"exec", "spin"} =>
       /\ mapped
       /\ \A p \in Pru :
            /\ command[p] = 0
            /\ IF p < armPru \/ (p = armPru /\ armPc = "spin")
               THEN pruPc[p] \in {"start", "raise", "read"}
               ELSE pruPc[p] \in {"off", "halt", "raise", "read"} /\ response[p] = 0
  /\ \A p \in Pru : pruPc[p] = "start" =>
       command[p] = 0 /\ (armPc = "init" \/ (armPc = "spin" /\ armPru = p /\ response[p] = 0))
  /\ \A p \in Pru : pruPc[p] = "off" => armPc \in Starting \/ Closing

\* What is read is whole, also while no process is there.  What an earlier one
\* left half copied is written again before it is read.
RCopyInv ==
  /\ armPc \in {"dma", "busy", "zero", "send"} => WholeFrame
  /\ armPc = "copy" => \A q \in Pru, x \in Pixel :
       q < armPru \/ (q = armPru /\ x <= copied) => ddr[q][x] = frame
  /\ \A p \in Pru : Active(p) => dma[p] /\ WholeFrame

\* How far a PRU may be behind the frame in DDR: one frame, and one per death.
RShowInv ==
  \A p \in Pru :
    /\ showing[p] <= frame /\ frame <= showing[p] + 1 + crashes
    /\ pruPc[p] \in {"word", "done"} => showing[p] = frame
    /\ (armPc \in Starting \/ (response[p] # 0 /\ ~Closing /\ armPc \notin Writing))
         => frame <= showing[p] + crashes

\* PRU p has been told of the frame in DDR, or the process is about to tell it.
Coming(p) == \/ command[p] = 1 /\ pruPc[p] \in {"raise", "read"}
             \/ pruPc[p] = "ackStart"
             \/ armPc \in Writing \/ (armPc = "send" /\ p >= armPru)

\* A frame that is coming is a new one, and a start command is read by the
\* program it was written for.
TakeInv ==
  \A p \in Pru :
    /\ command[p] = 1 => pruPc[p] \in {"off", "raise", "read", "ackStart"}
    /\ Coming(p) => showing[p] < frame

\* Nobody is left to tell PRU p of the frame in DDR.
Lost == {p \in Pru : showing[p] < frame /\ ~Coming(p)}

RInv == /\ TypeOK /\ crashes \in Nat
        /\ LitInv /\ RBootInv /\ RCopyInv /\ RShowInv /\ WaitInv /\ TakeInv
        /\ armPc \notin Starting => WorkInv /\ CloseInv

-----------------------------------------------------------------------------
\* With deaths and closing the hand-shake implements LossyChannel: a frame is
\* lost when nobody is left to tell the PRU of it.
Lossy == INSTANCE LossyChannel WITH
  published <- frame,
  taken <- showing,
  busy <- [p \in Pru |-> pruPc[p] \in {"word", "done"}],
  lost <- Lost,
  open <- ~Closing,
  deaths <- crashes

ImplementsLossyChannel == Lossy!Safety
=============================================================================
