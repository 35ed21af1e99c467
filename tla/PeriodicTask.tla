---------------------------- MODULE PeriodicTask ----------------------------
(***************************************************************************)
(* What RateScheduler of opc/rate-data.cc promises to the loop of a        *)
(* thread, in whole microseconds: frame k is due k steps after the         *)
(* beginning.  Asked for the next frame, the thread goes on at once if the *)
(* frame is due, and else waits until it is.  No frame is dropped: a       *)
(* thread that is late runs one frame after the other until it has caught  *)
(* up.                                                                     *)
(***************************************************************************)
EXTENDS Naturals

CONSTANT Step        \* microseconds from one frame to the next

VARIABLES now,       \* the time
          beginning, \* when the task was set up
          frames,    \* frames begun so far
          waiting    \* the thread waits for the next one

vars == <<now, beginning, frames, waiting>>

DueTime(k) == beginning + k * Step

Init == now \in Nat /\ beginning = now /\ frames = 0 /\ waiting = FALSE

Pass ==
  /\ now' \in Nat /\ now' >= now
  /\ UNCHANGED <<beginning, frames, waiting>>

Wait ==
  /\ ~waiting /\ now < DueTime(frames + 1)
  /\ waiting' = TRUE
  /\ UNCHANGED <<now, beginning, frames>>

\* Of a frame that is due, asked for or waited for.
Begin ==
  /\ now >= DueTime(frames + 1)
  /\ frames' = frames + 1 /\ waiting' = FALSE
  /\ UNCHANGED <<now, beginning>>

Next == Pass \/ Wait \/ Begin

Safety == Init /\ [][Next]_vars
=============================================================================
