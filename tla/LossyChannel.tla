---------------------------- MODULE LossyChannel ----------------------------
(***************************************************************************)
(* What the hand-shake of ledscape/ledscape.c promises when its process    *)
(* may close the strips, or die and be started again: FrameChannel, except *)
(* that the frame of a process that goes before it has handed it over may  *)
(* be lost.  It is lost for good: no later process publishes it again, and *)
(* a frame a PRU has been told of is taken even if the process is gone.    *)
(***************************************************************************)
EXTENDS Naturals

CONSTANT Pru        \* the PRUs that clock frames out

VARIABLES published,  \* number of the last frame published
          taken,      \* taken[p]: number of the last frame p took
          busy,       \* busy[p]: p is reading the frame it took
          lost,       \* the PRUs that will never take the last frame
          open,       \* the process has not begun to close the strips
          deaths      \* how often the process has died

vars == <<published, taken, busy, lost, open, deaths>>

Init ==
  /\ published = 0
  /\ taken = [p \in Pru |-> 0]
  /\ busy = [p \in Pru |-> FALSE]
  /\ lost = {} /\ open = TRUE /\ deaths = 0

\* The last frame has been taken and finished, or lost.
Publish ==
  /\ open
  /\ \A p \in Pru : ~busy[p] /\ (taken[p] = published \/ p \in lost)
  /\ published' = published + 1 /\ lost' = {}
  /\ UNCHANGED <<taken, busy, open, deaths>>

Take(p) ==
  /\ taken[p] < published /\ p \notin lost
  /\ taken' = [taken EXCEPT ![p] = published]
  /\ busy' = [busy EXCEPT ![p] = TRUE]
  /\ UNCHANGED <<published, lost, open, deaths>>

Finish(p) ==
  /\ busy[p]
  /\ busy' = [busy EXCEPT ![p] = FALSE]
  /\ UNCHANGED <<published, taken, lost, open, deaths>>

Close ==
  /\ open /\ open' = FALSE
  /\ UNCHANGED <<published, taken, busy, lost, deaths>>

\* A PRU is stopped before it takes the frame.
Abandon(p) ==
  /\ ~open
  /\ taken[p] < published /\ p \notin lost
  /\ lost' = lost \cup {p}
  /\ UNCHANGED <<published, taken, busy, open, deaths>>

\* The process dies, and with it what it had not told the PRUs.
Die ==
  /\ \E S \in SUBSET {p \in Pru : taken[p] < published} : lost' = lost \cup S
  /\ open' = TRUE /\ deaths' = deaths + 1
  /\ UNCHANGED <<published, taken, busy>>

Next == \/ Publish \/ Close \/ Die
        \/ \E p \in Pru : Take(p) \/ Finish(p) \/ Abandon(p)

Safety == Init /\ [][Next]_vars
=============================================================================
