---------------------------- MODULE FrameChannel ----------------------------
(***************************************************************************)
(* What the hand-shake of ledscape/ledscape.c promises to its callers: a   *)
(* one-place channel from the ARM to both PRUs.  A frame is published only *)
(* when every PRU has finished the frame before it; each PRU takes every   *)
(* frame exactly once and is busy with it until it finishes it.            *)
(***************************************************************************)
EXTENDS Naturals

CONSTANTS Pru,        \* the PRUs that clock frames out
          MaxFrames   \* bound on the frames published

VARIABLES published,  \* number of the last frame published
          taken,      \* taken[p]: number of the last frame p took
          busy        \* busy[p]: p is reading the frame it took

vars == <<published, taken, busy>>

Init ==
  /\ published = 0
  /\ taken = [p \in Pru |-> 0]
  /\ busy = [p \in Pru |-> FALSE]

Publish ==
  /\ published < MaxFrames
  /\ \A p \in Pru : taken[p] = published /\ ~busy[p]
  /\ published' = published + 1
  /\ UNCHANGED <<taken, busy>>

Take(p) ==
  /\ taken[p] < published
  /\ taken' = [taken EXCEPT ![p] = published]
  /\ busy' = [busy EXCEPT ![p] = TRUE]
  /\ UNCHANGED published

Finish(p) ==
  /\ busy[p]
  /\ busy' = [busy EXCEPT ![p] = FALSE]
  /\ UNCHANGED <<published, taken>>

Next == Publish \/ \E p \in Pru : Take(p) \/ Finish(p)

Safety == Init /\ [][Next]_vars

Fairness == WF_vars(Publish) /\ \A p \in Pru : WF_vars(Take(p)) /\ WF_vars(Finish(p))

Spec == Safety /\ Fairness
=============================================================================
