---------------------------- MODULE RenderLatency ----------------------------
(***************************************************************************)
(* How late a picture is on its strip: RenderPipeline with a memory of     *)
(* what frame_data held at the last call of ledscape_draw.  The variable   *)
(* is a history: no action of the pipeline looks at it.                    *)
(***************************************************************************)
EXTENDS RenderPipeline

VARIABLE drawn   \* frame_data when the last frame was published

lateVars == <<vars, drawn>>

LInit == Init /\ drawn = Blank

Remember == drawn' = IF published' = published THEN drawn ELSE frameData

LNext == Next /\ Remember

LSpec == LInit /\ [][LNext]_lateVars
LFairSpec == LSpec /\ Fairness

-----------------------------------------------------------------------------
\* The PRU has shown the last frame, which is one that it shows to the end.
Answered(p) == published \notin Timeouts /\ taken[p] = published /\ ~busy[p]

\* A picture misses one frame at most.  What frame_data held at one call of
\* ledscape_draw is in DDR at the next call, whatever the animation thread copies
\* meanwhile (render.cc:24); and a PRU that has answered shows what is in DDR.
MissesOneFrame ==
  [][\A s \in Strip, x \in Pixel : Forwarded(s, x) =>
       /\ published' # published => ddr'[s][x] >= drawn[s][x]
       /\ Answered(PruOf(s))' => shown'[s][x] = ddr'[s][x]]_lateVars

\* The render thread has waited for its frame since the last one was drawn, and
\* frame_data has only grown newer.
MemoryInv ==
  /\ drawn \in Image
  /\ \A s \in Strip, x \in Pixel :
       /\ drawn[s][x] <= frameData[s][x]
       /\ renderPc # "wait" => drawn[s][x] <= base[s][x]
       /\ Answered(PruOf(s)) => shown[s][x] = ddr[s][x]

LInv == IInv /\ MemoryInv
=============================================================================
