--------------------------- MODULE RateScheduler ----------------------------
(***************************************************************************)
(* opc/rate-data.cc: the scheduler both threads of opc-server use to run   *)
(* their loop at a fixed rate.  WaitFrame advances frame_tv by one step    *)
(* and sleeps until the clock reaches it, if it has not already.           *)
(*                                                                         *)
(* The clock is the wall clock, assumed here never to be set back.         *)
(***************************************************************************)
EXTENDS Integers

CONSTANTS MicrosPerSec,    \* 1000000
          TimesPerSecond,  \* the constructor's argument
          MaxSec           \* bound: the clock stops at this second

ASSUME SchedulerAssumption ==
  /\ MicrosPerSec \in Nat \ {0} /\ TimesPerSecond \in 1 .. MicrosPerSec
  /\ MaxSec \in Nat

\* The times gettimeofday returns.
Timeval == [sec : Nat, usec : 0 .. MicrosPerSec - 1]

\* Microseconds since the epoch: what a timeval stands for.
Micros(t) == t.sec * MicrosPerSec + t.usec

-----------------------------------------------------------------------------
\* The comparison is >, so that usec may be left at MicrosPerSec.
timeval_add(dst, added) ==
  LET usec == dst.usec + added.usec
  IN  IF usec > MicrosPerSec
      THEN [sec |-> dst.sec + 1 + added.sec, usec |-> usec - MicrosPerSec]
      ELSE [sec |-> dst.sec + added.sec, usec |-> usec]

\* Mutant: seconds and microseconds are both compared.
timeval_lt_both(a, b) == a.sec <= b.sec /\ a.usec < b.usec

timeval_lt(a, b) == a.sec < b.sec \/ (a.sec = b.sec /\ a.usec < b.usec)

\* Mutant: only the microseconds are subtracted.
timeval_microseconds_between(a, b) == b.usec - a.usec

timeval_microseconds_until(a, b) ==
  (b.sec - a.sec) * MicrosPerSec + b.usec - a.usec

step_frame_tv == [sec |-> 0, usec |-> MicrosPerSec \div TimesPerSecond]
Step == Micros(step_frame_tv)

VARIABLES
  clock,     \* the wall clock
  frame_tv,  \* when the current frame is due
  pc,        \* "run": between two calls of WaitFrame; "sleep": in usleep
  asked,     \* the reading of the clock its delay was computed from
  delay,     \* the argument of usleep
  start,     \* history: frame_tv of the constructor
  returns    \* history: how often WaitFrame has returned

vars == <<clock, frame_tv, pc, asked, delay, start, returns>>

Init ==
  /\ clock \in [sec : {0}, usec : 0 .. MicrosPerSec - 1]
  /\ frame_tv = clock /\ start = clock
  /\ pc = "run" /\ asked = clock /\ delay = 0
  /\ returns = 0

\* Time passes while the loop's body runs, is preempted or sleeps; two readings
\* of the clock may also be equal.
Pass ==
  /\ \E t \in [sec : 0 .. MaxSec, usec : 0 .. MicrosPerSec - 1] :
       Micros(t) >= Micros(clock) /\ clock' = t
  /\ UNCHANGED <<frame_tv, pc, asked, delay, start, returns>>

\* Mutant: a late frame restarts the schedule at the current time.
WaitFrameFromNow ==
  /\ pc = "run"
  /\ LET due == timeval_add(frame_tv, step_frame_tv)
     IN  IF timeval_lt(clock, due)
         THEN /\ frame_tv' = due
              /\ pc' = "sleep" /\ asked' = clock
              /\ delay' = timeval_microseconds_until(clock, due)
              /\ UNCHANGED returns
         ELSE /\ frame_tv' = clock
              /\ returns' = returns + 1 /\ UNCHANGED <<pc, asked, delay>>
  /\ UNCHANGED <<clock, start>>

WaitFrame ==
  /\ pc = "run"
  /\ LET due == timeval_add(frame_tv, step_frame_tv)
     IN  /\ frame_tv' = due
         /\ IF timeval_lt(clock, due)
            THEN /\ pc' = "sleep" /\ asked' = clock
                 /\ delay' = timeval_microseconds_until(clock, due)
                 /\ UNCHANGED returns
            ELSE returns' = returns + 1 /\ UNCHANGED <<pc, asked, delay>>
  /\ UNCHANGED <<clock, start>>

\* usleep returns when at least its argument has passed.
Wake ==
  /\ pc = "sleep"
  /\ Micros(clock) >= Micros(asked) + delay
  /\ pc' = "run" /\ returns' = returns + 1
  /\ UNCHANGED <<clock, frame_tv, asked, delay, start>>

Thread == WaitFrame \/ Wake
Next == Pass \/ Thread

Spec == Init /\ [][Next]_vars

\* The thread is scheduled; nothing makes time pass.
FairSpec == Spec /\ WF_vars(Thread)

-----------------------------------------------------------------------------
\* A frame is due at a normalised time, or at one second and no microseconds
\* written as MicrosPerSec microseconds.
TypeOK ==
  /\ clock \in Timeval /\ asked \in Timeval /\ start \in Timeval
  /\ frame_tv \in [sec : Nat, usec : 0 .. MicrosPerSec]
  /\ pc \in {"run", "sleep"} /\ delay \in Int /\ returns \in Nat

\* The schedule does not drift: whatever the carries do and however late the
\* thread is, frame k is due k steps after the start.
NoDrift ==
  Micros(frame_tv) =
    Micros(start) + (returns + IF pc = "sleep" THEN 1 ELSE 0) * Step

\* WaitFrame never returns before the frame it waits for is due.
NeverEarly == pc = "run" => Micros(clock) >= Micros(frame_tv)

\* It never sleeps longer than one step, so that the int its delay is computed
\* in (rate-data.cc:27) cannot overflow, nor does it sleep when it is late.
SleepIsShort == pc = "sleep" => delay \in 1 .. Step

\* The sleep ends when the frame is due.
SleepIsExact == pc = "sleep" => Micros(asked) + delay = Micros(frame_tv)

IInv == TypeOK /\ NoDrift /\ NeverEarly /\ SleepIsShort /\ SleepIsExact

\* WaitFrame implements PeriodicTask: it sleeps exactly when the frame is not due
\* (rate-data.cc:39), wakes up when it is, and skips nothing when it is late.
Ideal == INSTANCE PeriodicTask WITH
  now <- Micros(clock),
  beginning <- Micros(start),
  frames <- returns,
  waiting <- (pc = "sleep")

ImplementsPeriodicTask == Ideal!Safety

\* No frame is dropped: once the clock has passed the time of frame k, the loop
\* eventually gets to it, in a burst if it was held up for several frames.
EveryFrameHappens ==
  \A k \in 1 .. MaxSec * TimesPerSecond :
    Micros(clock) >= Micros(start) + k * Step ~> returns >= k
=============================================================================
