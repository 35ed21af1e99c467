------------------------ MODULE RateSchedulerProofs -------------------------
(***************************************************************************)
(* Proofs about RateScheduler, for every length of the second and every    *)
(* rate.  The schedule is exact although timeval_add may leave a full      *)
(* second of microseconds uncarried.                                       *)
(***************************************************************************)
EXTENDS RateScheduler, TLAPS

\* The due times timeval_add produces.
DueTime == [sec : Nat, usec : 0 .. MicrosPerSec]

\* One more second is at least MicrosPerSec microseconds more.
LEMMA LaterSecond ==
  ASSUME NEW m \in Nat, NEW i \in Nat, NEW j \in Nat, i < j
  PROVE  i * m + m <= j * m
<1>1. PICK d \in Nat : j = i + 1 + d
  <2>1. j - i - 1 \in Nat
    OBVIOUS
  <2> QED
    BY <2>1
<1>2. j * m = i * m + m + d * m
  BY <1>1
<1>3. i * m \in Nat /\ d * m \in Nat
  OBVIOUS
<1> QED
  BY <1>2, <1>3

\* timeval_lt (rate-data.cc:16) orders the clock and a due time as the
\* microseconds they stand for, also when the due time has an uncarried second.
THEOREM TimevalLtIsOrder ==
  ASSUME NEW a \in Timeval, NEW b \in DueTime
  PROVE  timeval_lt(a, b) <=> Micros(a) < Micros(b)
<1> USE SchedulerAssumption
<1>1. /\ a.sec \in Nat /\ b.sec \in Nat /\ a.usec \in 0 .. MicrosPerSec - 1
      /\ b.usec \in 0 .. MicrosPerSec /\ MicrosPerSec \in Nat
  BY DEF Timeval, DueTime
<1>2. a.sec * MicrosPerSec \in Nat /\ b.sec * MicrosPerSec \in Nat
  BY <1>1
<1>3. CASE a.sec < b.sec
  <2>1. a.sec * MicrosPerSec + MicrosPerSec <= b.sec * MicrosPerSec
    BY <1>1, <1>3, LaterSecond
  <2> QED
    BY <1>1, <1>2, <1>3, <2>1 DEF timeval_lt, Micros
<1>4. CASE b.sec < a.sec
  <2>1. b.sec * MicrosPerSec + MicrosPerSec <= a.sec * MicrosPerSec
    BY <1>1, <1>4, LaterSecond
  <2> QED
    BY <1>1, <1>2, <1>4, <2>1 DEF timeval_lt, Micros
<1>5. CASE a.sec = b.sec
  BY <1>1, <1>2, <1>5 DEF timeval_lt, Micros
<1> QED
  BY <1>1, <1>3, <1>4, <1>5

\* A step is at least one microsecond and at most one second.
LEMMA StepRange == Step \in 1 .. MicrosPerSec /\ step_frame_tv = [sec |-> 0, usec |-> Step]
<1> USE SchedulerAssumption
<1> DEFINE q == MicrosPerSec \div TimesPerSecond
<1>1. q \in 1 .. MicrosPerSec
  OBVIOUS
<1>2. Step = q
  BY <1>1 DEF Step, Micros, step_frame_tv
<1> QED
  BY <1>1, <1>2 DEF step_frame_tv

\* timeval_add (rate-data.cc:6) adds one step exactly and keeps a due time.
LEMMA AddIsExact ==
  ASSUME NEW t \in DueTime
  PROVE  /\ timeval_add(t, step_frame_tv) \in DueTime
         /\ Micros(timeval_add(t, step_frame_tv)) = Micros(t) + Step
<1> USE SchedulerAssumption
<1> DEFINE s == timeval_add(t, step_frame_tv)
<1>1. /\ t.sec \in Nat /\ t.usec \in 0 .. MicrosPerSec /\ Step \in 1 .. MicrosPerSec
      /\ step_frame_tv.sec = 0 /\ step_frame_tv.usec = Step
  BY StepRange DEF DueTime
<1>2. CASE t.usec + Step > MicrosPerSec
  <2>1. s = [sec |-> t.sec + 1, usec |-> t.usec + Step - MicrosPerSec]
    BY <1>1, <1>2 DEF timeval_add
  <2>2. (t.sec + 1) * MicrosPerSec = t.sec * MicrosPerSec + MicrosPerSec
    BY <1>1
  <2>3. t.sec * MicrosPerSec \in Nat
    BY <1>1
  <2> QED
    BY <1>1, <1>2, <2>1, <2>2, <2>3 DEF DueTime, Micros
<1>3. CASE ~(t.usec + Step > MicrosPerSec)
  <2>1. s = [sec |-> t.sec, usec |-> t.usec + Step]
    BY <1>1, <1>3 DEF timeval_add
  <2>2. t.sec * MicrosPerSec \in Nat
    BY <1>1
  <2> QED
    BY <1>1, <1>3, <2>1, <2>2 DEF DueTime, Micros
<1> QED
  BY <1>2, <1>3

\* timeval_microseconds_until (rate-data.cc:27) is the difference in microseconds.
LEMMA UntilIsDifference ==
  ASSUME NEW a \in Timeval, NEW b \in DueTime
  PROVE  timeval_microseconds_until(a, b) = Micros(b) - Micros(a)
<1> USE SchedulerAssumption
<1>1. /\ a.sec \in Nat /\ b.sec \in Nat /\ a.usec \in Nat /\ b.usec \in Nat
  BY DEF Timeval, DueTime
<1>2. (b.sec - a.sec) * MicrosPerSec = b.sec * MicrosPerSec - a.sec * MicrosPerSec
  BY <1>1
<1>3. a.sec * MicrosPerSec \in Int /\ b.sec * MicrosPerSec \in Int
  BY <1>1
<1>4. timeval_microseconds_until(a, b)
        = b.sec * MicrosPerSec - a.sec * MicrosPerSec + b.usec - a.usec
  BY <1>2 DEF timeval_microseconds_until
<1>5. \A i, j, k, l \in Int : i - j + k - l = (i + k) - (j + l)
  OBVIOUS
<1> QED
  BY <1>1, <1>3, <1>4, <1>5 DEF Micros

-----------------------------------------------------------------------------
\* The times of the state are numbers of microseconds.
LEMMA TimesAreNumbers ==
  ASSUME TypeOK
  PROVE  /\ Micros(clock) \in Nat /\ Micros(frame_tv) \in Nat
         /\ Micros(asked) \in Nat /\ Micros(start) \in Nat
BY SchedulerAssumption DEF TypeOK, Timeval, Micros

\* WaitFrame keeps the schedule and sleeps until the frame is due, if at all.
LEMMA WaitFrameStep == IInv /\ WaitFrame => IInv'
<1> SUFFICES ASSUME IInv, WaitFrame PROVE IInv'
  OBVIOUS
<1> DEFINE due == timeval_add(frame_tv, step_frame_tv)
<1>1. /\ due \in DueTime /\ Micros(due) = Micros(frame_tv) + Step
      /\ Step \in Nat /\ Step > 0
  BY AddIsExact, StepRange, SchedulerAssumption DEF IInv, TypeOK, DueTime
<1>2. /\ Micros(clock) \in Nat /\ Micros(frame_tv) \in Nat /\ Micros(start) \in Nat
      /\ clock \in Timeval
  BY TimesAreNumbers DEF IInv, TypeOK
<1>3. /\ pc = "run" /\ frame_tv' = due /\ UNCHANGED <<clock, start>>
      /\ Micros(clock) >= Micros(frame_tv) /\ returns \in Nat
      /\ Micros(frame_tv) = Micros(start) + returns * Step
  BY DEF WaitFrame, IInv, TypeOK, NoDrift, NeverEarly
<1>4. (returns + 1) * Step = returns * Step + Step /\ returns * Step \in Nat
  BY <1>1, <1>3
<1>5. Micros(frame_tv') = Micros(start') + (returns + 1) * Step
  BY <1>1, <1>2, <1>3, <1>4 DEF Micros
<1>6. timeval_lt(clock, due) <=> Micros(clock) < Micros(due)
  BY <1>1, <1>2, TimevalLtIsOrder
<1>7. CASE timeval_lt(clock, due)
  <2>1. /\ pc' = "sleep" /\ asked' = clock /\ returns' = returns
        /\ delay' = timeval_microseconds_until(clock, due)
    BY <1>7 DEF WaitFrame
  <2>2. delay' = Micros(due) - Micros(clock)
    BY <1>1, <1>2, <2>1, UntilIsDifference
  <2>3. delay' \in 1 .. Step
    BY <1>1, <1>2, <1>3, <1>6, <1>7, <2>2
  <2>4. TypeOK'
    BY <1>1, <1>2, <1>3, <2>1, <2>3 DEF IInv, TypeOK, DueTime
  <2>5. NoDrift'
    BY <1>5, <2>1 DEF NoDrift
  <2>6. Micros(asked') + delay' = Micros(frame_tv')
    BY <1>1, <1>2, <1>3, <2>1, <2>2
  <2> QED
    BY <2>1, <2>3, <2>4, <2>5, <2>6 DEF IInv, NeverEarly, SleepIsShort, SleepIsExact
<1>8. CASE ~timeval_lt(clock, due)
  <2>1. pc' = "run" /\ returns' = returns + 1 /\ UNCHANGED <<asked, delay>>
    BY <1>3, <1>8 DEF WaitFrame
  <2>2. TypeOK'
    BY <1>1, <1>2, <1>3, <2>1 DEF IInv, TypeOK, DueTime
  <2>3. NoDrift'
    BY <1>3, <1>5, <2>1 DEF NoDrift
  <2>4. Micros(clock') >= Micros(frame_tv')
    BY <1>1, <1>2, <1>3, <1>6, <1>8
  <2> QED
    BY <2>1, <2>2, <2>3, <2>4 DEF IInv, NeverEarly, SleepIsShort, SleepIsExact
<1> QED
  BY <1>7, <1>8

\* The schedule's invariant holds throughout, at every rate.
THEOREM SchedulerInvariance == Spec => []IInv
<1>1. Init => IInv
  <2> SUFFICES ASSUME Init PROVE IInv
    OBVIOUS
  <2> USE SchedulerAssumption
  <2>1. TypeOK
    BY DEF Init, TypeOK, Timeval
  <2>2. Step \in Nat /\ Micros(start) \in Nat
    BY <2>1, StepRange, TimesAreNumbers
  <2> QED
    BY <2>1, <2>2 DEF Init, IInv, NoDrift, NeverEarly, SleepIsShort, SleepIsExact
<1>2. IInv /\ [Next]_vars => IInv'
  <2> SUFFICES ASSUME IInv, [Next]_vars PROVE IInv'
    OBVIOUS
  <2>1. CASE Pass
    <3>1. PICK t \in [sec : 0 .. MaxSec, usec : 0 .. MicrosPerSec - 1] :
            Micros(t) >= Micros(clock) /\ clock' = t
      BY <2>1 DEF Pass
    <3>2. t \in Timeval
      BY SchedulerAssumption DEF Timeval
    <3>3. TypeOK'
      BY <2>1, <3>1, <3>2 DEF IInv, TypeOK, Pass
    <3>4. /\ Micros(clock') >= Micros(clock) /\ Micros(clock') \in Nat
          /\ Micros(clock) \in Nat /\ Micros(frame_tv) \in Nat
      BY <3>1, <3>2, SchedulerAssumption DEF IInv, TypeOK, Timeval, Micros
    <3> QED
      BY <2>1, <3>3, <3>4 DEF IInv, Pass, NoDrift, NeverEarly, SleepIsShort,
        SleepIsExact
  <2>2. CASE WaitFrame
    BY <2>2, WaitFrameStep
  <2>3. CASE Wake
    <3>1. TypeOK'
      BY <2>3 DEF Wake, IInv, TypeOK
    <3>2. /\ pc = "sleep" /\ pc' = "run" /\ returns' = returns + 1 /\ returns \in Nat
          /\ UNCHANGED <<clock, frame_tv, start>>
          /\ Micros(clock) >= Micros(frame_tv)
      BY <2>3 DEF Wake, IInv, TypeOK, SleepIsExact
    <3> QED
      BY <3>1, <3>2 DEF IInv, NoDrift, NeverEarly, SleepIsShort, SleepIsExact
  <2>4. CASE UNCHANGED vars
    BY <2>4 DEF vars, IInv, TypeOK, NoDrift, NeverEarly, SleepIsShort, SleepIsExact
  <2> QED
    BY <2>1, <2>2, <2>3, <2>4 DEF Next, Thread
<1> QED
  BY <1>1, <1>2, PTL DEF Spec

\* Frame k is due exactly k steps after the start.
THEOREM ScheduleIsExact == Spec => []NoDrift
<1>1. IInv => NoDrift
  BY DEF IInv
<1> QED
  BY <1>1, SchedulerInvariance, PTL

\* WaitFrame never returns early.
THEOREM FramesAreNeverEarly == Spec => []NeverEarly
<1>1. IInv => NeverEarly
  BY DEF IInv
<1> QED
  BY <1>1, SchedulerInvariance, PTL

\* A sleep lasts one step at most, so its int delay cannot overflow.
THEOREM SleepsAreShort == Spec => []SleepIsShort
<1>1. IInv => SleepIsShort
  BY DEF IInv
<1> QED
  BY <1>1, SchedulerInvariance, PTL

\* rate-data.cc:8: a due time is normalised, or a second written as its microseconds.
THEOREM TimesAreTyped == Spec => []TypeOK
<1>1. IInv => TypeOK
  BY DEF IInv
<1> QED
  BY <1>1, SchedulerInvariance, PTL

-----------------------------------------------------------------------------
(* RateScheduler implements PeriodicTask.                                    *)

\* Every step of the scheduler is a step of the task, or stutters.
LEMMA IdealStep == IInv /\ [Next]_vars => [Ideal!Next]_(Ideal!vars)
<1> SUFFICES ASSUME IInv, [Next]_vars PROVE [Ideal!Next]_(Ideal!vars)
  OBVIOUS
<1> DEFINE due == timeval_add(frame_tv, step_frame_tv)
<1>1. /\ due \in DueTime /\ Micros(due) = Micros(frame_tv) + Step /\ Step \in Nat
  BY AddIsExact, StepRange, SchedulerAssumption DEF IInv, TypeOK, DueTime
<1>2. /\ Micros(clock) \in Nat /\ Micros(frame_tv) \in Nat /\ Micros(start) \in Nat
      /\ clock \in Timeval /\ returns \in Nat
  BY TimesAreNumbers DEF IInv, TypeOK
<1>3. Micros(frame_tv) = Micros(start) + (returns + IF pc = "sleep" THEN 1 ELSE 0) * Step
  BY DEF IInv, NoDrift
<1>4. returns * Step \in Nat /\ (returns + 1) * Step = returns * Step + Step
  BY <1>1, <1>2
<1>5. CASE Pass
  <2>1. PICK t \in [sec : 0 .. MaxSec, usec : 0 .. MicrosPerSec - 1] :
          Micros(t) >= Micros(clock) /\ clock' = t
    BY <1>5 DEF Pass
  <2>2. Micros(t) \in Nat
    BY SchedulerAssumption DEF Micros
  <2>3. Ideal!Pass
    BY <1>5, <2>1, <2>2 DEF Pass, Ideal!Pass, Micros
  <2> QED BY <2>3 DEF Ideal!Next
<1>6. CASE WaitFrame
  <2>1. pc = "run" /\ Micros(clock)' = Micros(clock) /\ Micros(start)' = Micros(start)
    BY <1>6 DEF WaitFrame, Micros
  <2>2. Ideal!DueTime(returns + 1) = Micros(due)
    BY <1>1, <1>2, <1>3, <1>4, <2>1 DEF Ideal!DueTime
  <2>3. timeval_lt(clock, due) <=> Micros(clock) < Micros(due)
    BY <1>1, <1>2, TimevalLtIsOrder
  <2>4. CASE timeval_lt(clock, due)
    <3>1. pc' = "sleep" /\ returns' = returns
      BY <1>6, <2>4 DEF WaitFrame
    <3>2. Ideal!Wait
      BY <2>1, <2>2, <2>3, <2>4, <3>1 DEF Ideal!Wait
    <3> QED BY <3>2 DEF Ideal!Next
  <2>5. CASE ~timeval_lt(clock, due)
    <3>1. pc' = "run" /\ returns' = returns + 1
      BY <1>6, <2>5 DEF WaitFrame
    <3>2. Micros(clock) >= Micros(due) /\ Micros(due) \in Nat
      BY <1>1, <1>2, <2>3, <2>5
    <3>3. Ideal!Begin
      BY <2>1, <2>2, <3>1, <3>2 DEF Ideal!Begin
    <3> QED BY <3>3 DEF Ideal!Next
  <2> QED BY <2>4, <2>5
<1>7. CASE Wake
  <2>1. /\ pc = "sleep" /\ pc' = "run" /\ returns' = returns + 1
        /\ Micros(clock)' = Micros(clock) /\ Micros(start)' = Micros(start)
        /\ Micros(clock) >= Micros(frame_tv)
    BY <1>7 DEF Wake, IInv, SleepIsExact, Micros
  <2>2. Ideal!DueTime(returns + 1) = Micros(frame_tv)
    BY <1>2, <1>3, <1>4, <2>1 DEF Ideal!DueTime
  <2>3. Ideal!Begin
    BY <2>1, <2>2 DEF Ideal!Begin
  <2> QED BY <2>3 DEF Ideal!Next
<1>8. CASE UNCHANGED vars
  BY <1>8 DEF vars, Ideal!vars, Micros
<1> QED
  BY <1>5, <1>6, <1>7, <1>8 DEF Next, Thread

\* rate-data.cc:38: sleeping, waking and catching up are those of a task that
\* counts in whole microseconds, for every rate and however late the thread is.
THEOREM PeriodicTaskImplemented == Spec => ImplementsPeriodicTask
<1>1. Init => Ideal!Init
  <2> SUFFICES ASSUME Init PROVE Ideal!Init
    OBVIOUS
  <2>1. Micros(clock) \in Nat
    BY SchedulerAssumption DEF Init, Micros
  <2>2. (pc = "sleep") = FALSE
    BY DEF Init
  <2> QED BY <2>1, <2>2 DEF Init, Ideal!Init
<1> QED
  BY <1>1, IdealStep, SchedulerInvariance, PTL
  DEF Spec, ImplementsPeriodicTask, Ideal!Safety
=============================================================================
