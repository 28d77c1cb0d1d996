------------------------ MODULE JobScheduler_proofs ------------------------
(***************************************************************************)
(* The scheduler of JobScheduler keeps time: no job is overdue, jobs run   *)
(* at their times and in order, for any owners, delays and number of jobs. *)
(*                                                                         *)
(* The invariant adds that the numbers of the jobs waiting have been given *)
(* out, and that whatever waits comes after the last job taken: a new job  *)
(* does because the clock stands at or after that job's time.  No job      *)
(* waits for longer than an int tells, so that the wait for it is whole.   *)
(***************************************************************************)
EXTENDS JobScheduler, TLAPS

\* Jobs waiting, and the one taken last, are numbered up to added.
Numbered ==
  /\ last.n <= added
  /\ \A j \in jobs : j.n <= added

\* The queue holds nothing that should have run before the last job taken.
QueueIsAhead ==
  /\ last.t <= now
  /\ \A j \in jobs : Before(last, j)

\* The time left until a job is within the range of int.
WaitsFit == \A j \in jobs : j.t <= now + MaxInt

IInv == TypeOK /\ NoneIsOverdue /\ RunsOnTime /\ Numbered /\ QueueIsAhead /\ WaitsFit

USE JobSchedulerAssumption

\* A number that is below the divisor is its own remainder.
LEMMA SmallRemainder ==
  ASSUME NEW a \in Nat, NEW b \in Nat, a < b
  PROVE  a % b = a
  OBVIOUS

\* An int holds what is in its range.
LEMMA NarrowedIsWhole ==
  ASSUME NEW d \in 0 .. MaxInt
  PROVE  Narrowed(d) = d
<1>1. d + MaxInt + 1 \in Nat /\ 2 * (MaxInt + 1) \in Nat /\ d + MaxInt + 1 < 2 * (MaxInt + 1)
  OBVIOUS
<1>2. (d + MaxInt + 1) % (2 * (MaxInt + 1)) = d + MaxInt + 1
  BY <1>1, SmallRemainder
<1> QED
  BY <1>2 DEF Narrowed

LEMMA InitIInv == Init => IInv
  BY DEF Init, IInv, TypeOK, NoneIsOverdue, RunsOnTime, Numbered, QueueIsAhead, WaitsFit, Job

\* The step lemmas: one for each operation of the scheduler.
LEMMA AddJobIInv ==
  ASSUME IInv, NEW o \in Owner, NEW d \in Delay, AddJob(o, d)
  PROVE  IInv'
<1> DEFINE new == [t |-> now + d, n |-> added + 1, owner |-> o]
<1>1. new \in Job /\ d \in Nat
  BY DEF IInv, TypeOK, Job, AddJob
<1>2. jobs' = jobs \cup {new} /\ added' = added + 1 /\ added' \in Nat
  BY DEF AddJob, TimeAfter, IInv, TypeOK
<1>3. UNCHANGED <<now, isRunning, state, last>>
  BY DEF AddJob
<1>4. TypeOK'
  BY <1>1, <1>2, <1>3 DEF IInv, TypeOK
<1>5. NoneIsOverdue' /\ RunsOnTime'
  BY <1>1, <1>2, <1>3 DEF IInv, TypeOK, NoneIsOverdue, RunsOnTime
<1>6. Numbered'
  BY <1>1, <1>2, <1>3 DEF IInv, TypeOK, Numbered, Job
<1>7. QueueIsAhead'
  <2>1. Before(last, new)
    BY <1>1 DEF IInv, TypeOK, Numbered, QueueIsAhead, Before
  <2> QED
    BY <1>2, <1>3, <2>1 DEF IInv, QueueIsAhead, Before
<1>8. WaitsFit'
  <2>1. new.t <= now + MaxInt
    BY DEF IInv, TypeOK
  <2> QED
    BY <1>2, <1>3, <2>1 DEF IInv, WaitsFit
<1> QED
  BY <1>4, <1>5, <1>6, <1>7, <1>8 DEF IInv

LEMMA TakeIInv ==
  ASSUME IInv, Take
  PROVE  IInv' /\ Before(last, last')
<1>1. PICK j \in jobs : /\ First(j)
                        /\ j.t <= now
                        /\ jobs' = jobs \ {j}
                        /\ last' = [t |-> j.t, n |-> j.n]
  BY DEF Take, Due
<1>2. state' = "job" /\ UNCHANGED <<added, now, isRunning>>
  BY DEF Take
<1>3. j \in Job
  BY DEF IInv, TypeOK
<1>4. TypeOK'
  BY <1>1, <1>2, <1>3 DEF IInv, TypeOK, Job
<1>5. NoneIsOverdue' /\ RunsOnTime'
  BY <1>1, <1>2, <1>3 DEF IInv, TypeOK, NoneIsOverdue, RunsOnTime, Job
<1>6. Numbered'
  BY <1>1, <1>2 DEF IInv, Numbered
<1>7. QueueIsAhead'
  BY <1>1, <1>2 DEF QueueIsAhead, First, Before
<1>8. Before(last, last')
  BY <1>1 DEF IInv, QueueIsAhead, Before
<1>9. WaitsFit'
  BY <1>1, <1>2 DEF IInv, WaitsFit
<1> QED
  BY <1>4, <1>5, <1>6, <1>7, <1>8, <1>9 DEF IInv

LEMMA WaitIInv ==
  ASSUME IInv, Wait
  PROVE  IInv'
<1>1. PICK j \in jobs : First(j) /\ j.t > now /\ now' = j.t
  <2>1. PICK j \in jobs : First(j) /\ ~Due(j) /\ now' = now + Narrowed(j.t - now)
    BY DEF Wait
  <2>2. j.t \in Nat /\ now \in Nat
    BY DEF IInv, TypeOK, Job
  <2>3. j.t > now /\ j.t - now \in 0 .. MaxInt
    BY <2>1, <2>2 DEF Due, IInv, WaitsFit
  <2>4. now' = now + (j.t - now)
    BY <2>1, <2>3, NarrowedIsWhole
  <2>5. now' = j.t
    BY <2>2, <2>4
  <2> QED
    BY <2>1, <2>3, <2>5
<1>2. UNCHANGED <<jobs, added, isRunning, state, last>> /\ state = "loop"
  BY DEF Wait
<1>3. j \in Job /\ now' \in Nat
  BY <1>1 DEF IInv, TypeOK, Job
<1>4. NoneIsOverdue'
  <2>1. ASSUME NEW i \in jobs PROVE j.t <= i.t
    <3>1. i \in Job
      BY DEF IInv, TypeOK
    <3>2. CASE i = j
      BY <1>3, <3>2 DEF Job
    <3>3. CASE i # j
      BY <1>1, <1>3, <3>1, <3>3 DEF First, Before, Job
    <3> QED
      BY <3>2, <3>3
  <2> QED
    BY <1>1, <1>2, <2>1 DEF NoneIsOverdue
<1>5. TypeOK' /\ RunsOnTime' /\ Numbered'
  BY <1>2, <1>3 DEF IInv, TypeOK, RunsOnTime, Numbered
<1>6. QueueIsAhead'
  BY <1>1, <1>2, <1>3 DEF IInv, TypeOK, QueueIsAhead, Before
<1>7. WaitsFit'
  BY <1>1, <1>2, <1>3 DEF IInv, TypeOK, WaitsFit, Job
<1> QED
  BY <1>4, <1>5, <1>6, <1>7 DEF IInv

LEMMA OtherIInv ==
  ASSUME IInv,
         \/ \E o \in Owner : CancelJobsByOwner(o)
         \/ Stop \/ Run \/ JobReturns \/ Return
         \/ UNCHANGED vars
  PROVE  IInv' /\ last' = last
<1>1. /\ jobs' \subseteq jobs
      /\ UNCHANGED <<added, now, last>>
      /\ isRunning' \in BOOLEAN
      /\ state' \in {"setup", "loop", "job", "stopped"}
      /\ state' = "job" => state = "job"
  BY DEF CancelJobsByOwner, Stop, Run, JobReturns, Return, vars, IInv, TypeOK
<1>2. TypeOK'
  BY <1>1 DEF IInv, TypeOK
<1>3. NoneIsOverdue' /\ RunsOnTime' /\ Numbered' /\ WaitsFit'
  BY <1>1 DEF IInv, NoneIsOverdue, RunsOnTime, Numbered, WaitsFit
<1>4. QueueIsAhead'
  BY <1>1 DEF IInv, QueueIsAhead, Before
<1> QED
  BY <1>1, <1>2, <1>3, <1>4 DEF IInv

LEMMA StepIInv == IInv /\ [Next]_vars => IInv'
<1> SUFFICES ASSUME IInv, [Next]_vars PROVE IInv'
  OBVIOUS
<1>1. CASE \E o \in Owner, d \in Delay : AddJob(o, d)
  BY <1>1, AddJobIInv
<1>2. CASE Take
  BY <1>2, TakeIInv
<1>3. CASE Wait
  BY <1>3, WaitIInv
<1>4. CASE \/ \E o \in Owner : CancelJobsByOwner(o)
           \/ Stop \/ Run \/ JobReturns \/ Return
           \/ UNCHANGED vars
  BY <1>4, OtherIInv
<1> QED
  BY <1>1, <1>2, <1>3, <1>4 DEF Next

LEMMA SpecIInv == Spec => []IInv
  BY InitIInv, StepIInv, PTL DEF Spec

-----------------------------------------------------------------------------
\* Every variable always holds a value of its type.
THEOREM TypeCorrect == Spec => []TypeOK
  BY SpecIInv, PTL DEF IInv

\* The clock never passes a job that waits, though AddJob_ and CancelJobsByOwner
\* change the queue at any time: CJobScheduler::Run waits for its first job only.
THEOREM ClockWaits == Spec => []NoneIsOverdue
  BY SpecIInv, PTL DEF IInv

\* The int that CVirtualSemaphore::Wait takes holds the whole time to the next job: the
\* narrowing never makes a wait shorter, or turns the clock back.
THEOREM IntHoldsTheWait ==
  Spec => []\A j \in jobs : Narrowed(j.t - now) = j.t - now
<1>1. IInv => \A j \in jobs : Narrowed(j.t - now) = j.t - now
  <2> SUFFICES ASSUME IInv, NEW j \in jobs PROVE Narrowed(j.t - now) = j.t - now
    OBVIOUS
  <2>1. j.t - now \in 0 .. MaxInt
    BY DEF IInv, TypeOK, Job, NoneIsOverdue, WaitsFit
  <2> QED
    BY <2>1, NarrowedIsWhole
<1> QED
  BY SpecIInv, <1>1, PTL

\* Every job runs exactly when it was scheduled for: a timeout is never late.
THEOREM OnTime == Spec => []RunsOnTime
  BY SpecIInv, PTL DEF IInv

\* Jobs are taken in the order of their times, and of their insertion for equal
\* times.
THEOREM InOrder == Spec => RunsInOrder
<1>1. IInv /\ [Next]_vars => [last' # last => Before(last, last')]_vars
  <2> SUFFICES ASSUME IInv, [Next]_vars, last' # last PROVE Before(last, last')
    OBVIOUS
  <2>1. CASE Take
    BY <2>1, TakeIInv
  <2>2. CASE \/ \E o \in Owner : CancelJobsByOwner(o)
             \/ Stop \/ Run \/ JobReturns \/ Return
             \/ UNCHANGED vars
    BY <2>2, OtherIInv
  <2>3. CASE Wait \/ \E o \in Owner, d \in Delay : AddJob(o, d)
    BY <2>3 DEF Wait, AddJob
  <2> QED
    BY <2>1, <2>2, <2>3 DEF Next
<1> QED
  BY SpecIInv, <1>1, PTL DEF Spec, RunsInOrder
=============================================================================
