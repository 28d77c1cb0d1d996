---------------------------- MODULE JobScheduler ----------------------------
(***************************************************************************)
(* CJobScheduler on its virtual semaphore and clock (job_scheduler.cpp,    *)
(* semaphore.h, timer.h).  One thread runs every job of the program, in    *)
(* the order of their times; a wait for the next job takes no time but     *)
(* sets the clock forward.  Jobs are added, and cancelled by their owner,  *)
(* by the code that runs before the loop and by the jobs themselves.       *)
(***************************************************************************)
EXTENDS Integers, FiniteSets

CONSTANTS
  Owner,    \* the objects that own jobs
  Delay,    \* the delays jobs are added with
  MaxInt,   \* the greatest int
  MaxJobs   \* bound: jobs waiting at a time

ASSUME JobSchedulerAssumption ==
  /\ MaxInt \in Nat
  /\ Delay \subseteq 0 .. MaxInt
  /\ MaxJobs \in Nat

VARIABLES
  jobs,       \* the jobs waiting, numbered in the order they were added
  added,      \* how many have been added
  now,        \* GetCurrentTime
  isRunning,
  state,      \* "setup", then "loop" or "job" by turns, then "stopped"
  last        \* the job that was taken from the queue last

vars == <<jobs, added, now, isRunning, state, last>>

Job == [t : Nat, n : Nat, owner : Owner]

Init ==
  /\ jobs = {}
  /\ added = 0
  /\ now = 0
  /\ isRunning = TRUE
  /\ state = "setup"
  /\ last = [t |-> 0, n |-> 0]

\* The index by time is ordered, and equal times keep their insertion order.
Before(i, j) == i.t < j.t \/ (i.t = j.t /\ i.n < j.n)

\* Mutant of First: the last of the jobs with the least time.
NewestFirst(j) == j \in jobs /\ \A i \in jobs : j.t < i.t \/ (i.t = j.t /\ i.n <= j.n)

\* jobs.get<time_tag>().begin()
First(j) == j \in jobs /\ \A i \in jobs \ {j} : Before(j, i)

-----------------------------------------------------------------------------
(* What the program does before the loop and in a job                      *)

CallerRuns == state \in {"setup", "job"}

\* AddJob_ adds the delay to the current time.
TimeAfter(d) == now + d

AddJob(o, d) ==
  /\ CallerRuns
  /\ Cardinality(jobs) < MaxJobs
  /\ added' = added + 1
  /\ jobs' = jobs \cup {[t |-> TimeAfter(d), n |-> added + 1, owner |-> o]}
  /\ UNCHANGED <<now, isRunning, state, last>>

CancelJobsByOwner(o) ==
  /\ CallerRuns
  /\ jobs' = {j \in jobs : j.owner # o}
  /\ UNCHANGED <<added, now, isRunning, state, last>>

Stop ==
  /\ state = "job"
  /\ isRunning' = FALSE
  /\ UNCHANGED <<jobs, added, now, state, last>>

-----------------------------------------------------------------------------
(* The loop                                                                *)

\* Run is called.
Run ==
  /\ state = "setup"
  /\ state' = "loop"
  /\ isRunning' = TRUE
  /\ UNCHANGED <<jobs, added, now, last>>

\* Mutant of Due: a job is taken only when it is late.
DueLate(j) == j.t < now

Due(j) == j.t <= now

Take ==
  /\ state = "loop"
  /\ isRunning
  /\ \E j \in jobs :
       /\ First(j)
       /\ Due(j)
       /\ jobs' = jobs \ {j}
       /\ last' = [t |-> j.t, n |-> j.n]
  /\ state' = "job"
  /\ UNCHANGED <<added, now, isRunning>>

JobReturns ==
  /\ state = "job"
  /\ state' = "loop"
  /\ UNCHANGED <<jobs, added, now, isRunning, last>>

\* Wait takes an int, so that the difference of two times is narrowed to it.
Narrowed(d) == ((d + MaxInt + 1) % (2 * (MaxInt + 1))) - (MaxInt + 1)

\* semaphore.Wait(t - now) sets the clock forward, to the time of the first job.
Wait ==
  /\ state = "loop"
  /\ isRunning
  /\ \E j \in jobs :
       /\ First(j)
       /\ ~Due(j)
       /\ now' = now + Narrowed(j.t - now)
  /\ UNCHANGED <<jobs, added, isRunning, state, last>>

Return ==
  /\ state = "loop"
  /\ ~isRunning
  /\ state' = "stopped"
  /\ UNCHANGED <<jobs, added, now, isRunning, last>>

Next ==
  \/ \E o \in Owner : CancelJobsByOwner(o) \/ \E d \in Delay : AddJob(o, d)
  \/ Stop
  \/ Run \/ Take \/ JobReturns \/ Wait \/ Return

Spec == Init /\ [][Next]_vars

\* The loop goes on, and a job returns.
FairSpec == Spec /\ WF_vars(Run) /\ WF_vars(Take) /\ WF_vars(JobReturns) /\ WF_vars(Wait)

-----------------------------------------------------------------------------
\* Every variable holds a value of the type its C++ counterpart is declared with.
TypeOK ==
  /\ jobs \in SUBSET Job
  /\ added \in Nat
  /\ now \in Nat
  /\ isRunning \in BOOLEAN
  /\ state \in {"setup", "loop", "job", "stopped"}
  /\ last \in [t : Nat, n : Nat]

\* The clock never passes a job that is still waiting, whatever jobs are added and
\* cancelled meanwhile: every job runs exactly at its time.
NoneIsOverdue == \A j \in jobs : now <= j.t

\* A job runs at the very time it was scheduled for.
RunsOnTime == state = "job" => now = last.t

\* Jobs run in the order of their times, and those with the same time in the order
\* they were added, even those added by a job for the time it runs at.
RunsInOrder == [][last' # last => Before(last, last')]_vars

\* A step in which the job that has been in the queue longest leaves it.
OldestLeaves ==
  \E j \in jobs \ jobs' : \A i \in jobs : j.n <= i.n

\* Whatever jobs are added again and again, before or after it and for earlier times
\* than its own, no job is left in the queue of a scheduler that is not stopped, unless
\* jobs without any delay are added for ever: Run waits, and the clock goes on, only
\* when none is due.
EveryJobRuns ==
  \/ []<><<OldestLeaves>>_vars
  \/ []<>(jobs = {})
  \/ <>~isRunning
  \/ []<><<\E o \in Owner : AddJob(o, 0)>>_vars
=============================================================================
