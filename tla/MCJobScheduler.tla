--------------------------- MODULE MCJobScheduler ---------------------------
(***************************************************************************)
(* JobScheduler for TLC.  The clock and the numbers of the jobs grow for   *)
(* ever, and nothing the scheduler does depends on them but the distance   *)
(* of a job's time from now and the order of the numbers: two states in    *)
(* which these are equal are the same to TLC.                              *)
(***************************************************************************)
EXTENDS JobScheduler

\* The jobs waiting that were added before number n.
Older(n) == Cardinality({j \in jobs : j.n < n})

WaitingView == {[in |-> j.t - now, older |-> Older(j.n), owner |-> j.owner] : j \in jobs}

\* The number of the last job matters as long as jobs are run for its very time.
LastView ==
  IF last.t = now THEN <<"now", Older(last.n)>>
  ELSE IF last.t < now THEN <<"past", 0>> ELSE <<"future", last.t - now>>

View == <<WaitingView, LastView, isRunning, state>>
=============================================================================
