----------------------------- MODULE MCScheduler -----------------------------
(* Model values and symmetry for the runs of Scheduler.                     *)
EXTENDS Scheduler, TLC

MCPeriods == {-1, 1, 2}
MCOnePeriod == {1}

\* Schedulers, names and clients are interchangeable.  Used by the runs that
\* check no liveness property.
MCSymmetry ==
  Permutations(Scheds) \cup Permutations(Names) \cup Permutations(Clients)
=============================================================================
