---------------------------- MODULE MCBackupReuse ----------------------------
(***************************************************************************)
(* Instance of BackupReuse for TLC: two models taken in turn, two          *)
(* iterations, and one client of another run.                              *)
(***************************************************************************)
EXTENDS BackupReuse

CONSTANTS m1, m2

MCOrder == <<m1, m2>>

\* The reclaim run, its control, and the control without a coordinator.  The
\* assertions left out only make a verdict stricter.
MCOptions ==
  {[coordinator |-> TRUE, expect |-> "release", reuse |-> FALSE, reclaim |-> FALSE],
   [coordinator |-> TRUE, expect |-> "no_release", reuse |-> FALSE, reclaim |-> FALSE],
   [coordinator |-> FALSE, expect |-> "no_release", reuse |-> TRUE, reclaim |-> FALSE]}

\* Every worker reaches the coordinator, or none does.
MCRegistered == {{m1, m2}, {}}

=============================================================================
