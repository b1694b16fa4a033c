--------------------------- MODULE ProfileCompiler ---------------------------
(***************************************************************************)
(* What becomes of the summary of a process block: _blocks and             *)
(* _compact_sample of experiments/vllm_profiling/compile.py, then the      *)
(* evidence checks of validation/vllm_profiling/validate.py.  Both judge   *)
(* a block by itself, but for the number of blocks and their provenance.   *)
(***************************************************************************)
EXTENDS EngineLifecycle

\* _blocks: the schedule it expects, which it computes anew.
ExpectedConditions ==
  IF job.method = "sleep_l2"
    THEN [<<"warm", "warm", "warm">> EXCEPT ![(job.index % 3) + 1] = "cold"]
    ELSE <<"none", "none", "none">>

BlockAccepted ==
  /\ summary = "ok" /\ job.index \in 0..2
  /\ Len(cycles) = 3 /\ \A i \in 1..3 : cycles[i].ok
  /\ \A i \in 1..3 : cycles[i].condition = ExpectedConditions[i]

\* _sleep_phases, _wake_phases: one event in every window; exact disk from disk.
MechanismAccepted ==
  closed /\ (job.method = "exact_disk" => \A i \in 1..3 : cycles[i].medium = {"disk"})

\* Defect: what was read is not looked at.
CacheAccepted_ResidencyOnly ==
  \A i, j \in 1..3 :
    /\ cycles[i].condition = "cold" => 100 * cycles[i].found <= 5 * NFiles
    /\ i # j /\ cycles[i].condition = "warm" /\ cycles[j].condition = "warm" =>
         100 * (cycles[i].found + cycles[j].found) >= 90 * 2 * NFiles

\* The validator's limits, on the cold cycle and the mean of the two warm cycles.
CacheAccepted ==
  \A i, j \in 1..3 :
    /\ cycles[i].condition = "cold" =>
         /\ 100 * cycles[i].found <= 5 * NFiles
         /\ 100 * cycles[i].read >= 90 * NFiles
    /\ i # j /\ cycles[i].condition = "warm" /\ cycles[j].condition = "warm" =>
         /\ 100 * (cycles[i].found + cycles[j].found) >= 90 * 2 * NFiles
         /\ 100 * (cycles[i].read + cycles[j].read) <= 10 * 2 * NFiles

Retained == job.driver = "block" /\ BlockAccepted /\ MechanismAccepted /\ CacheAccepted

-----------------------------------------------------------------------------
(* Properties.                                                             *)

\* A retained block measured what its labels say, whatever limits were given on
\* the command line and whatever others did to the page cache between the
\* measurement and the load.  What the counters can hide is this much and no
\* more: the cold cycle took less from storage than its label says only if
\* another process of the driver's tree read or began in that restore, and the
\* warm ones took more only if one ended.  For exact disk no restore came from
\* anywhere else.
RetainedIsMeasured ==
  Retained =>
    /\ job.method = "sleep_l2" =>
         \E c \in 1..3 :
           /\ cycles[c].condition = "cold"
           /\ 10 * cycles[c].storage >= 9 * NFiles \/ cycles[c].gained
           /\ \A i, j \in 1..3 \ {c} :
                \/ i = j \/ cycles[i].lost \/ cycles[j].lost
                \/ 10 * (cycles[i].storage + cycles[j].storage) <= 2 * NFiles
    /\ job.method = "exact_disk" =>
         \A i \in 1..3 : cycles[i].medium \cap {"cpu", "fallback"} = {}

\* _blocks refuses no block of the first three whose driver ended with status 0:
\* the driver's schedule is the one the compiler computes anew.  The phase checks
\* behind it may still refuse such a block, for a late profile line, several
\* ranks or an exact-disk restore from another medium, of which the driver takes
\* no notice.
CompilerAgrees ==
  job.driver = "block" /\ job.index \in 0..2 /\ exit = 0 => BlockAccepted

=============================================================================
