--------------------------- MODULE EngineLifecycle ---------------------------
(***************************************************************************)
(* Repeated sleep and wake of one engine by the three drivers of the       *)
(* harness, and what becomes of their results:                             *)
(*   "block": experiments/vllm_profiling/block_driver.py with the page     *)
(*            cache treatment of page_cache.py; its summary is judged by   *)
(*            compile.py and the validator of the family;                  *)
(*   "http":  experiments/exact_disk/lifecycle_driver.py;                  *)
(*   "adapter": adapters/vllm_lifecycle.py, for the lifecycle latencies.   *)
(* The engine has one rank or more.  Its page cache is the host's: other   *)
(* processes read checkpoint files into it and memory pressure evicts them *)
(* at any time.  A checkpoint is a sequence of files of one size.  The     *)
(* process tree of a driver has the engine's processes, which live through *)
(* a restore, and others, which begin, end and read files of their own.    *)
(***************************************************************************)
EXTENDS Integers, Sequences, Functions

CONSTANTS
  Jobs,      \* the invocations considered
  NFiles,    \* the number of checkpoint files
  MaxReads,  \* bound: how far what the other processes have read moves, in files
  MaxChanges \* bound: how often that changes during restores

Methods  == {"sleep_l1", "sleep_l2", "cpu_backup", "exact_disk"}
Files    == 1..NFiles
Percent  == 0..100
Limits   == [coldMaxResident : Percent, coldMinRead : Percent,
             warmMinResident : Percent, warmMaxRead : Percent]
Job      == [driver : {"block", "http", "adapter"}, method : Methods, ranks : Nat \ {0},
             index : Nat, total : Nat \ {0}, limits : Limits]

ASSUME LifecycleAssumption ==
  /\ NFiles \in Nat \ {0} /\ MaxReads \in Nat /\ MaxChanges \in Nat
  /\ Jobs \subseteq Job
  /\ \A j \in Jobs : /\ j.driver = "block" => j.total = 3
                     /\ j.driver = "http" => j.method = "exact_disk"
                     /\ j.driver = "adapter" => j.method \in {"sleep_l1", "sleep_l2"}

VARIABLES
  job,       \* the command line: driver, method, process block, cycles, limits
  pc,        \* the driver's position
  weights,   \* the engine's weights on the GPU
  kv,        \* its KV cache is mapped
  backup,    \* per rank: where it keeps the weights while it sleeps
  resident,  \* the files in the page cache
  next,      \* the file to treat, measure or load next
  found,     \* files that were resident when they were measured
  storage,   \* files the engine took from storage in this restore
  others,    \* what the others there are have read in all, less that sum at the start
  changes,   \* how often that has changed
  before,    \* io_before
  read,      \* io_delta
  gained,    \* since io_before others read, or began
  lost,      \* since io_before others ended
  medium,    \* where the last restore took the weights from
  cycles,    \* the cycles recorded; "storage", "gained" and "lost" are in no record
  closed,    \* every profile window read so far holds exactly one event
  summary,   \* the result file
  verdict,   \* the result to be written
  exit       \* the exit status

engineVars == <<weights, kv, backup>>
cacheVars  == <<next, found, storage>>
treeVars   == <<others, changes, gained, lost>>
ioVars     == <<treeVars, before, read>>
resultVars == <<cycles, closed, summary, verdict, exit>>
vars == <<job, pc, engineVars, resident, cacheVars, ioVars, medium, resultVars>>

Ranks     == 1..job.ranks
Reports   == {"done", "remaining", "pending", "nothing", "partial", "no_object"}
Media     == {"cpu", "disk", "fallback", "checkpoint"}
RunSteps  == {"load", "infer", "demote", "sleep", "evict", "measure", "io_before",
              "wake_weights", "reload", "wake_kv", "wake", "io_after", "infer_after", "result"}
Ended     == {"done", "killed"}
NoStatus  == 256
Cycle     == [condition : {"none", "cold", "warm"}, found : 0..NFiles, read : Nat,
              storage : 0..NFiles, gained : BOOLEAN, lost : BOOLEAN, medium : SUBSET Media,
              equal : BOOLEAN, ok : BOOLEAN]

TypeOK ==
  /\ job \in Jobs
  /\ pc \in RunSteps \cup {"write"} \cup Ended
  /\ weights \in {"none", "loaded", "asleep", "lost", "blank"} /\ kv \in BOOLEAN
  /\ backup \in [Ranks -> {"none", "cpu", "disk"}]
  /\ resident \subseteq Files
  /\ next \in Files /\ found \in 0..NFiles /\ storage \in 0..NFiles
  /\ others \in -MaxReads..MaxReads /\ changes \in 0..MaxChanges
  /\ before \in Int /\ read \in Nat /\ gained \in BOOLEAN /\ lost \in BOOLEAN
  /\ medium \subseteq Media
  /\ cycles \in Seq(Cycle)
  /\ Len(cycles) <= job.total
  /\ closed \in BOOLEAN
  /\ summary \in {"none", "torn", "ok", "failed"} /\ verdict \in {"ok", "failed"}
  /\ exit \in {0, 1, 2, NoStatus}

Init ==
  /\ job \in Jobs
  /\ pc = "load"
  /\ weights = "none" /\ kv = FALSE /\ backup = [r \in Ranks |-> "none"]
  /\ resident \in SUBSET Files
  /\ next = 1 /\ found = 0 /\ storage = 0 /\ medium = {}
  /\ others = 0 /\ changes = 0 /\ before = 0 /\ read = 0 /\ gained = FALSE /\ lost = FALSE
  /\ cycles = <<>> /\ closed = TRUE
  /\ summary = "none" /\ verdict = "failed" /\ exit = NoStatus

-----------------------------------------------------------------------------
(* The schedule of the cycles.                                             *)

\* Defect: the rotation starts with the second cycle.
Schedule_Shifted(index, total) ==
  [i \in 1..total |-> IF i - 1 = (index + 1) % total THEN "cold" ELSE "warm"]

\* l2_cache_schedule: one cold cycle, whose position rotates with the block.
Schedule(index, total) ==
  [i \in 1..total |-> IF i - 1 = index % total THEN "cold" ELSE "warm"]

\* Only the block driver treats the page cache, and only for level 2.
Conditions == IF job.driver = "block" /\ job.method = "sleep_l2"
                THEN Schedule(job.index, job.total)
                ELSE [i \in 1..job.total |-> "none"]
Condition  == Conditions[Len(cycles) + 1]

-----------------------------------------------------------------------------
(* Load, the first inference and the demotion.                             *)

\* LLM(...), for a block after the check of an idle GPU; the HTTP driver waits for
\* /health.
Load ==
  /\ pc = "load"
  /\ weights' = "loaded" /\ kv' = TRUE
  /\ pc' = "infer"
  /\ UNCHANGED <<job, backup, resident, cacheVars, ioVars, medium, resultVars>>

Infer ==
  /\ pc = "infer"
  /\ pc' = IF job.method = "exact_disk" THEN "demote" ELSE "sleep"
  /\ UNCHANGED <<job, engineVars, resident, cacheVars, ioVars, medium, resultVars>>

\* What a rank may report of the backup it is left with.  A "partial" report has
\* no figures for what is left; "no_object" is none at all.
ReportFits(report, left) ==
  CASE report = "done" -> left = "disk"
    [] report \in {"remaining", "pending"} -> left = "cpu"
    [] report = "nothing" -> left # "disk"
    [] OTHER -> TRUE

\* Defect: both drivers are as lenient as the HTTP driver.
Demoted_Lenient(report) == \A r \in Ranks : report[r] \in {"done", "partial", "no_object"}

\* The block driver takes a figure that is missing for one that is wrong, and
\* fails on what is no object.
DemotedBlock(report) == \A r \in Ranks : report[r] = "done"

\* The HTTP driver takes a missing figure for zero, and skips what is no object.
DemotedHttp(report) == \A r \in Ranks : report[r] \in {"done", "partial", "no_object"}

Demoted(report) == IF job.driver = "block" THEN DemotedBlock(report) ELSE DemotedHttp(report)

\* demote_weight_cpu_backup_to_disk on every rank.
Demote ==
  /\ pc = "demote"
  /\ \E report \in [Ranks -> Reports], left \in [Ranks -> {"none", "cpu", "disk"}] :
       /\ \A r \in Ranks : ReportFits(report[r], left[r])
       /\ Demoted(report)
       /\ backup' = left
  /\ pc' = "sleep"
  /\ UNCHANGED <<job, weights, kv, resident, cacheVars, ioVars, medium, resultVars>>

-----------------------------------------------------------------------------
(* A cycle: sleep, cache treatment, restore, inference.                    *)

Level == IF job.method = "sleep_l2" THEN 2 ELSE 1

\* Level 1 keeps the weights in a backup, level 2 drops them.
Sleep ==
  /\ pc = "sleep"
  /\ kv' = FALSE
  /\ weights' = IF Level = 2 THEN "lost" ELSE "asleep"
  /\ backup' = IF Level = 2 THEN backup
               ELSE [r \in Ranks |-> IF backup[r] = "none" THEN "cpu" ELSE backup[r]]
  /\ next' = 1 /\ found' = 0 /\ storage' = 0 /\ medium' = {}
  /\ before' = 0 /\ read' = 0 /\ gained' = FALSE /\ lost' = FALSE
  /\ pc' = CASE Condition = "cold" -> "evict" [] Condition = "warm" -> "measure"
             [] OTHER -> IF Level = 2 THEN "wake_weights" ELSE "wake"
  /\ UNCHANGED <<job, resident, others, changes, resultVars>>

\* The loops of evict_page_cache, measure_page_cache and the engine's load.
NextFile(here, after) ==
  /\ pc = here
  /\ next' = IF next = NFiles THEN 1 ELSE next + 1
  /\ pc' = IF next = NFiles THEN after ELSE here

\* evict_page_cache: the advice need not be followed, nor fail the treatment.
Evict ==
  /\ NextFile("evict", "measure")
  /\ resident' \in {resident, resident \ {next}}
  /\ UNCHANGED <<job, engineVars, found, storage, ioVars, medium, resultVars>>

\* measure_page_cache, after an eviction or alone.
Measure ==
  /\ NextFile("measure", "io_before")
  /\ found' = found + IF next \in resident THEN 1 ELSE 0
  /\ UNCHANGED <<job, engineVars, resident, storage, ioVars, medium, resultVars>>

\* process_tree_io_snapshot: the sum over the processes there are, less what it was
\* when the engine went to sleep and the others started.
Snapshot == storage + others

IoBefore ==
  /\ pc = "io_before"
  /\ before' = Snapshot
  /\ gained' = FALSE /\ lost' = FALSE
  /\ pc' = "wake_weights"
  /\ UNCHANGED <<job, engineVars, resident, cacheVars, others, changes, read, medium, resultVars>>

\* Defect: the weights are mapped and never loaded.
WakeWeights_NoReload ==
  /\ pc = "wake_weights"
  /\ weights' = "blank"
  /\ pc' = "wake_kv"
  /\ UNCHANGED <<job, kv, backup, resident, cacheVars, ioVars, medium, resultVars>>

\* Level 2 is restored in three calls: the weights' memory, the weights, the KV cache.
WakeWeights ==
  /\ pc = "wake_weights"
  /\ weights' = "blank"
  /\ pc' = "reload"
  /\ UNCHANGED <<job, kv, backup, resident, cacheVars, ioVars, medium, resultVars>>

\* reload_weights: what is not in the page cache comes from storage.
Reload ==
  /\ NextFile("reload", "wake_kv")
  /\ weights' = IF next = NFiles THEN "loaded" ELSE weights
  /\ storage' = storage + IF next \in resident THEN 0 ELSE 1
  /\ resident' = resident \cup {next}
  /\ medium' = {"checkpoint"}
  /\ UNCHANGED <<job, kv, backup, found, ioVars, resultVars>>

WakeKv ==
  /\ pc = "wake_kv"
  /\ kv' = TRUE
  /\ pc' = IF Condition = "none" THEN "infer_after" ELSE "io_after"
  /\ UNCHANGED <<job, weights, backup, resident, cacheVars, ioVars, medium, resultVars>>

\* wake_up() with every tag; a rank may fall back from a backup on disk.
Wake ==
  /\ pc = "wake"
  /\ \E from \in [Ranks -> {"cpu", "disk", "fallback"}] :
       /\ \A r \in Ranks : IF backup[r] = "disk" THEN from[r] # "cpu" ELSE from[r] = "cpu"
       /\ medium' = Range(from)
  /\ weights' = "loaded" /\ kv' = TRUE
  /\ pc' = "infer_after"
  /\ UNCHANGED <<job, backup, resident, cacheVars, ioVars, resultVars>>

\* process_tree_io_delta of read_bytes: who left the tree took its count along.
IoAfter ==
  /\ pc = "io_after"
  /\ read' = IF Snapshot > before THEN Snapshot - before ELSE 0
  /\ pc' = "infer_after"
  /\ UNCHANGED <<job, engineVars, resident, cacheVars, treeVars, before, medium, resultVars>>

\* validate_cache_observation with the limits of the command line.
Valid(condition, measured, delta) ==
  CASE condition = "cold" -> /\ 100 * measured <= job.limits.coldMaxResident * NFiles
                             /\ 100 * delta >= job.limits.coldMinRead * NFiles
    [] condition = "warm" -> /\ 100 * measured >= job.limits.warmMinResident * NFiles
                             /\ 100 * delta <= job.limits.warmMaxRead * NFiles
    [] OTHER -> TRUE

\* A profile line may reach the file after its window was read; every rank writes
\* one, and the compiler wants a single one.  The adapter records an unequal output
\* and goes on.
InferAfter ==
  /\ pc = "infer_after"
  /\ \E equal \in BOOLEAN, one \in IF job.ranks = 1 THEN BOOLEAN ELSE {FALSE} :
       /\ job.driver = "http" => equal
       /\ cycles' = Append(cycles, [condition |-> Condition, found |-> found, read |-> read,
                                    storage |-> storage, gained |-> gained, lost |-> lost,
                                    medium |-> medium, equal |-> equal,
                                    ok |-> equal /\ Valid(Condition, found, read)])
       /\ closed' = (closed /\ one)
  /\ pc' = IF Len(cycles) + 1 < job.total THEN "sleep" ELSE "result"
  /\ UNCHANGED <<job, engineVars, resident, cacheVars, ioVars, medium, summary, verdict, exit>>

-----------------------------------------------------------------------------
(* The result.                                                             *)

\* Defect: the block is ok when its last cycle is.
AllOk_Last == cycles[Len(cycles)].ok

AllOk == \A i \in DOMAIN cycles : cycles[i].ok

Result ==
  /\ pc = "result"
  /\ verdict' = IF AllOk THEN "ok" ELSE "failed"
  /\ summary' = "torn"
  /\ pc' = "write"
  /\ UNCHANGED <<job, engineVars, resident, cacheVars, ioVars, medium, cycles, closed, exit>>

\* Any call may raise; so do a demotion that is not complete and, in the HTTP
\* driver, an output that changed.  The block driver writes a failed summary, the
\* others none.
Raise ==
  /\ pc \in RunSteps
  /\ IF job.driver = "block"
       THEN /\ verdict' = "failed" /\ summary' = "torn"
            /\ pc' = "write"
            /\ UNCHANGED exit
       ELSE /\ exit' = 1
            /\ pc' = "done"
            /\ UNCHANGED <<verdict, summary>>
  /\ UNCHANGED <<job, engineVars, resident, cacheVars, ioVars, medium, cycles, closed>>

Write ==
  /\ pc = "write"
  /\ summary' = verdict
  /\ exit' = IF verdict = "ok" THEN 0 ELSE 2
  /\ pc' = "done"
  /\ UNCHANGED <<job, engineVars, resident, cacheVars, ioVars, medium, cycles, closed, verdict>>

\* The campaign, or the runner, ends a driver with a signal: what it knew is gone.
Killed ==
  /\ pc \notin Ended
  /\ pc' = "killed"
  /\ next' = 1 /\ found' = 0 /\ storage' = 0 /\ medium' = {} /\ cycles' = <<>>
  /\ before' = 0 /\ read' = 0 /\ gained' = FALSE /\ lost' = FALSE
  /\ UNCHANGED <<job, engineVars, resident, others, changes, closed, summary, verdict, exit>>

\* Somebody else reads a file, or the kernel needs its pages.
CacheChanges ==
  /\ pc \notin Ended
  /\ \E f \in Files : resident' \in {resident \cup {f}, resident \ {f}}
  /\ UNCHANGED <<job, pc, engineVars, cacheVars, ioVars, medium, resultVars>>

\* Processes of the tree other than the engine's read, begin or end.  What they did
\* outside of a restore is in both snapshots.
TreeChanges ==
  /\ pc \in {"io_before", "wake_weights", "reload", "wake_kv", "io_after"}
  /\ changes < MaxChanges /\ changes' = changes + 1
  /\ \E sum \in -MaxReads..MaxReads \ {others} :
       /\ others' = sum
       /\ gained' = (gained \/ sum > others) /\ lost' = (lost \/ sum < others)
  /\ UNCHANGED <<job, pc, engineVars, resident, cacheVars, before, read, medium, resultVars>>

Terminating == pc \in Ended /\ UNCHANGED vars

Driver == Load \/ Infer \/ Demote \/ Sleep \/ Evict \/ Measure \/ IoBefore \/ WakeWeights \/ Reload
          \/ WakeKv \/ Wake \/ IoAfter \/ InferAfter \/ Result \/ Raise \/ Write

Next == Driver \/ Killed \/ CacheChanges \/ TreeChanges \/ Terminating

Spec == Init /\ [][Next]_vars

-----------------------------------------------------------------------------
(* Properties.                                                             *)

\* The engine is only asked for tokens when its weights hold the model and its
\* KV cache is mapped, and the KV cache is never mapped before the weights are
\* loaded: every restore, in one call or three, was completed, and in order.
ServesRestored ==
  /\ pc \in {"infer", "infer_after"} => weights = "loaded" /\ kv
  /\ kv => weights = "loaded"

\* A block whose demotion was accepted sleeps and wakes without a backup in CPU
\* memory on any rank.  (the demotion check of block_driver.run)
NoCpuBackupIsLeft ==
  job.driver = "block" /\ job.method = "exact_disk" /\ cycles # <<>>
    => \A r \in Ranks : backup[r] = "disk"

\* Status 0 is earned: as many cycles as asked for, in all of which the output was
\* the one before the first sleep and the cache was as its label says by the
\* limits given, and a result that was written to its end.
ExitIsEarned ==
  exit = 0 => /\ pc = "done" /\ summary = "ok"
              /\ Len(cycles) = job.total
              /\ \A i \in DOMAIN cycles :
                   cycles[i].equal /\ Valid(cycles[i].condition, cycles[i].found, cycles[i].read)

=============================================================================
