----------------------- MODULE EngineLifecycle_proofs ------------------------
(***************************************************************************)
(* Proofs about EngineLifecycle and ProfileCompiler, for every job, any    *)
(* number of ranks and checkpoint files and all limits: type correctness,  *)
(* the safety invariants, and the agreement of the two schedules.          *)
(***************************************************************************)
EXTENDS ProfileCompiler, TLAPS

Before     == {"load", "infer", "demote"}
CycleSteps == {"sleep", "evict", "measure", "io_before", "wake_weights", "reload", "wake_kv",
               "wake", "io_after", "infer_after"}
Observed   == {"wake_weights", "reload", "wake_kv", "io_after"}

\* The loops over the files count no file twice.
CountInv ==
  /\ pc = "evict" => found = 0
  /\ pc = "measure" => found < next
  /\ pc \in {"evict", "measure", "io_before", "wake_weights"} => storage = 0
  /\ pc \in {"io_before", "wake_weights"} => next = 1
  /\ pc = "reload" => storage < next

\* What the two snapshots of an observed restore can differ by, beside what the engine
\* read: only who reads or begins adds to it, only who ends takes from it.
ReadInv ==
  /\ pc = "wake" => Condition = "none"
  /\ pc \in Observed /\ Condition # "none" =>
       (~gained => others <= before) /\ (~lost => before <= others)
  /\ pc = "infer_after" /\ Condition # "none" =>
       (~gained => read <= storage) /\ (~lost => storage <= read)

\* The KV cache is mapped last.
RestoreInv ==
  /\ ServesRestored
  /\ pc \in {"wake_kv", "io_after"} => weights = "loaded"
  /\ pc \in {"load", "evict", "measure", "io_before", "wake_weights", "reload"} => ~kv
  /\ pc = "io_after" => kv

\* What is recorded of one cycle.
CycleOk(c) ==
  /\ c.ok => c.equal /\ Valid(c.condition, c.found, c.read)
  /\ c.condition # "none" =>
       (~c.gained => c.read <= c.storage) /\ (~c.lost => c.storage <= c.read)

\* Cycles are recorded in the order of the schedule, as they were measured.
CycleInv ==
  /\ pc \in Before => cycles = <<>>
  /\ pc \in CycleSteps => Len(cycles) < job.total
  /\ pc = "result" => Len(cycles) = job.total
  /\ \A i \in DOMAIN cycles : cycles[i].condition = Conditions[i] /\ CycleOk(cycles[i])

VerdictInv ==
  /\ verdict = "ok" => pc \in {"write"} \cup Ended
  /\ verdict = "ok" /\ pc # "killed" => Len(cycles) = job.total /\ AllOk
  /\ summary = "ok" => verdict = "ok"
  /\ exit = 0 => pc = "done" /\ summary = "ok"

DemotionInv ==
  job.driver = "block" /\ job.method = "exact_disk"
    /\ (cycles # <<>> \/ pc \in CycleSteps \cup {"result"})
  => \A r \in Ranks : backup[r] = "disk"

IInv == CountInv /\ ReadInv /\ RestoreInv /\ CycleInv /\ VerdictInv /\ DemotionInv

-----------------------------------------------------------------------------
(* The schedule.                                                           *)

\* The driver's schedule has exactly one cold cycle in every block.
THEOREM OneColdCycle ==
  ASSUME NEW index \in Nat, NEW total \in Nat \ {0}
  PROVE  \E c \in 1..total : \A i \in 1..total : Schedule(index, total)[i] = "cold" <=> i = c
<1>1. index % total \in 0..total - 1
  OBVIOUS
<1> WITNESS (index % total) + 1 \in 1..total
<1> QED
  BY <1>1 DEF Schedule

\* In any three successive blocks every position is cold in one of them.
THEOREM EveryPositionIsCold ==
  ASSUME NEW index \in Nat, NEW i \in 1..3
  PROVE  \E k \in 0..2 : Schedule(index + k, 3)[i] = "cold"
BY DEF Schedule

\* The schedule the compiler expects of a block is the one the driver follows.
THEOREM SchedulesAgree ==
  ASSUME NEW index \in Nat
  PROVE  \A i \in 1..3 : Schedule(index, 3)[i]
                         = [<<"warm", "warm", "warm">> EXCEPT ![(index % 3) + 1] = "cold"][i]
BY DEF Schedule

-----------------------------------------------------------------------------
(* Type correctness.                                                       *)

LEMMA JobFacts ==
  ASSUME TypeOK
  PROVE  /\ job \in Job /\ job.total \in Nat \ {0} /\ job.index \in Nat
         /\ job.ranks \in Nat \ {0} /\ job.driver \in {"block", "http", "adapter"}
         /\ job.method \in Methods
         /\ NFiles \in Nat \ {0}
         /\ job.driver = "block" => job.total = 3
         /\ job.driver = "http" => job.method = "exact_disk"
BY LifecycleAssumption DEF TypeOK, Job

LEMMA ConditionFacts ==
  ASSUME TypeOK
  PROVE  /\ Conditions \in [1..job.total -> {"none", "cold", "warm"}]
         /\ Len(cycles) < job.total => Condition \in {"none", "cold", "warm"}
<1>1. Conditions \in [1..job.total -> {"none", "cold", "warm"}]
  BY JobFacts DEF Conditions, Schedule
<1>2. ASSUME Len(cycles) < job.total
      PROVE  Condition \in {"none", "cold", "warm"}
  <2>1. Len(cycles) + 1 \in 1..job.total
    BY <1>2, JobFacts DEF TypeOK
  <2> QED
    BY <1>1, <2>1 DEF Condition
<1> QED
  BY <1>1, <1>2

LEMMA TypeInit == Init => TypeOK /\ IInv
<1> SUFFICES ASSUME Init PROVE TypeOK /\ IInv
  OBVIOUS
<1>1. /\ NFiles \in Nat \ {0} /\ job \in Job
      /\ cycles \in Seq(Cycle) /\ cycles = <<>> /\ Len(cycles) = 0
  BY LifecycleAssumption DEF Init
<1>2. TypeOK
  <2>1. backup \in [Ranks -> {"none", "cpu", "disk"}]
    BY DEF Init
  <2>2. next \in Files /\ found \in 0..NFiles /\ storage \in 0..NFiles
    BY <1>1 DEF Init, Files
  <2>3. Len(cycles) <= job.total
    BY <1>1 DEF Job
  <2>4. others \in -MaxReads..MaxReads /\ changes \in 0..MaxChanges
    BY LifecycleAssumption DEF Init
  <2>5. before \in Int /\ read \in Nat
    BY DEF Init
  <2>6. gained \in BOOLEAN /\ lost \in BOOLEAN
    BY Zenon DEF Init
  <2> QED
    BY <1>1, <2>1, <2>2, <2>3, <2>4, <2>5, <2>6 DEF Init, TypeOK, RunSteps
<1>3. IInv
  BY <1>1 DEF Init, IInv, CountInv, ReadInv, RestoreInv, ServesRestored, CycleInv, VerdictInv,
              DemotionInv, Before, CycleSteps, Observed, NoStatus
<1> QED
  BY <1>2, <1>3

\* A step of a loop over the files.
LEMMA NextFileFacts ==
  ASSUME TypeOK, NEW here, NEW after, NextFile(here, after)
  PROVE  /\ pc = here /\ next \in 1..NFiles
         /\ next' \in Files
         /\ next = NFiles => next' = 1 /\ pc' = after
         /\ next # NFiles => next' = next + 1 /\ pc' = here
BY JobFacts DEF NextFile, TypeOK, Files

LEMMA TypeStep == TypeOK /\ IInv /\ [Next]_vars => TypeOK'
<1> SUFFICES ASSUME TypeOK, IInv, [Next]_vars PROVE TypeOK'
  OBVIOUS
<1> USE JobFacts
<1>1. CASE Load
  BY <1>1 DEF Load, TypeOK, RunSteps, Ended, resultVars, cacheVars, ioVars, treeVars, Ranks,
              NoStatus
<1>2. CASE Infer
  BY <1>2 DEF Infer, TypeOK, RunSteps, Ended, engineVars, resultVars, cacheVars, ioVars,
         treeVars, Ranks,
              NoStatus
<1>3. CASE Demote
  BY <1>3 DEF Demote, TypeOK, RunSteps, Ended, resultVars, cacheVars, ioVars, treeVars, Ranks,
              NoStatus
<1>4. CASE Sleep
  <2>1. backup' \in [Ranks -> {"none", "cpu", "disk"}]
    BY <1>4 DEF Sleep, TypeOK
  <2>2. pc' \in RunSteps
    BY <1>4 DEF Sleep, RunSteps
  <2>3. next' \in Files /\ found' \in 0..NFiles /\ storage' \in 0..NFiles /\ medium' \subseteq Media
    BY <1>4 DEF Sleep, Files
  <2>4. before' \in Int /\ read' \in Nat
    BY <1>4 DEF Sleep
  <2>7. gained' \in BOOLEAN /\ lost' \in BOOLEAN
    BY <1>4, Zenon DEF Sleep
  <2>5. weights' \in {"none", "loaded", "asleep", "lost", "blank"} /\ kv' \in BOOLEAN
    BY <1>4 DEF Sleep
  <2>6. UNCHANGED <<job, resident, others, changes, cycles, closed, summary, verdict, exit>>
    BY <1>4 DEF Sleep, resultVars
  <2> QED
    BY <2>1, <2>2, <2>3, <2>4, <2>5, <2>6, <2>7 DEF TypeOK, Ranks
<1>5. CASE Evict
  <2>1. pc' \in RunSteps /\ next' \in Files
    BY <1>5, NextFileFacts DEF Evict, RunSteps
  <2> QED
    BY <1>5, <2>1 DEF Evict, TypeOK, engineVars, resultVars, ioVars, treeVars, Ranks
<1>6. CASE Measure
  <2>1. pc' \in RunSteps /\ next' \in Files
    BY <1>6, NextFileFacts DEF Measure, RunSteps
  <2>2. found < next /\ next \in 1..NFiles
    BY <1>6, NextFileFacts DEF Measure, IInv, CountInv
  <2>3. found' \in 0..NFiles
    BY <1>6, <2>2 DEF Measure, TypeOK
  <2> QED
    BY <1>6, <2>1, <2>3 DEF Measure, TypeOK, engineVars, resultVars, ioVars, treeVars, Ranks
<1>7. CASE WakeWeights
  BY <1>7 DEF WakeWeights, TypeOK, RunSteps, Ended, resultVars, cacheVars, ioVars, treeVars, Ranks,
              NoStatus
<1>8. CASE Reload
  <2>1. pc' \in RunSteps /\ next' \in Files /\ next \in Files
    BY <1>8, NextFileFacts DEF Reload, RunSteps, Files
  <2>2. storage < next /\ next \in 1..NFiles
    BY <1>8, NextFileFacts DEF Reload, IInv, CountInv
  <2>3. storage' \in 0..NFiles
    BY <1>8, <2>2 DEF Reload, TypeOK
  <2> QED
    BY <1>8, <2>1, <2>3 DEF Reload, TypeOK, resultVars, ioVars, treeVars, Ranks, Media
<1>9. CASE WakeKv
  BY <1>9 DEF WakeKv, TypeOK, RunSteps, Ended, resultVars, cacheVars, ioVars, treeVars, Ranks,
              NoStatus
<1>10. CASE Wake
  <2>1. medium' \subseteq Media
    BY <1>10 DEF Wake, Range, Media
  <2> QED
    BY <1>10, <2>1 DEF Wake, TypeOK, RunSteps, Ended, resultVars, cacheVars, ioVars, treeVars,
           Ranks,
              NoStatus
<1>11. CASE InferAfter
  <2>1. Len(cycles) < job.total
    BY <1>11 DEF InferAfter, IInv, CycleInv, CycleSteps
  <2>2. PICK equal \in BOOLEAN :
          cycles' = Append(cycles, [condition |-> Condition, found |-> found, read |-> read,
                                    storage |-> storage, gained |-> gained, lost |-> lost,
                                    medium |-> medium, equal |-> equal,
                                    ok |-> equal /\ Valid(Condition, found, read)])
    BY <1>11 DEF InferAfter
  <2> DEFINE c == [condition |-> Condition, found |-> found, read |-> read,
                   storage |-> storage, gained |-> gained, lost |-> lost, medium |-> medium,
                   equal |-> equal, ok |-> equal /\ Valid(Condition, found, read)]
  <2>3. (equal /\ Valid(Condition, found, read)) \in BOOLEAN
    OBVIOUS
  <2>4. c \in Cycle
    BY <2>1, <2>3, ConditionFacts DEF Cycle, TypeOK
  <2>5. cycles' \in Seq(Cycle) /\ Len(cycles') <= job.total
    BY <2>1, <2>2, <2>4 DEF TypeOK
  <2>6. closed' \in BOOLEAN /\ pc' \in RunSteps
    BY <1>11 DEF InferAfter, RunSteps
  <2> QED
    BY <1>11, <2>5, <2>6 DEF InferAfter, TypeOK, engineVars, cacheVars, ioVars, treeVars, Ranks
<1>12. CASE Result
  BY <1>12 DEF Result, TypeOK, RunSteps, Ended, engineVars, cacheVars, ioVars, treeVars, Ranks,
              NoStatus
<1>13. CASE Raise
  BY <1>13 DEF Raise, TypeOK, RunSteps, Ended, engineVars, cacheVars, ioVars, treeVars, Ranks,
              NoStatus
<1>14. CASE Write
  BY <1>14 DEF Write, TypeOK, RunSteps, Ended, engineVars, cacheVars, ioVars, treeVars, Ranks,
              NoStatus
<1>15. CASE Killed
  <2>1. /\ cycles' \in Seq(Cycle) /\ Len(cycles') = 0
        /\ next' \in Files /\ found' \in 0..NFiles /\ storage' \in 0..NFiles
        /\ medium' \subseteq Media /\ pc' \in Ended
    BY <1>15 DEF Killed, Files, Ended
  <2>2. Len(cycles') <= job'.total
    BY <1>15, <2>1 DEF Killed
  <2>3. before' \in Int /\ read' \in Nat
    BY <1>15 DEF Killed
  <2>5. gained' \in BOOLEAN /\ lost' \in BOOLEAN
    BY <1>15, Zenon DEF Killed
  <2>4. UNCHANGED <<job, weights, kv, backup, resident, others, changes, closed, summary, verdict,
                    exit>>
    BY <1>15 DEF Killed, engineVars
  <2> QED
    BY <2>1, <2>2, <2>3, <2>4, <2>5 DEF TypeOK, Ranks
<1>16. CASE CacheChanges
  BY <1>16 DEF CacheChanges, TypeOK, engineVars, resultVars, cacheVars, ioVars, treeVars, Ranks,
         Files
<1>17. CASE UNCHANGED vars
  BY <1>17 DEF vars, TypeOK, engineVars, resultVars, cacheVars, ioVars, treeVars, Ranks
<1>18. CASE IoBefore
  <2>1. Snapshot \in Int
    BY LifecycleAssumption DEF Snapshot, TypeOK
  <2>2. before' \in Int /\ pc' \in RunSteps
    BY <1>18, <2>1 DEF IoBefore, RunSteps
  <2>3. gained' \in BOOLEAN /\ lost' \in BOOLEAN
    BY <1>18, Zenon DEF IoBefore
  <2> QED
    BY <1>18, <2>2, <2>3 DEF IoBefore, TypeOK, engineVars, resultVars, cacheVars, Ranks
<1>19. CASE IoAfter
  <2>1. read' \in Nat
    BY <1>19, LifecycleAssumption DEF IoAfter, Snapshot, TypeOK
  <2>2. pc' \in RunSteps
    BY <1>19 DEF IoAfter, RunSteps
  <2> QED
    BY <1>19, <2>1, <2>2 DEF IoAfter, TypeOK, engineVars, resultVars, cacheVars, treeVars, Ranks
<1>20. CASE TreeChanges
  <2>1. /\ others' \in -MaxReads..MaxReads /\ changes' \in 0..MaxChanges
        /\ gained' \in BOOLEAN /\ lost' \in BOOLEAN
    BY <1>20, LifecycleAssumption DEF TreeChanges, TypeOK
  <2> QED
    BY <1>20, <2>1 DEF TreeChanges, TypeOK, engineVars, resultVars, cacheVars, Ranks
<1> QED
  BY <1>1, <1>2, <1>3, <1>4, <1>5, <1>6, <1>7, <1>8, <1>9, <1>10, <1>11, <1>12, <1>13, <1>14,
     <1>15, <1>16, <1>17, <1>18, <1>19, <1>20 DEF Next, Driver, Terminating

-----------------------------------------------------------------------------
(* The inductive invariant.                                                *)

LEMMA CountStep == TypeOK /\ IInv /\ [Next]_vars => CountInv'
<1> SUFFICES ASSUME TypeOK, IInv, [Next]_vars PROVE CountInv'
  OBVIOUS
<1> USE JobFacts DEF IInv, CountInv
<1>1. CASE Load \/ Infer \/ Demote \/ WakeKv \/ Wake
  BY <1>1 DEF Load, Infer, Demote, WakeKv, Wake, cacheVars
<1>2. CASE Sleep
  BY <1>2 DEF Sleep
<1>3. CASE Evict
  BY <1>3, NextFileFacts DEF Evict
<1>4. CASE Measure
  BY <1>4, NextFileFacts DEF Measure, TypeOK
<1>5. CASE IoBefore \/ WakeWeights \/ IoAfter
  BY <1>5 DEF IoBefore, WakeWeights, IoAfter, cacheVars
<1>6. CASE Reload
  BY <1>6, NextFileFacts DEF Reload, TypeOK
<1>7. CASE InferAfter \/ Result \/ Raise \/ Write \/ Killed
  BY <1>7 DEF InferAfter, Result, Raise, Write, Killed, cacheVars
<1>8. CASE CacheChanges \/ TreeChanges \/ UNCHANGED vars
  BY <1>8 DEF CacheChanges, TreeChanges, vars, cacheVars
<1> QED
  BY <1>1, <1>2, <1>3, <1>4, <1>5, <1>6, <1>7, <1>8 DEF Next, Driver, Terminating

\* The condition is that of the cycle to be recorded next.
LEMMA SameCondition ==
  ASSUME UNCHANGED <<job, cycles>>
  PROVE  Conditions' = Conditions /\ Condition' = Condition
BY DEF Conditions, Condition

LEMMA ReadStep == TypeOK /\ IInv /\ [Next]_vars => ReadInv'
<1> SUFFICES ASSUME TypeOK, IInv, [Next]_vars PROVE ReadInv'
  OBVIOUS
<1> USE DEF ReadInv, Observed
<1>1. ReadInv /\ CountInv
  BY DEF IInv
<1>2. /\ others \in Int /\ before \in Int /\ read \in Nat /\ storage \in Nat
      /\ gained \in BOOLEAN /\ lost \in BOOLEAN
  BY LifecycleAssumption DEF TypeOK
<1>3. CASE Load \/ Infer \/ Demote
  BY <1>3 DEF Load, Infer, Demote
<1>4. CASE Sleep
  <2>1. Len(cycles) < job.total
    BY <1>4 DEF Sleep, IInv, CycleInv, CycleSteps
  <2>2. Condition \in {"none", "cold", "warm"}
    BY <2>1, ConditionFacts
  <2>3. UNCHANGED <<job, cycles>>
    BY <1>4 DEF Sleep, resultVars
  <2>4. Condition' = Condition
    BY <2>3, SameCondition
  <2>5. pc' \in {"evict", "measure"} \/ Condition = "none"
    BY <1>4, <2>2 DEF Sleep
  <2> QED
    BY <2>4, <2>5
<1>5. CASE Evict \/ Measure
  <2>1. pc' \in {"evict", "measure", "io_before"}
    BY <1>5, NextFileFacts DEF Evict, Measure
  <2> QED
    BY <2>1
<1>6. CASE IoBefore
  <2>1. others' = others /\ before' = others /\ pc' = "wake_weights"
    BY <1>1, <1>2, <1>6 DEF IoBefore, Snapshot, CountInv
  <2> QED
    BY <1>2, <2>1
<1>7. CASE WakeWeights \/ Reload \/ WakeKv
  <2>1. UNCHANGED <<job, cycles, others, before, gained, lost>>
    BY <1>7 DEF WakeWeights, Reload, WakeKv, ioVars, treeVars, resultVars
  <2>2. Condition' = Condition
    BY <2>1, SameCondition
  <2>3. /\ pc \in Observed
        /\ pc' \in Observed \/ (pc' = "infer_after" /\ Condition = "none")
    BY <1>7, NextFileFacts DEF WakeWeights, Reload, WakeKv
  <2> QED
    BY <1>1, <2>1, <2>2, <2>3
<1>8. CASE Wake
  <2>1. UNCHANGED <<job, cycles>> /\ pc = "wake" /\ pc' = "infer_after"
    BY <1>8 DEF Wake, resultVars
  <2> QED
    BY <1>1, <2>1, SameCondition
<1>9. CASE IoAfter
  <2>1. job' = job /\ cycles' = cycles /\ pc = "io_after" /\ pc' = "infer_after"
    BY <1>9 DEF IoAfter, resultVars
  <2>2. storage' = storage
    BY <1>9 DEF IoAfter, cacheVars
  <2>3. IF Snapshot > before THEN read' = Snapshot - before ELSE read' = 0
    BY <1>9 DEF IoAfter
  <2>4. gained' = gained /\ lost' = lost
    BY <1>9, Zenon DEF IoAfter, treeVars
  <2>5. Condition' = Condition
    BY <2>1, SameCondition
  <2>6. Condition # "none" => (~gained => others <= before) /\ (~lost => before <= others)
    BY <1>1, <2>1
  <2> QED
    BY <1>2, <2>1, <2>2, <2>3, <2>4, <2>5, <2>6 DEF Snapshot
<1>10. CASE InferAfter \/ Result \/ Raise \/ Write \/ Killed
  BY <1>10 DEF InferAfter, Result, Raise, Write, Killed
<1>11. CASE CacheChanges \/ UNCHANGED vars
  <2>1. UNCHANGED <<job, cycles, pc, others, before, gained, lost, read, storage>>
    BY <1>11 DEF CacheChanges, vars, ioVars, treeVars, cacheVars, resultVars
  <2>2. Condition' = Condition
    BY <2>1, SameCondition
  <2> QED
    BY <1>1, <2>1, <2>2
<1>12. CASE TreeChanges
  <2>1. UNCHANGED <<job, cycles, pc, before>> /\ pc \notin {"wake", "infer_after"}
    BY <1>12 DEF TreeChanges, resultVars
  <2>2. Condition' = Condition
    BY <2>1, SameCondition
  <2>3. PICK sum \in -MaxReads..MaxReads :
          others' = sum /\ gained' = (gained \/ sum > others) /\ lost' = (lost \/ sum < others)
    BY <1>12 DEF TreeChanges
  <2>4. sum \in Int
    BY <2>3, LifecycleAssumption
  <2>6. (~gained' => ~gained /\ ~(sum > others)) /\ (~lost' => ~lost /\ ~(sum < others))
    BY <2>3, Zenon
  <2>5. (~gained' => ~gained /\ sum <= others) /\ (~lost' => ~lost /\ others <= sum)
    BY <1>2, <2>4, <2>6
  <2> QED
    BY <1>1, <1>2, <2>1, <2>2, <2>3, <2>4, <2>5
<1> QED
  BY <1>3, <1>4, <1>5, <1>6, <1>7, <1>8, <1>9, <1>10, <1>11, <1>12 DEF Next, Driver, Terminating

LEMMA RestoreStep == TypeOK /\ IInv /\ [Next]_vars => RestoreInv'
<1> SUFFICES ASSUME TypeOK, IInv, [Next]_vars PROVE RestoreInv'
  OBVIOUS
<1> USE JobFacts DEF IInv, RestoreInv, ServesRestored
<1>1. CASE Load \/ Wake
  BY <1>1 DEF Load, Wake
<1>2. CASE Infer \/ Demote
  BY <1>2 DEF Infer, Demote, engineVars
<1>3. CASE Sleep
  BY <1>3 DEF Sleep
<1>4. CASE Evict \/ Measure
  BY <1>4, NextFileFacts DEF Evict, Measure, engineVars
<1>5. CASE WakeWeights \/ WakeKv
  BY <1>5 DEF WakeWeights, WakeKv
<1>6. CASE Reload
  BY <1>6, NextFileFacts DEF Reload
<1>7. CASE IoBefore \/ IoAfter
  <2>1. weights' = weights /\ kv' = kv
    BY <1>7, Zenon DEF IoBefore, IoAfter, engineVars
  <2> QED
    BY <1>7, <2>1 DEF IoBefore, IoAfter
<1>8. CASE InferAfter \/ Result \/ Write \/ Killed
  <2>1. weights' = weights /\ kv' = kv
    BY <1>8, Zenon DEF InferAfter, Result, Write, Killed, engineVars
  <2>2. pc' \in {"sleep", "result", "write"} \cup Ended
    BY <1>8 DEF InferAfter, Result, Write, Killed, Ended
  <2> QED
    BY <2>1, <2>2 DEF Ended
<1>9. CASE Raise
  BY <1>9 DEF Raise, engineVars
<1>10. CASE CacheChanges \/ TreeChanges \/ UNCHANGED vars
  BY <1>10 DEF CacheChanges, TreeChanges, vars, engineVars
<1> QED
  BY <1>1, <1>2, <1>3, <1>4, <1>5, <1>6, <1>7, <1>8, <1>9, <1>10 DEF Next, Driver, Terminating

\* Only InferAfter adds a cycle; Result is reached when there are enough.
LEMMA CycleStep == TypeOK /\ IInv /\ [Next]_vars => CycleInv'
<1> SUFFICES ASSUME TypeOK, IInv, [Next]_vars PROVE CycleInv'
  OBVIOUS
<1>1. CycleInv /\ job.total \in Nat \ {0}
  BY JobFacts DEF IInv
<1>2. ASSUME UNCHANGED <<job, cycles>>
      PROVE  \A i \in DOMAIN cycles' : cycles'[i].condition = Conditions'[i] /\ CycleOk(cycles[i])'
  BY <1>1, <1>2, SameCondition DEF CycleInv, CycleOk, Valid
<1> USE DEF CycleInv, Before, CycleSteps
<1>3. CASE Load \/ Infer \/ Demote \/ WakeKv \/ Wake \/ WakeWeights \/ Sleep
  <2>1. UNCHANGED <<job, cycles>>
    BY <1>3 DEF Load, Infer, Demote, WakeKv, Wake, WakeWeights, Sleep, resultVars
  <2> QED
    BY <1>1, <1>2, <1>3, <2>1 DEF Load, Infer, Demote, WakeKv, Wake, WakeWeights, Sleep
<1>4. CASE Evict \/ Measure \/ Reload
  <2>1. UNCHANGED <<job, cycles>>
    BY <1>4 DEF Evict, Measure, Reload, resultVars
  <2>2. pc \in {"evict", "measure", "reload"}
        /\ pc' \in {"evict", "measure", "io_before", "reload", "wake_kv"}
    BY <1>4, NextFileFacts DEF Evict, Measure, Reload
  <2> QED
    BY <1>1, <1>2, <2>1, <2>2
<1>5. CASE InferAfter
  <2>1. Len(cycles) < job.total /\ cycles \in Seq(Cycle) /\ Len(cycles) \in Nat
    BY <1>1, <1>5 DEF InferAfter, TypeOK
  <2>2. PICK equal \in BOOLEAN :
          cycles' = Append(cycles, [condition |-> Condition, found |-> found, read |-> read,
                                    storage |-> storage, gained |-> gained, lost |-> lost,
                                    medium |-> medium, equal |-> equal,
                                    ok |-> equal /\ Valid(Condition, found, read)])
    BY <1>5 DEF InferAfter
  <2>3. /\ job' = job
        /\ pc' = IF Len(cycles) + 1 < job.total THEN "sleep" ELSE "result"
    BY <1>5 DEF InferAfter
  <2>4. Conditions' = Conditions
    BY <2>3 DEF Conditions
  <2>5. Len(cycles') = Len(cycles) + 1
    BY <2>1, <2>2
  <2>6. ASSUME NEW i \in DOMAIN cycles'
        PROVE  cycles'[i].condition = Conditions'[i] /\ CycleOk(cycles[i])'
    <3>1. CASE i \in DOMAIN cycles
      <4>1. cycles'[i] = cycles[i]
        BY <2>1, <2>2, <3>1
      <4> QED
        BY <1>1, <2>3, <2>4, <3>1, <4>1 DEF CycleOk, Valid
    <3>2. CASE i \notin DOMAIN cycles
      <4>1. i = Len(cycles) + 1
        BY <2>1, <2>2, <2>5, <3>2
      <4>2. /\ cycles'[i].condition = Condition /\ cycles'[i].read = read
            /\ cycles'[i].found = found /\ cycles'[i].equal = equal
            /\ cycles'[i].storage = storage
            /\ cycles'[i].gained = gained /\ cycles'[i].lost = lost
            /\ cycles'[i].ok = (equal /\ Valid(Condition, found, read))
        BY <2>1, <2>2, <4>1
      <4>3. cycles'[i].ok => cycles'[i].equal /\ Valid(Condition, found, read)
        BY <4>2, Zenon
      <4>4. Condition # "none" => (~gained => read <= storage) /\ (~lost => storage <= read)
        BY <1>5 DEF IInv, ReadInv, InferAfter
      <4>5. Valid(Condition, found, read)
              => Valid(cycles[i].condition, cycles[i].found, cycles[i].read)'
        BY <2>3, <4>2 DEF Valid
      <4>6. CycleOk(cycles[i])'
        BY <4>2, <4>3, <4>4, <4>5 DEF CycleOk
      <4> QED
        BY <2>4, <4>1, <4>2, <4>6 DEF Condition
    <3> QED
      BY <3>1, <3>2
  <2> QED
    BY <1>1, <2>1, <2>3, <2>5, <2>6
<1>6. CASE Result \/ Raise \/ Write
  <2>1. UNCHANGED <<job, cycles>> /\ pc' \in {"write"} \cup Ended
    BY <1>6 DEF Result, Raise, Write, Ended
  <2> QED
    BY <1>1, <1>2, <2>1 DEF Ended
<1>7. CASE Killed
  <2>1. cycles' = <<>> /\ DOMAIN cycles' = {} /\ pc' = "killed"
    BY <1>7 DEF Killed
  <2> QED
    BY <2>1
<1>8. CASE IoBefore \/ IoAfter
  <2>1. UNCHANGED <<job, cycles>>
    BY <1>8 DEF IoBefore, IoAfter, resultVars
  <2> QED
    BY <1>1, <1>2, <1>8, <2>1 DEF IoBefore, IoAfter
<1>9. CASE CacheChanges \/ TreeChanges \/ UNCHANGED vars
  <2>1. UNCHANGED <<job, cycles, pc>>
    BY <1>9 DEF CacheChanges, TreeChanges, vars, resultVars
  <2> QED
    BY <1>1, <1>2, <2>1
<1> QED
  BY <1>3, <1>4, <1>5, <1>6, <1>7, <1>8, <1>9 DEF Next, Driver, Terminating

LEMMA VerdictStep == TypeOK /\ IInv /\ [Next]_vars => VerdictInv'
<1> SUFFICES ASSUME TypeOK, IInv, [Next]_vars PROVE VerdictInv'
  OBVIOUS
<1>1. VerdictInv /\ CycleInv
  BY DEF IInv
<1> USE DEF VerdictInv, RunSteps, Ended
<1>2. CASE Load \/ Infer \/ Demote \/ Sleep \/ IoBefore \/ WakeWeights \/ WakeKv \/ Wake \/ IoAfter
  BY <1>1, <1>2 DEF Load, Infer, Demote, Sleep, IoBefore, WakeWeights, WakeKv, Wake, IoAfter,
                    resultVars
<1>3. CASE Evict \/ Measure \/ Reload
  <2>1. pc \in {"evict", "measure", "reload"}
    BY <1>3, NextFileFacts DEF Evict, Measure, Reload
  <2> QED
    BY <1>1, <1>3, <2>1 DEF Evict, Measure, Reload, resultVars
<1>4. CASE InferAfter
  BY <1>1, <1>4 DEF InferAfter
<1>5. CASE Result
  BY <1>1, <1>5 DEF Result, CycleInv, AllOk
<1>6. CASE Raise
  BY <1>1, <1>6 DEF Raise
<1>7. CASE Write
  BY <1>1, <1>7 DEF Write, AllOk
<1>8. CASE Killed
  BY <1>1, <1>8 DEF Killed
<1>9. CASE CacheChanges \/ TreeChanges \/ UNCHANGED vars
  BY <1>1, <1>9 DEF CacheChanges, TreeChanges, vars, resultVars, AllOk
<1> QED
  BY <1>2, <1>3, <1>4, <1>5, <1>6, <1>7, <1>8, <1>9 DEF Next, Driver, Terminating

\* After an accepted demotion only level 1 sleeps follow, which keep the backup.
LEMMA DemotionStep == TypeOK /\ IInv /\ [Next]_vars => DemotionInv'
<1> SUFFICES ASSUME TypeOK, IInv, [Next]_vars PROVE DemotionInv'
  OBVIOUS
<1>1. DemotionInv /\ CycleInv
  BY DEF IInv
<1> USE DEF DemotionInv, CycleSteps, Ranks
<1>2. CASE Load \/ Infer
  BY <1>1, <1>2 DEF Load, Infer, CycleInv, Before, resultVars
<1>3. CASE Demote
  BY <1>3 DEF Demote, Demoted, DemotedBlock, ReportFits
<1>4. CASE Sleep
  BY <1>1, <1>4, JobFacts DEF Sleep, Level, resultVars, TypeOK
<1>5. CASE Evict \/ Measure \/ Reload
  <2>1. pc \in {"evict", "measure", "reload"}
    BY <1>5, NextFileFacts DEF Evict, Measure, Reload
  <2> QED
    BY <1>1, <1>5, <2>1 DEF Evict, Measure, Reload, engineVars, resultVars
<1>6. CASE IoBefore \/ WakeWeights \/ WakeKv \/ Wake \/ IoAfter
  BY <1>1, <1>6 DEF IoBefore, WakeWeights, WakeKv, Wake, IoAfter, engineVars, resultVars
<1>7. CASE InferAfter
  BY <1>1, <1>7 DEF InferAfter, engineVars
<1>8. CASE Result \/ Raise \/ Write \/ Killed
  BY <1>1, <1>8 DEF Result, Raise, Write, Killed, RunSteps, engineVars
<1>9. CASE CacheChanges \/ TreeChanges \/ UNCHANGED vars
  BY <1>1, <1>9 DEF CacheChanges, TreeChanges, vars, engineVars, resultVars
<1> QED
  BY <1>2, <1>3, <1>4, <1>5, <1>6, <1>7, <1>8, <1>9 DEF Next, Driver, Terminating

LEMMA Inductive == Spec => [](TypeOK /\ IInv)
<1>1. TypeOK /\ IInv /\ [Next]_vars => (TypeOK /\ IInv)'
  BY TypeStep, CountStep, ReadStep, RestoreStep, CycleStep, VerdictStep, DemotionStep DEF IInv
<1> QED
  BY TypeInit, <1>1, PTL DEF Spec

-----------------------------------------------------------------------------
(* The theorems.                                                           *)

\* Every reachable state is well typed: no file is counted twice, no cycle is
\* recorded beyond those asked for.
THEOREM TypeCorrect == Spec => []TypeOK
BY Inductive, PTL

\* The engine serves only after a complete restore.
THEOREM ServesRestoredHolds == Spec => []ServesRestored
<1>1. IInv => ServesRestored
  BY DEF IInv, RestoreInv
<1> QED
  BY Inductive, <1>1, PTL

\* No rank of an exact-disk block keeps a CPU backup while it is measured.
THEOREM NoCpuBackupIsLeftHolds == Spec => []NoCpuBackupIsLeft
<1>1. IInv => NoCpuBackupIsLeft
  BY DEF IInv, DemotionInv, NoCpuBackupIsLeft
<1> QED
  BY Inductive, <1>1, PTL

\* Status 0 means the whole lifecycle succeeded and was recorded.
THEOREM ExitIsEarnedHolds == Spec => []ExitIsEarned
<1>1. TypeOK /\ IInv => ExitIsEarned
  BY DEF IInv, VerdictInv, CycleInv, CycleOk, AllOk, ExitIsEarned
<1> QED
  BY Inductive, <1>1, PTL

\* _blocks refuses no block of the first three whose driver ended with status 0, on
\* any number of ranks and files: the compiler computes the driver's schedule anew.
THEOREM CompilerAgreesHolds == Spec => []CompilerAgrees
<1>1. TypeOK /\ IInv => CompilerAgrees
  <2> SUFFICES ASSUME TypeOK, IInv, job.driver = "block", job.index \in 0..2, exit = 0
               PROVE  BlockAccepted
    BY DEF CompilerAgrees
  <2>1. summary = "ok" /\ job.total = 3 /\ Len(cycles) = 3 /\ AllOk
    BY JobFacts DEF IInv, VerdictInv
  <2>2. DOMAIN cycles = 1..3
    BY <2>1 DEF TypeOK
  <2>3. \A i \in 1..3 : cycles[i].ok /\ cycles[i].condition = Conditions[i]
    BY <2>1, <2>2 DEF IInv, CycleInv, AllOk
  <2>4. \A i \in 1..3 : Conditions[i] = ExpectedConditions[i]
    <3>1. CASE job.method = "sleep_l2"
      BY <2>1, <3>1, JobFacts, SchedulesAgree DEF Conditions, ExpectedConditions
    <3>2. CASE job.method # "sleep_l2"
      BY <2>1, <3>2 DEF Conditions, ExpectedConditions
    <3> QED
      BY <3>1, <3>2
  <2> QED
    BY <2>1, <2>3, <2>4 DEF BlockAccepted
<1> QED
  BY Inductive, <1>1, PTL

\* A retained block measured what its labels say, for every limit of the command
\* line, any number of files and whatever the other processes of the driver's tree
\* do, unless they hide it from the counters in the one way each label is exposed to.
THEOREM RetainedIsMeasuredHolds == Spec => []RetainedIsMeasured
<1>1. TypeOK /\ IInv => RetainedIsMeasured
  <2> SUFFICES ASSUME TypeOK, IInv, Retained PROVE RetainedIsMeasured
    BY DEF RetainedIsMeasured
  <2>1. BlockAccepted /\ MechanismAccepted /\ CacheAccepted /\ NFiles \in Nat \ {0}
    BY JobFacts DEF Retained
  <2>2. cycles \in Seq(Cycle) /\ Len(cycles) = 3
    BY <2>1 DEF BlockAccepted, TypeOK
  <2>3. \A i \in 1..3 : cycles[i] \in Cycle /\ CycleOk(cycles[i])
    <3>1. DOMAIN cycles = 1..3 /\ \A i \in 1..3 : cycles[i] \in Cycle
      BY <2>2
    <3> QED
      BY <3>1 DEF IInv, CycleInv
  <2>4. \A i \in 1..3 : cycles[i].storage \in Nat /\ cycles[i].read \in Nat
    BY <2>1, <2>3 DEF Cycle
  <2>5. ASSUME job.method = "sleep_l2"
        PROVE  \E c \in 1..3 :
                 /\ cycles[c].condition = "cold"
                 /\ 10 * cycles[c].storage >= 9 * NFiles \/ cycles[c].gained
                 /\ \A i, j \in 1..3 \ {c} :
                      \/ i = j \/ cycles[i].lost \/ cycles[j].lost
                      \/ 10 * (cycles[i].storage + cycles[j].storage) <= 2 * NFiles
    <3> DEFINE c == (job.index % 3) + 1
    <3>1. c \in 1..3
      BY JobFacts
    <3>2. \A i \in 1..3 : cycles[i].condition = IF i = c THEN "cold" ELSE "warm"
      BY <2>1, <2>5, <3>1 DEF BlockAccepted, ExpectedConditions
    <3> HIDE DEF c
    <3>3. 10 * cycles[c].storage >= 9 * NFiles \/ cycles[c].gained
      <4>1. 100 * cycles[c].read >= 90 * NFiles
        BY <2>1, <3>1, <3>2 DEF CacheAccepted
      <4>2. cycles[c].gained \/ cycles[c].read <= cycles[c].storage
        BY <2>3, <3>1, <3>2 DEF CycleOk
      <4> QED
        BY <2>1, <2>4, <3>1, <4>1, <4>2
    <3>4. ASSUME NEW i \in 1..3 \ {c}, NEW j \in 1..3 \ {c}, i # j,
                 ~cycles[i].lost, ~cycles[j].lost
          PROVE  10 * (cycles[i].storage + cycles[j].storage) <= 2 * NFiles
      <4>1. 100 * (cycles[i].read + cycles[j].read) <= 10 * 2 * NFiles
        BY <2>1, <3>2, <3>4 DEF CacheAccepted
      <4>2. cycles[i].storage <= cycles[i].read /\ cycles[j].storage <= cycles[j].read
        BY <2>3, <3>2, <3>4 DEF CycleOk
      <4> QED
        BY <2>1, <2>4, <4>1, <4>2
    <3> QED
      BY <3>1, <3>2, <3>3, <3>4
  <2>6. job.method = "exact_disk"
          => \A i \in 1..3 : cycles[i].medium \cap {"cpu", "fallback"} = {}
    BY <2>1 DEF MechanismAccepted
  <2> QED
    BY <2>5, <2>6 DEF RetainedIsMeasured
<1> QED
  BY Inductive, <1>1, PTL

=============================================================================
