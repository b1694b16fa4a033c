------------------------ MODULE ExactDiskRunner_proofs -----------------------
(***************************************************************************)
(* Proofs about ExactDiskRunner, for every set of descendants and every    *)
(* value of the bounds: type correctness, no survivor after the cleanup,   *)
(* the stability of sealed files, what a curated directory stands for, and *)
(* what the sampler's rows and the exit status say of the run.             *)
(***************************************************************************)
EXTENDS ExactDiskRunner, TLAPS

SealedSteps  == {"judge", "verify", "summarize", "assertions"}

\* Processes appear with the launch, the sampler after it.
LaunchInv ==
  /\ ~Launched => \A p \in Procs : proc[p] = "none"
  /\ pc \in {"start", "launch"} => ~Launched
  /\ ~Launched => sampler = "none"
  /\ pc = "start_sampler" => Launched /\ sampler = "none"

\* From the SIGKILL on, whoever still runs has been sent it.
CleanupInv ==
  /\ pc \in {"t_reap"} \cup RecordSteps \cup Ended /\ ~cut => Running \subseteq killed
  /\ cut => pc = "crashed" /\ CleanupSkipped

\* After the join a sampler that is still active means the timeout.
JoinInv ==
  /\ pc \in RecordSteps \/ (pc \in TermSteps /\ ret = "finally")
       => joined = "timeout" \/ ~SamplerActive
  /\ pc \in Ended => ~SamplerActive

\* The manifest is written after all of that and stays true.
SealInv ==
  /\ sealed => pc \in SealedSteps \cup Ended /\ ~cut
  /\ sealed /\ NoStragglers => ManifestHolds

\* Return code 0 is the command's own; it is recorded before the seal.
OutcomeInv ==
  /\ rc = 0 => proc[Leader] = "gone" /\ code = 0
  /\ pc \in RecordSteps \ {"record"} => runRC = rc
  /\ pc \in SealedSteps => sealed
  /\ pc \in {"verify", "summarize", "assertions"} => rc = 0
  /\ pc \in {"summarize", "assertions"} => \A f \in RawFiles : manifest[f] # 0

CuratedInv ==
  /\ pc = "assertions" => curated = "summary"
  /\ curated # "absent" =>
       /\ pc \in {"assertions"} \cup Ended
       /\ sealed /\ rc = 0 /\ runRC = 0
       /\ \A f \in RawFiles : manifest[f] # 0
       /\ NoStragglers => used = manifest

IInv == LaunchInv /\ CleanupInv /\ JoinInv /\ SealInv /\ OutcomeInv /\ CuratedInv

-----------------------------------------------------------------------------
LEMMA ProcsFacts == Leader \in Procs /\ Descendants \subseteq Procs
  BY DEF Procs

LEMMA TypeInit == Init => TypeOK
<1> SUFFICES ASSUME Init PROVE TypeOK
  OBVIOUS
<1>1. rows \in Seq(Row)
  BY DEF Init
<1>2. footprint \in Nat /\ initial \in Nat
  BY RunnerAssumption DEF Init, RunnerAssumption
<1>3. /\ pc \in Steps /\ rc \in Codes /\ exit \in Codes \cup {NoStatus}
      /\ runRC \in Codes \cup {NoStatus, NoRecord}
  BY DEF Init, Steps, Codes, NoStatus, NoRecord
<1>4. ver \in [Files -> Nat] /\ manifest \in [RawFiles -> Nat] /\ used \in [RawFiles -> Nat]
  BY DEF Init
<1> QED
  BY <1>1, <1>2, <1>3, <1>4 DEF Init, TypeOK

\* The two ways out of _terminate_process_group and of the program.
LEMMA ReturnTypes ==
  ASSUME TypeOK, TermReturns
  PROVE  /\ pc' \in Steps /\ exit' \in Codes \cup {NoStatus}
         /\ sampler' \in {"none", "unstarted", "starting", "opened", "sampling", "finished", "dead"}
<1>1. CASE ret = "handler"
  BY <1>1 DEF TermReturns, TypeOK, Steps
<1>2. CASE ret # "handler" /\ exc
  BY <1>2 DEF TermReturns, Crash, TypeOK, Steps, Ended, Codes
<1>3. CASE ret # "handler" /\ ~exc
  BY <1>3 DEF TermReturns, TypeOK, Steps, RecordSteps
<1> QED
  BY <1>1, <1>2, <1>3 DEF TypeOK

\* A row more in the sampler's file.
LEMMA AppendRowTypes ==
  ASSUME TypeOK, NEW size \in Nat, AppendRow(size)
  PROVE  rows' \in Seq(Row) /\ ver' \in [Files -> Nat]
<1>1. [size |-> size, post |-> CommandOver] \in Row
  BY DEF Row, CommandOver
<1> QED
  BY <1>1 DEF AppendRow, TypeOK, Files

LEMMA TypeStep == TypeOK /\ [Next]_vars => TypeOK'
<1> SUFFICES ASSUME TypeOK, [Next]_vars PROVE TypeOK'
  OBVIOUS
<1> USE ProcsFacts, RunnerAssumption
    DEF RunnerAssumption, TypeOK, mainVars, samplerVars, procVars, evidence, Codes, Steps,
        TrySteps, TermSteps, RecordSteps, Ended, NoStatus, NoRecord, Files, RawFiles
<1>1. CASE Main
  <2>1. CASE Refuse
    BY <2>1 DEF Refuse, Exit
  <2>2. CASE DryRun
    BY <2>2 DEF DryRun, Exit
  <2>3. CASE Prepare
    BY <2>3 DEF Prepare
  <2>4. CASE Launch
    BY <2>4 DEF Launch
  <2>5. CASE LaunchFails
    BY <2>5 DEF LaunchFails
  <2>6. CASE StartSampler
    BY <2>6 DEF StartSampler
  <2>7. CASE SamplerReady
    BY <2>7 DEF SamplerReady
  <2>8. CASE SamplerNotReady
    BY <2>8 DEF SamplerNotReady
  <2>9. CASE CommandDone
    BY <2>9 DEF CommandDone
  <2>10. CASE SetStop
    <3>1. CASE sampler # "none"
      BY <2>10, <3>1 DEF SetStop
    <3>2. CASE sampler = "none" /\ Launched
      BY <2>10, <3>2 DEF SetStop
    <3>3. CASE sampler = "none" /\ ~Launched /\ exc
      BY <2>10, <3>3 DEF SetStop, Crash
    <3>4. CASE sampler = "none" /\ ~Launched /\ ~exc
      BY <2>10, <3>4 DEF SetStop
    <3> HIDE DEF TypeOK
    <3> QED
      BY <3>1, <3>2, <3>3, <3>4
  <2>11. CASE JoinSampler
    BY <2>11 DEF JoinSampler, SamplerActive
  <2>12. CASE TermCheck
    <3>1. CASE GroupExists
      BY <2>12, <3>1 DEF TermCheck
    <3>2. CASE ~GroupExists
      <4>1. TermReturns
        BY <2>12, <3>2, Zenon DEF TermCheck
      <4> QED
        BY <2>12, <3>2, <4>1, ReturnTypes DEF TermCheck
    <3> QED
      BY <3>1, <3>2, Zenon
  <2>13. CASE TermSignal
    <3>1. CASE GroupExists
      BY <2>13, <3>1 DEF TermSignal
    <3>2. CASE ~GroupExists
      <4>1. TermReturns
        BY <2>13, <3>2, Zenon DEF TermSignal
      <4> QED
        BY <2>13, <3>2, <4>1, ReturnTypes DEF TermSignal
    <3> QED
      BY <3>1, <3>2, Zenon
  <2>14. CASE TermPoll
    BY <2>14 DEF TermPoll, Running
  <2>15. CASE TermReap
    <3>1. TermReturns
      BY <2>15, Zenon DEF TermReap
    <3> QED
      BY <2>15, <3>1, ReturnTypes DEF TermReap
  <2>16. CASE TermReapTimeout
    BY SMTT(30), <2>16 DEF TermReapTimeout, Crash
  <2>17. CASE Record
    BY <2>17 DEF Record
  <2>18. CASE CopyProfile
    BY <2>18 DEF CopyProfile
  <2>19. CASE WriteManifest
    BY <2>19 DEF WriteManifest
  <2>20. CASE ManifestRaises
    BY <2>20 DEF ManifestRaises, Crash
  <2>21. CASE Judge
    BY SMTT(30), <2>21 DEF Judge, Exit
  <2>22. CASE Verify
    BY SMTT(30), <2>22 DEF Verify, Exit
  <2>23. CASE Summarize
    BY <2>23 DEF Summarize
  <2>24. CASE SummarizeFails
    BY <2>24 DEF SummarizeFails, Exit
  <2>25. CASE WriteAssertions
    BY <2>25 DEF WriteAssertions, Exit, FootprintGrew
  <2>26. CASE StartSamplerFails
    BY <2>26 DEF StartSamplerFails
  <2>27. CASE JoinRaises
    BY <2>27 DEF JoinRaises, Crash
  <2> HIDE DEF TypeOK
  <2> QED
    BY <1>1, <2>1, <2>2, <2>3, <2>4, <2>5, <2>6, <2>7, <2>8, <2>9, <2>10, <2>11, <2>12, <2>13,
      <2>14, <2>15, <2>16, <2>17, <2>18, <2>19, <2>20, <2>21, <2>22, <2>23, <2>24, <2>25, <2>26,
      <2>27 DEF Main
<1>2. CASE Operator
  <2>1. CASE InterruptTry
    BY SMTT(30), <2>1 DEF InterruptTry, Launched
  <2>2. CASE InterruptHandler
    BY <2>2 DEF InterruptHandler
  <2>3. CASE InterruptFinally
    BY <2>3 DEF InterruptFinally, Crash
  <2>4. CASE InterruptOutside
    BY <2>4 DEF InterruptOutside, Crash
  <2> HIDE DEF TypeOK
  <2> QED
    BY <1>2, <2>1, <2>2, <2>3, <2>4 DEF Operator
<1>3. CASE Sampler
  <2>1. CASE SamplerOpens
    BY <2>1 DEF SamplerOpens
  <2>2. CASE SamplerBaseline
    <3>1. rows' \in Seq(Row) /\ ver' \in [Files -> Nat]
      BY <2>2, AppendRowTypes DEF SamplerBaseline
    <3> QED
      BY SMTT(30), <2>2, <3>1 DEF SamplerBaseline
  <2>3. CASE SamplerRow
    <3>1. rows' \in Seq(Row) /\ ver' \in [Files -> Nat]
      BY <2>3, AppendRowTypes DEF SamplerRow
    <3> QED
      BY SMTT(30), <2>3, <3>1 DEF SamplerRow
  <2>4. CASE SamplerFinal
    <3>1. rows' \in Seq(Row) /\ ver' \in [Files -> Nat]
      BY <2>4, AppendRowTypes DEF SamplerFinal
    <3> QED
      BY SMTT(30), <2>4, <3>1 DEF SamplerFinal
  <2>5. CASE SamplerDies
    BY <2>5 DEF SamplerDies, SamplerActive
  <2> HIDE DEF TypeOK
  <2> QED
    BY <1>3, <2>1, <2>2, <2>3, <2>4, <2>5 DEF Sampler
<1>4. CASE Command
  <2>1. ASSUME NEW p \in Procs, NEW d \in Descendants, Fork(p, d)
       PROVE  TypeOK'
    BY <2>1 DEF Fork
  <2>2. ASSUME NEW p \in Procs, NEW f \in Files, ProcWrites(p, f)
       PROVE  TypeOK'
    BY SMTT(30), <2>2 DEF ProcWrites
  <2>3. ASSUME NEW p \in Procs, ProcSpills(p)
       PROVE  TypeOK'
    BY <2>3 DEF ProcSpills
  <2>4. ASSUME NEW p \in Procs, ProcExits(p)
       PROVE  TypeOK'
    BY <2>4 DEF ProcExits
  <2> HIDE DEF TypeOK
  <2> QED
    BY <1>4, <2>1, <2>2, <2>3, <2>4 DEF Command
<1>5. CASE UNCHANGED vars
  BY <1>5 DEF vars
<1> HIDE DEF TypeOK
<1> QED
  BY <1>1, <1>2, <1>3, <1>4, <1>5 DEF Next, Terminating

\* The variables keep their types.
THEOREM TypeCorrect == Spec => []TypeOK
  BY TypeInit, TypeStep, PTL DEF Spec

\* The inductive step: one case per action.
LEMMA InvInit == Init => IInv
  BY ProcsFacts DEF Init, IInv, LaunchInv, CleanupInv, JoinInv, SealInv, OutcomeInv, CuratedInv,
     Launched, RecordSteps, Ended, TermSteps, SealedSteps, SamplerActive

LEMMA InvStep == TypeOK /\ IInv /\ [Next]_vars => IInv'
<1> SUFFICES ASSUME TypeOK, IInv, [Next]_vars PROVE IInv'
  OBVIOUS
<1> USE ProcsFacts
    DEF TypeOK, mainVars, samplerVars, procVars, evidence, IInv, LaunchInv, CleanupInv, JoinInv,
        CleanupSkipped,
        SealInv, OutcomeInv, CuratedInv, Launched, Running, SamplerActive, NoStragglers,
        ManifestHolds, SealedSteps, TrySteps, TermSteps, RecordSteps, Ended, Files, RawFiles
<1>1. CASE Main
  <2>1. CASE Refuse
    BY <2>1 DEF Refuse, Exit
  <2>2. CASE DryRun
    BY <2>2 DEF DryRun, Exit
  <2>3. CASE Prepare
    BY <2>3 DEF Prepare
  <2>4. CASE Launch
    BY <2>4 DEF Launch
  <2>5. CASE LaunchFails
    BY <2>5 DEF LaunchFails
  <2>6. CASE StartSampler
    BY <2>6 DEF StartSampler
  <2>7. CASE SamplerReady
    BY <2>7 DEF SamplerReady
  <2>8. CASE SamplerNotReady
    BY <2>8 DEF SamplerNotReady
  <2>9. CASE CommandDone
    BY <2>9 DEF CommandDone
  <2>10. CASE SetStop
    BY <2>10 DEF SetStop, Crash
  <2>11. CASE JoinSampler
    BY <2>11 DEF JoinSampler
  <2>12. CASE TermCheck
    BY <2>12 DEF TermCheck, TermReturns, GroupExists, Crash
  <2>13. CASE TermSignal
    BY <2>13 DEF TermSignal, TermReturns, GroupExists, Crash
  <2>14. CASE TermPoll
    BY <2>14 DEF TermPoll
  <2>15. CASE TermReap
    BY <2>15 DEF TermReap, TermReturns, Crash
  <2>16. CASE TermReapTimeout
    BY <2>16 DEF TermReapTimeout, Crash
  <2>17. CASE Record
    BY <2>17 DEF Record
  <2>18. CASE CopyProfile
    BY <2>18 DEF CopyProfile
  <2>19. CASE WriteManifest
    BY <2>19 DEF WriteManifest
  <2>20. CASE ManifestRaises
    BY <2>20 DEF ManifestRaises, Crash
  <2>21. CASE Judge
    BY <2>21 DEF Judge, Exit, Listed
  <2>22. CASE Verify
    BY <2>22 DEF Verify, Exit
  <2>23. CASE Summarize
    BY <2>23 DEF Summarize
  <2>24. CASE SummarizeFails
    BY <2>24 DEF SummarizeFails, Exit
  <2>25. CASE WriteAssertions
    BY <2>25 DEF WriteAssertions, Exit, FootprintGrew
  <2>26. CASE StartSamplerFails
    BY <2>26 DEF StartSamplerFails
  <2>27. CASE JoinRaises
    BY <2>27 DEF JoinRaises, Crash
  <2> HIDE DEF TypeOK, IInv
  <2> QED
    BY <1>1, <2>1, <2>2, <2>3, <2>4, <2>5, <2>6, <2>7, <2>8, <2>9, <2>10, <2>11, <2>12, <2>13,
      <2>14, <2>15, <2>16, <2>17, <2>18, <2>19, <2>20, <2>21, <2>22, <2>23, <2>24, <2>25, <2>26,
      <2>27 DEF Main
<1>2. CASE Operator
  <2>1. CASE InterruptTry
    BY <2>1 DEF InterruptTry
  <2>2. CASE InterruptHandler
    BY <2>2 DEF InterruptHandler
  <2>3. CASE InterruptFinally
    BY <2>3 DEF InterruptFinally, Crash
  <2>4. CASE InterruptOutside
    BY <2>4 DEF InterruptOutside, Crash
  <2> HIDE DEF TypeOK, IInv
  <2> QED
    BY <1>2, <2>1, <2>2, <2>3, <2>4 DEF Operator
<1>3. CASE Sampler
  <2>1. CASE SamplerOpens
    BY <2>1 DEF SamplerOpens
  <2>2. CASE SamplerBaseline
    BY <2>2 DEF SamplerBaseline, AppendRow, Row, CommandOver
  <2>3. CASE SamplerRow
    BY <2>3 DEF SamplerRow, AppendRow, Row, CommandOver
  <2>4. CASE SamplerFinal
    BY <2>4 DEF SamplerFinal, AppendRow, Row, CommandOver
  <2>5. CASE SamplerDies
    BY <2>5 DEF SamplerDies
  <2> HIDE DEF TypeOK, IInv
  <2> QED
    BY <1>3, <2>1, <2>2, <2>3, <2>4, <2>5 DEF Sampler
<1>4. CASE Command
  <2>1. ASSUME NEW p \in Procs, NEW d \in Descendants, Fork(p, d)
       PROVE  IInv'
    BY <2>1 DEF Fork
  <2>2. ASSUME NEW p \in Procs, NEW f \in Files, ProcWrites(p, f)
       PROVE  IInv'
    BY <2>2 DEF ProcWrites
  <2>3. ASSUME NEW p \in Procs, ProcSpills(p)
       PROVE  IInv'
    BY <2>3 DEF ProcSpills
  <2>4. ASSUME NEW p \in Procs, ProcExits(p)
       PROVE  IInv'
    BY <2>4 DEF ProcExits
  <2> HIDE DEF TypeOK, IInv
  <2> QED
    BY <1>4, <2>1, <2>2, <2>3, <2>4 DEF Command
<1>5. CASE UNCHANGED vars
  BY <1>5 DEF vars
<1> HIDE DEF TypeOK, IInv
<1> QED
  BY <1>1, <1>2, <1>3, <1>4, <1>5 DEF Next, Terminating

LEMMA Invariance == Spec => [](TypeOK /\ IInv)
<1>1. Init => TypeOK /\ IInv
  BY TypeInit, InvInit
<1>2. TypeOK /\ IInv /\ [Next]_vars => (TypeOK /\ IInv)'
  BY TypeStep, InvStep
<1> QED
  BY <1>1, <1>2, PTL DEF Spec

\* Nothing of the process group survives the try statement unkilled, unless a signal
\* arrived inside the finally block or the sampler could not be started
\* (_terminate_process_group, main's finally block).
THEOREM NoSurvivorsHolds == Spec => []NoSurvivors
<1>1. TypeOK /\ IInv => NoSurvivors
  BY DEF IInv, CleanupInv, NoSurvivors
<1> QED
  BY <1>1, Invariance, PTL

\* Without stragglers the manifest binds the raw files for good
\* (write_evidence_manifest after the cleanup).
THEOREM SealedFilesStayHolds == Spec => []SealedFilesStay
<1>1. TypeOK /\ IInv => SealedFilesStay
  BY DEF IInv, SealInv, SealedFilesStay
<1> QED
  BY <1>1, Invariance, PTL

\* A curated directory stands for a sealed, complete, successful run.  Where nobody
\* straggles its summary is computed from the bytes the manifest binds; with a straggler
\* it need not be.  (main's early returns, build_curated_artifacts)
THEOREM CuratedFromSealedSuccessHolds == Spec => []CuratedFromSealedSuccess
<1>1. TypeOK /\ IInv => CuratedFromSealedSuccess
  BY DEF IInv, OutcomeInv, CuratedInv, CuratedFromSealedSuccess, CommandOver
<1> QED
  BY <1>1, Invariance, PTL

-----------------------------------------------------------------------------
(* What is reported of the run: the sampler's rows and the exit status.    *)

\* The first row is the baseline; an "ok" on growth was earned by a later row.
RowInv ==
  /\ sampler \in {"none", "unstarted", "starting", "opened"} => rows = <<>>
  /\ sampler \in {"sampling", "finished"} => rows # <<>>
  /\ rows # <<>> => rows[1].size = initial
  /\ GrowthIsRunLocal

\* stop_event is set behind the end of the command, or with an exception pending.
StopInv ==
  /\ pc \in {"start"} \cup TrySteps \/ (pc \in TermSteps /\ ret = "handler") => ~stop
  /\ (stop \/ pc = "stop") /\ ~exc => CommandOver \/ ~Launched
  /\ FinalRowIsPostCommand

\* A dry run only makes a run.json without a return code.
ExitInv ==
  /\ pc = "start" => runRC = NoRecord
  /\ pc \notin {"start"} \cup Ended => ~args.dryRun
  /\ ExitStatusIsTruthful

ReportInv == RowInv /\ StopInv /\ ExitInv

\* The steps in groups: the ways into the try statement, the try block, the
\* finally block with the termination of the group, and what is recorded.
EnterSteps == Refuse \/ DryRun \/ Prepare
BlockSteps == Launch \/ LaunchFails \/ StartSampler \/ StartSamplerFails \/ SamplerReady
              \/ SamplerNotReady \/ CommandDone
FinalSteps == SetStop \/ JoinSampler \/ JoinRaises \/ TermCheck \/ TermSignal \/ TermPoll
              \/ TermReap \/ TermReapTimeout
OutcomeSteps == Record \/ CopyProfile \/ WriteManifest \/ ManifestRaises \/ Judge \/ Verify
                \/ Summarize \/ SummarizeFails \/ WriteAssertions

LEMMA StepGroups ==
  ASSUME [Next]_vars
  PROVE  \/ EnterSteps \/ BlockSteps \/ FinalSteps \/ OutcomeSteps
         \/ Operator \/ Sampler \/ Command \/ UNCHANGED vars
  BY DEF Next, Main, Terminating, EnterSteps, BlockSteps, FinalSteps, OutcomeSteps

\* What a row more leaves of the rows before it.
LEMMA AppendRowKeeps ==
  ASSUME TypeOK, NEW size \in Nat, AppendRow(size)
  PROVE  /\ rows' # <<>> /\ Len(rows') = Len(rows) + 1
         /\ \A i \in DOMAIN rows : i \in DOMAIN rows' /\ rows'[i] = rows[i]
         /\ rows'[Len(rows')].post <=> CommandOver
         /\ rows = <<>> => rows'[1].size = size
         /\ rows # <<>> => rows'[1] = rows[1]
<1>1. rows \in Seq(Row)
  BY DEF TypeOK
<1>2. [size |-> size, post |-> CommandOver] \in Row
  BY DEF Row, CommandOver
<1>3. rows' = Append(rows, [size |-> size, post |-> CommandOver])
  BY DEF AppendRow
<1> DEFINE r == [size |-> size, post |-> CommandOver]
<1> HIDE DEF r
<1>4. rows' = Append(rows, r) /\ r \in Row
  BY <1>2, <1>3 DEF r
<1>5. /\ rows' # <<>> /\ Len(rows') = Len(rows) + 1 /\ rows'[Len(rows')] = r
      /\ \A i \in DOMAIN rows : i \in DOMAIN rows' /\ rows'[i] = rows[i]
      /\ rows = <<>> => rows'[1] = r
      /\ rows # <<>> => rows'[1] = rows[1]
  BY <1>1, <1>4
<1>6. r.size = size /\ r.post = CommandOver
  BY DEF r
<1> QED
  BY <1>5, <1>6

LEMMA RowStep == TypeOK /\ IInv /\ RowInv /\ [Next]_vars => RowInv'
<1> SUFFICES ASSUME TypeOK, IInv, RowInv, [Next]_vars PROVE RowInv'
  OBVIOUS
<1> USE DEF RowInv, GrowthIsRunLocal, mainVars, samplerVars, procVars, evidence
<1>0. rows \in Seq(Row) /\ initial \in Nat /\ footprint \in Nat
  BY DEF TypeOK
<1>1. CASE EnterSteps
  <2>1. pc = "start" /\ curated' = curated /\ rows' = rows
    BY <1>1 DEF EnterSteps, Refuse, DryRun, Prepare
  <2>2. sampler = "none" /\ curated = "absent"
    BY <2>1 DEF IInv, LaunchInv, CuratedInv, Ended
  <2>3. sampler' = "none"
    BY <1>1, <2>2 DEF EnterSteps, Refuse, DryRun, Prepare, Exit, SamplerActive
  <2> QED
    BY <2>1, <2>2, <2>3
<1>2. CASE BlockSteps
  BY <1>2 DEF BlockSteps, Launch, LaunchFails, StartSampler, StartSamplerFails, SamplerReady,
         SamplerNotReady,
              CommandDone, IInv, LaunchInv, CuratedInv
<1>3. CASE FinalSteps
  BY <1>3 DEF FinalSteps, SetStop, JoinSampler, JoinRaises, TermCheck, TermSignal, TermPoll,
         TermReap,
              TermReapTimeout, TermReturns, Crash
<1>4. CASE OutcomeSteps
  <2>1. CASE WriteAssertions
    <3>1. curated' = "ok" => \E i \in DOMAIN rows : rows[i].size > rows[1].size
      BY <2>1 DEF WriteAssertions, FootprintGrew
    <3>2. rows' = rows /\ initial' = initial /\ sampler' \in {sampler, "dead"}
      BY <2>1 DEF WriteAssertions, Exit
    <3> QED
      BY <3>1, <3>2
  <2>2. CASE UNCHANGED curated \/ Summarize
    BY <1>4, <2>2 DEF OutcomeSteps, Record, CopyProfile, WriteManifest, ManifestRaises, Judge,
      Verify, Summarize, SummarizeFails, WriteAssertions, Exit, Crash
  <2> QED
    BY <1>4, <2>1, <2>2 DEF OutcomeSteps, Record, CopyProfile, WriteManifest, ManifestRaises, Judge,
      Verify, SummarizeFails
<1>5. CASE Operator
  <2>1. CASE InterruptTry
    <3>1. sampler' = sampler \/ (sampler = "none" /\ sampler' = "unstarted")
      BY <2>1 DEF InterruptTry, IInv, LaunchInv
    <3> QED
      BY <2>1, <3>1 DEF InterruptTry
  <2>2. CASE InterruptHandler \/ InterruptFinally \/ InterruptOutside
    BY <2>2 DEF InterruptHandler, InterruptFinally, InterruptOutside, Crash
  <2> QED
    BY <1>5, <2>1, <2>2 DEF Operator
<1>6. CASE Sampler
  <2>1. CASE SamplerOpens \/ SamplerDies
    BY <2>1 DEF SamplerOpens, SamplerDies
  <2>2. ASSUME NEW size \in Nat, AppendRow(size),
               sampler' \notin {"none", "unstarted", "starting", "opened"},
               rows = <<>> => size = initial, UNCHANGED <<initial, curated>>
        PROVE  RowInv'
    <3>1. /\ rows' # <<>>
          /\ \A i \in DOMAIN rows : i \in DOMAIN rows' /\ rows'[i] = rows[i]
          /\ rows = <<>> => rows'[1].size = size
          /\ rows # <<>> => rows'[1] = rows[1]
      BY <2>2, AppendRowKeeps
    <3>2. ASSUME curated' = "ok" PROVE \E i \in DOMAIN rows' : rows'[i].size > initial'
      <4>1. PICK i \in DOMAIN rows : rows[i].size > initial
        BY <2>2, <3>2
      <4>2. i \in DOMAIN rows' /\ rows'[i].size > initial'
        BY <2>2, <3>1, <4>1
      <4> QED
        BY <4>2
    <3>3. rows'[1].size = initial'
      BY <2>2, <3>1
    <3> QED
      BY <2>2, <3>1, <3>2, <3>3
  <2>3. CASE SamplerBaseline
    <3>1. AppendRow(initial) /\ sampler' = "sampling" /\ UNCHANGED <<initial, curated>>
      BY <2>3 DEF SamplerBaseline
    <3> QED
      BY <1>0, <2>2, <3>1
  <2>4. CASE SamplerRow
    BY <1>0, <2>2, <2>4 DEF SamplerRow
  <2>5. CASE SamplerFinal
    BY <1>0, <2>2, <2>5 DEF SamplerFinal
  <2> QED
    BY <1>6, <2>1, <2>3, <2>4, <2>5 DEF Sampler
<1>7. CASE Command
  BY <1>7 DEF Command, Fork, ProcWrites, ProcSpills, ProcExits
<1>8. CASE UNCHANGED vars
  BY <1>8 DEF vars
<1> QED
  BY <1>1, <1>2, <1>3, <1>4, <1>5, <1>6, <1>7, <1>8, StepGroups

LEMMA StopStep == TypeOK /\ IInv /\ StopInv /\ [Next]_vars => StopInv'
<1> SUFFICES ASSUME TypeOK, IInv, StopInv, [Next]_vars PROVE StopInv'
  OBVIOUS
<1> USE ProcsFacts
    DEF StopInv, FinalRowIsPostCommand, CommandOver, Launched, TrySteps, TermSteps, RecordSteps,
        Ended, mainVars, samplerVars, procVars, evidence
<1>0. proc \in [Procs -> {"none", "running", "zombie", "gone"}] /\ ret \in {"handler", "finally"}
  BY DEF TypeOK
<1>1. CASE EnterSteps
  BY <1>1 DEF EnterSteps, Refuse, DryRun, Prepare, Exit
<1>2. CASE BlockSteps
  BY <1>0, <1>2 DEF BlockSteps, Launch, LaunchFails, StartSampler, StartSamplerFails,
         SamplerReady, SamplerNotReady,
                    CommandDone, IInv, LaunchInv
<1>3. CASE FinalSteps
  <2>1. CASE SetStop
    BY <1>0, <2>1 DEF SetStop, Crash
  <2>2. CASE JoinSampler
    BY <1>0, <2>2 DEF JoinSampler
  <2>3. CASE TermCheck
    BY <1>0, <2>3 DEF TermCheck, GroupExists, TermReturns, Crash
  <2>4. CASE TermSignal
    BY <1>0, <2>4 DEF TermSignal, GroupExists, TermReturns, Crash
  <2>5. CASE TermPoll
    BY <1>0, <2>5 DEF TermPoll
  <2>6. CASE TermReap
    BY <1>0, <2>6 DEF TermReap, TermReturns, Crash
  <2>7. CASE TermReapTimeout
    BY <1>0, <2>7 DEF TermReapTimeout, Crash
  <2>8. CASE JoinRaises
    BY <1>0, <2>8 DEF JoinRaises, Crash
  <2> QED
    BY <1>3, <2>1, <2>2, <2>3, <2>4, <2>5, <2>6, <2>7, <2>8 DEF FinalSteps
<1>4. CASE OutcomeSteps
  BY <1>4 DEF OutcomeSteps, Record, CopyProfile, WriteManifest, ManifestRaises, Judge, Verify,
              Summarize, SummarizeFails, WriteAssertions, Exit, Crash
<1>5. CASE Operator
  BY <1>0, <1>5 DEF Operator, InterruptTry, InterruptHandler, InterruptFinally, InterruptOutside,
         Crash
<1>6. CASE Sampler
  <2>1. CASE SamplerFinal
    <3>1. AppendRow(footprint) /\ footprint \in Nat /\ stop /\ SamplerActive
      BY <2>1 DEF SamplerFinal, TypeOK, SamplerActive
    <3>2. ~exc => CommandOver
      BY <3>1 DEF IInv, LaunchInv, SamplerActive
    <3>3. rows' # <<>> /\ (rows'[Len(rows')].post <=> CommandOver)
      BY <3>1, AppendRowKeeps
    <3> QED
      BY <2>1, <3>2, <3>3 DEF SamplerFinal
  <2>2. CASE SamplerOpens \/ SamplerBaseline \/ SamplerRow \/ SamplerDies
    BY <2>2 DEF SamplerOpens, SamplerBaseline, SamplerRow, SamplerDies
  <2> QED
    BY <1>6, <2>1, <2>2 DEF Sampler
<1>7. CASE Command
  <2>1. ASSUME NEW p \in Procs, NEW d \in Descendants, Fork(p, d)
        PROVE  StopInv'
    BY <1>0, <2>1, RunnerAssumption DEF Fork, RunnerAssumption
  <2>2. ASSUME NEW p \in Procs, NEW f \in Files, ProcWrites(p, f) \/ ProcSpills(p)
        PROVE  StopInv'
    BY <2>2 DEF ProcWrites, ProcSpills
  <2>3. ASSUME NEW p \in Procs, ProcExits(p)
        PROVE  StopInv'
    BY <1>0, <2>3 DEF ProcExits
  <2> QED
    BY <1>7, <2>1, <2>2, <2>3 DEF Command, Files
<1>8. CASE UNCHANGED vars
  BY <1>8 DEF vars
<1> QED
  BY <1>1, <1>2, <1>3, <1>4, <1>5, <1>6, <1>7, <1>8, StepGroups

LEMMA ExitStep == TypeOK /\ IInv /\ ExitInv /\ [Next]_vars => ExitInv'
<1> SUFFICES ASSUME TypeOK, IInv, ExitInv, [Next]_vars PROVE ExitInv'
  OBVIOUS
<1> USE DEF ExitInv, ExitStatusIsTruthful, NoStatus, NoRecord, Codes, TrySteps, TermSteps,
            RecordSteps, Ended, mainVars, samplerVars, procVars, evidence
<1>0. rc \in Codes /\ args.dryRun \in BOOLEAN
  BY DEF TypeOK
<1>1. CASE EnterSteps
  <2>1. pc = "start" /\ curated = "absent"
    BY <1>1 DEF EnterSteps, Refuse, DryRun, Prepare, IInv, CuratedInv
  <2>2. CASE Refuse
    BY <2>1, <2>2 DEF Refuse, Exit
  <2>3. CASE DryRun
    BY <2>1, <2>3 DEF DryRun, Exit
  <2>4. CASE Prepare
    BY <2>1, <2>4 DEF Prepare
  <2> QED
    BY <1>1, <2>2, <2>3, <2>4 DEF EnterSteps
<1>2. CASE BlockSteps
  BY <1>2 DEF BlockSteps, Launch, LaunchFails, StartSampler, StartSamplerFails, SamplerReady,
         SamplerNotReady,
         CommandDone
<1>3. CASE FinalSteps
  BY <1>3 DEF FinalSteps, SetStop, JoinSampler, JoinRaises, TermCheck, TermSignal, TermPoll,
         TermReap,
              TermReapTimeout, TermReturns, Crash
<1>4. CASE OutcomeSteps
  <2>1. CASE Judge
    <3>1. pc = "judge" /\ curated = "absent" /\ sealed /\ runRC = rc
      BY <2>1 DEF Judge, IInv, OutcomeInv, CuratedInv, SealedSteps
    <3> QED
      BY <1>0, <2>1, <3>1 DEF Judge, Exit
  <2>2. CASE Verify \/ SummarizeFails
    <3>1. pc \in {"verify", "summarize"} /\ curated = "absent"
      BY <2>2 DEF Verify, SummarizeFails, IInv, CuratedInv
    <3> QED
      BY <2>2, <3>1 DEF Verify, SummarizeFails, Exit
  <2>3. CASE WriteAssertions
    BY <2>3 DEF WriteAssertions, Exit
  <2>4. CASE Record \/ CopyProfile \/ WriteManifest \/ ManifestRaises \/ Summarize
    BY <2>4 DEF Record, CopyProfile, WriteManifest, ManifestRaises, Summarize, Crash
  <2> QED
    BY <1>4, <2>1, <2>2, <2>3, <2>4 DEF OutcomeSteps
<1>5. CASE Operator
  BY <1>5 DEF Operator, InterruptTry, InterruptHandler, InterruptFinally, InterruptOutside, Crash
<1>6. CASE Sampler
  BY <1>6 DEF Sampler, SamplerOpens, SamplerBaseline, SamplerRow, SamplerFinal, SamplerDies
<1>7. CASE Command
  BY <1>7 DEF Command, Fork, ProcWrites, ProcSpills, ProcExits
<1>8. CASE UNCHANGED vars
  BY <1>8 DEF vars
<1> QED
  BY <1>1, <1>2, <1>3, <1>4, <1>5, <1>6, <1>7, <1>8, StepGroups

LEMMA ReportInvariance == Spec => [](TypeOK /\ IInv /\ ReportInv)
<1>1. Init => ReportInv
  BY ProcsFacts DEF Init, ReportInv, RowInv, StopInv, ExitInv, GrowthIsRunLocal,
         FinalRowIsPostCommand,
         ExitStatusIsTruthful, Launched, CommandOver, TrySteps, TermSteps, Ended
<1>2. TypeOK /\ IInv /\ ReportInv /\ [Next]_vars => ReportInv'
  BY RowStep, StopStep, ExitStep DEF ReportInv
<1> QED
  BY <1>1, <1>2, TypeInit, TypeStep, InvInit, InvStep, PTL DEF Spec

\* An "ok" on footprint growth was earned over the footprint before the launch,
\* whenever the sampler was scheduled and however many rows it wrote
\* (the baseline row of _sample_resources).
THEOREM GrowthIsRunLocalHolds == Spec => []GrowthIsRunLocal
<1>1. ReportInv => GrowthIsRunLocal
  BY DEF ReportInv, RowInv
<1> QED
  BY <1>1, ReportInvariance, PTL

\* The last row of a sampler that ended by itself was taken behind the end of the
\* command, for every group of processes (stop_event is set after every wait).
THEOREM FinalRowIsPostCommandHolds == Spec => []FinalRowIsPostCommand
<1>1. ReportInv => FinalRowIsPostCommand
  BY DEF ReportInv, StopInv
<1> QED
  BY <1>1, ReportInvariance, PTL

\* The exit status says what became of the run (main's return statements).
THEOREM ExitStatusIsTruthfulHolds == Spec => []ExitStatusIsTruthful
<1>1. ReportInv => ExitStatusIsTruthful
  BY DEF ReportInv, ExitInv
<1> QED
  BY <1>1, ReportInvariance, PTL

=============================================================================
