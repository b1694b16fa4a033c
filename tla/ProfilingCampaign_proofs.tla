----------------------- MODULE ProfilingCampaign_proofs -----------------------
(***************************************************************************)
(* Proofs about ProfilingCampaign, for every plan of jobs, every set of    *)
(* ports and every value of the bounds: type correctness and the safety    *)
(* invariants.                                                             *)
(***************************************************************************)
EXTENDS ProfilingCampaign, TLAPS

\* The try block of run_one, the eviction included; its finally block.
Trying     == pc \in RunSteps \/ (pc \in StopSteps /\ ret = "evict")
Finalizing == pc \in StopSteps /\ ret = "final"

RunPlaces   == RunSteps \cup StopSteps \cup {"exit", "join", "except", "close", "persist",
                           "saving", "csv"}
BlockPlaces == BlockSteps \cup BlockHandler

Logged(row) == \E i \in DOMAIN log.rows : log.rows[i] = row

\* Where the campaign is in its plan.
PlaceInv ==
  /\ pc \in RunPlaces => job \in Jobs /\ plan[job] = "run"
  /\ pc \in BlockPlaces => job \in Jobs /\ plan[job] = "block"
  /\ pc = "done" => job = Len(plan) + 1

\* The port is the one of the command line whenever that is given, and outside
\* of a run.
PortInv ==
  /\ original = cli
  /\ cli # 0 => port = cli
  /\ pc \in RunSteps \ {"port"} => port # 0
  /\ pc \notin RunPlaces \cup Ended \/ pc \in {"close", "persist", "saving", "csv"} => port = cli

\* Only the server run_one holds may not be over; which one that is.
HeldInv ==
  /\ \A i \in DOMAIN server : i # proc => server[i].state = "over"
  /\ proc # 0 => proc = Len(server)
  /\ Len(server) <= 2
  /\ pc \in {"port", "launch"} => proc = 0 /\ Len(server) = (IF sampler = "none" THEN 0 ELSE 1)
  /\ pc = "sampler" => proc = 1 /\ sampler = "none"
  /\ pc \in {"ready", "infer", "infer_after"} \/ (pc \in StopSteps /\ ret = "evict")
       => proc # 0 /\ sampler # "none"
  /\ pc = "infer" \/ (pc \in StopSteps /\ ret = "evict") => proc = 1
  /\ pc = "infer_after" => proc = 2
  /\ pc = "kill_wait" => proc # 0 /\ server[proc].killed

\* Behind the finally block nothing of a run is left.
LeftInv ==
  /\ pc \notin RunPlaces \cup Ended \/ pc \in {"close", "persist", "saving", "csv"} =>
       \A i \in DOMAIN server : server[i].state = "over"
  /\ pc \notin RunPlaces \cup Ended \/ pc \in {"persist", "saving", "csv"} => ~log.open
  /\ pc \in Ended /\ ~cut => \A i \in DOMAIN server : server[i].state = "over" \/ server[i].killed
  /\ cut => pc = "crashed"

\* A driver only runs while it is waited for, or it was sent SIGKILL.
DriverInv ==
  /\ \A j \in Jobs : driver[j].state = "running" =>
       \/ j = job /\ pc \in {"b_wait", "b_term", "b_kill"}
       \/ pc \in Ended /\ (cut \/ driver[j].signal = "KILL")
  /\ pc = "b_kill" => driver[job].signal = "KILL"
  /\ \A j \in Jobs : j < job /\ plan[j] = "block" => driver[j].state = "ok"
  /\ \A j \in Jobs : driver[j].state = "ok" => driver[j].summary = "ok"

\* No sampler that was waited for is active behind the wait, and run_end is
\* written behind it.
LogInv ==
  /\ ~Trying /\ pc \notin {"exit", "join"} => abandoned \/ sampler \notin Active
  /\ Logged("run_end") => ~Trying /\ ~Finalizing /\ pc \notin {"exit", "join", "except"}
  /\ LogEndsWithRun

\* How the try block was left, and what that says of the verdict.
VerdictInv ==
  /\ Trying => exc = "no"
  /\ pc = "except" => exc = "error"
  /\ pc \in {"exit", "join"} \/ Finalizing \/ pc \in {"close", "persist", "saving", "csv"} =>
       (exc = "no" => Len(server) = 2)
  /\ Finalizing \/ pc \in {"close", "persist", "saving", "csv"} => (exc = "error" => ~ok)
  /\ pc \in {"persist", "saving", "csv"} => exc # "fatal"
  /\ pc \in RunPlaces /\ Logged("run_error") =>
       ~ok /\ ~Trying /\ pc \notin {"exit", "join", "except"}

\* There is a row for every run that is finished, and for no other job.
RowsInv ==
  /\ \A j \in Jobs : plan[j] = "run" /\ (j < job \/ (j = job /\ pc \in {"saving", "csv"})) =>
       \E i \in DOMAIN rows : rows[i].job = j
  /\ \A i \in DOMAIN rows : plan[rows[i].job] = "run"
  /\ Len(rows) <= Len(plan)
  /\ pc \notin {"saving", "csv", "crashed"} => Len(rows) < job
  /\ pc \in {"saving", "csv"} => Len(rows) <= job

SavedInv ==
  /\ pc = "saving" => saved = Torn
  /\ pc \notin {"saving", "crashed"} => saved = Len(rows)
  /\ pc = "crashed" => saved \in {Len(rows), Torn}
  /\ saved = Torn => rows # <<>> /\ rows[Len(rows)].job = job

ExitInv ==
  pc = "done" => (exit = 0 <=> \A i \in DOMAIN rows : rows[i].ok)

IInv ==
  /\ PlaceInv /\ PortInv /\ HeldInv /\ LeftInv /\ DriverInv
  /\ LogInv /\ VerdictInv /\ RowsInv /\ SavedInv /\ ExitInv

-----------------------------------------------------------------------------
LEMMA TypeInit == Init => TypeOK
<1> SUFFICES ASSUME Init PROVE TypeOK
  OBVIOUS
<1> USE CampaignAssumption DEF CampaignAssumption
<1>1. plan \in Campaigns /\ Len(plan) \in Nat \ {0} /\ cli \in CliPorts
  BY DEF Init
<1>2. rows \in Seq(RowType) /\ server \in Seq(ServerType)
  BY DEF Init
<1>3. log \in LogType
  BY DEF Init, LogType
<1>4. driver \in [Jobs -> DriverType]
  BY DEF Init, DriverType
<1>5. job \in 1..Len(plan) + 1 /\ saved \in 0..Len(plan) \cup {Torn} /\ port \in Ports \cup {0}
  BY <1>1 DEF Init
<1>6. exit \in {0, 1, 2, NoStatus} /\ interrupts \in 0..MaxInterrupts
  BY DEF Init
<1>7. /\ pc = "begin" /\ ret = "evict" /\ exc = "no" /\ cut = FALSE /\ original \in CliPorts
      /\ proc \in 0..2 /\ ok = FALSE /\ foreign \subseteq Ports /\ answers = {}
      /\ sampler = "none" /\ stop = FALSE /\ abandoned = FALSE
  BY DEF Init
<1> QED
  BY <1>1, <1>2, <1>3, <1>4, <1>5, <1>6, <1>7 DEF TypeOK

LEMMA PlanFacts ==
  ASSUME TypeOK
  PROVE  /\ Len(plan) \in Nat \ {0} /\ Jobs = 1..Len(plan) /\ cli \in Nat
         /\ \A j \in Jobs : plan[j] \in {"run", "block"}
  BY CampaignAssumption DEF CampaignAssumption, TypeOK, Jobs

\* The plan and the command line stay, and all that is defined from them.
LEMMA PlanStays ==
  ASSUME [Next]_vars
  PROVE  plan' = plan /\ cli' = cli /\ Jobs' = Jobs /\ RowType' = RowType /\ Torn' = Torn
<1>1. plan' = plan /\ cli' = cli
  BY DEF Next, Main, BeginRun, TakePort, Launch, StartSampler, Ready, InferBefore, InferAfter,
         RunRaises, StopOver, Terminate, Kill, StopRaises, ExitSampler, Join, Except,
         ExceptRaises, CloseLog, Persist, Saved, NextJob, MainRaises, Finish, BeginBlock,
         LaunchDriver, DriverDone, DriverTimeout, KillDriver,
         BlockRaises, Interrupt, Sampler, World, Terminating, vars
<1> QED
  BY <1>1 DEF Jobs, RowType, Torn

LEMMA LogRowType ==
  ASSUME log \in LogType, NEW row \in {"run_start", "sample", "run_error", "run_end"}, LogRow(row)
  PROVE  log' \in LogType
  BY DEF LogRow, LogType

LEMMA ServerUpdateType ==
  ASSUME server \in Seq(ServerType), NEW i \in DOMAIN server
  PROVE  /\ [server EXCEPT ![i].killed = TRUE] \in Seq(ServerType)
         /\ \A state \in {"serving", "over"} :
              [server EXCEPT ![i].state = state] \in Seq(ServerType)
<1>1. server[i] \in ServerType
  OBVIOUS
<1>2. /\ [server[i] EXCEPT !.killed = TRUE] \in ServerType
      /\ \A state \in {"serving", "over"} : [server[i] EXCEPT !.state = state] \in ServerType
  BY <1>1 DEF ServerType
<1> QED
  BY <1>2

\* Only the row that is written becomes one that was logged.
LEMMA LoggedAfter ==
  ASSUME log \in LogType, NEW row \in {"run_start", "sample", "run_error", "run_end"}, LogRow(row)
  PROVE  \A other : Logged(other)' <=> Logged(other) \/ other = row
<1>1. log.rows \in Seq({"run_start", "sample", "run_error", "run_end"})
  BY DEF LogType
<1>2. log'.rows = Append(log.rows, row)
  BY DEF LogRow, LogType
<1>3. DOMAIN log'.rows = DOMAIN log.rows \cup {Len(log.rows) + 1}
  BY <1>1, <1>2
<1>4. /\ \A i \in DOMAIN log.rows : log'.rows[i] = log.rows[i]
      /\ log'.rows[Len(log.rows) + 1] = row
  BY <1>1, <1>2
<1> QED
  BY <1>3, <1>4 DEF Logged

\* What an update of one server keeps.
LEMMA ServerUpdate ==
  ASSUME server \in Seq(ServerType), NEW i \in DOMAIN server, NEW r \in ServerType
  PROVE  /\ Len([server EXCEPT ![i] = r]) = Len(server)
         /\ DOMAIN [server EXCEPT ![i] = r] = DOMAIN server
         /\ \A k \in DOMAIN server :
              [server EXCEPT ![i] = r][k] = IF k = i THEN r ELSE server[k]
<1>1. DOMAIN [server EXCEPT ![i] = r] = DOMAIN server
  OBVIOUS
<1>2. [server EXCEPT ![i] = r] \in Seq(ServerType)
  OBVIOUS
<1>3. Len([server EXCEPT ![i] = r]) = Len(server)
  BY <1>1, <1>2
<1> QED
  BY <1>1, <1>3

LEMMA DriverUpdateType ==
  ASSUME driver \in [Jobs -> DriverType], NEW j \in Jobs
  PROVE  /\ \A state \in {"running", "ok", "failed"} :
              [driver EXCEPT ![j].state = state] \in [Jobs -> DriverType]
         /\ \A signal \in {"TERM", "KILL"} :
              [driver EXCEPT ![j].signal = signal] \in [Jobs -> DriverType]
         /\ \A state \in {"ok", "failed"}, summary \in {"none", "ok", "failed"} :
              [driver EXCEPT ![j] = [@ EXCEPT !.state = state, !.summary = summary]]
                \in [Jobs -> DriverType]
  BY DEF DriverType

LEMMA InfersType ==
  ASSUME answers \subseteq {"own", "stale", "foreign"}, NEW result, Infers(result)
  PROVE  answers' \subseteq {"own", "stale", "foreign"} /\ result \in BOOLEAN
<1>1. CASE Taken(port)
  BY <1>1 DEF Infers, Answer
<1>2. CASE ~Taken(port)
  BY <1>2 DEF Infers
<1> QED
  BY <1>1, <1>2

LEMMA TypeStep == TypeOK /\ PlaceInv /\ PortInv /\ HeldInv /\ RowsInv /\ [Next]_vars => TypeOK'
<1> SUFFICES ASSUME TypeOK, PlaceInv, PortInv, HeldInv, RowsInv, [Next]_vars PROVE TypeOK'
  OBVIOUS
<1> USE PlanFacts, PlanStays
    DEF TypeOK, PlaceInv, PortInv, HeldInv, RunPlaces, BlockPlaces,
        mainVars, procVars, samplerVars, Torn, NoStatus, RunSteps, StopSteps, BlockSteps,
        BlockHandler, Ended, Active
<1>1. CASE Main
  <2>1. CASE BeginRun
    <3>1. log' \in LogType
      BY <2>1 DEF BeginRun, LogType
    <3>2. server' \in Seq(ServerType)
      BY <2>1 DEF BeginRun
    <3>3. ok' \in BOOLEAN /\ stop' \in BOOLEAN /\ abandoned' \in BOOLEAN
      BY <2>1, Zenon DEF BeginRun
    <3>4. original' \in CliPorts
      BY <2>1 DEF BeginRun
    <3> QED
      BY <2>1, <3>1, <3>2, <3>3, <3>4 DEF BeginRun
  <2>2. CASE TakePort
    BY <2>2 DEF TakePort
  <2>3. CASE Launch
    <3>1. port \in Ports
      BY <2>3 DEF Launch
    <3>2. [port |-> port, state |-> "starting", killed |-> FALSE] \in ServerType
      BY <3>1 DEF ServerType
    <3>3. server' \in Seq(ServerType)
      BY <2>3, <3>2 DEF Launch
    <3>4. proc' \in 0..2
      BY <2>3 DEF Launch
    <3> QED
      BY <2>3, <3>3, <3>4 DEF Launch
  <2>4. CASE StartSampler
    BY <2>4 DEF StartSampler
  <2>5. CASE Ready
    BY <2>5 DEF Ready, Answer
  <2>6. CASE InferBefore
    <3>1. PICK result : Infers(result) /\ ok' = result
      BY <2>6 DEF InferBefore
    <3>2. answers' \subseteq {"own", "stale", "foreign"} /\ result \in BOOLEAN
      BY <3>1, InfersType
    <3>3. ok' \in BOOLEAN
      BY <3>1, <3>2, Zenon
    <3> QED
      BY <2>6, <3>2, <3>3 DEF InferBefore
  <2>7. CASE InferAfter
    <3>1. PICK result : Infers(result) /\ ok' = (ok /\ result)
      BY <2>7 DEF InferAfter
    <3>2. answers' \subseteq {"own", "stale", "foreign"} /\ result \in BOOLEAN
      BY <3>1, InfersType
    <3>3. ok' \in BOOLEAN
      BY <3>1, <3>2, Zenon
    <3> QED
      BY <2>7, <3>2, <3>3 DEF InferAfter
  <2>8. CASE RunRaises
    BY <2>8 DEF RunRaises, Unwind
  <2>9. CASE StopOver
    <3>1. CASE ret = "evict"
      BY <2>9, <3>1 DEF StopOver, StopReturns
    <3>2. CASE ret # "evict"
      <4>1. log' \in LogType
        BY <2>9, <3>2, LogRowType DEF StopOver, StopReturns
      <4> QED
        BY <2>9, <3>2, <4>1 DEF StopOver, StopReturns
    <3> QED
      BY <3>1, <3>2
  <2>10. CASE Terminate
    BY <2>10 DEF Terminate
  <2>11. CASE Kill
    <3>1. proc \in DOMAIN server
      BY <2>11 DEF Kill, ProcOver
    <3>2. server' \in Seq(ServerType)
      BY <2>11, <3>1, ServerUpdateType DEF Kill
    <3> QED
      BY <2>11, <3>2 DEF Kill
  <2>12. CASE StopRaises
    BY <2>12 DEF StopRaises, Unwind, Leave
  <2>13. CASE ExitSampler
    BY <2>13 DEF ExitSampler
  <2>14. CASE Join
    BY <2>14 DEF Join
  <2>15. CASE Except
    <3>1. log' \in LogType
      BY <2>15, LogRowType DEF Except
    <3>2. ok' \in BOOLEAN
      BY <2>15, Zenon DEF Except
    <3> QED
      BY <2>15, <3>1, <3>2 DEF Except
  <2>16. CASE CloseLog
    <3>1. log' \in LogType
      BY <2>16 DEF CloseLog, LogType
    <3> QED
      BY <2>16, <3>1 DEF CloseLog, Leave
  <2>17. CASE Persist
    BY <2>17 DEF Persist, RowType
  <2>18. CASE Saved
    BY <2>18 DEF Saved, RowsInv
  <2>19. CASE Finish
    BY <2>19 DEF Finish, Leave
  <2>26. CASE NextJob
    BY <2>26 DEF NextJob
  <2>27. CASE MainRaises
    BY <2>27 DEF MainRaises, Leave
  <2>28. CASE ExceptRaises
    <3>1. ok' \in BOOLEAN
      BY <2>28, Zenon DEF ExceptRaises
    <3> QED
      BY <2>28, <3>1 DEF ExceptRaises
  <2>20. CASE BeginBlock
    BY <2>20 DEF BeginBlock
  <2>21. CASE LaunchDriver
    <3>1. driver' \in [Jobs -> DriverType]
      BY <2>21, DriverUpdateType DEF LaunchDriver
    <3> QED
      BY <2>21, <3>1 DEF LaunchDriver
  <2>22. CASE DriverDone
    <3>1. job' \in 1..Len(plan) + 1
      BY <2>22 DEF DriverDone
    <3> QED
      BY <2>22, <3>1 DEF DriverDone, Leave
  <2>23. CASE DriverTimeout
    <3>1. driver' \in [Jobs -> DriverType]
      BY <2>23, DriverUpdateType DEF DriverTimeout, TermDriver
    <3> QED
      BY <2>23, <3>1 DEF DriverTimeout, TermDriver
  <2>24. CASE KillDriver
    <3>1. driver' \in [Jobs -> DriverType]
      BY <2>24, DriverUpdateType DEF KillDriver
    <3> QED
      BY <2>24, <3>1 DEF KillDriver
  <2>25. CASE BlockRaises
    BY <2>25 DEF BlockRaises, Leave
  <2> HIDE DEF TypeOK
  <2> QED
    BY <1>1, <2>1, <2>2, <2>3, <2>4, <2>5, <2>6, <2>7, <2>8, <2>9, <2>10, <2>11, <2>12, <2>13,
       <2>14, <2>15, <2>16, <2>17, <2>18, <2>19, <2>20, <2>21, <2>22, <2>23, <2>24, <2>25,
       <2>26, <2>27, <2>28 DEF Main
<1>2. CASE Interrupt
  <2>1. interrupts' \in 0..MaxInterrupts
    BY <1>2, CampaignAssumption DEF Interrupt, CampaignAssumption
  <2>2. CASE InterruptRun
    <3>1. abandoned' \in BOOLEAN
      <4>1. abandoned' = abandoned \/ abandoned' = (sampler \in Active)
        BY <2>2 DEF InterruptRun
      <4>2. abandoned \in BOOLEAN
        OBVIOUS
      <4>3. (sampler \in Active) = TRUE \/ (sampler \in Active) = FALSE
        OBVIOUS
      <4> QED
        BY <4>1, <4>2, <4>3, Zenon
    <3>2. cut' \in BOOLEAN /\ exc' = "fatal" /\ pc' \in {"stop",
    "exit"} /\ ret' \in {"evict", "final"}
      BY <2>2 DEF InterruptRun
    <3> QED
      BY <1>2, <2>1, <2>2, <3>1, <3>2 DEF Interrupt, InterruptRun
  <2>3. CASE InterruptBlock
    <3>1. driver' \in [Jobs -> DriverType]
      BY <2>3, DriverUpdateType DEF InterruptBlock, TermDriver
    <3> QED
      BY <1>2, <2>1, <2>3, <3>1 DEF Interrupt, InterruptBlock, TermDriver
  <2>4. CASE InterruptElsewhere
    BY <1>2, <2>1, <2>4 DEF Interrupt, InterruptElsewhere, Leave
  <2> QED
    BY <1>2, <2>2, <2>3, <2>4 DEF Interrupt
<1>3. CASE Sampler
  <2>1. log' \in LogType
    BY <1>3, LogRowType
    DEF Sampler, SamplerLooks, SamplerTakesPid, SamplerWrites, SamplerEnds
  <2>2. sampler' \in {"none", "ended", "dead"} \cup Active
    BY <1>3 DEF Sampler, SamplerLooks, SamplerTakesPid, SamplerWrites, SamplerEnds
  <2> QED
    BY <1>3, <2>1, <2>2 DEF Sampler
<1>4. CASE World
  <2>0. server \in Seq(ServerType) /\ driver \in [Jobs -> DriverType]
    OBVIOUS
  <2>1. ASSUME NEW i \in DOMAIN server, ServerServes(i) \/ ServerEnds(i)
        PROVE  server' \in Seq(ServerType) /\ UNCHANGED <<driver, foreign>>
    <3> HIDE DEF TypeOK, PlaceInv, PortInv, HeldInv
    <3> QED
      BY <2>0, <2>1, ServerUpdateType DEF ServerServes, ServerEnds
  <2>2. ASSUME NEW j \in Jobs, DriverEnds(j)
        PROVE  driver' \in [Jobs -> DriverType] /\ UNCHANGED <<server, foreign>>
    <3> HIDE DEF TypeOK, PlaceInv, PortInv, HeldInv
    <3>1. PICK state \in {"ok", "failed"}, summary \in {"none", "ok", "failed"} :
            driver' = [driver EXCEPT ![j] = [@ EXCEPT !.state = state, !.summary = summary]]
      BY <2>2 DEF DriverEnds
    <3> QED
      BY <2>0, <2>2, <3>1, DriverUpdateType DEF DriverEnds
  <2>3. CASE ForeignServer
    BY <1>4, <2>3 DEF World, ForeignServer
  <2>4. server' \in Seq(ServerType) /\ driver' \in [Jobs -> DriverType] /\ foreign' \subseteq Ports
    BY <1>4, <2>1, <2>2, <2>3 DEF World
  <2> QED
    BY <1>4, <2>4 DEF World
<1>5. CASE UNCHANGED vars
  BY <1>5 DEF vars
<1> HIDE DEF TypeOK
<1> QED
  BY <1>1, <1>2, <1>3, <1>4, <1>5 DEF Next, Terminating

-----------------------------------------------------------------------------
(* The steps in groups: the try block, stop_process, the end of run_one,   *)
(* the end of a run in main, the block drivers.                            *)

TrySteps   == BeginRun \/ TakePort \/ Launch \/ StartSampler \/ Ready \/ InferBefore \/ InferAfter
              \/ RunRaises
StopActions  == StopOver \/ Terminate \/ Kill \/ StopRaises
EndSteps   == ExitSampler \/ Join \/ Except \/ ExceptRaises \/ CloseLog
MainSteps  == Persist \/ Saved \/ NextJob \/ MainRaises \/ Finish
BlockActions == BeginBlock \/ LaunchDriver \/ DriverDone \/ DriverTimeout \/ KillDriver
                \/ BlockRaises

LEMMA Steps ==
  ASSUME [Next]_vars
  PROVE  \/ TrySteps \/ StopActions \/ EndSteps \/ MainSteps \/ BlockActions
         \/ Interrupt \/ Sampler \/ World \/ UNCHANGED vars
  BY DEF Next, Main, Terminating, TrySteps, StopActions, EndSteps, MainSteps, BlockActions

LEMMA PlaceStep == TypeOK /\ PlaceInv /\ [Next]_vars => PlaceInv'
<1> SUFFICES ASSUME TypeOK, PlaceInv, [Next]_vars PROVE PlaceInv'
  OBVIOUS
<1> USE PlanFacts, PlanStays
    DEF PlaceInv, RunPlaces, BlockPlaces, RunSteps, StopSteps, BlockSteps, BlockHandler, Ended,
        mainVars
<1>0. job \in 1..Len(plan) + 1
  BY DEF TypeOK
<1>1. CASE TrySteps
  BY <1>0, <1>1 DEF TrySteps, BeginRun, TakePort, Launch, StartSampler, Ready, InferBefore,
         InferAfter,
              RunRaises, Unwind
<1>2. CASE StopActions
  BY <1>2 DEF StopActions, StopOver, StopReturns, Terminate, Kill, StopRaises, Unwind, Leave
<1>3. CASE EndSteps
  BY <1>3 DEF EndSteps, ExitSampler, Join, Except, ExceptRaises, CloseLog, Leave
<1>4. CASE MainSteps
  BY <1>0, <1>4 DEF MainSteps, Persist, Saved, NextJob, MainRaises, Finish, Leave
<1>5. CASE BlockActions
  BY <1>0, <1>5 DEF BlockActions, BeginBlock, LaunchDriver, DriverDone, DriverTimeout, TermDriver,
              KillDriver, BlockRaises, Leave
<1>6. CASE Interrupt
  BY <1>6 DEF Interrupt, InterruptRun, InterruptBlock, InterruptElsewhere, TermDriver, Leave
<1>7. CASE Sampler \/ World \/ UNCHANGED vars
  BY <1>7 DEF Sampler, World, vars
<1> QED
  BY <1>1, <1>2, <1>3, <1>4, <1>5, <1>6, <1>7, Steps

LEMMA PortStep == TypeOK /\ PortInv /\ [Next]_vars => PortInv'
<1> SUFFICES ASSUME TypeOK, PortInv, [Next]_vars PROVE PortInv'
  OBVIOUS
<1> USE PlanStays
    DEF PortInv, RunPlaces, RunSteps, StopSteps, BlockSteps, BlockHandler, Ended, mainVars
<1>1. CASE TrySteps
  <2>1. Ports \subseteq Nat \ {0}
    BY CampaignAssumption DEF CampaignAssumption
  <2> QED
    BY <1>1, <2>1 DEF TrySteps, BeginRun, TakePort, Launch, StartSampler, Ready, InferBefore,
                      InferAfter, RunRaises, Unwind
<1>2. CASE StopActions
  BY <1>2 DEF StopActions, StopOver, StopReturns, Terminate, Kill, StopRaises, Unwind, Leave
<1>3. CASE EndSteps
  BY <1>3 DEF EndSteps, ExitSampler, Join, Except, ExceptRaises, CloseLog, Leave
<1>4. CASE MainSteps
  BY <1>4 DEF MainSteps, Persist, Saved, NextJob, MainRaises, Finish, Leave
<1>5. CASE BlockActions
  BY <1>5 DEF BlockActions, BeginBlock, LaunchDriver, DriverDone, DriverTimeout, TermDriver,
              KillDriver, BlockRaises, Leave
<1>6. CASE Interrupt
  BY <1>6 DEF Interrupt, InterruptRun, InterruptBlock, InterruptElsewhere, TermDriver, Leave
<1>7. CASE Sampler \/ World \/ UNCHANGED vars
  BY <1>7 DEF Sampler, World, vars
<1> QED
  BY <1>1, <1>2, <1>3, <1>4, <1>5, <1>6, <1>7, Steps

LEMMA HeldStep == TypeOK /\ HeldInv /\ [Next]_vars => HeldInv'
<1> SUFFICES ASSUME TypeOK, HeldInv, [Next]_vars PROVE HeldInv'
  OBVIOUS
<1> USE PlanFacts, PlanStays
    DEF HeldInv, RunPlaces, BlockPlaces, RunSteps, StopSteps, BlockSteps, BlockHandler, Ended,
        mainVars, procVars, samplerVars
<1>0. server \in Seq(ServerType) /\ proc \in 0..2
  BY DEF TypeOK
<1>1. CASE TrySteps
  BY <1>0, <1>1 DEF TrySteps, BeginRun, TakePort, Launch, StartSampler, Ready, InferBefore,
         InferAfter,
              RunRaises, Unwind, ServerType
<1>2. CASE StopActions
  <2>0. ASSUME Kill
        PROVE  /\ Len(server') = Len(server) /\ DOMAIN server' = DOMAIN server
               /\ \A k \in DOMAIN server : server'[k].state = server[k].state
               /\ server'[proc].killed
    <3>1. proc \in DOMAIN server
      BY <1>0, <2>0 DEF Kill, ProcOver
    <3>2. server[proc] \in ServerType
      BY <1>0, <3>1
    <3> DEFINE r == [server[proc] EXCEPT !.killed = TRUE]
    <3>3. r \in ServerType /\ r.state = server[proc].state /\ r.killed
      BY <3>2 DEF ServerType
    <3>4. server' = [server EXCEPT ![proc] = r]
      BY <2>0 DEF Kill
    <3> HIDE DEF r, HeldInv
    <3> QED
      BY <1>0, <3>1, <3>3, <3>4, ServerUpdate
  <2>1. CASE StopOver
    BY <1>0, <2>1 DEF StopOver, StopReturns, ProcOver
  <2>2. CASE Terminate
    BY <1>0, <2>2 DEF Terminate, ProcOver
  <2>3. CASE Kill
    BY <1>0, <2>0, <2>3 DEF Kill, ProcOver
  <2>4. CASE StopRaises
    BY <1>0, <2>4 DEF StopRaises, Unwind, Leave, ProcOver
  <2> QED
    BY <1>2, <2>1, <2>2, <2>3, <2>4 DEF StopActions
<1>3. CASE EndSteps
  BY <1>3 DEF EndSteps, ExitSampler, Join, Except, ExceptRaises, CloseLog, Leave
<1>4. CASE MainSteps
  BY <1>4 DEF MainSteps, Persist, Saved, NextJob, MainRaises, Finish, Leave
<1>5. CASE BlockActions
  BY <1>5 DEF BlockActions, BeginBlock, LaunchDriver, DriverDone, DriverTimeout, TermDriver,
              KillDriver, BlockRaises, Leave
<1>6. CASE Interrupt
  BY <1>6 DEF Interrupt, InterruptRun, InterruptBlock, InterruptElsewhere, TermDriver, Leave
<1>7. CASE Sampler
  BY <1>7 DEF Sampler, SamplerLooks, SamplerTakesPid, SamplerWrites, SamplerEnds, LogRow
<1>8. CASE World
  <2>1. ASSUME NEW i \in DOMAIN server, ServerServes(i) \/ ServerEnds(i)
        PROVE  /\ Len(server') = Len(server) /\ DOMAIN server' = DOMAIN server
               /\ \A k \in DOMAIN server :
                    /\ server[k].state = "over" => server'[k].state = "over"
                    /\ server'[k].killed = server[k].killed
    <3>1. server[i] \in ServerType /\ server[i].state # "over"
      BY <1>0, <2>1 DEF ServerServes, ServerEnds
    <3>2. PICK state \in {"serving", "over"} : server' = [server EXCEPT ![i].state = state]
      BY <2>1 DEF ServerServes, ServerEnds
    <3> DEFINE r == [server[i] EXCEPT !.state = state]
    <3>3. r \in ServerType /\ r.killed = server[i].killed
      BY <3>1 DEF ServerType
    <3>4. server' = [server EXCEPT ![i] = r]
      BY <3>2
    <3> HIDE DEF r, HeldInv
    <3> QED
      BY <1>0, <3>1, <3>3, <3>4, ServerUpdate
  <2>2. \/ UNCHANGED server
        \/ /\ Len(server') = Len(server) /\ DOMAIN server' = DOMAIN server
           /\ \A k \in DOMAIN server :
                /\ server[k].state = "over" => server'[k].state = "over"
                /\ server'[k].killed = server[k].killed
    BY <1>8, <2>1 DEF World, DriverEnds, ForeignServer
  <2> QED
    BY <1>0, <1>8, <2>2 DEF World
<1>9. CASE UNCHANGED vars
  BY <1>9 DEF vars
<1> QED
  BY <1>1, <1>2, <1>3, <1>4, <1>5, <1>6, <1>7, <1>8, <1>9, Steps

LEMMA LeftStep == TypeOK /\ HeldInv /\ LeftInv /\ [Next]_vars => LeftInv'
<1> SUFFICES ASSUME TypeOK, HeldInv, LeftInv, [Next]_vars PROVE LeftInv'
  OBVIOUS
<1> USE PlanFacts, PlanStays
    DEF HeldInv, LeftInv, RunPlaces, BlockPlaces, RunSteps, StopSteps, BlockSteps, BlockHandler,
        Ended,
        mainVars, procVars, samplerVars
<1>0. server \in Seq(ServerType) /\ proc \in 0..2 /\ log \in LogType
  BY DEF TypeOK
<1>1. CASE TrySteps
  BY <1>1 DEF TrySteps, BeginRun, TakePort, Launch, StartSampler, Ready, InferBefore, InferAfter,
              RunRaises, Unwind
<1>2. CASE StopActions
  BY <1>0, <1>2 DEF StopActions, StopOver, StopReturns, Terminate, Kill, StopRaises, Unwind,
         Leave, ProcOver, ServerType, LogRow, LogType
<1>3. CASE EndSteps
  BY <1>0, <1>3 DEF EndSteps, ExitSampler, Join, Except, ExceptRaises, CloseLog, Leave, LogRow,
         LogType
<1>4. CASE MainSteps
  BY <1>4 DEF MainSteps, Persist, Saved, NextJob, MainRaises, Finish, Leave
<1>5. CASE BlockActions
  BY <1>5 DEF BlockActions, BeginBlock, LaunchDriver, DriverDone, DriverTimeout, TermDriver,
              KillDriver, BlockRaises, Leave
<1>6. CASE Interrupt
  <2>1. CASE InterruptRun
    BY <1>6, <2>1 DEF Interrupt, InterruptRun
  <2>2. CASE InterruptBlock
    BY <1>6, <2>2 DEF Interrupt, InterruptBlock, TermDriver
  <2>3. CASE InterruptElsewhere
    BY <1>6, <2>3 DEF Interrupt, InterruptElsewhere, Leave
  <2> QED
    BY <1>6, <2>1, <2>2, <2>3 DEF Interrupt
<1>7. CASE Sampler
  BY <1>7 DEF Sampler, SamplerLooks, SamplerTakesPid, SamplerWrites, SamplerEnds, LogRow
<1>8. CASE World
  BY <1>0, <1>8 DEF World, ServerServes, ServerEnds, DriverEnds, ForeignServer, ServerType
<1>9. CASE UNCHANGED vars
  BY <1>9 DEF vars
<1> QED
  BY <1>1, <1>2, <1>3, <1>4, <1>5, <1>6, <1>7, <1>8, <1>9, Steps

LEMMA DriverStep == TypeOK /\ PlaceInv /\ DriverInv /\ [Next]_vars => DriverInv'
<1> SUFFICES ASSUME TypeOK, PlaceInv, DriverInv, [Next]_vars PROVE DriverInv'
  OBVIOUS
<1> USE PlanFacts, PlanStays
    DEF PlaceInv, DriverInv, RunPlaces, BlockPlaces, RunSteps, StopSteps, BlockSteps,
        BlockHandler, Ended,
        mainVars, procVars, samplerVars
<1>0. driver \in [Jobs -> DriverType] /\ job \in 1..Len(plan) + 1
  BY DEF TypeOK
<1>1. CASE TrySteps
  BY <1>1 DEF TrySteps, BeginRun, TakePort, Launch, StartSampler, Ready, InferBefore, InferAfter,
              RunRaises, Unwind
<1>2. CASE StopActions
  BY <1>2 DEF StopActions, StopOver, StopReturns, Terminate, Kill, StopRaises, Unwind, Leave
<1>3. CASE EndSteps
  BY <1>3 DEF EndSteps, ExitSampler, Join, Except, ExceptRaises, CloseLog, Leave
<1>4. CASE MainSteps
  <2>1. CASE Persist \/ Saved
    BY <2>1 DEF Persist, Saved
  <2>2. CASE NextJob
    <3>1. /\ pc = "csv" /\ pc' = "begin" /\ job' = job + 1 /\ UNCHANGED <<driver, cut>>
          /\ plan[job] = "run"
      BY <2>2 DEF NextJob
    <3>2. \A j \in Jobs : j < job + 1 => j < job \/ j = job
      BY <1>0
    <3> QED
      BY <3>1, <3>2
  <2>3. CASE MainRaises \/ Finish
    <3>1. pc' \in Ended /\ UNCHANGED <<job, driver, cut>> /\ pc \notin {"b_wait", "b_term",
    "b_kill"}
      BY <2>3 DEF MainRaises, Finish, Leave
    <3> QED
      BY <3>1
  <2> QED
    BY <1>4, <2>1, <2>2, <2>3 DEF MainSteps
<1>5. CASE BlockActions
  <2>1. CASE BeginBlock
    <3>1. pc = "begin" /\ pc' = "b_launch" /\ UNCHANGED <<job, driver, cut>>
      BY <2>1 DEF BeginBlock
    <3> QED
      BY <3>1
  <2>6. CASE LaunchDriver
    <3>1. /\ pc = "b_launch" /\ pc' = "b_wait" /\ job \in Jobs /\ plan[job] = "block"
          /\ UNCHANGED <<job, cut>>
      BY <2>6 DEF LaunchDriver
    <3>2. /\ driver'[job].state = "running"
          /\ \A j \in Jobs \ {job} : driver'[j] = driver[j]
      BY <1>0, <2>6, <3>1 DEF LaunchDriver, DriverType
    <3>3. \A j \in Jobs : j < job => j # job
      BY <1>0
    <3> QED
      BY <3>1, <3>2, <3>3
  <2>2. CASE DriverDone
    BY <1>0, <2>2 DEF DriverDone, Leave, DriverType, DriverOver
  <2>3. CASE DriverTimeout
    BY <1>0, <2>3 DEF DriverTimeout, TermDriver, DriverType
  <2>4. CASE KillDriver
    BY <1>0, <2>4 DEF KillDriver, DriverType
  <2>5. CASE BlockRaises
    BY <1>0, <2>5 DEF BlockRaises, Leave, DriverType, DriverOver
  <2> QED
    BY <1>5, <2>1, <2>2, <2>3, <2>4, <2>5, <2>6 DEF BlockActions
<1>6. CASE Interrupt
  <2>1. CASE InterruptRun
    BY <1>0, <1>6, <2>1 DEF Interrupt, InterruptRun
  <2>2. CASE InterruptBlock
    BY <1>0, <1>6, <2>2 DEF Interrupt, InterruptBlock, TermDriver, DriverType
  <2>3. CASE InterruptElsewhere
    BY <1>0, <1>6, <2>3 DEF Interrupt, InterruptElsewhere, Leave
  <2> QED
    BY <1>6, <2>1, <2>2, <2>3 DEF Interrupt
<1>7. CASE Sampler
  BY <1>7 DEF Sampler, SamplerLooks, SamplerTakesPid, SamplerWrites, SamplerEnds, LogRow
<1>8. CASE World
  <2>1. UNCHANGED <<pc, job, cut>>
    BY <1>8 DEF World
  <2>2. CASE driver' = driver
    BY <2>1, <2>2
  <2>3. ASSUME NEW j \in Jobs, DriverEnds(j) PROVE DriverInv'
    <3>1. PICK state \in {"ok", "failed"}, summary \in {"none", "ok", "failed"} :
            /\ driver' = [driver EXCEPT ![j] = [@ EXCEPT !.state = state, !.summary = summary]]
            /\ state = "ok" => summary = "ok"
      BY <2>3 DEF DriverEnds
    <3>2. /\ driver'[j].state = state /\ driver'[j].summary = summary
          /\ driver'[j].signal = driver[j].signal
          /\ \A k \in Jobs \ {j} : driver'[k] = driver[k]
      BY <1>0, <3>1 DEF DriverType
    <3>3. driver[j].state = "running"
      BY <2>3 DEF DriverEnds
    <3> QED
      BY <1>0, <2>1, <3>1, <3>2, <3>3 DEF DriverOver
  <2> QED
    BY <1>8, <2>2, <2>3 DEF World, ServerServes, ServerEnds, ForeignServer
<1>9. CASE UNCHANGED vars
  BY <1>9 DEF vars
<1> QED
  BY <1>1, <1>2, <1>3, <1>4, <1>5, <1>6, <1>7, <1>8, <1>9, Steps

LEMMA LogStep == TypeOK /\ LogInv /\ [Next]_vars => LogInv'
<1> SUFFICES ASSUME TypeOK, LogInv, [Next]_vars PROVE LogInv'
  OBVIOUS
<1> USE PlanFacts, PlanStays
    DEF LogInv, Trying, Finalizing, Logged, LogEndsWithRun, Active, RunPlaces, BlockPlaces,
        RunSteps, StopSteps, BlockSteps, BlockHandler, Ended,
        mainVars, procVars, samplerVars
<1>0. log \in LogType
  BY DEF TypeOK
<1>1. CASE TrySteps
  BY <1>0, <1>1 DEF TrySteps, BeginRun, TakePort, Launch, StartSampler, Ready, InferBefore,
         InferAfter,
              RunRaises, Unwind, LogRow, LogType
<1>2. CASE StopActions
  BY <1>0, <1>2 DEF StopActions, StopOver, StopReturns, Terminate, Kill, StopRaises, Unwind,
         Leave, LogRow, LogType
<1>3. CASE EndSteps
  <2>1. CASE ExitSampler
    BY <1>0, <2>1 DEF ExitSampler
  <2>2. CASE Join
    BY <1>0, <2>2 DEF Join
  <2>3. CASE Except
    BY <1>0, <2>3 DEF Except, LogRow, LogType
  <2>4. CASE CloseLog
    BY <1>0, <2>4 DEF CloseLog, Leave, LogType
  <2>5. CASE ExceptRaises
    BY <1>0, <2>5 DEF ExceptRaises
  <2> QED
    BY <1>3, <2>1, <2>2, <2>3, <2>4, <2>5 DEF EndSteps
<1>4. CASE MainSteps
  BY <1>4 DEF MainSteps, Persist, Saved, NextJob, MainRaises, Finish, Leave
<1>5. CASE BlockActions
  BY <1>5 DEF BlockActions, BeginBlock, LaunchDriver, DriverDone, DriverTimeout, TermDriver,
              KillDriver, BlockRaises, Leave
<1>6. CASE Interrupt
  <2>1. CASE InterruptRun
    BY <1>6, <2>1 DEF Interrupt, InterruptRun
  <2>2. CASE InterruptBlock
    BY <1>6, <2>2 DEF Interrupt, InterruptBlock, TermDriver
  <2>3. CASE InterruptElsewhere
    BY <1>6, <2>3 DEF Interrupt, InterruptElsewhere, Leave
  <2> QED
    BY <1>6, <2>1, <2>2, <2>3 DEF Interrupt
<1>7. CASE Sampler
  <2>0. UNCHANGED <<pc, ret, abandoned>>
    BY <1>7 DEF Sampler
  <2>1. CASE SamplerLooks
    BY <2>0, <2>1 DEF SamplerLooks
  <2>2. CASE SamplerTakesPid
    BY <2>0, <2>2 DEF SamplerTakesPid
  <2>3. CASE SamplerWrites
    <3>1. CASE log' = log
      BY <2>0, <2>3, <3>1 DEF SamplerWrites
    <3>2. CASE LogRow("sample") /\ sampler' = "between"
      <4>1. Logged("run_end")' => Logged("run_end")
        BY <1>0, <3>2 DEF LogRow, LogType
      <4>2. Logged("run_end") => abandoned
        BY <2>3 DEF SamplerWrites
      <4> QED
        BY <2>0, <2>3, <3>2, <4>1, <4>2 DEF SamplerWrites
    <3> QED
      BY <2>3, <3>1, <3>2 DEF SamplerWrites
  <2>4. CASE SamplerEnds
    BY <2>0, <2>4 DEF SamplerEnds
  <2> QED
    BY <1>7, <2>1, <2>2, <2>3, <2>4 DEF Sampler
<1>8. CASE World
  BY <1>8 DEF World, ServerServes, ServerEnds, DriverEnds, ForeignServer
<1>9. CASE UNCHANGED vars
  BY <1>9 DEF vars
<1> QED
  BY <1>1, <1>2, <1>3, <1>4, <1>5, <1>6, <1>7, <1>8, <1>9, Steps

LEMMA VerdictStep == TypeOK /\ HeldInv /\ VerdictInv /\ [Next]_vars => VerdictInv'
<1> SUFFICES ASSUME TypeOK, HeldInv, VerdictInv, [Next]_vars PROVE VerdictInv'
  OBVIOUS
<1> USE PlanFacts, PlanStays
    DEF HeldInv, VerdictInv, Trying, Finalizing, Logged, RunPlaces, BlockPlaces, RunSteps,
        StopSteps, BlockSteps, BlockHandler, Ended,
        mainVars, procVars, samplerVars
<1>0. log \in LogType /\ exc \in {"no", "error", "fatal"} /\ ret \in {"evict", "final"}
  BY DEF TypeOK
<1>1. CASE TrySteps
  <2>1. CASE BeginRun
    BY <1>0, <2>1 DEF BeginRun, LogType
  <2>2. CASE TakePort
    BY <1>0, <2>2 DEF TakePort
  <2>3. CASE Launch
    BY <1>0, <2>3 DEF Launch
  <2>4. CASE StartSampler
    BY <1>0, <2>4 DEF StartSampler
  <2>5. CASE Ready
    BY <1>0, <2>5 DEF Ready
  <2>6. CASE InferBefore
    BY <1>0, <2>6 DEF InferBefore
  <2>7. CASE InferAfter
    BY <1>0, <2>7 DEF InferAfter
  <2>8. CASE RunRaises
    BY <1>0, <2>8 DEF RunRaises, Unwind
  <2> QED
    BY <1>1, <2>1, <2>2, <2>3, <2>4, <2>5, <2>6, <2>7, <2>8 DEF TrySteps
<1>2. CASE StopActions
  <2>1. CASE StopOver
    <3>1. CASE ret = "evict"
      BY <1>0, <2>1, <3>1 DEF StopOver, StopReturns
    <3>2. CASE ret # "evict"
      <4>1. Logged("run_error")' <=> Logged("run_error")
        <5>1. LogRow("run_end")
          BY <2>1, <3>2 DEF StopOver, StopReturns
        <5> HIDE DEF Logged, HeldInv, VerdictInv
        <5> QED
          BY <1>0, <5>1, LoggedAfter
      <4> HIDE DEF Logged
      <4> QED
        BY <1>0, <2>1, <3>2, <4>1 DEF StopOver, StopReturns
    <3> QED
      BY <3>1, <3>2
  <2>2. CASE Terminate
    BY <1>0, <2>2 DEF Terminate
  <2>3. CASE Kill
    BY <1>0, <2>3 DEF Kill, ProcOver, ServerType
  <2>4. CASE StopRaises
    BY <1>0, <2>4 DEF StopRaises, Unwind, Leave
  <2> QED
    BY <1>2, <2>1, <2>2, <2>3, <2>4 DEF StopActions
<1>3. CASE EndSteps
  BY <1>0, <1>3 DEF EndSteps, ExitSampler, Join, Except, ExceptRaises, CloseLog, Leave, LogRow,
         LogType
<1>4. CASE MainSteps
  BY <1>4 DEF MainSteps, Persist, Saved, NextJob, MainRaises, Finish, Leave
<1>5. CASE BlockActions
  BY <1>5 DEF BlockActions, BeginBlock, LaunchDriver, DriverDone, DriverTimeout, TermDriver,
              KillDriver, BlockRaises, Leave
<1>6. CASE Interrupt
  BY <1>0, <1>6 DEF Interrupt, InterruptRun, InterruptBlock, InterruptElsewhere, TermDriver,
         Leave, LogRow, LogType
<1>7. CASE Sampler
  <2>1. CASE SamplerWrites
    <3>1. Logged("run_error")' <=> Logged("run_error")
      <4>1. CASE LogRow("sample")
        BY <1>0, <4>1, LoggedAfter
      <4>2. CASE UNCHANGED log
        BY <4>2
      <4> QED
        BY <2>1, <4>1, <4>2 DEF SamplerWrites
    <3> HIDE DEF Logged
    <3> QED
      BY <1>0, <1>7, <3>1 DEF Sampler
  <2>2. CASE UNCHANGED log
    BY <1>7, <2>2 DEF Sampler
  <2> QED
    BY <1>7, <2>1, <2>2 DEF Sampler, SamplerLooks, SamplerTakesPid, SamplerEnds
<1>8. CASE World
  <2>1. UNCHANGED <<mainVars, log>>
    BY <1>8 DEF World
  <2>2. Len(server') = Len(server)
    <3>1. server \in Seq(ServerType)
      BY DEF TypeOK
    <3>2. ASSUME NEW i \in DOMAIN server, ServerServes(i) \/ ServerEnds(i)
          PROVE  Len(server') = Len(server)
      BY <3>1, <3>2 DEF ServerServes, ServerEnds
    <3>3. UNCHANGED server \/ \E i \in DOMAIN server : ServerServes(i) \/ ServerEnds(i)
      BY <1>8 DEF World, DriverEnds, ForeignServer
    <3> QED
      BY <3>2, <3>3
  <2> HIDE DEF HeldInv
  <2> QED
    BY <2>1, <2>2
<1>9. CASE UNCHANGED vars
  BY <1>9 DEF vars
<1> QED
  BY <1>1, <1>2, <1>3, <1>4, <1>5, <1>6, <1>7, <1>8, <1>9, Steps

LEMMA RowsStep == TypeOK /\ PlaceInv /\ RowsInv /\ [Next]_vars => RowsInv'
<1> SUFFICES ASSUME TypeOK, PlaceInv, RowsInv, [Next]_vars PROVE RowsInv'
  OBVIOUS
<1> USE PlanFacts, PlanStays
    DEF PlaceInv, RowsInv, RunPlaces, BlockPlaces, RunSteps, StopSteps, BlockSteps, BlockHandler,
        Ended,
        mainVars, procVars, samplerVars
<1>0. rows \in Seq(RowType) /\ job \in 1..Len(plan) + 1
  BY DEF TypeOK
<1>1. CASE TrySteps
  BY <1>0, <1>1 DEF TrySteps, BeginRun, TakePort, Launch, StartSampler, Ready, InferBefore,
         InferAfter,
              RunRaises, Unwind
<1>2. CASE StopActions
  BY <1>2 DEF StopActions, StopOver, StopReturns, Terminate, Kill, StopRaises, Unwind, Leave
<1>3. CASE EndSteps
  BY <1>3 DEF EndSteps, ExitSampler, Join, Except, ExceptRaises, CloseLog, Leave
<1>4. CASE MainSteps
  <2>1. CASE Persist
    <3>1. /\ DOMAIN rows' = DOMAIN rows \cup {Len(rows) + 1} /\ Len(rows') = Len(rows) + 1
          /\ \A i \in DOMAIN rows : rows'[i] = rows[i]
          /\ rows'[Len(rows) + 1].job = job
      BY <1>0, <2>1 DEF Persist
    <3>2. Len(rows) \in Nat
      BY <1>0
    <3>3. /\ pc = "persist" /\ pc' = "saving" /\ job' = job
          /\ job \in Jobs /\ plan[job] = "run"
      BY <2>1 DEF Persist
    <3>4. \A j \in Jobs : plan[j] = "run" /\ (j < job \/ j = job) =>
            \E i \in DOMAIN rows' : rows'[i].job = j
      BY <3>1, <3>3
    <3>5. \A i \in DOMAIN rows' : plan[rows'[i].job] = "run"
      BY <3>1, <3>3
    <3>6. Len(rows') <= Len(plan)
      BY <1>0, <3>1, <3>2, <3>3
    <3>7. Len(rows') <= job'
      BY <1>0, <3>1, <3>2, <3>3
    <3> QED
      BY <3>3, <3>4, <3>5, <3>6, <3>7
  <2>2. CASE NextJob
    <3>1. pc = "csv" /\ pc' = "begin" /\ job' = job + 1 /\ rows' = rows
      BY <2>2 DEF NextJob
    <3>2. Len(rows) \in Nat /\ Len(rows) <= job /\ job \in Nat
      BY <1>0, <3>1
    <3>3. \A j \in Jobs : j < job + 1 => j < job \/ j = job
      BY <3>2
    <3>4. plan' = plan /\ Jobs' = Jobs
      BY <2>2 DEF NextJob
    <3>5. \A j \in Jobs : plan[j] = "run" /\ j < job + 1 => \E i \in DOMAIN rows : rows[i].job = j
      BY <3>1, <3>3
    <3> QED
      BY <1>0, <3>1, <3>2, <3>4, <3>5
  <2>3. CASE Saved
    BY <1>0, <2>3 DEF Saved
  <2>4. CASE MainRaises \/ Finish
    BY <1>0, <2>4 DEF MainRaises, Finish, Leave
  <2> QED
    BY <1>4, <2>1, <2>2, <2>3, <2>4 DEF MainSteps
<1>5. CASE BlockActions
  <2>1. CASE DriverDone
    <3>1. pc = "b_wait" /\ rows' = rows /\ plan[job] = "block" /\ Len(rows) \in Nat
      BY <1>0, <2>1 DEF DriverDone
    <3>2. CASE UNCHANGED job
      BY <2>1, <3>1, <3>2 DEF DriverDone, Leave
    <3>3. CASE job' = job + 1 /\ pc' = "begin"
      <4>1. \A j \in Jobs : j < job + 1 => j < job \/ j = job
        BY <1>0
      <4> QED
        BY <1>0, <3>1, <3>3, <4>1
    <3> QED
      BY <2>1, <3>2, <3>3 DEF DriverDone
  <2>2. CASE UNCHANGED <<rows, job>>
    BY <1>5, <2>2 DEF BlockActions, BeginBlock, LaunchDriver, DriverDone, DriverTimeout, TermDriver,
              KillDriver, BlockRaises, Leave
  <2> QED
    BY <1>5, <2>1, <2>2 DEF BlockActions, BeginBlock, LaunchDriver, DriverTimeout, TermDriver,
              KillDriver, BlockRaises
<1>6. CASE Interrupt
  BY <1>6 DEF Interrupt, InterruptRun, InterruptBlock, InterruptElsewhere, TermDriver, Leave
<1>7. CASE Sampler
  BY <1>7 DEF Sampler, SamplerLooks, SamplerTakesPid, SamplerWrites, SamplerEnds, LogRow
<1>8. CASE World
  BY <1>8 DEF World, ServerServes, ServerEnds, DriverEnds, ForeignServer
<1>9. CASE UNCHANGED vars
  BY <1>9 DEF vars
<1> QED
  BY <1>1, <1>2, <1>3, <1>4, <1>5, <1>6, <1>7, <1>8, <1>9, Steps

LEMMA SavedStep == TypeOK /\ RowsInv /\ SavedInv /\ [Next]_vars => SavedInv'
<1> SUFFICES ASSUME TypeOK, RowsInv, SavedInv, [Next]_vars PROVE SavedInv'
  OBVIOUS
<1> USE PlanFacts, PlanStays
    DEF SavedInv, Torn, RunPlaces, BlockPlaces, RunSteps, StopSteps, BlockSteps, BlockHandler,
        Ended,
        mainVars, procVars, samplerVars
<1>0. rows \in Seq(RowType) /\ Len(rows) \in Nat /\ Len(rows) # Torn
  BY DEF TypeOK, RowsInv
<1>1. CASE TrySteps
  BY <1>1 DEF TrySteps, BeginRun, TakePort, Launch, StartSampler, Ready, InferBefore, InferAfter,
              RunRaises, Unwind
<1>2. CASE StopActions
  BY <1>2 DEF StopActions, StopOver, StopReturns, Terminate, Kill, StopRaises, Unwind, Leave
<1>3. CASE EndSteps
  BY <1>3 DEF EndSteps, ExitSampler, Join, Except, ExceptRaises, CloseLog, Leave
<1>4. CASE MainSteps
  <2>1. CASE Persist
    <3>1. rows' # <<>> /\ rows'[Len(rows')].job = job
      BY <1>0, <2>1 DEF Persist
    <3> QED
      BY <2>1, <3>1 DEF Persist
  <2>2. CASE Saved
    BY <1>0, <2>2 DEF Saved, RowsInv
  <2>3. CASE NextJob
    BY <1>0, <2>3 DEF NextJob, RowsInv
  <2>4. CASE MainRaises \/ Finish
    BY <1>0, <2>4 DEF MainRaises, Finish, Leave
  <2> QED
    BY <1>4, <2>1, <2>2, <2>3, <2>4 DEF MainSteps
<1>5. CASE BlockActions
  BY <1>0, <1>5 DEF BlockActions, BeginBlock, LaunchDriver, DriverDone, DriverTimeout, TermDriver,
              KillDriver, BlockRaises, Leave
<1>6. CASE Interrupt
  BY <1>0, <1>6 DEF Interrupt, InterruptRun, InterruptBlock, InterruptElsewhere, TermDriver, Leave
<1>7. CASE Sampler
  BY <1>7 DEF Sampler, SamplerLooks, SamplerTakesPid, SamplerWrites, SamplerEnds, LogRow
<1>8. CASE World
  BY <1>8 DEF World, ServerServes, ServerEnds, DriverEnds, ForeignServer
<1>9. CASE UNCHANGED vars
  BY <1>9 DEF vars
<1> QED
  BY <1>1, <1>2, <1>3, <1>4, <1>5, <1>6, <1>7, <1>8, <1>9, Steps

LEMMA ExitStep == TypeOK /\ PlaceInv /\ DriverInv /\ RowsInv /\ ExitInv /\ [Next]_vars => ExitInv'
<1> SUFFICES ASSUME TypeOK, PlaceInv, DriverInv, RowsInv, ExitInv, [Next]_vars PROVE ExitInv'
  OBVIOUS
<1> USE PlanFacts, PlanStays
    DEF ExitInv, RunPlaces, BlockPlaces, RunSteps, StopSteps, BlockSteps, BlockHandler, Ended,
        mainVars, procVars, samplerVars
<1>0. rows \in Seq(RowType) /\ job \in 1..Len(plan) + 1
  BY DEF TypeOK
<1>1. CASE TrySteps
  BY <1>1 DEF TrySteps, BeginRun, TakePort, Launch, StartSampler, Ready, InferBefore, InferAfter,
              RunRaises, Unwind
<1>2. CASE StopActions
  BY <1>2 DEF StopActions, StopOver, StopReturns, Terminate, Kill, StopRaises, Unwind, Leave
<1>3. CASE EndSteps
  BY <1>3 DEF EndSteps, ExitSampler, Join, Except, ExceptRaises, CloseLog, Leave
<1>4. CASE MainSteps
  BY <1>0, <1>4 DEF MainSteps, Persist, Saved, NextJob, MainRaises, Finish, Leave, PlaceInv,
         DriverInv, RowsInv
<1>5. CASE BlockActions
  BY <1>5 DEF BlockActions, BeginBlock, LaunchDriver, DriverDone, DriverTimeout, TermDriver,
              KillDriver, BlockRaises, Leave
<1>6. CASE Interrupt
  BY <1>6 DEF Interrupt, InterruptRun, InterruptBlock, InterruptElsewhere, TermDriver, Leave
<1>7. CASE Sampler
  BY <1>7 DEF Sampler, SamplerLooks, SamplerTakesPid, SamplerWrites, SamplerEnds, LogRow
<1>8. CASE World
  BY <1>8 DEF World, ServerServes, ServerEnds, DriverEnds, ForeignServer
<1>9. CASE UNCHANGED vars
  BY <1>9 DEF vars
<1> QED
  BY <1>1, <1>2, <1>3, <1>4, <1>5, <1>6, <1>7, <1>8, <1>9, Steps

\* Whoever answers while a server is held is that server or a foreign one: the
\* others are over.
LEMMA AnswerIsNotStale ==
  ASSUME HeldInv, Taken(port), Answer
  PROVE  "stale" \in answers' => "stale" \in answers
<1>1. CASE port \in foreign
  BY <1>1 DEF Answer
<1>2. CASE port \notin foreign
  <2>1. PICK i \in DOMAIN server : server[i].port = port /\ server[i].state = "serving"
    BY <1>2 DEF Taken, Listeners
  <2>2. i = proc
    BY <2>1 DEF HeldInv
  <2>3. proc \in Listeners(port)
    BY <2>1, <2>2 DEF Listeners
  <2> QED
    BY <1>2, <2>3 DEF Answer
<1> QED
  BY <1>1, <1>2

LEMMA AnswerStep == HeldInv /\ NoStaleAnswer /\ [Next]_vars => NoStaleAnswer'
<1> SUFFICES ASSUME HeldInv, NoStaleAnswer, [Next]_vars PROVE NoStaleAnswer'
  OBVIOUS
<1> USE DEF NoStaleAnswer
<1>1. CASE TrySteps
  <2>1. CASE Ready
    BY <2>1, AnswerIsNotStale DEF Ready
  <2>2. CASE InferBefore
    BY <2>2, AnswerIsNotStale DEF InferBefore, Infers
  <2>3. CASE InferAfter
    BY <2>3, AnswerIsNotStale DEF InferAfter, Infers
  <2> QED
    BY <1>1, <2>1, <2>2, <2>3 DEF TrySteps, BeginRun, TakePort, Launch, StartSampler, RunRaises
<1>2. CASE StopActions
  BY <1>2 DEF StopActions, StopOver, Terminate, Kill, StopRaises
<1>3. CASE EndSteps
  BY <1>3 DEF EndSteps, ExitSampler, Join, Except, ExceptRaises, CloseLog
<1>4. CASE MainSteps
  BY <1>4 DEF MainSteps, Persist, Saved, NextJob, MainRaises, Finish
<1>5. CASE BlockActions
  BY <1>5 DEF BlockActions, BeginBlock, LaunchDriver, DriverDone, DriverTimeout, KillDriver,
              BlockRaises
<1>6. CASE Interrupt \/ Sampler \/ World \/ UNCHANGED vars
  BY <1>6 DEF Interrupt, Sampler, World, vars
<1> QED
  BY <1>1, <1>2, <1>3, <1>4, <1>5, <1>6, Steps

-----------------------------------------------------------------------------

LEMMA Initially == Init => IInv
<1> SUFFICES ASSUME Init PROVE IInv
  OBVIOUS
<1> USE DEF RunPlaces, BlockPlaces, RunSteps, StopSteps, BlockSteps, BlockHandler, Ended
<1>1. plan \in Campaigns /\ Len(plan) \in Nat \ {0} /\ job = 1
  BY CampaignAssumption DEF Init, CampaignAssumption
<1>2. PlaceInv /\ PortInv /\ HeldInv /\ LeftInv /\ ExitInv
  BY DEF Init, PlaceInv, PortInv, HeldInv, LeftInv, ExitInv
<1>3. DriverInv
  BY <1>1 DEF Init, DriverInv, Jobs
<1>4. LogInv
  BY DEF Init, LogInv, LogEndsWithRun, Trying, Finalizing, Logged, Active
<1>5. VerdictInv
  BY DEF Init, VerdictInv, Trying, Finalizing, Logged
<1>6. RowsInv
  BY <1>1 DEF Init, RowsInv, Jobs
<1>7. SavedInv
  BY <1>1 DEF Init, SavedInv, Torn
<1> QED
  BY <1>2, <1>3, <1>4, <1>5, <1>6, <1>7 DEF IInv

LEMMA Invariance == Spec => [](TypeOK /\ IInv /\ NoStaleAnswer)
<1>1. Init => TypeOK /\ IInv /\ NoStaleAnswer
  BY TypeInit, Initially DEF Init, NoStaleAnswer
<1>2. TypeOK /\ IInv /\ NoStaleAnswer /\ [Next]_vars => (TypeOK /\ IInv /\ NoStaleAnswer)'
  BY TypeStep, PlaceStep, PortStep, HeldStep, LeftStep, DriverStep, LogStep, VerdictStep, RowsStep,
     SavedStep, ExitStep, AnswerStep DEF IInv
<1> QED
  BY <1>1, <1>2, PTL DEF Spec

\* Type correctness: the main thread, its sampler, the servers and the drivers
\* only take the values the code gives them (run_one, main, Sampler).
THEOREM TypeCorrect == Spec => []TypeOK
  BY Invariance, PTL

\* A run leaves no server, no open log and no other port to the next job, and a
\* campaign that ends uncut leaves nothing it did not kill, however many jobs,
\* exceptions and interrupts there are (stop_process, run_one, _run_block_driver).
THEOREM RunLeavesNothingHolds == Spec => []RunLeavesNothing
<1>1. TypeOK /\ IInv => RunLeavesNothing
  BY DEF IInv, PortInv, LeftInv, DriverInv, RunLeavesNothing, RunPlaces, RunSteps, StopSteps, Ended
<1> QED
  BY <1>1, Invariance, PTL

\* The server a cold reload replaces never answers a request of the reload,
\* whichever ports are free (run_one evicts and waits before it starts the next).
THEOREM NoStaleAnswerHolds == Spec => []NoStaleAnswer
  BY Invariance, PTL

\* Behind run_end there is no row of a sampler that was waited for, at any bound
\* on the samples (Sampler.__exit__, run_one).
THEOREM LogEndsWithRunHolds == Spec => []LogEndsWithRun
<1>1. IInv => LogEndsWithRun
  BY DEF IInv, LogInv
<1> QED
  BY <1>1, Invariance, PTL

\* The verdict of a campaign is that of its jobs, for every plan (main, run_one).
THEOREM CampaignVerdictHolds == Spec => []CampaignVerdict
<1>1. TypeOK /\ IInv => CampaignVerdict
  <2> SUFFICES ASSUME TypeOK, IInv PROVE CampaignVerdict
    OBVIOUS
  <2> USE PlanFacts DEF IInv
  <2>1. pc = "persist" /\ ok =>
          Len(server) = 2 /\ \A i \in DOMAIN log.rows : log.rows[i] # "run_error"
    BY DEF TypeOK, VerdictInv, Logged, RunPlaces
  <2>2. ASSUME pc = "done"
        PROVE  /\ {rows[i].job : i \in DOMAIN rows} = {j \in Jobs : plan[j] = "run"}
               /\ \A j \in Jobs : plan[j] = "block" => driver[j].state = "ok"
    <3>1. job = Len(plan) + 1 /\ \A j \in Jobs : j < job
      BY <2>2 DEF PlaceInv
    <3>2. \A i \in DOMAIN rows : rows[i].job \in Jobs /\ plan[rows[i].job] = "run"
      <4>1. rows \in Seq(RowType)
        BY DEF TypeOK
      <4>2. \A i \in DOMAIN rows : rows[i] \in RowType
        BY <4>1
      <4> QED
        BY <4>2 DEF RowType, RowsInv
    <3>3. \A j \in Jobs : plan[j] = "run" => \E i \in DOMAIN rows : rows[i].job = j
      BY <3>1 DEF RowsInv
    <3> QED
      BY <3>1, <3>2, <3>3 DEF DriverInv
  <2>3. pc = "done" => (exit = 0 <=> \A i \in DOMAIN rows : rows[i].ok)
    BY DEF ExitInv
  <2> QED
    BY <2>1, <2>2, <2>3 DEF CampaignVerdict
<1> QED
  BY <1>1, Invariance, PTL

\* For every plan, whatever ends the campaign: summary.json holds the row of every
\* finished run, or it was cut short in the write of the last one, which may cost
\* all of them and behind which no job follows (the writes after each run in main).
THEOREM RowsArePersistedHolds == Spec => []RowsArePersisted
<1>1. TypeOK /\ IInv => RowsArePersisted
  BY PlanFacts DEF IInv, RowsInv, SavedInv, RowsArePersisted, Torn, TypeOK
<1> QED
  BY <1>1, Invariance, PTL

=============================================================================
