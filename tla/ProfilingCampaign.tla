-------------------------- MODULE ProfilingCampaign --------------------------
(***************************************************************************)
(* The profiling campaign (experiments/vllm_profiling/run.py: main,        *)
(* run_one, stop_process, _run_block_driver) with the sampler thread of    *)
(* common/sampling.py.  A campaign is a sequence of jobs: a "run" is one   *)
(* cold reload of a vLLM server (main sends every other method to a block  *)
(* driver), a "block" is one block driver, leader of its process group.    *)
(* Concurrent actors:                                                      *)
(*   - the main thread;                                                    *)
(*   - one sampler thread per run, which main may give up on;              *)
(*   - the servers and drivers it launches, which may end at any time;     *)
(*   - other users of the machine, whose servers take ports;               *)
(*   - the operator's SIGINT.                                              *)
(***************************************************************************)
EXTENDS Naturals, Sequences

CONSTANTS
  Campaigns,     \* sequences of jobs considered
  Ports,         \* ports find_free_port can return
  CliPorts,      \* values of --port considered; 0 asks for a free one
  MaxSamples,    \* bound: samples in an event log
  MaxInterrupts  \* bound: SIGINTs delivered to the main thread

ASSUME CampaignAssumption ==
  /\ Campaigns \subseteq Seq({"run", "block"}) /\ <<>> \notin Campaigns
  /\ Ports \subseteq Nat \ {0} /\ CliPorts \subseteq Ports \cup {0}
  /\ MaxSamples \in Nat /\ MaxInterrupts \in Nat

VARIABLES
  plan,        \* the jobs of this campaign
  cli,         \* --port
  job,         \* the job under way
  pc,          \* the main thread's position
  ret,         \* who called stop_process: "evict" or "final"
  exc,         \* how the try block of run_one was left; "fatal" leaves run_one too
  cut,         \* an exception left a finally block or handler before its end
  interrupts,  \* SIGINTs delivered so far
  exit,        \* the exit status of the program, once it has one
  port,        \* args.port
  original,    \* original_port of run_one
  proc,        \* index of the server run_one holds, 0 for None
  ok,          \* summary["ok"] as far as it is known
  rows,        \* rows of finished runs: the job and its verdict
  saved,       \* how many rows summary.json holds, or Torn
  server,      \* the servers the run launched
  driver,      \* per job: its block driver, and the block-summary.json it wrote
  foreign,     \* ports on which a server of somebody else answers
  answers,     \* whose servers answered the run's requests
  sampler,     \* its sampler thread
  stop,        \* the sampler's _stop
  abandoned,   \* the sampler was not waited for to its end
  log          \* the event log, and whether it is open

mainVars    == <<job, pc, ret, exc, cut, exit, port, original, proc, ok, rows, saved>>
procVars    == <<server, driver>>
samplerVars == <<sampler, stop, abandoned, log>>
vars == <<plan, cli, mainVars, interrupts, procVars, foreign, answers, samplerVars>>

Jobs     == DOMAIN plan
Torn     == Len(plan) + 1    \* truncated, and not written to its end
NoStatus == 256
RunSteps == {"port", "launch", "sampler", "ready", "infer", "infer_after"}
StopSteps  == {"stop", "term_wait", "kill_wait"}
BlockSteps == {"b_launch", "b_wait"}
BlockHandler == {"b_term", "b_kill"}
Ended    == {"done", "crashed"}
Active   == {"between", "look", "sampling"}

RowType    == [job : Jobs, ok : BOOLEAN]
ServerType == [port : Ports, state : {"starting", "serving", "over"}, killed : BOOLEAN]
DriverType == [state : {"none", "running", "ok", "failed"}, signal : {"none", "TERM", "KILL"},
               summary : {"none", "ok", "failed"}]
LogType    == [open : BOOLEAN, rows : Seq({"run_start", "sample", "run_error", "run_end"})]

TypeOK ==
  /\ plan \in Campaigns /\ cli \in CliPorts
  /\ job \in 1..Len(plan) + 1
  /\ pc \in {"begin", "exit", "join", "except", "close", "persist", "saving", "csv"}
            \cup RunSteps \cup StopSteps \cup BlockSteps \cup BlockHandler \cup Ended
  /\ ret \in {"evict", "final"} /\ exc \in {"no", "error", "fatal"}
  /\ cut \in BOOLEAN /\ interrupts \in 0..MaxInterrupts
  /\ exit \in {0, 1, 2, NoStatus}
  /\ port \in Ports \cup {0} /\ original \in CliPorts
  /\ proc \in 0..2 /\ ok \in BOOLEAN
  /\ rows \in Seq(RowType) /\ saved \in 0..Len(plan) \cup {Torn}
  /\ server \in Seq(ServerType)
  /\ driver \in [Jobs -> DriverType]
  /\ foreign \subseteq Ports
  /\ answers \subseteq {"own", "stale", "foreign"}
  /\ sampler \in {"none", "ended", "dead"} \cup Active
  /\ stop \in BOOLEAN /\ abandoned \in BOOLEAN
  /\ log \in LogType

Init ==
  /\ plan \in Campaigns /\ cli \in CliPorts
  /\ job = 1 /\ pc = "begin" /\ ret = "evict" /\ exc = "no" /\ cut = FALSE
  /\ interrupts = 0 /\ exit = NoStatus /\ port = cli /\ original = cli
  /\ proc = 0 /\ ok = FALSE /\ rows = <<>> /\ saved = 0
  /\ server = <<>>
  /\ driver = [j \in Jobs |-> [state |-> "none", signal |-> "none", summary |-> "none"]]
  /\ foreign = {}
  /\ answers = {}
  /\ sampler = "none" /\ stop = FALSE /\ abandoned = FALSE
  /\ log = [open |-> FALSE, rows |-> <<>>]

-----------------------------------------------------------------------------

Listeners(p) == {i \in DOMAIN server : server[i].port = p /\ server[i].state = "serving"}
Taken(p)     == p \in foreign \/ Listeners(p) # {}

\* Whoever listens on the port answers, be it the server run_one holds or not.
Answer ==
  answers' = answers \cup {IF port \in foreign THEN "foreign"
                           ELSE IF proc \in Listeners(port) THEN "own" ELSE "stale"}

\* poll() of the held process: it is over, or there is none.
ProcOver == proc # 0 => server[proc].state = "over"

LogRow(row) == log' = [log EXCEPT !.rows = Append(@, row)]

\* An exception or a regular end ends the program, with its sampler threads.
Leave(end, status) ==
  /\ pc' = end /\ exit' = status
  /\ sampler' = IF sampler \in Active THEN "dead" ELSE sampler

-----------------------------------------------------------------------------
(* run_one: the try block.                                                 *)

\* Its event log is opened, and the port remembered.
BeginRun ==
  /\ pc = "begin" /\ job <= Len(plan) /\ plan[job] = "run"
  /\ original' = port
  /\ log' = [open |-> TRUE, rows |-> <<"run_start">>]
  /\ proc' = 0 /\ ok' = FALSE /\ exc' = "no" /\ server' = <<>> /\ answers' = {}
  /\ sampler' = "none" /\ stop' = FALSE /\ abandoned' = FALSE
  /\ pc' = "port"
  /\ UNCHANGED <<plan, cli, job, ret, cut, exit, port, rows, saved, interrupts, driver, foreign>>

\* Defect: the port of the command line is used as it is.
TakePort_Given ==
  /\ pc = "port"
  /\ pc' = "launch"
  /\ UNCHANGED <<plan, cli, original, job, ret, exc, cut, exit, port, proc, ok, rows, saved,
                 interrupts, procVars, foreign, answers, samplerVars>>

\* Before each start: find_free_port, in dynamic port mode; free now, that is.
TakePort ==
  /\ pc = "port"
  /\ IF original = 0 THEN \E p \in Ports : ~Taken(p) /\ port' = p ELSE UNCHANGED port
  /\ pc' = "launch"
  /\ UNCHANGED <<plan, cli, original, job, ret, exc, cut, exit, proc, ok, rows, saved, interrupts,
                 procVars, foreign, answers, samplerVars>>

\* start_vllm.  The port was free when it was asked for.
Launch ==
  /\ pc = "launch"
  /\ server' = Append(server, [port |-> port, state |-> "starting", killed |-> FALSE])
  /\ proc' = Len(server) + 1
  /\ pc' = IF sampler = "none" THEN "sampler" ELSE "ready"
  /\ UNCHANGED <<plan, cli, original, job, ret, exc, cut, exit, port, ok, rows, saved,
                 interrupts, driver,
                 foreign, answers, samplerVars>>

StartSampler ==
  /\ pc = "sampler"
  /\ sampler' = "between"
  /\ pc' = "ready"
  /\ UNCHANGED <<plan, cli, original, job, ret, exc, cut, exit, port, proc, ok, rows, saved,
                 interrupts,
                 procVars, foreign, answers, stop, abandoned, log>>

\* wait_process_http_ok: /health answers 200 while the process is not over.
Ready ==
  /\ pc = "ready" /\ ~ProcOver /\ Taken(port)
  /\ Answer
  /\ pc' = IF proc = 1 THEN "infer" ELSE "infer_after"
  /\ UNCHANGED <<plan, cli, original, job, ret, exc, cut, exit, port, proc, ok, rows, saved,
                 interrupts,
                 procVars, foreign, samplerVars>>

\* infer catches every exception: its result is ok only if somebody answered.
Infers(result) ==
  IF Taken(port) THEN result \in BOOLEAN /\ Answer
  ELSE result = FALSE /\ UNCHANGED answers

InferBefore ==
  /\ pc = "infer"
  /\ \E result \in BOOLEAN : Infers(result) /\ ok' = result
  /\ pc' = "stop" /\ ret' = "evict"
  /\ UNCHANGED <<plan, cli, original, job, exc, cut, exit, port, proc, rows, saved, interrupts,
                 procVars,
                 foreign, samplerVars>>

InferAfter ==
  /\ pc = "infer_after"
  /\ \E result \in BOOLEAN : Infers(result) /\ ok' = (ok /\ result)
  /\ pc' = "exit"
  /\ UNCHANGED <<plan, cli, original, job, ret, exc, cut, exit, port, proc, rows, saved, interrupts,
                 procVars, foreign, samplerVars>>

\* Where an exception of the try block goes: through the sampler's __exit__.
Unwind == IF sampler = "none" THEN "except" ELSE "exit"

\* Any call of the try block may raise: no free port, no process, a server that
\* exited early or was not ready in time.
RunRaises ==
  /\ pc \in RunSteps
  /\ exc' = "error"
  /\ pc' = Unwind
  /\ UNCHANGED <<plan, cli, original, job, ret, cut, exit, port, proc, ok, rows, saved,
                 interrupts, procVars,
                 foreign, answers, samplerVars>>

-----------------------------------------------------------------------------
(* stop_process, called to evict the server and from the finally block.    *)

\* After the eviction run_one holds no process; in the finally block the port
\* is restored and run_end is written.
StopReturns ==
  IF ret = "evict"
    THEN /\ proc' = 0
         /\ pc' = "port"
         /\ UNCHANGED <<port, log>>
    ELSE /\ port' = original
         /\ LogRow("run_end")
         /\ pc' = "close"
         /\ UNCHANGED proc

StopOver ==
  /\ pc \in StopSteps /\ ProcOver
  /\ StopReturns
  /\ UNCHANGED <<plan, cli, original, job, ret, exc, cut, exit, ok, rows, saved, interrupts,
                 procVars, foreign,
                 answers, sampler, stop, abandoned>>

\* A process that is not over is sent SIGTERM, and SIGKILL after 15 seconds.
Terminate ==
  /\ pc = "stop" /\ ~ProcOver
  /\ pc' = "term_wait"
  /\ UNCHANGED <<plan, cli, original, job, ret, exc, cut, exit, port, proc, ok, rows, saved,
                 interrupts,
                 procVars, foreign, answers, samplerVars>>

\* Defect: the end of the process is not waited for.
Kill_NoWait ==
  /\ pc = "term_wait" /\ ~ProcOver
  /\ server' = [server EXCEPT ![proc].killed = TRUE]
  /\ StopReturns
  /\ UNCHANGED <<plan, cli, original, job, ret, exc, cut, exit, ok, rows, saved, interrupts,
                 driver, foreign,
                 answers, sampler, stop, abandoned>>

Kill ==
  /\ pc = "term_wait" /\ ~ProcOver
  /\ server' = [server EXCEPT ![proc].killed = TRUE]
  /\ pc' = "kill_wait"
  /\ UNCHANGED <<plan, cli, original, job, ret, exc, cut, exit, port, proc, ok, rows, saved,
                 interrupts,
                 driver, foreign, answers, samplerVars>>

\* Defect: the second wait has no timeout.
StopRaises_Waits ==
  /\ pc = "kill_wait" /\ ProcOver
  /\ StopReturns
  /\ UNCHANGED <<plan, cli, original, job, ret, exc, cut, exit, ok, rows, saved, interrupts,
                 procVars, foreign,
                 answers, sampler, stop, abandoned>>

\* It does not end on SIGKILL in time either: TimeoutExpired.  In the finally
\* block that leaves run_one and ends the campaign.
StopRaises ==
  /\ pc = "kill_wait" /\ ~ProcOver
  /\ IF ret = "evict" THEN exc' = "error" /\ pc' = Unwind /\ UNCHANGED <<exit, sampler>>
                      ELSE Leave("crashed", 1) /\ UNCHANGED exc
  /\ UNCHANGED <<plan, cli, original, job, ret, cut, port, proc, ok, rows, saved, interrupts,
                 procVars,
                 foreign, answers, stop, abandoned, log>>

-----------------------------------------------------------------------------
(* run_one: the end.                                                       *)

\* Sampler.__exit__: set the flag, join for three seconds.
ExitSampler ==
  /\ pc = "exit"
  /\ stop' = TRUE
  /\ pc' = "join"
  /\ UNCHANGED <<plan, cli, original, job, ret, exc, cut, exit, port, proc, ok, rows, saved,
                 interrupts,
                 procVars, foreign, answers, sampler, abandoned, log>>

\* Defect: the thread is told to stop and not waited for.
Join_Not ==
  /\ pc = "join"
  /\ pc' = IF exc = "error" THEN "except" ELSE "stop"
  /\ ret' = "final"
  /\ UNCHANGED <<plan, cli, original, job, exc, cut, exit, port, proc, ok, rows, saved,
                 interrupts, procVars,
                 foreign, answers, samplerVars>>

Join ==
  /\ pc = "join"
  /\ abandoned' = (sampler \in Active)
  /\ pc' = IF exc = "error" THEN "except" ELSE "stop"
  /\ ret' = "final"
  /\ UNCHANGED <<plan, cli, original, job, exc, cut, exit, port, proc, ok, rows, saved,
                 interrupts, procVars,
                 foreign, answers, sampler, stop, log>>

\* Defect: the error is logged, and the row keeps its verdict.
Except_KeepsOk ==
  /\ pc = "except"
  /\ LogRow("run_error")
  /\ pc' = "stop" /\ ret' = "final"
  /\ UNCHANGED <<plan, cli, original, job, exc, cut, exit, port, proc, ok, rows, saved,
                 interrupts, procVars,
                 foreign, answers, sampler, stop, abandoned>>

\* The except clause.
Except ==
  /\ pc = "except"
  /\ ok' = FALSE
  /\ LogRow("run_error")
  /\ pc' = "stop" /\ ret' = "final"
  /\ UNCHANGED <<plan, cli, original, job, exc, cut, exit, port, proc, rows, saved, interrupts,
                 procVars,
                 foreign, answers, sampler, stop, abandoned>>

\* run_error cannot be written: that exception leaves run_one, after the finally
\* block.
ExceptRaises ==
  /\ pc = "except"
  /\ ok' = FALSE /\ exc' = "fatal"
  /\ pc' = "stop" /\ ret' = "final"
  /\ UNCHANGED <<plan, cli, original, job, cut, exit, port, proc, rows, saved, interrupts,
                 procVars, foreign, answers, samplerVars>>

\* The log is closed; an interrupt goes on its way out of the campaign.
CloseLog ==
  /\ pc = "close"
  /\ log' = [log EXCEPT !.open = FALSE]
  /\ IF exc = "fatal" THEN Leave("crashed", 1)
     ELSE pc' = "persist" /\ UNCHANGED <<exit, sampler>>
  /\ UNCHANGED <<plan, cli, original, job, ret, exc, cut, port, proc, ok, rows, saved,
                 interrupts, procVars,
                 foreign, answers, stop, abandoned>>

-----------------------------------------------------------------------------
(* main.                                                                   *)

\* The row is appended, and summary.json truncated to be written again.
Persist ==
  /\ pc = "persist"
  /\ rows' = Append(rows, [job |-> job, ok |-> ok])
  /\ saved' = Torn
  /\ pc' = "saving"
  /\ UNCHANGED <<plan, cli, original, job, ret, exc, cut, exit, port, proc, ok, interrupts,
                 procVars, foreign, answers, samplerVars>>

\* Defect: only what is ok is saved.
Saved_OkOnly ==
  /\ pc = "saving"
  /\ saved' = IF ok THEN Len(rows) ELSE Len(rows) - 1
  /\ pc' = "csv"
  /\ UNCHANGED <<plan, cli, original, job, ret, exc, cut, exit, port, proc, ok, rows, interrupts,
                 procVars, foreign, answers, samplerVars>>

Saved ==
  /\ pc = "saving"
  /\ saved' = Len(rows)
  /\ pc' = "csv"
  /\ UNCHANGED <<plan, cli, original, job, ret, exc, cut, exit, port, proc, ok, rows, interrupts,
                 procVars, foreign, answers, samplerVars>>

\* The two CSV files are written, and the next job is due.
NextJob ==
  /\ pc = "csv"
  /\ job' = job + 1
  /\ pc' = "begin"
  /\ UNCHANGED <<plan, cli, original, ret, exc, cut, exit, port, proc, ok, rows, saved,
                 interrupts, procVars, foreign, answers, samplerVars>>

\* What fails outside the try block ends the campaign: opening or closing the
\* event log, writing summary.json (in place) or the CSV files, a driver that
\* cannot be launched.
MainRaises ==
  /\ \/ pc \in {"close", "saving", "csv", "b_launch"}
     \/ pc = "begin" /\ job <= Len(plan) /\ plan[job] = "run"
  /\ Leave("crashed", 1)
  /\ UNCHANGED <<plan, cli, original, job, ret, exc, cut, port, proc, ok, rows, saved,
                 interrupts, procVars, foreign, answers, stop, abandoned, log>>

\* The verdict: over the rows; without one, over the block summaries there are,
\* and a RuntimeError if there are none.
Finish ==
  /\ pc = "begin" /\ job > Len(plan)
  /\ LET found   == {j \in Jobs : driver[j].summary # "none"}
         verdict == IF rows # <<>> THEN \A i \in DOMAIN rows : rows[i].ok
                    ELSE \A j \in found : driver[j].summary = "ok"
     IN IF rows = <<>> /\ found = {} THEN Leave("crashed", 1)
                                     ELSE Leave("done", IF verdict THEN 0 ELSE 2)
  /\ UNCHANGED <<plan, cli, original, job, ret, exc, cut, port, proc, ok, rows, saved,
                 interrupts, procVars, foreign, answers, stop, abandoned, log>>

-----------------------------------------------------------------------------
(* _run_block_driver.                                                      *)

BeginBlock ==
  /\ pc = "begin" /\ job <= Len(plan) /\ plan[job] = "block"
  /\ pc' = "b_launch"
  /\ UNCHANGED <<plan, cli, original, job, ret, exc, cut, exit, port, proc, ok, rows, saved,
                 interrupts,
                 procVars, foreign, answers, samplerVars>>

LaunchDriver ==
  /\ pc = "b_launch"
  /\ driver' = [driver EXCEPT ![job].state = "running"]
  /\ pc' = "b_wait"
  /\ UNCHANGED <<plan, cli, original, job, ret, exc, cut, exit, port, proc, ok, rows, saved,
                 interrupts,
                 server, foreign, answers, samplerVars>>

DriverOver == driver[job].state \in {"ok", "failed"}

\* Return code 0, or a RuntimeError that ends the campaign.
DriverDone ==
  /\ pc = "b_wait" /\ DriverOver
  /\ IF driver[job].state = "ok"
       THEN job' = job + 1 /\ pc' = "begin" /\ UNCHANGED <<exit, sampler>>
       ELSE Leave("crashed", 1) /\ UNCHANGED job
  /\ UNCHANGED <<plan, cli, original, ret, exc, cut, port, proc, ok, rows, saved, interrupts,
                 procVars, foreign,
                 answers, stop, abandoned, log>>

\* The timeout, or an interrupt: SIGTERM to the group.
TermDriver ==
  /\ driver' = [driver EXCEPT ![job].signal = "TERM"]
  /\ pc' = "b_term"

DriverTimeout ==
  /\ pc = "b_wait" /\ ~DriverOver
  /\ TermDriver
  /\ UNCHANGED <<plan, cli, original, job, ret, exc, cut, exit, port, proc, ok, rows, saved,
                 interrupts,
                 server, foreign, answers, samplerVars>>

\* Defect: no SIGKILL.
KillDriver_Not ==
  /\ pc = "b_term" /\ ~DriverOver
  /\ pc' = "b_kill"
  /\ UNCHANGED <<plan, cli, original, job, ret, exc, cut, exit, port, proc, ok, rows, saved,
                 interrupts,
                 procVars, foreign, answers, samplerVars>>

KillDriver ==
  /\ pc = "b_term" /\ ~DriverOver
  /\ driver' = [driver EXCEPT ![job].signal = "KILL"]
  /\ pc' = "b_kill"
  /\ UNCHANGED <<plan, cli, original, job, ret, exc, cut, exit, port, proc, ok, rows, saved,
                 interrupts,
                 server, foreign, answers, samplerVars>>

\* The exception is raised again, after the driver's end or the second timeout.
BlockRaises ==
  /\ (pc = "b_term" /\ DriverOver) \/ pc = "b_kill"
  /\ Leave("crashed", 1)
  /\ UNCHANGED <<plan, cli, original, job, ret, exc, cut, port, proc, ok, rows, saved,
                 interrupts, procVars,
                 foreign, answers, stop, abandoned, log>>

-----------------------------------------------------------------------------
(* SIGINT.                                                                 *)

\* In the try block of run_one: past the except clause, to the finally block.
InterruptRun ==
  /\ pc \in RunSteps \cup {"exit", "join", "except"} \/ (pc \in StopSteps /\ ret = "evict")
  /\ exc' = "fatal"
  /\ IF pc \in {"exit", "join", "except"} \/ sampler = "none"
       THEN /\ pc' = "stop" /\ ret' = "final"
            /\ abandoned' = (sampler \in Active)
       ELSE pc' = "exit" /\ UNCHANGED <<ret, abandoned>>
  /\ UNCHANGED <<cut, exit, driver, sampler>>

InterruptBlock ==
  /\ pc = "b_wait"
  /\ TermDriver
  /\ UNCHANGED <<ret, exc, cut, exit, abandoned, sampler>>

\* Anywhere else it ends the program; in a finally block or handler, halfway.
InterruptElsewhere ==
  /\ \/ pc \in {"begin", "close", "persist", "saving", "csv", "b_launch"} \cup BlockHandler
     \/ pc \in StopSteps /\ ret = "final"
  /\ cut' = (cut \/ pc \in StopSteps \cup BlockHandler)
  /\ Leave("crashed", 1)
  /\ UNCHANGED <<ret, exc, driver, abandoned>>

Interrupt ==
  /\ interrupts < MaxInterrupts
  /\ interrupts' = interrupts + 1
  /\ InterruptRun \/ InterruptBlock \/ InterruptElsewhere
  /\ UNCHANGED <<plan, cli, original, job, port, proc, ok, rows, saved, server, foreign, answers,
                 stop, log>>

-----------------------------------------------------------------------------
(* The sampler threads.                                                    *)

\* The closure "proc.pid if proc else None" looks at proc twice.
SamplerLooks ==
  /\ sampler = "between" /\ ~stop /\ Len(log.rows) <= MaxSamples
  /\ sampler' = IF proc = 0 THEN "sampling" ELSE "look"
  /\ UNCHANGED log

SamplerTakesPid ==
  /\ sampler = "look"
  /\ sampler' = IF proc = 0 THEN "dead" ELSE "sampling"
  /\ UNCHANGED log

\* make_event took its time (nvidia-smi); a closed log is a ValueError.
SamplerWrites ==
  /\ sampler = "sampling"
  /\ IF log.open THEN LogRow("sample") /\ sampler' = "between"
                 ELSE sampler' = "dead" /\ UNCHANGED log

SamplerEnds ==
  /\ sampler = "between" /\ stop
  /\ sampler' = "ended"
  /\ UNCHANGED log

\* Once its run is over, a sampler that was given up on only finds a closed log.
Sampler ==
  /\ SamplerLooks \/ SamplerTakesPid \/ SamplerWrites \/ SamplerEnds
  /\ UNCHANGED <<plan, cli, original, mainVars, interrupts, procVars, foreign, answers, stop,
                 abandoned>>

-----------------------------------------------------------------------------
(* Servers, drivers and the other users of the machine.                    *)

ServerServes(i) ==
  /\ server[i].state = "starting" /\ ~Taken(server[i].port)
  /\ server' = [server EXCEPT ![i].state = "serving"]
  /\ UNCHANGED <<driver, foreign>>

\* It ends by itself, on a signal, or because it cannot bind its port.
ServerEnds(i) ==
  /\ server[i].state # "over"
  /\ server' = [server EXCEPT ![i].state = "over"]
  /\ UNCHANGED <<driver, foreign>>

\* Its main writes block-summary.json before it returns 0; any other end may come
\* before or after that.
DriverEnds(j) ==
  /\ driver[j].state = "running"
  /\ \/ /\ driver[j].signal # "KILL"
        /\ driver' = [driver EXCEPT ![j] = [@ EXCEPT !.state = "ok", !.summary = "ok"]]
     \/ \E summary \in {"none", "ok", "failed"} :
          driver' = [driver EXCEPT ![j] = [@ EXCEPT !.state = "failed", !.summary = summary]]
  /\ UNCHANGED <<server, foreign>>

ForeignServer ==
  /\ \E p \in Ports : Listeners(p) = {} /\ foreign' = foreign \cup {p}
  /\ UNCHANGED procVars

World ==
  /\ pc \notin Ended
  /\ \/ \E i \in DOMAIN server : ServerServes(i) \/ ServerEnds(i)
     \/ \E j \in Jobs : DriverEnds(j)
     \/ ForeignServer
  /\ UNCHANGED <<plan, cli, original, mainVars, interrupts, answers, samplerVars>>

-----------------------------------------------------------------------------

Main ==
  \/ BeginRun \/ TakePort \/ Launch \/ StartSampler \/ Ready \/ InferBefore \/ InferAfter
  \/ RunRaises \/ StopOver \/ Terminate \/ Kill \/ StopRaises \/ ExitSampler \/ Join
  \/ Except \/ ExceptRaises \/ CloseLog \/ Persist \/ Saved \/ NextJob \/ MainRaises \/ Finish
  \/ BeginBlock \/ LaunchDriver \/ DriverDone \/ DriverTimeout \/ KillDriver \/ BlockRaises

Terminating == pc \in Ended /\ UNCHANGED vars

Next == Main \/ Interrupt \/ Sampler \/ World \/ Terminating

Spec == Init /\ [][Next]_vars

\* Every blocking call of the main thread has a timeout.
FairSpec == Spec /\ WF_vars(Main)

-----------------------------------------------------------------------------
(* Properties.                                                             *)

\* A run leaves nothing behind for the next job, whatever was raised in it: its
\* servers are over, its log is closed and the port is the one of the command
\* line again.  At the end of the campaign whatever still runs was sent SIGKILL,
\* unless a second signal cut a handler or finally block short.
\* (stop_process, the finally block of run_one, _run_block_driver)
RunLeavesNothing ==
  /\ pc = "begin" => /\ \A i \in DOMAIN server : server[i].state = "over"
                     /\ ~log.open /\ port = cli
  /\ pc \in Ended /\ ~cut =>
       /\ \A i \in DOMAIN server : server[i].state = "over" \/ server[i].killed
       /\ \A j \in Jobs : driver[j].state = "running" => driver[j].signal = "KILL"

\* No request of a run is answered by the server it replaces, although both may
\* use the same port: the reload waits until the first server is over.
NoStaleAnswer == "stale" \notin answers

\* run_end is the last row of its event log unless the sampler was given up on:
\* no sample arrives from a thread that was told to stop and joined.
\* (Sampler.__exit__ before the finally block)
LogEndsWithRun ==
  (\E i \in DOMAIN log.rows : log.rows[i] = "run_end") /\ ~abandoned
    => log.rows[Len(log.rows)] = "run_end"

\* A campaign that ends by itself has a row for every run, and its status is 0
\* exactly when all of them are ok; a row is ok only after a reload without an
\* error.  A block that failed is never passed over.  (main, run_one)
CampaignVerdict ==
  /\ pc = "persist" /\ ok =>
       Len(server) = 2 /\ \A i \in DOMAIN log.rows : log.rows[i] # "run_error"
  /\ pc = "done" =>
       /\ {rows[i].job : i \in DOMAIN rows} = {j \in Jobs : plan[j] = "run"}
       /\ \A j \in Jobs : plan[j] = "block" => driver[j].state = "ok"
       /\ exit = 0 <=> \A i \in DOMAIN rows : rows[i].ok

\* Whatever ends the campaign, summary.json holds the row of every finished run,
\* ok or not.  There is one exception: write_text truncates the file, so that a
\* failure or a signal in the write of a row loses that row and all rows before
\* it; then the row is that of the job under way, and the campaign goes no
\* further.  (the writes after each run in main)
RowsArePersisted ==
  IF saved = Torn
    THEN pc \in {"saving", "crashed"} /\ rows # <<>> /\ rows[Len(rows)].job = job
    ELSE saved = Len(rows)

\* The campaign ends: no server, driver or sampler holds the main thread forever.
CampaignEnds == <>(pc \in Ended)

=============================================================================
