--------------------------- MODULE ServiceLifecycle ---------------------------
(* Collection of lifecycle latency from a service the benchmark does not   *)
(* own (adapters/llama_swap_lifecycle.py, swapservellm_lifecycle.py) up to *)
(* the acceptance of what was collected (validation/lifecycle_latency).    *)
(*                                                                         *)
(* The adapter only sees answers, memory readings and, for llama-swap, a   *)
(* profile another process appends to. The service goes on between any two *)
(* of its calls: it stops and starts processes and gives memory back late, *)
(* it refuses requests, and it may write its profile late, write blank     *)
(* lines, lose a process to a crash, report a start or a stop that failed, *)
(* or leave a process that is there out of its list of running models.     *)
(*                                                                         *)
(* Memory is counted in units of the 128 MiB the adapter tolerates.        *)
EXTENDS Naturals, Sequences, FiniteSets

CONSTANTS Campaigns,  \* what may be collected: [models, cycles], five cycles when frozen
          Services,   \* the quirks of each service that may be measured
          Size,       \* memory of a loaded model
          Capacity,   \* memory of the accelerator
          Outputs,    \* what a model may answer
          MaxPolls,   \* polls before the unload timeout (bound)
          MaxStarts   \* processes the service starts (bound)

ASSUME CampaignsAssumption ==
  \A c \in Campaigns : c.models \in Seq(STRING) /\ c.models # <<>> /\ c.cycles \in Nat \ {0}
ASSUME ServicesAssumption ==
  Services \subseteq SUBSET {"late", "blank", "crash", "failure", "unlisted"}
ASSUME BoundsAssumption ==
  /\ Size \in Nat \ {0, 1} /\ Capacity \in Nat
  /\ MaxPolls \in Nat /\ MaxStarts \in Nat /\ Outputs # {}

VARIABLES job,       \* [system, profiled, reused, quirks] of this collection
          plan,      \* its models and cycles
          pc,        \* where the adapter is
          at,        \* [model, cycle] in progress, both positions
          baseline,  \* memory in use when the collection began
          offset,    \* profile_offset
          reference, \* the answer the others are compared with (SwapServeLLM)
          cur,       \* what is known of the cycle in progress
          rows,      \* the rows collected, in memory until the summary
          exit,      \* status of the adapter
          proc,      \* the service's process: [model, gen, state]
          held,      \* memory the service holds
          profile,   \* lines of the lifecycle profile
          pending,   \* events not yet in the profile
          idle       \* was the accelerator idle when the collection began

adapter == <<at, baseline, offset, reference, cur, rows, exit>>
service == <<proc, held, profile, pending>>
vars == <<job, plan, pc, adapter, service, idle>>

ModelNames == UNION {{c.models[i] : i \in DOMAIN c.models} : c \in Campaigns}
States == {"ready", "stopping", "stopped"}
Steps == {"baseline", "request", "unload", "poll", "memory", "profile",
          "reference", "swapout", "released", "swapin", "infer", "summary"}

Line == [model : ModelNames \cup {"none"}, phase : {"wake", "sleep_process", "blank"},
         gen : 0..MaxStarts, success : BOOLEAN]
Blank == [model |-> "none", phase |-> "blank", gen |-> 0, success |-> FALSE]
Event(m, phase, g, success) == [model |-> m, phase |-> phase, gen |-> g, success |-> success]

(* A cycle before its first answer. gen is the process that answered and   *)
(* left what the service really held at the reading the row keeps.         *)
Fresh == [wake |-> FALSE, output |-> CHOOSE o \in Outputs : TRUE, gen |-> 0,
          status |-> FALSE, polls |-> 0, active |-> FALSE, listed |-> FALSE, slept |-> FALSE,
          gpu |-> 0, left |-> 0]

model == plan.models[at.model]
(* A reading also counts other programs, which come and go. *)
GpuUsed == {held, held + 1}
\* Defect: the tolerance is as large as a model.
Threshold_Wide == baseline + Size
Threshold == baseline + 1

-----------------------------------------------------------------------------
(* The service. *)

Has(quirk) == quirk \in job.quirks
Prompt == ~Has("late")

Emit(event) ==
  \/ ~job.profiled /\ UNCHANGED <<profile, pending>>
  \/ job.profiled /\ Prompt /\ profile' = Append(profile, event) /\ UNCHANGED pending
  \/ /\ job.profiled /\ Prompt /\ Has("blank")
     /\ profile' = profile \o <<Blank, event>> /\ UNCHANGED pending
  \/ job.profiled /\ ~Prompt /\ pending' = Append(pending, event) /\ UNCHANGED profile
  \/ /\ job.profiled /\ ~Prompt /\ Has("blank")
     /\ pending' = pending \o <<Blank, event>> /\ UNCHANGED profile

ServiceStarts ==
  /\ pc = "request" /\ proc.state = "stopped" /\ proc.gen < MaxStarts
  /\ held + Size <= Capacity
  /\ proc' = [model |-> model, gen |-> proc.gen + 1, state |-> "ready"]
  /\ held' = held + Size
  /\ Emit(Event(model, "wake", proc.gen + 1, TRUE))
  /\ UNCHANGED <<job, plan, pc, adapter, idle>>

ServiceStartFails ==
  /\ pc = "request" /\ Has("failure") /\ proc.state = "stopped" /\ proc.gen < MaxStarts
  /\ proc' = [model |-> model, gen |-> proc.gen + 1, state |-> "stopped"]
  /\ Emit(Event(model, "wake", proc.gen + 1, FALSE))
  /\ UNCHANGED <<job, plan, pc, adapter, held, idle>>

(* A request for another model makes llama-swap stop the one it serves. *)
ServiceEvicts ==
  /\ pc = "request" /\ proc.state = "ready" /\ proc.model # model
  /\ proc' = [proc EXCEPT !.state = "stopping"]
  /\ UNCHANGED <<job, plan, pc, adapter, held, profile, pending, idle>>

ServiceStopped ==
  /\ job.system = "llama-swap" /\ proc.state = "stopping"
  /\ proc' = [proc EXCEPT !.state = "stopped"]
  /\ \E success \in IF Has("failure") THEN BOOLEAN ELSE {TRUE} :
       Emit(Event(proc.model, "sleep_process", proc.gen, success))
  /\ UNCHANGED <<job, plan, pc, adapter, held, idle>>

ServiceCrashes ==
  /\ Has("crash") /\ proc.state # "stopped"
  /\ proc' = [proc EXCEPT !.state = "stopped"]
  /\ UNCHANGED <<job, plan, pc, adapter, held, profile, pending, idle>>

(* Memory of a process that is gone comes back some time later. *)
ServiceReleases ==
  /\ held >= (IF proc.state = "stopped" THEN Size ELSE 2 * Size)
  /\ held' = held - Size
  /\ UNCHANGED <<job, plan, pc, adapter, proc, profile, pending, idle>>

ProfileWritten ==
  /\ pending # <<>>
  /\ profile' = Append(profile, Head(pending)) /\ pending' = Tail(pending)
  /\ UNCHANGED <<job, plan, pc, adapter, proc, held, idle>>

Service ==
  /\ pc \in Steps
  /\ \/ ServiceStarts \/ ServiceStartFails \/ ServiceEvicts \/ ServiceStopped
     \/ ServiceCrashes \/ ServiceReleases \/ ProfileWritten

-----------------------------------------------------------------------------
(* The llama-swap adapter. *)

Baseline ==
  /\ pc = "baseline" /\ pc' = "request"
  /\ baseline' \in GpuUsed /\ idle' = (baseline' = 0)
  /\ UNCHANGED <<job, plan, at, offset, reference, cur, rows, exit, service>>

(* request() returns: ok needs a 2xx status, the [DONE] event and a text,  *)
(* from a process that is ready. The service may refuse any request, and   *)
(* any stream may end early. The memory read next is used for nothing.     *)
Request ==
  /\ pc = "request" /\ pc' = "unload"
  /\ \/ cur' = Fresh
     \/ /\ proc.state = "ready" /\ proc.model = model
        /\ \E output \in Outputs :
             cur' = [Fresh EXCEPT !.wake = TRUE, !.output = output, !.gen = proc.gen]
  /\ UNCHANGED <<job, plan, at, baseline, offset, reference, rows, exit, service, idle>>

(* The service may act on an unload it does not answer with status 200. A  *)
(* reading before the first poll counts only for a wait without any poll,  *)
(* which is not ok, and is left out.                                       *)
Unload ==
  /\ pc = "unload" /\ pc' = "poll"
  /\ \E status \in BOOLEAN, acts \in BOOLEAN :
       /\ status => acts
       /\ cur' = [cur EXCEPT !.status = status]
       /\ proc' = IF acts /\ proc.state = "ready" /\ proc.model = model
                    THEN [proc EXCEPT !.state = "stopping"] ELSE proc
  /\ UNCHANGED <<job, plan, at, baseline, offset, reference, rows, exit, held, profile, pending,
                 idle>>

(* The adapter has nothing but the answer of /running, which may go on     *)
(* listing a model that is stopped, and by some services leaves out one    *)
(* that is not.                                                            *)
PollRunning ==
  /\ pc = "poll" /\ cur.polls < MaxPolls /\ pc' = "memory"
  /\ \E listed, active \in BOOLEAN :
       /\ active => listed
       /\ proc.state # "stopped" /\ ~Has("unlisted") =>
            listed /\ (proc.model = model => active)
       /\ cur' = [cur EXCEPT !.polls = @ + 1, !.listed = listed, !.active = active]
  /\ UNCHANGED <<job, plan, at, baseline, offset, reference, rows, exit, service, idle>>

PollMemory ==
  /\ pc = "memory"
  /\ \E gpu \in GpuUsed :
       LET slept == ~cur.active /\ gpu <= Threshold
       IN /\ cur' = [cur EXCEPT !.active = FALSE, !.gpu = gpu, !.left = held, !.slept = slept]
          /\ pc' = IF slept THEN "profile" ELSE "poll"
  /\ UNCHANGED <<job, plan, at, baseline, offset, reference, rows, exit, service, idle>>

PollTimeout ==
  /\ pc = "poll" /\ pc' = "profile"
  /\ UNCHANGED <<job, plan, adapter, service, idle>>

(* The lines after the offset that are not blank; the offset then moves by *)
(* the number of events and not by the number of lines.                    *)
NewEvents == {i \in (offset + 1)..Len(profile) : profile[i].phase # "blank"}
Own(phase) == {i \in NewEvents : /\ profile[i].model = model /\ profile[i].phase = phase
                                 /\ profile[i].success}
\* Defect: the first of however many there are.
OneEach_First(w, s) ==
  /\ w \in Own("wake") /\ \A i \in Own("wake") : w <= i
  /\ s \in Own("sleep_process") /\ \A i \in Own("sleep_process") : s <= i
OneEach(w, s) == Own("wake") = {w} /\ Own("sleep_process") = {s}

(* The next cycle of the model, the next model, or the summary. *)
Record(row, models, first) ==
  /\ rows' = Append(rows, row) /\ cur' = Fresh
  /\ \/ /\ row.ok \/ job.system = "swapservellm"
        /\ at.cycle + 1 < plan.cycles
        /\ at' = [at EXCEPT !.cycle = @ + 1] /\ pc' = first
     \/ /\ at.cycle + 1 >= plan.cycles \/ ~(row.ok \/ job.system = "swapservellm")
        /\ IF at.model < models
             THEN at' = [model |-> at.model + 1, cycle |-> 0] /\ pc' = first
             ELSE pc' = "summary" /\ UNCHANGED at

LlamaRow(w, s) ==
  [model |-> model, cycle |-> at.cycle, ok |-> cur.wake /\ cur.status /\ cur.slept,
   output |-> cur.output, gpu |-> cur.gpu, listed |-> cur.listed,
   gen |-> cur.gen, wakeGen |-> w, sleepGen |-> s, left |-> cur.left]

ReadProfile ==
  /\ pc = "profile" /\ job.profiled
  /\ \E w \in Own("wake"), s \in Own("sleep_process") :
       /\ OneEach(w, s)
       /\ Record(LlamaRow(profile[w].gen, profile[s].gen), Len(plan.models), "request")
  /\ offset' = offset + Cardinality(NewEvents)
  /\ UNCHANGED <<job, plan, baseline, reference, exit, service, idle>>

(* An exception ends the adapter, and all it had in memory is lost. *)
Lost ==
  /\ pc' = "failed" /\ rows' = <<>> /\ cur' = Fresh
  /\ at' = [model |-> 1, cycle |-> 0] /\ baseline' = 0 /\ offset' = 0
  /\ reference' = Fresh.output /\ exit' = 1
  /\ UNCHANGED <<job, plan, service, idle>>

(* Anything but one wake and one sleep loses the collection. *)
RejectProfile ==
  /\ pc = "profile" /\ job.profiled
  /\ ~\E w \in Own("wake"), s \in Own("sleep_process") : OneEach(w, s)
  /\ Lost

SkipProfile ==
  /\ pc = "profile" /\ ~job.profiled
  /\ Record(LlamaRow(0, 0), Len(plan.models), "request")
  /\ UNCHANGED <<job, plan, baseline, offset, reference, exit, service, idle>>

-----------------------------------------------------------------------------
(* The SwapServeLLM adapter, for one model. A swapped-out process is        *)
(* "stopped"; the service answers before or after the memory is back.       *)

Reference ==
  /\ pc = "reference" /\ reference' \in Outputs /\ pc' = "swapout"
  /\ UNCHANGED <<job, plan, at, baseline, offset, cur, rows, exit, service, idle>>

Swapout ==
  /\ pc = "swapout" /\ proc' = [proc EXCEPT !.state = "stopped"] /\ pc' = "released"
  /\ UNCHANGED <<job, plan, adapter, held, profile, pending, idle>>

ReleasedMemory ==
  /\ pc = "released" /\ pc' = "swapin"
  /\ \E gpu \in GpuUsed : cur' = [cur EXCEPT !.gpu = gpu, !.left = held]
  /\ UNCHANGED <<job, plan, at, baseline, offset, reference, rows, exit, service, idle>>

Swapin ==
  /\ pc = "swapin" /\ proc' = [proc EXCEPT !.state = "ready"] /\ held' = held + Size
  /\ pc' = "infer"
  /\ UNCHANGED <<job, plan, adapter, profile, pending, idle>>

Infer ==
  /\ pc = "infer"
  /\ \E output \in Outputs :
       Record([model |-> model, cycle |-> at.cycle, ok |-> output = reference,
               output |-> output, gpu |-> cur.gpu, listed |-> FALSE,
               gen |-> proc.gen, wakeGen |-> 0, sleepGen |-> 0, left |-> cur.left],
              1, "swapout")
  /\ UNCHANGED <<job, plan, baseline, offset, reference, exit, service, idle>>

-----------------------------------------------------------------------------
(* The summary is the only file written, and written only here. *)
Summary ==
  /\ pc = "summary" /\ pc' = "ended"
  /\ exit' = IF \A i \in DOMAIN rows : rows[i].ok THEN 0 ELSE 2
  /\ UNCHANGED <<job, plan, at, baseline, offset, reference, cur, rows, service, idle>>

(* Any call may raise: the service refuses or times out three times, a     *)
(* status is not 2xx, nvidia-smi fails, the last profile line is torn.     *)
Abort == pc \in Steps /\ Lost

Adapter ==
  \/ Baseline \/ Request \/ Unload \/ PollRunning \/ PollMemory
  \/ PollTimeout \/ ReadProfile \/ RejectProfile \/ SkipProfile
  \/ Reference \/ Swapout \/ ReleasedMemory \/ Swapin \/ Infer \/ Summary \/ Abort

(* llama-swap may have a model loaded already, with its wake in the        *)
(* profile, and a profile that is reused may hold a whole earlier cycle.   *)
(* SwapServeLLM starts with its model in.                                  *)
InitLlama ==
  /\ job \in [system : {"llama-swap"}, profiled : BOOLEAN, reused : BOOLEAN, quirks : Services]
  /\ \/ \E m \in {plan.models[i] : i \in DOMAIN plan.models} :
          /\ ~job.reused
          /\ proc = [model |-> m, gen |-> 0, state |-> "ready"] /\ held = Size
          /\ profile \in {<<>>, <<Event(m, "wake", 0, TRUE)>>}
     \/ /\ proc = [model |-> plan.models[1], gen |-> 0, state |-> "stopped"] /\ held = 0
        /\ profile = IF job.reused
                       THEN <<Event(plan.models[1], "wake", 0, TRUE),
                              Event(plan.models[1], "sleep_process", 0, TRUE)>>
                       ELSE <<>>
  /\ pc = "baseline"

InitSwapServe ==
  /\ job = [system |-> "swapservellm", profiled |-> FALSE, reused |-> FALSE, quirks |-> {}]
  /\ proc = [model |-> plan.models[1], gen |-> 0, state |-> "ready"]
  /\ held = Size /\ profile = <<>> /\ pc = "reference"

Init ==
  /\ plan \in Campaigns
  /\ InitLlama \/ InitSwapServe
  /\ at = [model |-> 1, cycle |-> 0]
  /\ baseline = 0 /\ offset = 0 /\ cur = Fresh /\ reference = Fresh.output
  /\ rows = <<>> /\ exit = 0 /\ pending = <<>> /\ idle = FALSE

Ended == pc \in {"ended", "failed"} /\ UNCHANGED vars
Next == Service \/ Adapter \/ Ended
Spec == Init /\ [][Next]_vars

-----------------------------------------------------------------------------
(* What the family accepts. *)

RowsOf(m) == {i \in DOMAIN rows : rows[i].model = m}

(* quantiles() takes exactly the expected samples, and for llama-swap each *)
(* sample is a state machine latency taken from the profile.               *)
Aggregates(m) ==
  /\ Cardinality(RowsOf(m)) = plan.cycles
  /\ job.system = "llama-swap" => job.profiled

Validated(m) ==
  /\ Cardinality({rows[i].cycle : i \in RowsOf(m)}) = plan.cycles
  /\ \A i \in RowsOf(m) :
       /\ rows[i].ok /\ ~rows[i].listed
       /\ rows[i].gpu <= IF job.system = "llama-swap" THEN Threshold ELSE 0

Collected ==
  IF job.system = "llama-swap" THEN {plan.models[i] : i \in DOMAIN plan.models}
  ELSE {plan.models[1]}
Accepted == pc = "ended" /\ \A m \in Collected : Aggregates(m) /\ Validated(m)

-----------------------------------------------------------------------------
(* Properties. *)

CycleType ==
  [wake : BOOLEAN, output : Outputs, gen : Nat, status : BOOLEAN, polls : 0..MaxPolls,
   active : BOOLEAN, listed : BOOLEAN, slept : BOOLEAN, gpu : Nat, left : Nat]

RowType ==
  [model : ModelNames, cycle : Nat, ok : BOOLEAN, output : Outputs, gpu : Nat,
   listed : BOOLEAN, gen : Nat, wakeGen : Nat, sleepGen : Nat, left : Nat]

(* Every variable keeps its type. *)
TypeOK ==
  /\ job \in [system : {"llama-swap", "swapservellm"}, profiled : BOOLEAN, reused : BOOLEAN,
             quirks : Services \cup {{}}]
  /\ plan \in Campaigns
  /\ pc \in Steps \cup {"ended", "failed"}
  /\ at \in [model : DOMAIN plan.models, cycle : 0..(plan.cycles - 1)]
  /\ baseline \in Nat /\ offset \in Nat /\ reference \in Outputs /\ exit \in {0, 1, 2}
  /\ cur \in CycleType
  /\ rows \in Seq(RowType)
  /\ proc \in [model : ModelNames, gen : 0..MaxStarts, state : States]
  /\ held \in Nat /\ idle \in BOOLEAN
  /\ profile \in Seq(Line) /\ pending \in Seq(Line)

(* A service whose lines the adapter attributes rightly. A late line must  *)
(* not be taken for one of a reused profile, and since a blank line makes  *)
(* the offset fall behind, a service that writes some must have every stop *)
(* in its profile by the time it no longer lists the process.              *)
Orderly ==
  /\ Has("late") => ~job.reused
  /\ Has("blank") => job.quirks = {"blank"}

(* The two latencies of a llama-swap row come from two lines of a file     *)
(* that also holds earlier cycles, earlier campaigns and other models.     *)
(* When the service is orderly, the profile lines a successful row was     *)
(* built from are about one process, the one that answered its request,    *)
(* although it refuses requests, crashes, fails to start or to stop,       *)
(* writes late and leaves a running process out of its list.               *)
RowIsOwnCycle ==
  job.system = "llama-swap" /\ job.profiled /\ Orderly =>
    \A i \in DOMAIN rows : rows[i].ok =>
      rows[i].wakeGen = rows[i].gen /\ rows[i].sleepGen = rows[i].gen

(* An accepted collection has every cycle of every model, and at the       *)
(* memory reading of each the service held nothing any more: for           *)
(* llama-swap when the accelerator was idle at the start, as the threshold *)
(* is relative to that one reading.                                        *)
AcceptedCyclesSlept ==
  Accepted /\ (job.system = "llama-swap" => idle) =>
    /\ \A m \in Collected, c \in 0..(plan.cycles - 1) :
         \E i \in DOMAIN rows : rows[i].model = m /\ rows[i].cycle = c
    /\ \A i \in DOMAIN rows : rows[i].left = 0

(* What the experiment's README says of every successful cycle: the answer *)
(* after the wake is the reference answer, so the rows of a model agree.   *)
(* The llama-swap adapter has no reference and accepts any text.           *)
AcceptedOutputsMatch ==
  Accepted => \A i, j \in DOMAIN rows :
    rows[i].model = rows[j].model => rows[i].output = rows[j].output

=============================================================================
