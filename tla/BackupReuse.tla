----------------------------- MODULE BackupReuse -----------------------------
(***************************************************************************)
(* The backup reuse and reclaim runner                                     *)
(* (experiments/backup_reuse_reclaim/run.py, main from its try statement   *)
(* on, and the helpers it calls).  Concurrent actors:                      *)
(*   - the runner, which loads, wakes and puts to sleep one engine after   *)
(*     another, reads what the workers append to the sleep profile and     *)
(*     what the coordinator counts, and gives a verdict;                   *)
(*   - the engines' workers, which free the host backup of an awake model  *)
(*     when the coordinator asks for it and acknowledge it later;          *)
(*   - the coordinator, which other clients use as well.                   *)
(*                                                                         *)
(* Time is the step a profile event was stamped in: an event lies in the   *)
(* window of a call of step k exactly when it was stamped in that call.    *)
(***************************************************************************)
EXTENDS Naturals, Sequences, SeqFunctions

CONSTANTS
  Order,        \* the --models, in order
  Iterations,   \* --iterations
  Foreign,      \* a client of another run
  Block,        \* bytes of a backup; it is released as a whole
  MaxRequests,  \* bound: requests the coordinator sends
  Registered,   \* the sets of models whose workers may reach the coordinator
  Options       \* command lines considered

Models  == {Order[i] : i \in DOMAIN Order}
Clients == Models \cup {Foreign}

NSteps   == Iterations * Len(Order)
StepPcs  == {"activate", "wake", "read_wake", "post_wake", "infer", "sleep", "read_sleep"}
TryPcs   == StepPcs \cup {"clear", "stats", "validate"}

\* The command lines parse_args accepts.
Accepted == {o \in [coordinator : BOOLEAN, expect : {"release", "no_release", "none"},
                    reuse : BOOLEAN, reclaim : BOOLEAN] :
               /\ o.expect = "release" => ~o.reuse
               /\ o.reclaim => o.expect = "release"
               /\ o.expect # "none" \/ o.reuse => Iterations >= 2}

ASSUME ReuseAssumption ==
  /\ Order \in Seq(Models) /\ Order # <<>>
  /\ \A i, j \in DOMAIN Order : Order[i] = Order[j] => i = j
  /\ Foreign \notin Models
  /\ Options \subseteq Accepted /\ Registered \subseteq SUBSET Models
  /\ Iterations \in Nat \ {0} /\ Block \in Nat \ {0} /\ MaxRequests \in Nat

VARIABLES
  opts,     \* parsed command line: a coordinator, and what the run is to show
  pc,       \* the runner's position
  k,        \* the step under way
  step,     \* its record
  steps,    \* records of finished steps
  engine,   \* state of every model's engine
  worker,   \* per model: bytes released so far, backup held, bytes not acknowledged yet
  coord,    \* the coordinator's record of every client
  known,    \* models whose workers register with the coordinator (client_count)
  log,      \* events of the sleep profile
  torn,     \* the last line of the profile is not complete yet
  cursor,   \* complete events consumed (profile_offset)
  last,     \* last_release_bytes
  ref,      \* models with a reference output
  stats,    \* coordinator_stats
  error,    \* summary["error"], or an exception main does not catch
  summary   \* the summary file: absent, or its "ok"

extVars == <<engine, worker, coord, known, log, torn>>
runVars == <<k, step, steps, cursor, last, ref, stats, error, summary>>
vars    == <<opts, pc, runVars, extVars>>

-----------------------------------------------------------------------------

Event   == [model : Models, phase : {"wake", "sleep"}, at : Nat, cum : Nat, reused : BOOLEAN]
Record  == [requested : Nat, released : Nat, pending : Nat]
Worker  == [cum : Nat, held : BOOLEAN, unacked : Nat]
StepRow == [model : Models, wakeEv : Nat, sleepEv : Nat, delta : Nat, pre : Nat,
            reclaimed : BOOLEAN, matches : BOOLEAN, ok : BOOLEAN]

TypeOK ==
  /\ opts \in Options
  /\ pc \in TryPcs \cup {"evidence", "done"}
  /\ k \in 1..NSteps + 1
  /\ step \in StepRow /\ steps \in Seq(StepRow)
  /\ engine \in [Models -> {"none", "awake", "asleep"}]
  /\ worker \in [Models -> Worker]
  /\ coord \in [Clients -> Record] /\ known \subseteq Models
  /\ log \in Seq(Event) /\ torn \in BOOLEAN /\ cursor \in 0..Len(log)
  /\ last \in [Models -> Nat] /\ ref \subseteq Models
  /\ stats \in Record
  /\ error \in {"no", "error", "assertion", "raised"}
  /\ summary \in {"absent", "ok", "failed"}

ModelOf(i)  == Order[((i - 1) % Len(Order)) + 1]
NewStep(i)  == [model |-> ModelOf(i), wakeEv |-> 0, sleepEv |-> 0, delta |-> 0, pre |-> 0,
                reclaimed |-> FALSE, matches |-> TRUE, ok |-> FALSE]
NoBytes     == [requested |-> 0, released |-> 0, pending |-> 0]

Init ==
  /\ opts \in Options
  /\ pc = "activate" /\ k = 1 /\ step = NewStep(1) /\ steps = <<>>
  /\ engine = [m \in Models |-> "none"]
  /\ worker = [m \in Models |-> [cum |-> 0, held |-> FALSE, unacked |-> 0]]
  /\ coord = [c \in Clients |-> NoBytes]
  /\ known \in IF opts.coordinator THEN Registered ELSE {{}}
  /\ log = <<>> /\ torn = FALSE /\ cursor = 0
  /\ last = [m \in Models |-> 0] /\ ref = {}
  /\ stats = NoBytes /\ error = "no" /\ summary = "absent"

-----------------------------------------------------------------------------
(* Reading the profile and the coordinator.                                *)

Complete == IF torn THEN Len(log) - 1 ELSE Len(log)

\* Defect: events are selected by phase alone.
InWindow_AnyTime(phase) == {i \in cursor + 1..Complete : log[i].phase = phase}

\* The events of the unread, complete lines that lie in the window of the
\* call of this step.
InWindow(phase) == {i \in cursor + 1..Complete : log[i].phase = phase /\ log[i].at = k}

\* newest_event, as an index into the profile; 0 when there is none.
Newest(S) == IF S = {} THEN 0 ELSE CHOOSE i \in S : \A j \in S : j <= i

\* record_release_delta: the cumulative counter of the event against the
\* last one seen of the same model.
ReleaseDelta(i) ==
  LET m == step.model IN
  IF i = 0 THEN 0
  ELSE IF log[i].cum > last[m] THEN log[i].cum - last[m] ELSE 0

\* Defect: the counter seen is not remembered.
TakeDelta_NotRemembered(i) == last' = last

TakeDelta(i) == last' = IF i = 0 THEN last ELSE [last EXCEPT ![step.model] = log[i].cum]

\* Defect: the clients of other runs are not filtered out.
Total_AllClients(field) ==
  Sum([i \in DOMAIN Order |-> coord[Order[i]][field]]) + coord[Foreign][field]

\* fetch_run_coordinator_stats: the totals of this run's own clients.
Total(field) == Sum([i \in DOMAIN Order |-> coord[Order[i]][field]])
RunStats == [requested |-> Total("requested"),
             released  |-> Total("released"),
             pending   |-> Total("pending")]

-----------------------------------------------------------------------------
(* The runner: one step.                                                   *)

\* The first step of a model loads its engine, which comes up awake.
Load ==
  /\ pc = "activate" /\ engine[step.model] = "none"
  /\ engine' = [engine EXCEPT ![step.model] = "awake"]
  /\ pc' = "infer"
  /\ UNCHANGED <<opts, runVars, worker, coord, known, log, torn>>

\* A later one takes the pre-wake snapshot first.
PreWake ==
  /\ pc = "activate" /\ engine[step.model] # "none"
  /\ step' = [step EXCEPT !.pre = IF opts.coordinator THEN RunStats.released ELSE 0]
  /\ pc' = "wake"
  /\ UNCHANGED <<opts, k, steps, cursor, last, ref, stats, error, summary, extVars>>

\* The worker appends its event before the call returns; the last line may
\* still be on its way to the file when the runner reads it.
Emit(phase, reused) ==
  /\ ~torn
  /\ log' = Append(log, [model |-> step.model, phase |-> phase, at |-> k,
                         cum |-> worker[step.model].cum, reused |-> reused])
  /\ torn' \in BOOLEAN

WakeUp ==
  /\ pc = "wake"
  /\ engine' = [engine EXCEPT ![step.model] = "awake"]
  /\ Emit("wake", FALSE)
  /\ pc' = "read_wake"
  /\ UNCHANGED <<opts, runVars, worker, coord, known>>

ReadWake ==
  /\ pc = "read_wake"
  /\ LET i == Newest(InWindow("wake")) IN
       /\ step' = [step EXCEPT !.wakeEv = i, !.delta = @ + ReleaseDelta(i)]
       /\ TakeDelta(i)
  /\ cursor' = Complete
  /\ pc' = "post_wake"
  /\ UNCHANGED <<opts, k, steps, ref, stats, error, summary, extVars>>

\* The post-wake snapshot; wake_reclaim_delta of the step is positive or not.
PostWake ==
  /\ pc = "post_wake"
  /\ step' = [step EXCEPT !.pre = 0,
                           !.reclaimed = opts.coordinator /\ RunStats.released > step.pre]
  /\ pc' = "infer"
  /\ UNCHANGED <<opts, k, steps, cursor, last, ref, stats, error, summary, extVars>>

\* The first output of a model is its reference, a later one is compared.
Infer ==
  /\ pc = "infer"
  /\ \E same \in BOOLEAN :
       /\ step.model \notin ref => same
       /\ step' = [step EXCEPT !.matches = same]
  /\ ref' = ref \cup {step.model}
  /\ pc' = "sleep"
  /\ UNCHANGED <<opts, k, steps, cursor, last, stats, error, summary, extVars>>

\* The worker reuses the backup it still holds, or copies the weights again.
Sleep ==
  /\ pc = "sleep"
  /\ engine' = [engine EXCEPT ![step.model] = "asleep"]
  /\ Emit("sleep", worker[step.model].held)
  /\ worker' = [worker EXCEPT ![step.model].held = TRUE]
  /\ pc' = "read_sleep"
  /\ UNCHANGED <<opts, runVars, coord, known>>

\* Defect: the loop runs one step too far.
ReadSleep_NoLastStep ==
  /\ pc = "read_sleep"
  /\ LET i == Newest(InWindow("sleep")) IN
       /\ steps' = Append(steps, [step EXCEPT !.sleepEv = i, !.delta = @ + ReleaseDelta(i),
                                              !.ok = TRUE])
       /\ TakeDelta(i)
  /\ cursor' = Complete
  /\ k' = k + 1
  /\ step' = NewStep(k + 1)
  /\ pc' = IF k <= NSteps THEN "activate" ELSE "clear"
  /\ UNCHANGED <<opts, ref, stats, error, summary, extVars>>

ReadSleep ==
  /\ pc = "read_sleep"
  /\ LET i == Newest(InWindow("sleep")) IN
       /\ steps' = Append(steps, [step EXCEPT !.sleepEv = i, !.delta = @ + ReleaseDelta(i),
                                              !.ok = TRUE])
       /\ TakeDelta(i)
  /\ cursor' = Complete
  /\ k' = k + 1
  /\ step' = IF k < NSteps THEN NewStep(k + 1) ELSE step
  /\ pc' = IF k < NSteps THEN "activate" ELSE "clear"
  /\ UNCHANGED <<opts, ref, stats, error, summary, extVars>>

\* engines.clear() on the way out: the engines go away, with what their
\* workers had not acknowledged yet.
EnginesGone == engine' = [m \in Models |-> "none"]

\* Any call of a step may raise: the step is recorded as it is, not ok.
StepRaises ==
  /\ pc \in StepPcs
  /\ steps' = Append(steps, step)
  /\ EnginesGone
  /\ error' = "error"
  /\ pc' = "evidence"
  /\ UNCHANGED <<opts, k, step, cursor, last, ref, stats, summary, worker, coord, known, log, torn>>

-----------------------------------------------------------------------------
(* The runner: the end of the run.                                         *)

\* After the last step too, and before the coordinator is asked.
ClearEngines ==
  /\ pc = "clear"
  /\ EnginesGone
  /\ pc' = IF opts.coordinator THEN "stats" ELSE "validate"
  /\ UNCHANGED <<opts, runVars, worker, coord, known, log, torn>>

Settled(s) ==
  /\ s.pending = 0 /\ s.released >= s.requested
  /\ opts.expect = "release" => s.released > 0

\* Defect: the wait has no deadline.
FetchStats_NoDeadline ==
  /\ pc = "stats" /\ Settled(RunStats)
  /\ stats' = RunStats
  /\ pc' = "validate"
  /\ UNCHANGED <<opts, k, step, steps, cursor, last, ref, error, summary, extVars>>

\* wait_for_run_coordinator_stats polls until the counters have settled, or
\* returns what it sees last at its deadline.
FetchStats ==
  /\ pc = "stats"
  /\ stats' = RunStats
  /\ pc' = "validate"
  /\ UNCHANGED <<opts, k, step, steps, cursor, last, ref, error, summary, extVars>>

FetchRaises ==
  /\ pc = "stats"
  /\ error' = "error"
  /\ pc' = "evidence"
  /\ UNCHANGED <<opts, k, step, steps, cursor, last, ref, stats, summary, extVars>>

ReleaseSteps == {i \in DOMAIN steps : steps[i].delta > 0}

\* Defect: only the totals are compared.
ReleaseClaimHolds_PendingIgnored ==
  /\ ReleaseSteps # {}
  /\ opts.coordinator
  /\ stats.requested > 0
  /\ stats.released >= stats.requested
  /\ opts.reclaim => \E i \in DOMAIN steps : steps[i].reclaimed

\* The release assertions: a release was seen, requested and settled; the
\* flush telemetry and the physical windows may go either way.
ReleaseClaimHolds ==
  /\ ReleaseSteps # {}
  /\ opts.coordinator
  /\ stats.requested > 0
  /\ stats.released >= stats.requested /\ stats.pending = 0
  /\ opts.reclaim => \E i \in DOMAIN steps : steps[i].reclaimed

\* Defect: the coordinator's counters are not looked at.
NoReleaseClaimHolds_StepsOnly == ReleaseSteps = {}

\* The control assertions: no step saw a release, and the coordinator counts
\* nothing for the run's clients, of which there is at least one.  (Who is a
\* client does not change behind the steps.)
NoReleaseClaimHolds ==
  /\ ReleaseSteps = {}
  /\ opts.coordinator => known # {} /\ stats = NoBytes

ReuseClaimHolds == \E i \in DOMAIN steps : steps[i].sleepEv # 0 /\ log[steps[i].sleepEv].reused

\* validate_results returns no failure.
ClaimsHold ==
  /\ \A i \in DOMAIN steps : steps[i].matches
  /\ opts.expect = "release" => ReleaseClaimHolds
  /\ opts.expect = "no_release" => NoReleaseClaimHolds
  /\ opts.reuse => ReuseClaimHolds

Validate ==
  /\ pc = "validate"
  /\ error' \in IF ~ClaimsHold THEN {"assertion"}
                ELSE IF opts.expect = "release" THEN {"no", "assertion"} ELSE {"no"}
  /\ pc' = "evidence"
  /\ UNCHANGED <<opts, k, step, steps, cursor, last, ref, stats, summary, extVars>>

\* Defect: the verdict is ok unless something reported an error.
WriteEvidence_InterruptOk ==
  /\ pc = "evidence"
  /\ summary' \in IF error \in {"no", "raised"} THEN {"ok", "failed"} ELSE {"failed"}
  /\ pc' = "done"
  /\ UNCHANGED <<opts, k, step, steps, cursor, last, ref, stats, error, extVars>>

\* The finally block writes the summary whatever happened; evidence that
\* cannot be collected makes it fail.
WriteEvidence ==
  /\ pc = "evidence"
  /\ summary' \in IF error = "no" THEN {"ok", "failed"} ELSE {"failed"}
  /\ pc' = "done"
  /\ UNCHANGED <<opts, k, step, steps, cursor, last, ref, stats, error, extVars>>

\* SIGINT is not an Exception: the step under way is not recorded and the
\* finally blocks run on the way out; in the last one nothing is written.
Interrupt ==
  /\ pc # "done" /\ error # "raised"
  /\ EnginesGone
  /\ error' = "raised"
  /\ pc' = IF pc = "evidence" THEN "done" ELSE "evidence"
  /\ UNCHANGED <<opts, k, step, steps, cursor, last, ref, stats, summary, worker, coord, known, log,
                 torn>>

Step   == Load \/ PreWake \/ WakeUp \/ ReadWake \/ PostWake \/ Infer \/ Sleep
          \/ ReadSleep \/ StepRaises
Finish == ClearEngines \/ FetchStats \/ Validate \/ WriteEvidence

-----------------------------------------------------------------------------
(* The workers and the coordinator.                                        *)

\* The coordinator asks a client for a byte; a whole block will come.
Request(c) ==
  /\ opts.coordinator /\ RunStats.requested + coord[Foreign].requested < MaxRequests
  /\ c \in Models => engine[c] # "none" /\ c \in known
  /\ coord' = [coord EXCEPT ![c].requested = @ + 1, ![c].pending = @ + 1]
  /\ UNCHANGED <<opts, pc, runVars, engine, worker, known, log, torn>>

\* A worker that polls a request frees the backup of an awake model.
Release(m) ==
  /\ engine[m] = "awake" /\ worker[m].held
  /\ coord[m].pending > 0 /\ worker[m].unacked = 0
  /\ worker' = [worker EXCEPT ![m] = [cum |-> @.cum + Block, held |-> FALSE, unacked |-> Block]]
  /\ UNCHANGED <<opts, pc, runVars, engine, coord, known, log, torn>>

Acknowledged(r, bytes) ==
  [r EXCEPT !.released = @ + bytes, !.pending = IF @ > bytes THEN @ - bytes ELSE 0]

Acknowledge(m) ==
  /\ engine[m] # "none" /\ worker[m].unacked > 0
  /\ coord' = [coord EXCEPT ![m] = Acknowledged(@, worker[m].unacked)]
  /\ worker' = [worker EXCEPT ![m].unacked = 0]
  /\ UNCHANGED <<opts, pc, runVars, engine, known, log, torn>>

ForeignReleases ==
  /\ coord[Foreign].pending > 0
  /\ coord' = [coord EXCEPT ![Foreign] = Acknowledged(@, Block)]
  /\ UNCHANGED <<opts, pc, runVars, engine, worker, known, log, torn>>

\* The rest of the last line reaches the file.
CompleteLine ==
  /\ torn
  /\ torn' = FALSE
  /\ UNCHANGED <<opts, pc, runVars, engine, worker, coord, known, log>>

\* Nothing the runner does once it has the coordinator's counters depends on
\* what these actors do then.
External ==
  /\ pc \in StepPcs \cup {"clear", "stats"}
  /\ \/ \E c \in Clients : Request(c)
     \/ \E m \in Models : Release(m) \/ Acknowledge(m)
     \/ ForeignReleases \/ CompleteLine

Terminating == pc = "done" /\ UNCHANGED vars

Next == Step \/ Finish \/ FetchRaises \/ Interrupt \/ External \/ Terminating

\* Nothing is assumed of an engine call, which has no timeout.  What follows the
\* steps runs on.
Spec == Init /\ [][Next]_vars /\ WF_vars(Finish)

-----------------------------------------------------------------------------
(* Properties.                                                             *)

\* The event a step reports was written by the very call the step measured,
\* although lines arrive late and the reader has consumed part of the file.
\* (load_profile_events_since, events_in_window, newest_event)
EvidenceIsOwn ==
  \A i \in DOMAIN steps :
    /\ steps[i].wakeEv # 0 => LET e == log[steps[i].wakeEv] IN
         e.at = i /\ e.model = steps[i].model /\ e.phase = "wake"
    /\ steps[i].sleepEv # 0 => LET e == log[steps[i].sleepEv] IN
         e.at = i /\ e.model = steps[i].model /\ e.phase = "sleep"

\* The records of the steps that have begun, and the deltas a model has in them.
Counted     == IF Len(steps) < k /\ k <= NSteps THEN Append(steps, step) ELSE steps
DeltasOf(m) == [i \in DOMAIN Counted |-> IF Counted[i].model = m THEN Counted[i].delta ELSE 0]

\* The release deltas of a model's steps, the one under way included, add up to
\* the last counter seen of it: a byte whose event came late is attributed to a
\* later step, and none is attributed twice or to another model.
\* (record_release_delta)
DeltasAddUp ==
  \A m \in Models : Sum(DeltasOf(m)) = last[m] /\ last[m] <= worker[m].cum

\* A summary that is ok stands for every step of every iteration, each finished
\* and each with the reference output: never for a run that was cut short.
OkRunIsComplete ==
  summary = "ok" =>
    /\ Len(steps) = NSteps
    /\ \A i \in DOMAIN steps :
         steps[i].ok /\ steps[i].matches /\ steps[i].model = ModelOf(i)

\* A no-release control that is ok released nothing at all: also not what no
\* event told the steps because its line came late.  (validate_results)
ControlIsClean ==
  summary = "ok" /\ opts.expect = "no_release" => \A m \in Models : worker[m].cum = 0

\* When a release run is ok, every byte its workers released was acknowledged
\* before their engines went away: the steps' deltas are part of what the
\* coordinator counts.  (validate_results, against an overshoot that pays for a
\* later request)
ReleaseIsAcknowledged ==
  summary = "ok" /\ opts.expect = "release" =>
    /\ \A m \in Models : worker[m].unacked = 0
    /\ Sum([i \in DOMAIN steps |-> steps[i].delta]) <= stats.released

\* A control fails its assertions only for what its own clients were asked, or
\* because it has none, not for another run's clients of the same coordinator.
\* (fetch_run_coordinator_stats filters by the run's prefix)
VerdictIsLocal ==
  /\ error = "assertion" /\ opts.expect = "no_release" /\ ~opts.reuse
  /\ \A i \in DOMAIN steps : steps[i].matches
  => \/ opts.coordinator /\ known = {}
     \/ \E m \in known : coord[m].requested > 0

\* Once the engines are gone the run ends, even if the coordinator's counters
\* never settle: there is a deadline.  (wait_for_run_coordinator_stats)
RunEnds == pc = "clear" ~> pc = "done"

\* What docs/experiments/backup-reuse-reclaim/README.md:10-11 requires of a
\* reclaim run, "released bytes equal to requested bytes", of one the runner
\* calls ok.
ReleasedEqualsRequested ==
  summary = "ok" /\ opts.expect = "release" => stats.released = stats.requested

=============================================================================
