--------------------------- MODULE ExactDiskRunner ---------------------------
(***************************************************************************)
(* The evidence owner of the exact-disk experiment                         *)
(* (experiments/exact_disk/run.py, main, and the parts of evidence.py it   *)
(* calls).  Three kinds of actors run concurrently:                        *)
(*   - the main thread: launch the command, wait, clean up, record, seal   *)
(*     the raw evidence with a manifest, derive the curated artifacts;     *)
(*   - the daemon sampler thread, which appends to resources.jsonl;        *)
(*   - the command and its descendants, one process group of their own     *)
(*     (start_new_session), which write the profile and the output.        *)
(* The operator may interrupt the main thread at any point.                *)
(*                                                                         *)
(* A file is the number of writes made to it (0: it does not exist), so    *)
(* that "the manifest binds the file" is equality of two numbers.          *)
(***************************************************************************)
EXTENDS Naturals, Sequences

CONSTANTS
  Leader,         \* the launched command, leader of its process group
  Descendants,    \* processes the command may fork into its group
  MaxWrites,      \* bound: writes per file
  MaxSamples,     \* bound: rows the sampler appends to resources.jsonl
  MaxFootprint,   \* bound: size of the backup directory
  MaxInterrupts   \* bound: SIGINTs delivered to the main thread

ASSUME RunnerAssumption ==
  /\ Leader \notin Descendants
  /\ MaxWrites \in Nat /\ MaxSamples \in Nat
  /\ MaxFootprint \in Nat /\ MaxInterrupts \in Nat

Procs     == Descendants \cup {Leader}
Files     == {"resources", "profile", "output", "external"}
RawFiles  == {"resources", "profile", "output"}
Codes     == {0, 1, 2, 127, 130}
NoStatus  == 256    \* no exit status yet, or a null return code in run.json
NoRecord  == 257    \* run.json does not exist
TermSteps == {"t_check", "t_term", "t_poll", "t_reap"}
TrySteps  == {"launch", "start_sampler", "ready", "wait"}
RecordSteps == {"record", "copy", "manifest", "judge", "verify", "summarize", "assertions"}
Ended     == {"done", "crashed"}
Steps     == {"start", "stop", "join"} \cup TrySteps \cup TermSteps \cup RecordSteps \cup Ended

VARIABLES
  args,       \* parsed command line, and whether --out-dir exists already
  pc,         \* the main thread's position
  ret,        \* who called _terminate_process_group: "handler" or "finally"
  exc,        \* an exception is pending while the finally block runs
  rc,         \* the local return_code
  exit,       \* the exit status of the program, once it has one
  stop,       \* stop_event
  joined,     \* how sampler.join ended: "no", "joined" or "timeout"
  cut,        \* an exception left the finally block before its end
  interrupts, \* SIGINTs delivered so far
  sampler,    \* the sampler thread; "unstarted": assigned, but start() has not returned
  ready,      \* sampler_ready_event
  rows,       \* rows of resources.jsonl: footprint, and was the command over
  proc,       \* status of every process of the group
  code,       \* exit status of the command
  killed,     \* processes that were sent SIGKILL
  footprint,  \* size of the backup directory
  initial,    \* initial_disk_footprint_bytes
  ver,        \* the files: writes made to each
  runRC,      \* command_return_code in run.json
  sealed,     \* evidence_manifest.json exists
  manifest,   \* version of each file the manifest binds, 0 if it is not listed
  curated,    \* the curated directory
  used        \* versions of the raw files the summary was computed from

mainVars    == <<ret, exc, rc, exit, stop, joined, cut>>
samplerVars == <<sampler, ready, rows>>
procVars    == <<proc, code, killed>>
evidence    == <<runRC, sealed, manifest, curated, used>>
vars == <<args, pc, mainVars, interrupts, samplerVars, procVars, footprint, initial, ver, evidence>>

-----------------------------------------------------------------------------

Row == [size : Nat, post : BOOLEAN]

TypeOK ==
  /\ args \in [outExists : BOOLEAN, allowNonempty : BOOLEAN, dryRun : BOOLEAN,
               external : BOOLEAN]
  /\ pc \in Steps
  /\ ret \in {"handler", "finally"}
  /\ exc \in BOOLEAN
  /\ rc \in Codes
  /\ exit \in Codes \cup {NoStatus}
  /\ stop \in BOOLEAN
  /\ joined \in {"no", "joined", "timeout"}
  /\ cut \in BOOLEAN
  /\ interrupts \in Nat
  /\ sampler \in {"none", "unstarted", "starting", "opened", "sampling", "finished", "dead"}
  /\ ready \in BOOLEAN
  /\ rows \in Seq(Row)
  /\ proc \in [Procs -> {"none", "running", "zombie", "gone"}]
  /\ code \in {0, 1}
  /\ killed \subseteq Procs
  /\ footprint \in Nat /\ initial \in Nat
  /\ ver \in [Files -> Nat]
  /\ runRC \in Codes \cup {NoStatus, NoRecord}
  /\ sealed \in BOOLEAN
  /\ manifest \in [RawFiles -> Nat]
  /\ curated \in {"absent", "summary", "ok", "failed"}
  /\ used \in [RawFiles -> Nat]

Init ==
  /\ args \in [outExists : BOOLEAN, allowNonempty : BOOLEAN, dryRun : BOOLEAN,
               external : BOOLEAN]
  /\ pc = "start" /\ ret = "finally" /\ exc = FALSE /\ rc = 1 /\ exit = NoStatus
  /\ stop = FALSE /\ joined = "no" /\ cut = FALSE /\ interrupts = 0
  /\ sampler = "none" /\ ready = FALSE /\ rows = <<>>
  /\ proc = [p \in Procs |-> "none"] /\ code = 0 /\ killed = {}
  /\ footprint \in 0..MaxFootprint /\ initial = 0
  /\ ver = [f \in Files |-> 0]
  /\ runRC = NoRecord /\ sealed = FALSE /\ manifest = [f \in RawFiles |-> 0]
  /\ curated = "absent" /\ used = [f \in RawFiles |-> 0]

-----------------------------------------------------------------------------
(* Operators over the state.                                               *)

Running        == {p \in Procs : proc[p] = "running"}
Launched       == proc[Leader] # "none"
\* Defect: the group is taken for gone once the command itself is.
GroupExists_LeaderOnly == proc[Leader] \in {"running", "zombie"}

\* killpg(pgid, 0): an unreaped leader keeps the group in existence.
GroupExists    == \E p \in Procs : proc[p] \in {"running", "zombie"}
SamplerActive  == sampler \in {"starting", "opened", "sampling"}
CommandOver    == proc[Leader] \in {"zombie", "gone"}
Listed         == {f \in RawFiles : ver[f] > 0}
ManifestHolds  == \A f \in RawFiles : manifest[f] # 0 => ver[f] = manifest[f]

\* The program ends with a status of its own; its daemon thread ends with it.
Exit(status) ==
  /\ pc' = "done"
  /\ exit' = status
  /\ sampler' = IF SamplerActive THEN "dead" ELSE sampler

\* The program ends with an uncaught exception (status 1).
Crash ==
  /\ pc' = "crashed"
  /\ exit' = 1
  /\ sampler' = IF SamplerActive THEN "dead" ELSE sampler

\* _terminate_process_group returns to its caller.  After the finally block
\* a pending exception leaves main, otherwise the outcome is recorded.
TermReturns ==
  IF ret = "handler" THEN pc' = "stop" /\ UNCHANGED <<exit, sampler>>
  ELSE IF exc THEN Crash
  ELSE pc' = "record" /\ UNCHANGED <<exit, sampler>>

-----------------------------------------------------------------------------
(* Main thread: checks, preparation, launch.                               *)

\* The output directory exists, or the backup root holds files of another run.
Refuse ==
  /\ pc = "start"
  /\ args.outExists \/ (footprint > 0 /\ ~args.allowNonempty)
  /\ Exit(2)
  /\ initial' = footprint
  /\ UNCHANGED <<args, ret, exc, rc, stop, joined, cut, interrupts, ready, rows, procVars,
                 footprint, ver, evidence>>

DryRun ==
  /\ pc = "start" /\ args.dryRun
  /\ ~args.outExists /\ (footprint > 0 => args.allowNonempty)
  /\ Exit(0)
  /\ initial' = footprint
  /\ runRC' = NoStatus
  /\ UNCHANGED <<args, ret, exc, rc, stop, joined, cut, interrupts, ready, rows, procVars,
                 footprint, ver, sealed, manifest, curated, used>>

\* Measure the backup root, write run.json without a return code, truncate
\* the profile when --profile-path puts it outside the raw directory.
Prepare ==
  /\ pc = "start" /\ ~args.dryRun
  /\ ~args.outExists /\ (footprint > 0 => args.allowNonempty)
  /\ pc' = "launch"
  /\ initial' = footprint
  /\ runRC' = NoStatus
  /\ ver' = [ver EXCEPT !["external"] = IF args.external THEN 1 ELSE 0]
  /\ UNCHANGED <<args, mainVars, interrupts, samplerVars, procVars, footprint, sealed, manifest,
                 curated, used>>

Launch ==
  /\ pc = "launch"
  /\ proc' = [proc EXCEPT ![Leader] = "running"]
  /\ pc' = "start_sampler"
  /\ UNCHANGED <<args, mainVars, interrupts, samplerVars, code, killed, footprint, initial, ver,
                 evidence>>

\* Popen raises OSError: no process, return code 127.
LaunchFails ==
  /\ pc = "launch"
  /\ rc' = 127
  /\ pc' = "stop"
  /\ UNCHANGED <<args, ret, exc, exit, stop, joined, cut, interrupts, samplerVars, procVars,
                 footprint, initial, ver, evidence>>

StartSampler ==
  /\ pc = "start_sampler"
  /\ sampler' = "starting"
  /\ pc' = "ready"
  /\ UNCHANGED <<args, mainVars, interrupts, ready, rows, procVars, footprint, initial, ver,
                 evidence>>

\* start() raises: RuntimeError "can't start new thread", which no handler
\* catches.  The variable already holds the thread.
StartSamplerFails ==
  /\ pc = "start_sampler"
  /\ sampler' = "unstarted"
  /\ exc' = TRUE
  /\ pc' = "stop"
  /\ UNCHANGED <<args, ret, rc, exit, stop, joined, cut, interrupts, ready, rows, procVars,
                 footprint, initial, ver, evidence>>

SamplerReady ==
  /\ pc = "ready" /\ ready
  /\ pc' = "wait"
  /\ UNCHANGED <<args, mainVars, interrupts, samplerVars, procVars, footprint, initial, ver,
                 evidence>>

\* sampler_ready_event.wait(5) expires: RuntimeError, which no handler catches.
SamplerNotReady ==
  /\ pc = "ready" /\ ~ready
  /\ exc' = TRUE
  /\ pc' = "stop"
  /\ UNCHANGED <<args, ret, rc, exit, stop, joined, cut, interrupts, samplerVars, procVars,
                 footprint, initial, ver, evidence>>

\* proc.wait() reaps the command and yields its status.
CommandDone ==
  /\ pc = "wait" /\ proc[Leader] = "zombie"
  /\ proc' = [proc EXCEPT ![Leader] = "gone"]
  /\ rc' = code
  /\ pc' = "stop"
  /\ UNCHANGED <<args, ret, exc, exit, stop, joined, cut, interrupts, samplerVars, code, killed,
                 footprint, initial, ver, evidence>>

-----------------------------------------------------------------------------
(* Main thread: SIGINT.                                                    *)

\* Inside the try block: the handler sets 130 and terminates the group.  The
\* signal may come between the assignment of the sampler and its start.
InterruptTry ==
  /\ pc \in TrySteps /\ interrupts < MaxInterrupts
  /\ interrupts' = interrupts + 1
  /\ rc' = 130
  /\ IF Launched THEN pc' = "t_check" /\ ret' = "handler" ELSE pc' = "stop" /\ UNCHANGED ret
  /\ \/ UNCHANGED sampler
     \/ pc = "start_sampler" /\ sampler' = "unstarted"
  /\ UNCHANGED <<args, exc, exit, stop, joined, cut, ready, rows, procVars, footprint, initial,
                 ver, evidence>>

\* Inside the handler: the finally block still runs, the exception is pending.
InterruptHandler ==
  /\ pc \in TermSteps /\ ret = "handler" /\ interrupts < MaxInterrupts
  /\ interrupts' = interrupts + 1
  /\ exc' = TRUE
  /\ pc' = "stop"
  /\ UNCHANGED <<args, ret, rc, exit, stop, joined, cut, samplerVars, procVars, footprint,
                 initial, ver, evidence>>

\* Inside the finally block: what is left of it is skipped.
InterruptFinally ==
  /\ pc \in {"stop", "join"} \/ (pc \in TermSteps /\ ret = "finally")
  /\ interrupts < MaxInterrupts
  /\ interrupts' = interrupts + 1
  /\ cut' = TRUE
  /\ Crash
  /\ UNCHANGED <<args, ret, exc, rc, stop, joined, ready, rows, procVars, footprint, initial, ver,
                 evidence>>

\* Outside the try statement nothing catches it.
InterruptOutside ==
  /\ pc \in {"start"} \cup RecordSteps /\ interrupts < MaxInterrupts
  /\ interrupts' = interrupts + 1
  /\ Crash
  /\ UNCHANGED <<args, ret, exc, rc, stop, joined, cut, ready, rows, procVars, footprint, initial,
                 ver, evidence>>

-----------------------------------------------------------------------------
(* Main thread: the finally block.                                         *)

\* Defect: the sampler is told to stop and not joined.
SetStop_NoJoin ==
  /\ pc = "stop"
  /\ stop' = TRUE
  /\ ret' = "finally"
  /\ IF Launched THEN pc' = "t_check" /\ UNCHANGED <<exit, sampler>>
     ELSE IF exc THEN Crash ELSE pc' = "record" /\ UNCHANGED <<exit, sampler>>
  /\ UNCHANGED <<args, exc, rc, joined, cut, interrupts, ready, rows, procVars, footprint,
                 initial, ver, evidence>>

SetStop ==
  /\ pc = "stop"
  /\ stop' = TRUE
  /\ IF sampler # "none" THEN pc' = "join" /\ UNCHANGED <<ret, exit, sampler>>
     ELSE IF Launched THEN pc' = "t_check" /\ ret' = "finally" /\ UNCHANGED <<exit, sampler>>
     ELSE /\ ret' = "finally"
          /\ IF exc THEN Crash ELSE pc' = "record" /\ UNCHANGED <<exit, sampler>>
  /\ UNCHANGED <<args, exc, rc, joined, cut, interrupts, ready, rows, procVars, footprint,
                 initial, ver, evidence>>

\* Defect: join without a timeout.
JoinSampler_NoTimeout ==
  /\ pc = "join" /\ ~SamplerActive /\ sampler # "unstarted"
  /\ joined' = "joined"
  /\ pc' = "t_check" /\ ret' = "finally"
  /\ UNCHANGED <<args, exc, rc, exit, stop, cut, interrupts, samplerVars, procVars, footprint,
                 initial, ver, evidence>>

\* sampler.join(timeout) returns when the thread has ended, or at the timeout.
JoinSampler ==
  /\ pc = "join" /\ sampler # "unstarted"
  /\ joined' = IF SamplerActive THEN "timeout" ELSE "joined"
  /\ pc' = "t_check" /\ ret' = "finally"
  /\ UNCHANGED <<args, exc, rc, exit, stop, cut, interrupts, samplerVars, procVars, footprint,
                 initial, ver, evidence>>

\* Joining a thread that was never started is a RuntimeError: what is left of the
\* finally block, the termination of the group, is skipped.
JoinRaises ==
  /\ pc = "join" /\ sampler = "unstarted"
  /\ cut' = TRUE
  /\ Crash
  /\ UNCHANGED <<args, ret, exc, rc, stop, joined, interrupts, ready, rows, procVars, footprint,
                 initial, ver, evidence>>

-----------------------------------------------------------------------------
(* Main thread: _terminate_process_group, called from the handler and from *)
(* the finally block.                                                      *)

TermCheck ==
  /\ pc = "t_check"
  /\ IF GroupExists THEN pc' = "t_term" /\ UNCHANGED <<exit, sampler>> ELSE TermReturns
  /\ UNCHANGED <<args, ret, exc, rc, stop, joined, cut, interrupts, ready, rows, procVars,
                 footprint, initial, ver, evidence>>

\* SIGTERM asks; a process may end on it (ProcExits) or ignore it.
TermSignal ==
  /\ pc = "t_term"
  /\ IF GroupExists THEN pc' = "t_poll" /\ UNCHANGED <<exit, sampler>> ELSE TermReturns
  /\ UNCHANGED <<args, ret, exc, rc, stop, joined, cut, interrupts, ready, rows, procVars,
                 footprint, initial, ver, evidence>>

\* Defect: SIGTERM is not followed by SIGKILL.
TermPoll_NoKill ==
  /\ pc = "t_poll"
  /\ pc' = "t_reap"
  /\ UNCHANGED <<args, mainVars, interrupts, samplerVars, procVars, footprint, initial, ver,
                 evidence>>

\* The group disappears within the ten seconds, or is sent SIGKILL after them.
TermPoll ==
  /\ pc = "t_poll"
  /\ killed' = killed \cup Running
  /\ pc' = "t_reap"
  /\ UNCHANGED <<args, mainVars, interrupts, samplerVars, proc, code, footprint, initial, ver,
                 evidence>>

\* proc.poll() and, for a command that is not over yet, proc.wait(10).
TermReap ==
  /\ pc = "t_reap" /\ proc[Leader] # "running"
  /\ proc' = [proc EXCEPT ![Leader] = "gone"]
  /\ TermReturns
  /\ UNCHANGED <<args, ret, exc, rc, stop, joined, cut, interrupts, ready, rows, code, killed,
                 footprint, initial, ver, evidence>>

\* The command does not end on SIGKILL within ten seconds: TimeoutExpired.
TermReapTimeout ==
  /\ pc = "t_reap" /\ proc[Leader] = "running"
  /\ exc' = TRUE
  /\ IF ret = "handler" THEN pc' = "stop" /\ UNCHANGED <<exit, sampler>> ELSE Crash
  /\ UNCHANGED <<args, ret, rc, stop, joined, cut, interrupts, ready, rows, procVars, footprint,
                 initial, ver, evidence>>

-----------------------------------------------------------------------------
(* Main thread: record, seal, curate.                                      *)

Record ==
  /\ pc = "record"
  /\ runRC' = rc
  /\ pc' = "copy"
  /\ UNCHANGED <<args, mainVars, interrupts, samplerVars, procVars, footprint, initial, ver,
                 sealed, manifest, curated, used>>

\* An external profile is copied into the raw directory as it is now.
CopyProfile ==
  /\ pc = "copy"
  /\ ver' = IF args.external THEN [ver EXCEPT !["profile"] = ver["external"]] ELSE ver
  /\ pc' = "manifest"
  /\ UNCHANGED <<args, mainVars, interrupts, samplerVars, procVars, footprint, initial, evidence>>

\* write_evidence_manifest: resources.jsonl is listed unconditionally, the
\* profile and the output when they exist.
WriteManifest ==
  /\ pc = "manifest" /\ ver["resources"] > 0
  /\ sealed' = TRUE
  /\ manifest' = [f \in RawFiles |-> ver[f]]
  /\ pc' = "judge"
  /\ UNCHANGED <<args, mainVars, interrupts, samplerVars, procVars, footprint, initial, ver, runRC,
                 curated, used>>

\* A listed file that does not exist is a ValueError nobody catches.
ManifestRaises ==
  /\ pc = "manifest" /\ ver["resources"] = 0
  /\ Crash
  /\ UNCHANGED <<args, ret, exc, rc, stop, joined, cut, interrupts, ready, rows, procVars,
                 footprint, initial, ver, evidence>>

\* Defect: a failed command is curated like a successful one.
Judge_IgnoresCode ==
  /\ pc = "judge"
  /\ IF Listed # RawFiles THEN Exit(2) ELSE pc' = "verify" /\ UNCHANGED <<exit, sampler>>
  /\ UNCHANGED <<args, ret, exc, rc, stop, joined, cut, interrupts, ready, rows, procVars,
                 footprint, initial, ver, evidence>>

\* A failed command stays raw-only; so does one without profile or output.
Judge ==
  /\ pc = "judge"
  /\ IF rc # 0 THEN Exit(rc)
     ELSE IF Listed # RawFiles THEN Exit(2)
     ELSE pc' = "verify" /\ UNCHANGED <<exit, sampler>>
  /\ UNCHANGED <<args, ret, exc, rc, stop, joined, cut, interrupts, ready, rows, procVars,
                 footprint, initial, ver, evidence>>

\* verify_evidence_manifest: every required file is listed, every listed
\* file exists with the digest and size of the manifest.
Verify ==
  /\ pc = "verify"
  /\ IF ManifestHolds /\ (\A f \in RawFiles : manifest[f] # 0)
       THEN pc' = "summarize" /\ UNCHANGED <<exit, sampler>>
       ELSE Exit(2)
  /\ UNCHANGED <<args, ret, exc, rc, stop, joined, cut, interrupts, ready, rows, procVars,
                 footprint, initial, ver, evidence>>

\* The raw files are parsed (again from disk) and summary.json is written.
Summarize ==
  /\ pc = "summarize"
  /\ used' = [f \in RawFiles |-> ver[f]]
  /\ curated' = "summary"
  /\ pc' = "assertions"
  /\ UNCHANGED <<args, mainVars, interrupts, samplerVars, procVars, footprint, initial, ver, runRC,
                 sealed, manifest>>

\* A malformed raw file is a ValueError: nothing is curated.
SummarizeFails ==
  /\ pc = "summarize"
  /\ Exit(2)
  /\ UNCHANGED <<args, ret, exc, rc, stop, joined, cut, interrupts, ready, rows, procVars,
                 footprint, initial, ver, evidence>>

\* The required growth: the largest sample of the rows that were parsed (the
\* file has one write for its creation and one per row) exceeds the first.
FootprintGrew == \E i \in DOMAIN rows : i < used["resources"] /\ rows[i].size > rows[1].size

\* Defect: failed assertions do not reach the exit status.
WriteAssertions_AlwaysZero ==
  /\ pc = "assertions"
  /\ curated' \in IF FootprintGrew THEN {"ok", "failed"} ELSE {"failed"}
  /\ Exit(0)
  /\ UNCHANGED <<args, ret, exc, rc, stop, joined, cut, interrupts, ready, rows, procVars,
                 footprint, initial, ver, runRC, sealed, manifest, used>>

\* assertions.json: ok when no requirement failed.  Growth is computed, the
\* other requirements (events, bytes, media, RSS, equality) may go either way.
WriteAssertions ==
  /\ pc = "assertions"
  /\ \/ FootprintGrew /\ curated' = "ok" /\ Exit(0)
     \/ curated' = "failed" /\ Exit(2)
  /\ UNCHANGED <<args, ret, exc, rc, stop, joined, cut, interrupts, ready, rows, procVars,
                 footprint, initial, ver, runRC, sealed, manifest, used>>

-----------------------------------------------------------------------------
(* The sampler thread.                                                     *)

SamplerOpens ==
  /\ sampler = "starting"
  /\ sampler' = "opened"
  /\ ver' = [ver EXCEPT !["resources"] = 1]
  /\ UNCHANGED <<args, pc, mainVars, interrupts, ready, rows, procVars, footprint, initial,
                 evidence>>

AppendRow(size) ==
  /\ rows' = Append(rows, [size |-> size, post |-> CommandOver])
  /\ ver' = [ver EXCEPT !["resources"] = @ + 1]

\* Defect: the baseline is measured when the thread gets to it.
SamplerBaseline_Live ==
  /\ sampler = "opened"
  /\ AppendRow(footprint)
  /\ ready' = TRUE
  /\ sampler' = "sampling"
  /\ UNCHANGED <<args, pc, mainVars, interrupts, procVars, footprint, initial, evidence>>

\* The first row carries the footprint measured before the launch.
SamplerBaseline ==
  /\ sampler = "opened"
  /\ AppendRow(initial)
  /\ ready' = TRUE
  /\ sampler' = "sampling"
  /\ UNCHANGED <<args, pc, mainVars, interrupts, procVars, footprint, initial, evidence>>

SamplerRow ==
  /\ sampler = "sampling" /\ ~stop /\ Len(rows) < MaxSamples
  /\ AppendRow(footprint)
  /\ UNCHANGED <<args, pc, mainVars, interrupts, sampler, ready, procVars, footprint, initial,
                 evidence>>

\* Defect: the loop ends without the last row.
SamplerFinal_NoRow ==
  /\ sampler = "sampling" /\ stop
  /\ sampler' = "finished"
  /\ UNCHANGED <<args, pc, mainVars, interrupts, ready, rows, procVars, footprint, initial, ver,
                 evidence>>

\* stop_event is set: one more row, then the thread ends.
SamplerFinal ==
  /\ sampler = "sampling" /\ stop
  /\ AppendRow(footprint)
  /\ sampler' = "finished"
  /\ UNCHANGED <<args, pc, mainVars, interrupts, ready, procVars, footprint, initial, evidence>>

\* An exception (directory vanished under rglob, disk full) ends the thread;
\* nobody looks at it.
SamplerDies ==
  /\ SamplerActive
  /\ sampler' = "dead"
  /\ UNCHANGED <<args, pc, mainVars, interrupts, ready, rows, procVars, footprint, initial, ver,
                 evidence>>

-----------------------------------------------------------------------------
(* The command and its descendants.                                        *)

Fork(p, d) ==
  /\ proc[p] = "running" /\ p \notin killed
  /\ proc[d] = "none"
  /\ proc' = [proc EXCEPT ![d] = "running"]
  /\ UNCHANGED <<args, pc, mainVars, interrupts, samplerVars, code, killed, footprint, initial, ver,
                 evidence>>

\* A write the process has begun completes even after SIGKILL was sent.
ProcWrites(p, f) ==
  /\ proc[p] = "running"
  /\ f \in {"output", IF args.external THEN "external" ELSE "profile"}
  /\ ver[f] < MaxWrites
  /\ ver' = [ver EXCEPT ![f] = @ + 1]
  /\ UNCHANGED <<args, pc, mainVars, interrupts, samplerVars, procVars, footprint, initial,
                 evidence>>

\* The process spills to, or removes from, the backup root.
ProcSpills(p) ==
  /\ proc[p] = "running"
  /\ footprint' \in 0..MaxFootprint
  /\ UNCHANGED <<args, pc, mainVars, interrupts, samplerVars, procVars, initial, ver, evidence>>

\* The command becomes a zombie of the runner; a descendant is reaped by init.
ProcExits(p) ==
  /\ proc[p] = "running"
  /\ proc' = [proc EXCEPT ![p] = IF p = Leader THEN "zombie" ELSE "gone"]
  /\ code' \in IF p # Leader THEN {code} ELSE IF p \in killed THEN {1} ELSE {0, 1}
  /\ UNCHANGED <<args, pc, mainVars, interrupts, samplerVars, killed, footprint, initial, ver,
                 evidence>>

-----------------------------------------------------------------------------

Main ==
  \/ Refuse \/ DryRun \/ Prepare \/ Launch \/ LaunchFails \/ StartSampler
  \/ StartSamplerFails \/ SamplerReady \/ SamplerNotReady \/ CommandDone
  \/ SetStop \/ JoinSampler \/ JoinRaises
  \/ TermCheck \/ TermSignal \/ TermPoll \/ TermReap \/ TermReapTimeout
  \/ Record \/ CopyProfile \/ WriteManifest \/ ManifestRaises \/ Judge
  \/ Verify \/ Summarize \/ SummarizeFails \/ WriteAssertions

Operator == InterruptTry \/ InterruptHandler \/ InterruptFinally \/ InterruptOutside

Sampler == SamplerOpens \/ SamplerBaseline \/ SamplerRow \/ SamplerFinal \/ SamplerDies

Command ==
  \E p \in Procs :
    \/ \E d \in Descendants : Fork(p, d)
    \/ \E f \in Files : ProcWrites(p, f)
    \/ ProcSpills(p)
    \/ ProcExits(p)

\* The program has ended and nothing it started is left.
Terminating == pc \in Ended /\ Running = {} /\ UNCHANGED vars

Next == Main \/ Operator \/ Sampler \/ Command \/ Terminating

Spec == Init /\ [][Next]_vars

(***************************************************************************)
(* The interpreter keeps running the main thread (every blocking call in   *)
(* it has a timeout, except the wait for the command), and the kernel      *)
(* delivers SIGKILL.  Nothing is assumed of the command, of the sampler or *)
(* of a process that only received SIGTERM.                                *)
(***************************************************************************)
KilledExits(p) == p \in killed /\ ProcExits(p)

FairSpec == Spec /\ WF_vars(Main) /\ \A p \in Procs : WF_vars(KilledExits(p))

-----------------------------------------------------------------------------
(* Properties.                                                             *)

\* No writer is left when the evidence is sealed: the sampler was not given up on
\* by the join timeout, and no process had to be sent SIGKILL.
NoStragglers == joined # "timeout" /\ killed = {}

\* Two ways out of the finally block skip the termination of the group: a signal
\* inside it, and the join of a sampler that could not be started.
CleanupSkipped == cut /\ (interrupts > 0 \/ sampler = "unstarted")

\* Every other path out of the try statement leaves no process of the group that was
\* not at least sent SIGKILL: the command's exit, an interrupt, an interrupted handler,
\* a sampler that never became ready.  Where start() of the sampler raises, the command
\* does survive.  (_terminate_process_group)
NoSurvivors ==
  pc \in RecordSteps \cup Ended /\ ~(Running \subseteq killed) => CleanupSkipped

\* The manifest binds the raw files for good: once it is written no sampler row,
\* profile event or output observation changes a listed file, provided nobody
\* straggled.  (main's finally block before write_evidence_manifest)
SealedFilesStay == sealed /\ NoStragglers => ManifestHolds

\* A curated directory stands for a sealed run of a command that succeeded and
\* left every required file.  If nobody straggled, its summary was computed from the
\* bytes the manifest binds; what a straggler appends between the verification and
\* the second reading does reach the summary.
CuratedFromSealedSuccess ==
  curated # "absent" =>
    /\ sealed /\ runRC = 0 /\ CommandOver /\ code = 0
    /\ \A f \in RawFiles : manifest[f] # 0
    /\ NoStragglers => used = manifest

\* An "ok" assertion on footprint growth means growth over what the backup root
\* held before the command was launched, even if the command runs before the
\* sampler is scheduled.  (the baseline row of _sample_resources)
GrowthIsRunLocal == curated = "ok" => \E i \in DOMAIN rows : rows[i].size > initial

\* When the sampler ends by itself and no exception is pending, its last row was
\* taken after the command was over.  (stop_event is set after every wait)
FinalRowIsPostCommand ==
  sampler = "finished" /\ ~exc => rows # <<>> /\ rows[Len(rows)].post

\* The exit status is 0 for a dry run and for assertions that hold, and for
\* nothing else; 130 and 127 come from no other outcome.
ExitStatusIsTruthful ==
  pc = "done" =>
    /\ exit = 0 <=> (curated = "ok" \/ (args.dryRun /\ runRC = NoStatus))
    /\ exit \notin {0, 2} => exit = runRC /\ sealed /\ curated = "absent"

\* Once the command is over, the operator interrupts or an exception is pending,
\* the program ends: no join, poll or wait holds it forever.
RunnerEnds == (CommandOver \/ interrupts > 0 \/ exc) ~> pc \in Ended

\* After a regular end the whole process group disappears.
GroupDisappears == pc = "done" ~> Running = {}

\* What evidence.py:232 says of write_evidence_manifest, "Checksum immutable
\* local raw files after the producer has stopped."
SealAfterProducerStopped == sealed => ManifestHolds

\* What run.py:440 says of failed commands, "preserving its blocker", of the one
\* that cannot be launched: its return code 127 is reported and sealed.
LaunchFailureIsReported == pc \in Ended /\ rc = 127 => sealed /\ exit = 127

=============================================================================
