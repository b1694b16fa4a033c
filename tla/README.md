# vllm-switch-bench in TLA+

TLA+ models of the vllm-switch benchmark harness (`src/vllm_switch_bench`), TLC
configurations that check them on small instances, and TLAPS proofs of the results
that should hold for every instance. Source paths below are relative to the
package `src/vllm_switch_bench/` of the repository unless they start with
`docs/`, `tests/`, `results/` or `scripts/`.

The harness measures how fast inference engines can be put to sleep and woken
up. Hardly any of its code computes; most of it starts processes, waits for
them, cleans up, reads files that others are still writing, and then decides
whether what it has seen may be retained as evidence. What can be wrong is
therefore a verdict that does not follow from what happened, a process left
behind, or a result lost: these are the properties below.

## 1. The system

Every experiment has the same shape: a **runner** drives engines and leaves raw
evidence in `results/tmp/`; an **artifact builder** derives summaries; a
**validator** accepts or refuses them; **promotion** replaces the retained family
under `results/<family>/`.

| Component | State it keeps | Operations | Talks to | Hard because | Correct when |
|---|---|---|---|---|---|
| Exact-disk evidence runner (`experiments/exact_disk/run.py`, `evidence.py`) | return code, process group, stop/ready events, raw files, manifest, curated directory | refuse, launch, sample, wait, terminate group, record, seal, curate | the command (process group), sampler thread, operator (SIGINT) | exceptions at every step, a second SIGINT, a thread that does not start or whose join times out, descendants that outlive the command | nothing survives a cleanup that was not cut short; what is sealed stays; curated evidence stands for a successful run |
| Promotion (`promotion.py`, `publication.py`) | `results/<family>`, candidate roots, `previous/`, `.family.promotion-<pid>` | stage, validate, apply, restore | builders, validators, other promoters | a crash between two renames, concurrent promoters, reused process ids | no version is lost; only complete validated candidates are published |
| Backup reuse and reclaim runner (`experiments/backup_reuse_reclaim/run.py`) | step records, profile offset, last release counter per model, reference outputs, summary | load, wake, infer, sleep, read profile, fetch coordinator statistics, validate | engines, their profile file, the CPU backup coordinator | profile lines that arrive late, asynchronous releases, other clients of the coordinator, exceptions at every call | one engine awake at a time; every byte attributed once, to the right step; an ok verdict stands for what the workers did |
| Exact-disk lifecycle driver (`experiments/exact_disk/lifecycle_driver.py`) | reference output, cycles | wait ready, infer, demote, sleep, wake, compare | a vLLM server over HTTP | partial answers of the ranks | exit 0 only after a complete demotion and equal outputs |
| Profiling campaign (`experiments/vllm_profiling/run.py`, `common/sampling.py`) | current server process, port, event log, sampler thread, rows | start server, wait healthy, infer, cold reload, stop; launch block driver | vLLM server, `nvidia-smi`, block drivers (process groups) | a closure read by a thread while main reassigns it, a three second join of a ten second sample, a port that is probed and released | exit 0 only if every row and block is ok; no server outlives its run |
| Profiling block driver (`experiments/vllm_profiling/block_driver.py`, `page_cache.py`) | engine state, cache condition, cycles | load, demote, sleep, treat cache, restore (L1; L2 in three calls), compare | in-process vLLM, the kernel's page cache | the page cache changes between measuring and reading | a cycle that is ok measured what its label says |
| Profile compiler (`experiments/vllm_profiling/compile.py`) | none | check blocks, average, close phases | block summaries | recomputes the driver's schedule, and trusts counters that other processes move | what it retains measured what its label says |
| Request-driven switch client (`experiments/request_driven_switch/run.py`, `common/traces.py`) | one record per request, SSE buffer | dispatch on schedule, parse a stream, time out | router over HTTP | separators split over chunks, timeouts inside an event | a record holds what arrived, however it was chunked; what is accepted was served in full |
| Lifecycle adapters (`adapters/*`, `experiments/lifecycle_latency/run.py`) | profile offset, memory baseline, rows | request, unload, poll; swap out, measure, swap in, compare; sleep, wake | llama-swap, SwapServeLLM, vLLM | a service that goes on between two calls, late profile lines, memory released late, a baseline sampled once | a row's events are of the process that served it; an accepted cycle really slept |
| Family artifacts, validators (`*/artifacts.py`, `validation/`) | none | copy, rewrite, check | promotion | - | a validator refuses what the documentation excludes |
| Environment and process helpers (`common/*`) | none | exec into environment, read `/proc`, git metadata, event log | - | - | - |
| Plotting, documentation checks | none | draw, check links | - | - | - |

The hazards of each component, with the line where each bites and the property
that is meant to catch it, are in `PROJECT.json` under `hazards`.

## 2. Modules

| Module | What it is |
|---|---|
| `ExactDiskRunner` | main, its handler and finally block, the sampler thread, the process group, SIGINT, sealing and curating |
| `ExactDiskRunner_proofs` | type correctness and six safety theorems |
| `Promotion` | any number of concurrent promoters of one family, stopped anywhere |
| `PublishedFamily` | what promotion promises: one published version at all times, predecessors retained |
| `Promotion_proofs` | type correctness, four safety theorems, refinement of `PublishedFamily` |
| `BackupReuse` | the steps of one reuse/reclaim run, profile cursor, release accounting, coordinator, verdict |
| `BackupReuse_proofs` | type correctness and six safety theorems |
| `ProfilingCampaign` | the job loop of a profiling campaign: cold reloads with server, port, sampler thread and event log; block drivers; verdict |
| `ProfilingCampaign_proofs` | type correctness and five safety theorems |
| `EngineLifecycle` | repeated sleep and wake of one engine by the profiling block driver, the exact-disk HTTP driver and the vLLM lifecycle adapter, with the host's page cache |
| `ProfileCompiler` | extends `EngineLifecycle`: which blocks the compiler and the validator retain |
| `EngineLifecycle_proofs` | type correctness, five safety theorems about both modules, three about the schedule |
| `RequestTrace` | the request-driven client: manifest, concurrent requests, SSE parser, deadline, the two output files, their acceptance |
| `ReplayedTrace` | what replaying a trace promises: it becomes evidence only when every request was served, each by an answer in full |
| `RequestTrace_proofs` | the parser does not depend on the chunks; type correctness, two safety theorems, refinement of `ReplayedTrace` |
| `ServiceLifecycle` | the llama-swap and SwapServeLLM adapters with the service they measure, and the acceptance of their rows |
| `ServiceLifecycle_proofs` | type correctness, that accepted cycles slept, and whose events a row holds when the service is orderly |
| `SeqFunctions` | `Sum` of a sequence of numbers and `Pick` of some of its elements, used by `BackupReuse` and `RequestTrace` |
| `SeqFunctions_proofs` | what the two compute for every sequence, and induction over sequences |
| `MC*` | constants of the TLC instances; each `.cfg` names the module it belongs to |

An operator whose name is a definition's name followed by `_Something` (`TermPoll_NoKill`)
and whose comment starts with "Defect:" is a plausible bug of that definition. It
is used nowhere in a specification; it documents which mistake the property
listed with it in `PROJECT.json` excludes.

### ExactDiskRunner and the code

`pc` is the position in `main` (`run.py:318-470`). The try block is the positions
`launch`, `start_sampler`, `ready` and `wait`; an `OSError` of `Popen` and a
`KeyboardInterrupt` have their own actions (`LaunchFails`, `InterruptTry`); every
other exception (`StartSamplerFails`, `SamplerNotReady`) sets `exc` and goes to the finally block (`stop`, `join`, then
`_terminate_process_group` as `t_check`, `t_term`, `t_poll`, `t_reap`). `ret`
says whether the handler or the finally block called it. An interrupt inside the
handler still reaches the finally block (`InterruptHandler`), one inside the finally block
skips what is left of it (`InterruptFinally`, recorded in `cut`). So does the join of a sampler that was assigned and never
started, because `start()` raised or a signal came before it (`JoinRaises`): after a failed `start()` nobody signals the group, and the command
survives. The tail is
`Record`, `CopyProfile`, `WriteManifest`, `Judge`, `Verify`, `Summarize`,
`WriteAssertions` (`run.py:427-470`, `evidence.py`).

A file is the number of writes made to it, so "digest and size agree" is
equality of two numbers. `GroupExists` includes the zombie leader, as
`killpg(pgid, 0)` does: this is why a terminated group is polled for the full ten
seconds until the leader is reaped. The sampler's rows hold the measured
footprint and whether the command was over. The command and its descendants may fork,
write, spill and exit in any order, and ignore SIGTERM.

Abstractions: the manifest is written in one step (it hashes at most a handful of files); a
sampler row is measured and appended in one step; descendants that leave the process
group with `setsid` are outside what the code can signal and outside the
model. The requirements on the summary other than growth of the footprint
(event types, bytes, media, RSS, equality of outputs) may go either way.

### Promotion and the code

`destination`, `backup` and `prepared` are the directories of `_apply`
(`promotion.py:185-200`), each holding a version, nothing, or an unfinished copy.
`MoveAway` and `MoveIn` are its two renames, `MoveInFails` an `OSError` of the second,
`Restore` the `except Exception` clause. `Stop` and `StopInWindow` are a crash, a signal
or an exception outside and inside the window between the renames; `stuck` means the promoter
ended with the family moved away. Process ids are reused after their owner
has ended, so a later promoter may find the prepared directory of a dead one.
Copying, staging and validating a candidate happen in a directory no one else
touches and are one step each. All promoters belong to one family; those of
different families share nothing.

### BackupReuse and the code

One action per call of a step (`run.py:685-830`): `Load` or `PreWake`, `WakeUp`,
`ReadWake`, `PostWake`; `Infer`; `Sleep`, `ReadSleep`. `StepRaises` is the `except` clause,
`ClearEngines` the inner finally block, `FetchStats` and `Validate` what follows it,
`WriteEvidence` the outer finally block; `Interrupt` is a `KeyboardInterrupt`, which
passes both `except Exception` clauses. A profile event carries the step in whose call it
was stamped, which is what the monotonic window decides; the last line may
be incomplete when the runner reads (`torn`). `worker` holds what a worker released so far (the
cumulative counter in its events), whether it still holds a backup, and the bytes it has not
acknowledged. A release frees a whole block although the coordinator asks for less,
so it may overshoot. `known` are the models whose workers register with the coordinator, which `client_count` counts: a control without
any fails, and nobody else is asked for bytes.

Abstractions: flush telemetry and the physical figures (RSS, MemAvailable) are a
nondeterministic outcome of the release assertions; the coordinator keeps the
record of a client whose engine is gone; a profile is not truncated during a run
(the runner's restart branch, lines 197-199, has no writer that needs it here).

### ProfilingCampaign and the code

`plan` is the sequence of jobs `main` makes of its methods, prompts and repeats. A "run" is
`run_one` for `cold_reload`, the only method for which `main` calls it (every sleep
method goes to a block driver, so lines 657-708 are unreachable); a "block" is `_run_block_driver`. `pc` is the
position of the main thread: `port`, `launch`, `sampler`, `ready`, `infer` and, for the reloaded server,
again `port`, `launch`, `ready`, then `infer_after` in the try block; `stop`, `term_wait`, `kill_wait` are
`stop_process`, called with `ret` "evict" or "final"; `exit` and `join` are the
sampler's `__exit__`, `except`, `close`, `persist`, `saving` and `csv` the rest. `RunRaises` is any exception of the try block, which unwinds
through the sampler if it was started. What raises elsewhere ends the campaign: the event of the error (`ExceptRaises`, behind the finally
block), the event log, `summary.json`, the CSV files or the launch of a driver (`MainRaises`). `summary.json` is truncated before it is written, so
between `Persist` and `Saved` it is `Torn`, for good if the write fails or is interrupted. `summary` of a driver is the `block-summary.json` it leaves, from
which `Finish` takes the verdict of a campaign without rows. `Interrupt` is a `KeyboardInterrupt`, which passes the `except` clause, and which cuts
the finally block or the driver's handler short when it arrives there (`cut`). `server` holds the
servers of the run in the order of their launch; one that is
starting may begin to serve if its port is free, and any may end at any time. `foreign`
are ports on which other users' servers answer. `Answer` records who really
answered a request, which the code cannot see. The sampler's closure
`proc.pid if proc else None` is two steps, `SamplerLooks` and `SamplerTakesPid`, because main clears `proc` in between.

Abstractions: the state of a run is dropped when the next one begins (a thread that was
given up on finds its log closed from then on); the two CSV files are one step;
an interrupt between the return of `Popen` and the assignment is left out; processes below a block driver that
outlive it are not modelled; a stream that a server keeps feeding forever is not either (`infer` has a timeout per read only).

### EngineLifecycle, ProfileCompiler and the code

A `job` is one invocation of a driver: method, number of ranks, block index, number of cycles and the four
limits of the cache checks. `pc` follows `run` of `block_driver.py:183-398`: `load`, `infer`, `demote` (exact disk
only), then per cycle `sleep`, the cache treatment, the restore and `infer_after`; then `result` and `write`. The restore is
`wake` in one call, or for level 2 the three calls of `_l2_restore`: `wake_weights`, `reload`, `wake_kv`. The HTTP driver
(`lifecycle_driver.py`) is the same cycle of exact disk without a cache treatment; what differs is the demotion check
(`Demoted`), that an unequal output raises, and that it writes nothing on failure. The adapter (`adapters/vllm_lifecycle.py`) is
the cycle of levels 1 and 2 without a cache treatment: it records an unequal output, goes on, and ends with status 2. `Raise` is an exception at any step, `Killed` the
signal by which the process that started the driver ends it.

Three loops go through the files of the checkpoint one at a time: `Evict` (`posix_fadvise`, which need not evict), `Measure`
(`mincore`) and `Reload`, the engine's own reading. `CacheChanges` comes between any two of their steps, so a file
measured as resident may have to be read, and the reverse. `found` counts the files measured as resident.

What the engine took from storage (`storage`) and what the driver believes it did (`read`) are two things. The driver sums
`read_bytes` over the processes of its tree that are alive, once before the restore and once after it (`IoBefore`, `IoAfter`), and
takes the difference, or zero if it is negative. The engine's processes live through a restore; the others of the tree may
read, begin or end between the two sums (`TreeChanges`), and `others` is what they contribute to a sum. `gained` and
`lost` say whether that went up or down during the restore. A recorded cycle keeps what the code keeps (`condition`, `found`, `read`,
`medium`, `equal`, `ok`), and `storage`, `gained` and `lost`, which are no part of the record and which only the property may look at.

The engine is external. A rank reports its demotion in one of the ways the two checks tell apart, and
`DemotedBlock` and `DemotedHttp` are the two checks. `ReportFits` is the only assumption on the ranks: a rank that claims to be done has its backup on disk, one that reports bytes left
still has it in CPU memory; a report without figures, or none, says nothing. A rank whose backup is on disk may still
restore from elsewhere and says so in its profile event ("fallback"). `closed` is false as soon as a profile window was
read that did not hold exactly one event: a line was late, or several ranks wrote one.

`ProfileCompiler` is the judgement of a summary: `BlockAccepted` is `_blocks`, with the schedule computed anew
(`ExpectedConditions`), `MechanismAccepted` what `_sleep_phases` and `_wake_phases` require of the events, `CacheAccepted` the
validator's limits, which are constants there and apply to the mean of the two warm cycles. `MechanismAccepted` refuses
blocks that ended with status 0: one whose profile line came late, or whose several ranks wrote several.

Abstractions: files have one size, so ratios of bytes are ratios of files, and other processes read whole files' worth; latencies, phases and their averages are left out; so are
the check of an idle GPU and the teardown of the engine's processes; the compiler's count of blocks and its
comparison of provenance between blocks are left out, every block is judged by itself.

### RequestTrace, ReplayedTrace and the code

`pc` is the position in `main_async` (`request_driven_switch/run.py:212-241`): `load`, `gather`, then the rows, the
metadata and the report. `phase` is per request, because `run_trace` gathers one task for each: it is
dispatched at its offset, waits for headers, consumes a stream, ends. A stream arrives in chunks of any size (`Chunk`), among
them ones that split an event separator; `buffer` is what `parse_sse_events` gave back. A stream ends (`Eof`), is cut
(`Disconnect`) or is overtaken by the one deadline of the request (`Deadline`); the handlers keep what the record holds so far. A kill
comes anywhere, also in the middle of a file (`rowsFile`, `metaFile`). Metadata without failures are "clean" only if they name the benchmark's commit and
at least one runtime repository and file, which the command line need not give; otherwise they are "anonymous". Bytes are abstracted to the pieces the parser tells
apart: the two characters of a line end, text, a role without text, a blank text, a ping, an error, the final marker. `Accepted` is the validator on what lies on disk.

`LineEndsAssumption`: the service ends its lines with LF or CRLF, never with a bare CR. The parser normalizes what it has buffered, so a bare
CR before a CRLF would be read differently depending on where a chunk ends; chunk independence holds for the other two line ends only.

`ReplayedTrace` is the abstract specification: a request is decided once (`outcome`), as served only when the service had answered it
in full, and the trace becomes `evidence` only when all of it was served. The mapping reads `answered` off the bytes that arrived, without
chunks, and takes "the program is over and its files are accepted" for `evidence`.

Abstractions: one answer per request (the router does not retry); latencies and token counts, except whether a first text
has a time; connection pools.

### ServiceLifecycle and the code

`job` is one invocation: which adapter (`lifecycle_latency/run.py` dispatches), whether it was given a profile, whether that file holds
an earlier cycle already, and the quirks of the service it measures, any of: writing the profile late, writing blank lines, losing a process to a crash, reporting
a start or a stop that failed, leaving a process that is there out of `/running`. `plan` is its models and cycles. The llama-swap adapter is `baseline`, then per cycle `request`,
`unload`, the loop of `poll` (`/running`) and `memory` (`nvidia-smi`), and `profile`. These are separate steps because
the service acts between them: `ServiceStarts`, `ServiceEvicts`, `ServiceStopped`, `ServiceReleases`, `ProfileWritten`. Any
request may be refused, and `poll` knows nothing but the answer of `/running`. The
SwapServeLLM adapter is `reference`, then `swapout`, `released`, `swapin`, `infer`. `gen` numbers the
service's processes, which the adapter cannot see; a profile line carries it, and so does a row, for the property only (as does
`left`, what the service really held at the reading the row keeps). `Lost` is an exception: rows are in memory until `Summary`,
so every exception loses the collection. The memory reading before the first poll, which counts only for a wait that ends without a poll, and the one
after the wake, which is only reported, are left out.

`profile_offset` starts at 0 on any file and advances by the number of events parsed while the lines are what is skipped, so a reused profile is read again
and a blank line makes later reads see an event twice; that there must be exactly one wake and one sleep is what protects the rows. It does so
for an `Orderly` service only: one that does not write late into a profile that is reused, and that, if it writes blank lines, shows none of the other quirks.
Nothing in the code makes sure of that, and no text of the repository claims it, so the condition is part of the property (`RowIsOwnCycle`) and not of the model, which has every combination.
It cannot be dropped. TLC finds rows made of another process's events for a late writer on a reused profile (the two old lines are the
only ones there when the first cycle is read), and for blank lines with a stop reported as failed, with a crash, with a process
missing in `/running`, or written late (the cycle's own sleep event is not there yet, and the one of the cycle before takes its place).

Abstractions: one process at a time (no llama-swap groups); no other client of the service; a model needs more than the
tolerated 128 MiB; `request` timeouts and the three attempts of `running_models` are one failing call; the
"number of cycles" of the command line is the one the validator expects.

## 3. Runs

| Run | Instance | Question and answer |
|---|---|---|
| `exact_disk` | command, one descendant, 1 write per file, 2 sampler rows, footprint 0..1, 2 interrupts, fairness | all safety invariants hold in every interleaving; the runner ends; its group disappears |
| `exact_disk_late_writer` | no interrupts | **violated**: a row is appended after the manifest |
| `exact_disk_launch_failure` | no interrupts | **violated**: no manifest and status 1 for a command that cannot be launched |
| `promotion` | 3 promoters, 3 roots, 2 process ids, fairness | nothing lost, nothing unvalidated published, refinement of `PublishedFamily`, termination |
| `promotion_gap` | the same | **violated**: the family is missing between the renames |
| `backup_reuse` | 2 models x 2 iterations, 1 foreign client, blocks of 2 bytes, 2 requests, 3 command lines, all workers registered or none | attribution, completeness, local verdict, termination |
| `backup_reuse_overshoot` | the same | **violated**: an ok run released more than was requested |
| `profiling_campaign` | 2 jobs in all 4 combinations, 2 ports, a given or a free port, 1 sample, 2 interrupts, fairness of main | every job starts clean, no stale answer, the verdict is right and a row lost only in its own write, the campaign ends |
| `engine_lifecycle` | 2 files, 3 cycles; level 2 blocks with index 1 without limits and index 2 with the documented ones, the other methods with 1 and 2 ranks; HTTP driver with 1 and 2 ranks; adapter of levels 1 and 2; what other processes have read moves once, by a file | the engine serves only when restored, the demotion check is enough, status 0 is earned, what is retained measured what its label says unless another process hid it |
| `request_trace` | 2 concurrent requests, 6 manifests, 8 answers in any chunks, fairness | records hold what arrived, files are accepted only for a trace served in full, refinement of `ReplayedTrace`, the trace ends |
| `service_lifecycle` | 2 cycles of one model or 1 of two; 2 processes beside the initial one, 1 poll, model of 2 units on 3; services that crash, fail and list too little, the same writing late, and one that writes blank lines; fresh and reused profiles | a successful row is about one process when the service is orderly; an accepted cycle held nothing any more |
| `service_lifecycle_output` | 2 cycles of one model, 2 answers | **violated**: accepted cycles of one model answer differently |

**Properties of `exact_disk`.** `NoSurvivors`: what still runs of the group at the end was sent SIGKILL, unless the termination was
skipped, by an interrupt of the finally block itself or by the join of a sampler that was not started (`CleanupSkipped`). `SealedFilesStay`: without stragglers
(a sampler given up on, or a process that had to be killed) no listed file changes after the manifest.
`CuratedFromSealedSuccess`: a curated directory implies a sealed, complete run of a command that
succeeded and, without stragglers, a summary computed from the sealed bytes; with one it need not be, as section 4 says. `GrowthIsRunLocal`: an ok footprint assertion
means growth over what was there before the launch. `FinalRowIsPostCommand`: a sampler that ends by itself leaves a
row taken after the command. `ExitStatusIsTruthful`: status 0 is a dry run or held assertions.

**Properties of `promotion`.** `WindowIsOwned`: at most one promoter has the family moved
away, and its backup is a published version. `PublishedIsValidated`, `NoVersionIsLost`; `WindowCloses`; `AtomicPublication` is `PublishedFamily!Spec` under the mapping
that takes the owner's backup for the current version while the destination is missing.

**Properties of `backup_reuse`.** `EvidenceIsOwn` (a step reports the event of
its own call), `DeltasAddUp` (released bytes are attributed once, none is lost in a late line),
`OkRunIsComplete`, `ControlIsClean` (an ok control released nothing, not even unseen),
`ReleaseIsAcknowledged`, `VerdictIsLocal` (a control whose every step behaved fails its assertions because one of its own clients
was asked for bytes, or because it has no client at all; never for other runs' clients).

**Properties of `profiling_campaign`.** `RunLeavesNothing`: when a job begins, the servers of the one before are over, its log is closed
and the port is that of the command line; at the end whatever still runs was sent SIGKILL, unless a second interrupt cut the cleanup.
`NoStaleAnswer`: the reloaded server is never confused with the one it replaces, even on one port. `LogEndsWithRun`: `run_end` is
the last row unless the join timed out. `CampaignVerdict`: one row per run, ok only without an error, status 0 exactly when all are ok,
and no failed block passed over. `RowsArePersisted`: whatever ends the campaign, every finished run is in `summary.json`, except that a failure or
an interrupt in the middle of writing a row costs that row and all rows before it; the write is in place (`run.py:957`). `CampaignEnds`.

**Properties of `engine_lifecycle`.** `ServesRestored`: weights loaded and KV cache mapped whenever tokens are asked for, and the KV cache never mapped before the weights are loaded. `NoCpuBackupIsLeft`:
the block driver's demotion check leaves no CPU backup on any rank, whatever they report. `ExitIsEarned`: status 0 means all the cycles, the output of
the first inference in each, a cache that was as its label says by the limits given, and a complete summary. `RetainedIsMeasured`: among the blocks that are retained, the cold cycle
really read its weights from storage unless another process of the driver's tree read or began in that restore, the two warm ones hardly did unless
one ended in one of theirs, and no exact-disk restore came from CPU memory, although the limits of the command line may have been
anything and the page cache changed at will. The two exceptions are real: the sums over the process tree do not tell whose reads they count.
`CompilerAgrees`: the compiler's `_blocks` refuses no block of the first three that ended with status 0, so its schedule is the driver's. The
phase checks behind it do refuse some (a late profile line, several ranks), and the property says nothing of them.

**Properties of `request_trace`.** `RecordIsWhatArrived`: whatever the chunks, a record's output is the text of the whole events that arrived
before the stream ended, failed or was cut, up to the first malformed one. `ExitZeroIsAccepted`: status 0 leaves files the validator accepts, except for metadata that do not identify the benchmark or
the runtime, which the client never looks at and the validator refuses. `ServedInFull`: the
refinement; accepted files mean the frozen trace, every request of which was answered to its end. `TraceEnds`: a service that
stalls for ever does not keep the client.

**Properties of `service_lifecycle`.** `RowIsOwnCycle`: when the service is `Orderly`, the wake and the sleep event of a successful row are of the process that answered its
request, although it refuses requests, crashes, fails to start or to stop, writes late and lists too little.
`AcceptedCyclesSlept`: an accepted collection has every cycle, and at the reading each row keeps the service held no memory, provided, for
llama-swap, that the accelerator was idle at the baseline (as the experiment's README asks); with a model loaded at the start, or another
program's memory in the baseline, the threshold hides a model that was not released.

**Why the bounds are enough.** One descendant is enough to outlive the command, to fork during
cleanup (the leader forks it) and to write after it; one write changes a sealed file, or not; two
rows are a periodic one and the final one; two interrupts reach the handler and the finally block. Three promoters give two that race and
one that finds their leavings; two process ids force reuse. Two iterations are the fewest the runner accepts for its
assertions, and two models the fewest that are switched; two requests are the fewest with
which the overshoot of one can hide the other. Two jobs show every way one can disturb the next, two
ports a reload on the same and on another one, one sample a row before or after any row of main, two interrupts one
in the handler of the other. Two files are the fewest of which one can change while the other is treated; two ranks the
fewest that can disagree; two requests are the fewest that are concurrent, and each answer has at least one separator that a chunk can split; two cycles let an event of the first come round in
the second, two models show a row behind one of another model, and two processes beside the initial one leave room for one that
fails or crashes before the cycle's own; the two level 2 blocks put the cold cycle in the second and in the third place, one of them with no limits to lean on, and that every
place is reached by some block is a theorem (`EveryPositionIsCold`). One change of one file among the other processes is enough to hide a read or to
feign one. With two files the mean of two warm cycles can only be within the limit if neither read anything; the theorem covers every number of files and
so the case in which one cycle is over it. The theorems below do not
depend on these bounds.

**Fairness.** `ExactDiskRunner`: the interpreter keeps running the main thread, whose
blocking calls all have a timeout except the wait for the command, and the kernel delivers SIGKILL; nothing is assumed of the
command or the sampler, so `RunnerEnds` starts from a command that is over, an
interrupt or an exception. `Promotion`: a promoter that is not stopped keeps
running; faults are never forced. `BackupReuse`: only what follows the steps (`Finish`) is fair, because an engine call has no timeout
and the coordinator is outside the harness; hence `RunEnds` starts when the engines are torn down. `ProfilingCampaign`: every blocking
call of the main thread has a timeout (`ready_timeout_s`, 15 s per wait in `stop_process`, 3 s for the join, 10 s for
the driver), so the main thread as a whole is weakly fair; servers, drivers and sampler may hang forever.
`RequestTrace`: main, the dispatch timer and the deadline of a request are fair, as the event loop runs them; the service owes nothing. `ServiceLifecycle` has no liveness property: a request that is kept
alive has no total timeout. `EngineLifecycle` has no fairness and no liveness property: no call to the engine has a timeout, and what ends a driver that hangs is the campaign.

## 4. Disagreements between code and documentation

1. `experiments/exact_disk/run.py:418` (`exact_disk_launch_failure`): a command that cannot be launched gets return code
   127, but `resources.jsonl` was never created, so `write_evidence_manifest` raises and the
   program ends with status 1 and no manifest, although failed commands are meant to be
   preserved raw-only (`run.py:440`, `tests/test_run_exact_disk_profile.py:205`).
2. `experiments/exact_disk/run.py:423` (`exact_disk_late_writer`): the outcome of `sampler.join(timeout=...)` is not looked at;
   a sampler still measuring appends its row after the files were sealed
   (`evidence.py:232`). Curation then refuses the run or, if the row comes later still, leaves a manifest that
   does not verify.
3. `promotion.py:194` (`promotion_gap`): the replacement takes two renames; `results/README.md:54` and `scripts/README.md:31` call it atomic.
4. `experiments/backup_reuse_reclaim/run.py:527` (`backup_reuse_overshoot`): the runner accepts `released >= requested`;
   the experiment's README and the family validator require equality.
5. `adapters/llama_swap_lifecycle.py:221` (`service_lifecycle_output`): a cycle is ok whatever it answers;
   `docs/experiments/lifecycle-latency/README.md:17-21` calls a cycle successful only when the "post-wake output equals the reference output". The other two adapters compare.

Observations the models record without a run, because the repository does not say otherwise as plainly:

- `experiments/vllm_profiling/run.py:204`: `/health` is polled by address, and no answer is tied to the process that was started; on a shared machine another user's
  server can answer (`foreign` in `ProfilingCampaign`).
- `experiments/exact_disk/lifecycle_driver.py:100`: the demotion check skips results that are no objects and takes missing figures for zero, so a rank may keep its CPU backup; the
  block driver's check of the same call is strict (`DemotedHttp`, `DemotedBlock`).
- `experiments/exact_disk/evidence.py:380`: the raw files are hashed against the manifest, then opened and parsed again. The late row of a sampler that was
  given up on (2 above) may land between the two: `summary.json` is then computed from a row nobody verified, and the run ends with status 0 beside a manifest
  that does not verify. TLC finds it when `CuratedFromSealedSuccess` is checked without `NoStragglers`.
- `experiments/exact_disk/run.py:394`: the sampler is assigned before it is started. If `start()` raises, joining it raises too (line 423), and the
  command that was just launched is neither signalled nor waited for.
- `experiments/vllm_profiling/run.py:957`: `summary.json` is rewritten in place after every run, so a write that fails loses the rows of all runs before it.
- `experiments/request_driven_switch/run.py:191`: nothing asks for a runtime repository or file, so a run can end with status 0 whose files `validate.py:61-69` refuses.
- `experiments/request_driven_switch/run.py:217`: rows and metadata are two writes. A kill between them leaves new rows beside the metadata of an earlier run,
  which the validator accepts.
- `experiments/vllm_profiling/run.py:617`: the sampler's closure evaluates `proc` twice while main clears it; the thread then dies of an `AttributeError`.
- `adapters/llama_swap_lifecycle.py:113` accepts a model that `/running` lists as stopped; the family validator (`validate.py:88`) requires an empty list, so such
  a run ends with status 0 and is refused later.
- `adapters/llama_swap_lifecycle.py:170`: the profile offset starts at 0 on a file that may exist already and counts events, not lines; for which services the rows
  are then still right is `Orderly`.
- `adapters/swapservellm_lifecycle.py:146`: status 0 does not look at the memory measured after the swap-out; the validator does.

## 5. Proofs

TLAPS checks every proof to its leaves, for any set of descendants, promoters, roots
and process ids, any jobs, ranks, checkpoint files and limits, any order of models, any plan of a campaign, any
trace, answers and chunks, and any value of the bounds. The assumptions are the named `ASSUME`s of the
modules, which TLC also evaluates:

- `RunnerAssumption`: the leader is not one of its descendants, bounds are naturals.
- `PromotionAssumption`: the model values are distinct.
- `ReuseAssumption`: each model comes once in the order, there is an iteration, the command lines are those `parse_args` accepts, and only models of the run register.
- `CampaignAssumption`: a campaign has a job, ports are positive and a given port is one of them.
- `LifecycleAssumption`: jobs are well typed, bounds are naturals, a block has three cycles, as `compile.py` requires, and the HTTP driver demotes.
- `TraceAssumption`, `LineEndsAssumption`: rows and answers are well typed; lines end with LF or CRLF.
- `CampaignsAssumption`, `ServicesAssumption`, `BoundsAssumption`: a campaign has a model and a cycle; a service's quirks are among the five named; a model takes
  more memory than the one tolerated unit.

Every safety invariant and every refinement that a run checks is also a theorem; only liveness is left to TLC. The type
invariants are theorems too (`TypeCorrect`); runs check them where a bug could break them.

**ExactDiskRunner_proofs.** `TypeCorrect`, `NoSurvivorsHolds`, `SealedFilesStayHolds`,
`CuratedFromSealedSuccessHolds`. None of the three invariants is inductive: nothing in `NoSurvivors` says
why `t_reap` is only reached with everything killed. The inductive invariant `IInv` is
a conjunction of: `LaunchInv` (without a launched leader there is no process,
and a sampler only after the launch), `CleanupInv` (behind the poll, whatever runs was sent SIGKILL, and who is sent
SIGKILL forks no more; who skips it is in `CleanupSkipped`), `JoinInv` (behind the join, a sampler that was joined is inactive),
`SealInv` (a sealed file has not changed unless somebody straggled), `OutcomeInv` (what
each position past `Judge` implies about code, return code and listed files) and `CuratedInv`
(what the summary was computed from). The proof that a step preserves it has one step per action.
`GrowthIsRunLocalHolds`, `FinalRowIsPostCommandHolds` and `ExitStatusIsTruthfulHolds` follow from a second invariant, `ReportInv`, proved relative to
the first: `RowInv` (the first row of the sampler is the footprint before the launch, whenever it was scheduled), `StopInv` (the stop event is
set only behind the end of the command or with an exception pending) and `ExitInv` (a dry run never gets past its first step).

**BackupReuse_proofs.** `TypeCorrect`, `EvidenceIsOwnHolds`, `DeltasAddUpHolds`, `OkRunIsCompleteHolds`, `ControlIsCleanHolds`,
`ReleaseIsAcknowledgedHolds`, `VerdictIsLocalHolds`. The inductive invariant: `PlaceInv` (how many steps are recorded at each position, and of which
models), `LogInv` (the counters in a model's profile lines never fall, every unread one is at least the last one read, and none exceeds what the
worker released), `EvidenceInv` (the events a record names were stamped in its own step), `DeltaInv` (the deltas recorded so far add up
to the last counter read, by model and in total), `CoordInv` (what a worker released is what the coordinator counts and what is not yet
acknowledged; who was never asked released nothing), `ClientInv` (who is no client of the coordinator is asked for nothing), `StatsInv` (the statistics are those of the run's own clients) and `VerdictInv`. `DeltaInv` is about
sums of any length and rests on `SumChange`, `SumLonger` and `SumMonotone`. `ReleaseIsAcknowledgedHolds` needs three of these together: the released
bytes of all steps are at most what the coordinator counts because the deltas add up to counters, and these to acknowledgements.

**ProfilingCampaign_proofs.** `TypeCorrect`, `RunLeavesNothingHolds`, `NoStaleAnswerHolds`, `LogEndsWithRunHolds`, `CampaignVerdictHolds`,
`RowsArePersistedHolds`. The inductive invariant: `PlaceInv` and `PortInv` (position in the plan; the port is that of the command line outside a
run), `HeldInv` (every server but the one main holds is over, which is what makes a stale answer impossible), `LeftInv` (nothing is left behind the
finally block, unless a second interrupt cut it), `DriverInv`, `LogInv` (a sampler that was waited for writes no more; `run_end` comes behind that),
`VerdictInv` (how the try block was left decides `ok`), `RowsInv` and `SavedInv` (a row for every finished run, saved before the next job; a torn file is one whose last row is that of the job under way) and `ExitInv`.

**Promotion_proofs.** `TypeCorrect`, `WindowIsOwnedHolds`, `PublishedIsValidatedHolds`,
`NoVersionIsLostHolds`, `RestoreFindsRoomHolds`, `PromotionImplementsFamily`. The inductive invariant says: live promoters own distinct
candidate roots and process ids (`OwnerInv`); a prepared directory past the copy holds its owner's version
(`PreparedInv`); where there is a backup: none under the root of a promoter that has not entered the window,
none that is not made, and behind the window only published versions (`BackupInv`); the
destination is missing exactly while one promoter is in or stuck in the window (`WindowInv`); and that no published version is lost (`NoVersionIsLost` itself). The refinement shows that `MoveIn` is `Publish` of the
abstract specification and that every other step, the moving away and the restoring included, leaves `current` and
`retained` alone.

**EngineLifecycle_proofs.** `TypeCorrect`, `ServesRestoredHolds`, `NoCpuBackupIsLeftHolds`, `ExitIsEarnedHolds`, and about
`ProfileCompiler` `CompilerAgreesHolds` and `RetainedIsMeasuredHolds`: every invariant the run checks. The inductive invariant:
`CountInv` (within a loop no more files are counted than were passed, without which `found` and `storage` could exceed the
checkpoint), `ReadInv` (the difference of the two sums is at most what storage gave unless somebody gained, and at least that unless somebody was
lost), `RestoreInv` (before the KV cache is mapped the weights are loaded), `CycleInv` (cycles are recorded in the
schedule's order, and each as `CycleOk` says: an ok one has equal output and passed its limits, and its `read` stands to `storage` as in `ReadInv`), `VerdictInv` (the verdict "ok" is
only formed of all cycles) and `DemotionInv` (behind the check every rank's backup is on disk, and level 1 sleep does not
replace it). `RetainedIsMeasuredHolds` then needs no more than `CycleInv` and the arithmetic of the limits, which is the point: residency, which may be stale, is not
what the conclusion rests on. Three theorems are about the schedule alone: `OneColdCycle`, `EveryPositionIsCold` and
`SchedulesAgree`.

**RequestTrace_proofs.** `TypeCorrect`, `RecordIsWhatArrivedHolds`, `ExitZeroIsAcceptedHolds`, `RequestTraceImplementsReplayedTrace`. The property is stated
on the whole text that arrived, with positions and blank lines; the code works on a buffer and on one chunk at a time, and forgets the chunks before. The
bridge are two predicates. `Scanned(text, rest)` says that `rest` is the end of the text behind the last separator, so that a line of the text is in
an ended event exactly if it is not in `rest`; `Recorded(text, rec)` that the record holds what the ended events of the text deliver. Adding one byte keeps both
(`ScanByte`): either nothing ends, or the byte is the second newline and the event that ends is taken (`TakeEvent`). By induction over the bytes this
holds for a whole text (`ScanText`), whatever was buffered (`ParseChunk`), including a buffer that ends between CR and LF (`Buffered`). `RequestInv` carries the two
through the steps of a request, and adds that an ended request that counts as a success was answered in full. `FilesInv` says of the files and
the exit status what each position of main implies: rows only when all requests have ended, the metadata behind the rows, and with status 0 they report no failure. For the refinement
(`RefinementStep`): a chunk that completes an answer is `Answer`, the end of a request `Serve` or `Fail`, and whichever way the client ends is
`Accept` if the files it leaves are accepted; everything else is a stutter.

**SeqFunctions_proofs.** `Sum`, `Pick` and the parser's `Split` and `TakeAll` are recursive functions of how much of a sequence was seen. What they compute is proved
by induction without the library's rule, which the provers cannot instantiate: a set of naturals that contains 0 and the successor of each member is all of
`Nat` (`NatSet`, from the least element `LeastNatural`), and likewise for the set of sequences (`SeqInduction`); a proof by induction defines the set of the values for which
its statement holds. The lemmas say that the recursive definitions have exactly one solution and what they are of an empty sequence, of
one with an element appended, and of sequences that differ in one place.

**ServiceLifecycle_proofs.** `TypeCorrect`, `AcceptedCyclesSleptHolds`, `RowIsOwnCycleHolds`. For the first, the invariant of the run looks at the end of a collection only;
the inductive one adds what holds on the way: `MemoryInv` (the service takes and gives back memory by whole models, a reading is no less than what was held
at it, an idle accelerator means a baseline of 0), `PlaceInv` (neither adapter takes a step of the other) and `RowInv`
(both facts of the reading kept in each row, and that rows are of the plan's models and cycles). The validator's limit then leaves a row at most one
unit, and a multiple of a model's memory that is at most one unit is nothing. That every cycle is there follows from its count of
distinct cycles: a subset of `0..(cycles - 1)` with `cycles` members is the whole set.

`RowIsOwnCycleHolds` has an invariant of its own, `OwnInv`, about the collections that read the profile of an orderly service (`Watched`). `HistInv` orders the events: processes
come one after the other, each logs its wake first and its stop last, and what is pending is late. `CycleInv` ties the process that
answered to the one the service has or had last. `ReadInv` says what the adapter can still read of a process other than its own. Without blank lines a sleep event it has yet
to read is of a process of its model (`UnreadIsOwn`), because the offset has passed everything before the last row. If lines are late as well, the profile
was fresh, and there is no unread stop but that of the latest process (`UnreadIsLatest`). If they are not, an unread stop of an earlier process has its own wake event
before it, so that a window with one of each holds a pair (`UnreadIsPaired`). With blank lines the offset lags behind and old events come round again; there a stopped process
always has its stop in the profile (`SleepIsLogged`), and the count of events refuses the window.

**Only model-checked**: liveness (`RunnerEnds`, `GroupDisappears`, `WindowCloses`, `RunEnds`, `CampaignEnds`, `TraceEnds`): fairness and ENABLED are beyond this
prover. The five violations are counterexamples and have nothing to prove.

## 6. What is not modelled

- `FinalRowIsPostCommand` speaks of a sampler that ended by itself. A sampler that died of an exception, or that was given up
  on, leaves a run without the post-command row of `run.py:254`, and nothing in the assertions notices; the model allows it.
- `EngineLifecycle` assumes that the engine's own processes live through a restore; one that ends takes a driver down (`Raise`). Processes beside them may
  come and go, and what that hides is stated in `RetainedIsMeasured`.
- `RowIsOwnCycle` says nothing of services that are not `Orderly`: for each combination it leaves out there is a run of the model that breaks it (section 2).
- Contents of files, numbers measured, and figures: the artifact builders and the numeric checks of the validators.
- SSE streams whose lines end in a bare carriage return (the parser knows LF and CRLF), and the HTTP connection pool.
- Plotting, documentation checks and the process and environment helpers: see `PROJECT.json`.

## 7. Plan

1. Theorems about the violated statements: which weaker statement the code does keep (for instance `released >= requested`, or that
   a manifest that does not verify comes from a sampler that was given up on), as invariants with their proofs.
2. An abstract specification of a campaign and of an evidence run, with the refinements proved as those of `Promotion` and `RequestTrace` are.
3. `ProfileCursor`: the byte cursor of `BackupReuse` with its restart branch.
