# A specification of the authenticity detector

This directory holds TLA+ modules that model the program in `src/`, TLC
configurations that check them on small instances, and TLAPS proofs of their
main properties for every value of the constants. Every definition is a
translation of code in `src/`; `PROJECT.json` names the lines of each one under
`map`, the question each run asks under `runs`, and under `hazards` the places
of the code where something can go wrong that a test would hardly reach.

To check: `tlc -workers 2 -config campaign.cfg MCCampaign` (and so on for the
runs below), `tlapm CampaignProofs.tla` (and so on for the proof modules).


## 1. The system and its parts

The program evaluates model endpoints and judges whether an endpoint is the
model it claims to be. It is a command line (`eval_cli.py`) and a web server
(`api_server.py`) over the same functions. There is no database: what outlives a
call is a tree of JSON files, written by `write_json` (`cli_io.py:34`), which
truncates a file and then fills it. That one decision is behind half of the
questions below: a process that is killed in the middle of a write leaves a file
no later read can parse, and two processes that read, change and write the same
file can lose each other's change.

| Part | Source | State | Operations | What is hard |
|---|---|---|---|---|
| Campaign loop and resume | `eval_cli.py:950-1265`, `campaigns.py` | `campaign.json`, `run_ids.json`, `summary.json`, the child runs' `state.json` | `campaign`, `campaign --resume` | a kill at any write, and what the resume makes of what it finds |
| Evaluation run | `eval_cli.py:640-1000`, `model_client.py` | `state.json`, `manifest.json`, the record files; progress in memory | `run_job`, `call_model_with_retries` | a thread pool whose results come back in any order and may raise |
| Background jobs | `job_runtime.py`, `compatibility.py` | jobs by id, flags and an event per job | start, pause, resume, stop, report | flags changed under a lock and read without it by a worker that may be parked |
| Compatibility suite | `compatibility.py` | records in memory, then three files; metrics per request | run the cases of a suite, judge each by its category, list the runs | a connection lost in mid-answer, a case that raises, files written at the very end |
| Stream reader | `run_eval.py:169-191` | a buffer of bytes | yield the next event | chunks cut anywhere, a last event that is not whole |
| Web verify service | `api_server.py:530-1110` | one environment variable; a queue and two threads per call | POST `/api/authenticity/verify`, live or dry | two calls share the variable; a client may leave in mid-stream |
| Verification core | `eval_cli.py:1760-2240`, `baseline_registry.py:470-760` | a dict of observations | `verify_core` and its probes; `compare_to_baseline` | many probes, each able to fail, and one verdict with thresholds |
| Baseline lineage | `baseline_registry.py:280-410` | `baseline.json`, `versions.json`, `versions/v*/baseline.json` | `baseline build`, `baseline diff` | three files written one after another, without a lock |
| Campaign decisions, leaderboard, retest, export | `campaigns.py`, `decisions.py`, `benchmarking.py`, `acceptance_pack.py` | reads campaigns, writes `summary.json`, rewrites `campaign.json` | decide, retest, export, list, rank | thresholds with missing rates; an export that writes back an old document |
| Authenticity evidence | `authenticity.py` | `authenticity_summary.json` beside a campaign | judge, compare with a baseline, write | a summary read at one time and records at another, while the campaign is resumed |
| Rescoring, trace evaluation | `rescore.py`, `trace_evaluation.py` | a directory per job, its manifest written last | score again, grade traces | a stop or a death between two records |
| Quality gate | `quality_gate.py` | a directory per gate | read the evidence, evaluate a policy | evidence that changes between two reads |
| Audit export | `audit_export.py` | a pack, its manifest, its checksums | bind, copy, seal | a stop between the manifest and the checksums |
| Evidence and archive registries | `evidence_registry.py`, `archive_registry.py`, `run_records.py` | files read; `registry.json` | find, archive, restore | an update of a shared file without a lock |
| Gateway load probe | `bench_gateway.py` | a running cost | dispatch under a cap | requests under way when the cap is reached |
| Judge calibration, single-model evaluation | `judge_calibration.py`, the rest of `run_eval.py` | none that outlives a step | | |
| Configuration and keys | `local_env.py`, `api_server.py:500-535`, `model_client.py` | `providers.local.json`, `local_secrets.env` | save, load | two files written one after another |
| Redaction, logging; web pages, scripts, task sets | `redaction.py`, `logging_setup.py`, `web/`, `scripts/`, `tasks/` | | | text and presentation |

How they interact. A campaign calls `run_job` once per round, in its own process,
and learns of it only through the return value or the exception and through
`state.json`. `run_job` calls the model through `call_model_with_retries`, either
in its own thread or in a `ThreadPoolExecutor`. A background job is a thread of
the server that runs a worker (`run_compatibility_suite` and others) with a
`job_control` dict of flags and a callback for progress; that suite asks the
provider case by case and takes the answers apart with `iter_sse_events`; the routes for pause, resume and stop act on the
same job from other threads. The verify route calls `verify_core` in a thread of
its own and hands events to the request's thread over a queue; `verify_core` in
turn reads a baseline that `write_baseline_version` wrote. Rescorings and trace
evaluations write directories that a quality gate finds by id or as the newest, a
gate writes one an audit export finds the same way, and the archive registry
hides some of them from both; all of these may run at once over one run.


## 2. Modules

| Module | Models | Extends or instances |
|---|---|---|
| `CampaignLedger` | what a campaign promises: each round accepts one run for good | |
| `Campaign` | `run_campaign`, `--resume`, the four files, kills | instances `CampaignLedger` |
| `ChildRun` | what a campaign may assume of a run | |
| `RunJob` | `run_job`, its pool, `call_model_with_retries` | instances `ChildRun` |
| `JobControl` | `JobRuntime` and a worker it controls | |
| `SseStream` | `iter_sse_events` over chunks cut anywhere | |
| `CompatRules` | the metrics of a streamed answer and the checks of each category, as operators | |
| `CompatSuite` | `run_compatibility_suite` as the worker of a job, event by event | extends `JobControl`, `SseStream`, `CompatRules` |
| `VerifyService` | the verify route: threads, key, queue, stream | |
| `VerdictRules` | `compare_to_baseline` and the scores it reads, as operators | |
| `VerifyCore` | `verify_core`, probe by probe | extends `VerdictRules` |
| `BaselineLineage` | `write_baseline_version` and its callers | |
| `EvidenceRules` | the grading of a trace, the metrics and the policy of the gate, as operators | |
| `EvidencePipeline` | rescoring, trace evaluation, gate, audit export and archive over one run | extends `EvidenceRules` |
| `ReviewRules` | the metrics and decisions of a campaign and of its trust report, as operators | |
| `CampaignReview` | summaries, trust reports, exports and the leaderboard over campaigns that run | extends `ReviewRules` |
| `*Proofs` | the theorems about the module of that name; `CompatSuiteProofs` also those about `JobControl` | extends it and TLAPS |
| `MC*` | the values TLC gives to constants that a `.cfg` cannot write | |

### Campaign

State: `campaignFile`, `indexFile` (`run_ids.json`), `summaryFile` and `runs` are
the disk; `pc`, `round`, `refs`, `exitCode` are the process (`refs` is its copy
of the run references, which is ahead of the disk between a change and the next
`write_json`). There is one action per step of the code that touches the disk, in
the order of the code: `StartCreate` or `StartResume`, then for each round
`SkipRound` or `OpenRound`, `MakeRunDir`, `WriteRunning`, `FinishRun`,
`RecordRun` or `RunRaises`, with `SaveIndex` and `WriteCampaign` where the code
calls `write_json`, and `Summarize...` at the end. `Resummarize` is an
export or an authenticity report, which summarize again. `Crash` is enabled at every step; the `Tear...` actions are a kill in the middle of a
write. A run has two files whose cut bites later: a torn `state.json` (`"torn"`) makes
whoever judges or summarizes the run raise, a torn `benchmark_scores.json` (`"cut"`, beside a
`state.json` that still says "running") only the summaries, so that a resume replaces
that run. A run that was never
there before may already have a directory (`ForeignRuns`): the code counts its
attempt number up past it (`eval_cli.py:1086`).

`CampaignLedger` is the promise seen from outside: `accepted[r]` is the run that
counts for round `r` and, once set, is never exchanged; `status` is "complete"
only while every round has one. `Campaign` refines it, with `accepted` read from
the references and the run directories and `status` from `campaign.json`.

`ChildRun` is the other interface: a directory created once, a final status once,
and an end (returned, raised, killed). `MakeRunDir`, `WriteRunning`, `FinishRun`
and `RunRaises` of `Campaign` are its steps; `RunJob` refines it.

### RunJob

State: where each task is (`at`) and which attempt of its call it is in
(`attempt`), what was submitted to the pool (or run by the caller itself when
`max_concurrency` is 1), the outcomes collected, the records, and `state.json`.
Each attempt of a call, to the tested model and to the judge, is a step, so the
retries interleave with the other tasks and with the collector. An
exception in a task surfaces where the collector calls `future.result()`; the
`with` block then waits for the threads that still work, which the model does
too. `max_concurrency` is chosen in `Init` so that one run checks both paths.

### JobControl

State: the job's public status, the flags `pause_requested` and `stop_requested`,
the event the worker waits on, the worker's position between its looks at them,
and the counts it reports. The requests (`Pause`, `Resume`, `Stop`) are atomic
because the code holds the lock; the worker's looks are separate steps because it
does not. Of the worker it has the looks at the flags, the reports and the
counters; what happens between the start and the end of a case is left open
(`FinishCase` takes any outcome, `CaseRaises` is always possible), and so is the
writing of the files. `CompatSuite` fills both in.

### SseStream, CompatRules and CompatSuite

A token of the stream is a line without its end or one byte of a line end, so
that a blank line can be cut anywhere in its two or four bytes. `Receive` takes a
chunk of any length, only when there is nothing left to split off, and
`YieldEvent` splits one event off, as the two loops of the code do. `sent` is the
answer as the provider composed it, and may be cut short by a connection closed
in good order (`unsent`); a connection that fails is `StreamBreaks`, possible
whenever the reader waits.

`CompatRules` has `ProbeMetrics` as a record, the body of the loop over the events
(`Absorbed`), and the checks of each category (`CaseChecks`). The JSON text of a
data line is a record that says whether it is an object, other JSON, or no JSON
at all: the code skips the last, and raises out of the whole suite on a list or a
number (`ReadRaises`). Text is a sequence of deltas.

`CompatSuite` has `BeginCase`, then for one request or two `KeyMissing`,
`ConnectFails`, `Refuse`, or `Accept` and the reading of the stream, then
`JudgeCase`; after the last case `WriteRecords`, `WriteSummary`, `OpenManifest` and
`SaveManifest`. The directory is new or, under a `--run-id` given again, that of an earlier
run: its manifest (`"earlier"`) stands until the new one is opened. The steps of the loop around it are those of `JobControl`, which it
extends, and it is proved to implement that (section 5). `told` is a history
variable: what came in answer to each request, in terms of the events sent.

### VerifyService

State: the environment variable, the thread of each call, the queue to the
thread that streams, what the client received, whether it is still there.
`shellEnv` is what the server was started with. `live` is the set of calls with a
key of their own; others are dry runs, which bind nothing. `overlapped` is a
history variable: it becomes true when a call enters `_invoke_verify_core` while
another is inside, and no action reads it. The properties about the environment
are conditional on it, because the code supports only that case and its comment
claims more (see findings).

### VerdictRules and VerifyCore

`VerdictRules` has the thresholds of `compare_to_baseline` and of the capability,
variance and confidence scores as operators over counts: rates are compared by
cross multiplication, so nothing is rounded that the code does not round.
`VerifyCore` has one action per sample and per probe; each request may fail, an
anchor may be wrong, a variance repeat may leave the anchor set, a probe may
raise. `shape` is what the endpoint answers with: the official one, an official
one with a single source of noise, or one that differs in stop reason, usage
shape, ids or headers. The numbers in the configurations are the program's own
(5 samples, 12 anchors, 12 repeats with a minimum of 8, a circuit breaker after
4, 3 attempts at an id); they are constants so that the theorems hold for all.

### BaselineLineage

State: `latest` (`baseline.json`), the `snapshots` by label, `versions.json` as a
list of entries, and per builder a position and the document and list it holds.
A document is kept to its fingerprint. `Collect`, `ReadManifest`, `WritePointer` and
then `CommitObserved`, or `WriteSnapshot`, `CompareParent` and `CommitNew`, follow
the code's order; `Crash` and the `Tear...` actions are as in `Campaign`. `overlapped` is a history variable as above.


### EvidenceRules and EvidencePipeline

`EvidenceRules` has `evaluate_source` of a trace, the metrics the gate aggregates
(which score a rescoring replaces, which rates) and the policy's blockers and
review items with the thresholds of `quality_gate.policy.json`, as operators over
records. A record keeps what these look at: success, whether it asks for JSON,
latency class, the model it was answered by, its grades before and after a
rescoring, and its trace.

`EvidencePipeline` has the directories and their writers. State: per rescoring or
trace evaluation (`evidence`) its position, one mark per record done, whether it
was stopped, and its manifest, which is `"torn"` between the opening and the end
of the write; per gate what it read of each kind of evidence, its decision and
its manifest; per export the gate and the evidence it bound, the warnings, the
manifest and the checksums (`sums` is the manifest that was hashed); the archive
registry and the calls to it (`clerk` keeps the registry as read). `newest` is the
order of the directories by the time of their manifest, which is what
`select_manifest_dir` sorts by. A worker looks at its request to stop between two
records, an export at the four places the code does. The gate reads rescoring,
compatibility and traces one after another, with other workers in between; what an
export collects of the three is one step, because it takes only what is listed
and an id that was bound does not change. `Die` ends a worker anywhere and leaves
its files. `settled` (archived, and the call returned) and `raced` (two calls to
the registry overlapped) are history variables.

### ReviewRules and CampaignReview

`ReviewRules` has the metrics of `summarize_campaign`, the decisions of
`campaigns.py` and `decisions.py`, and the three further decisions of a trust
report: the protocol fingerprint, the similarity to a baseline and the
auditability. A rate is a pair of part and whole and is missing when the whole is
zero; averages are exact fractions, where the code rounds to three or six places.
Records are a function of their positions, a position being a reference of
`run_ids.json` and a place in what its run wrote: what is counted or added up is the
size of a set, and only the last score of a task (`Last`) asks for the order.

`CampaignReview` has several campaigns, in coarser steps than `Campaign`: a round
is opened, its run writes its records and then its status, the campaign is
summarized. `doc`, `opened`, `runs`, `summary` and `trust` are the files. `opened` has the
place of each round's last reference in `run_ids.json`: the reference of a round that is run
again is appended (`NextPlace`), so that after a resume an early round may come last. A reviewer
goes through the steps of one command (`Commands`) and keeps what it read (`hand`) for a
later write, so a campaign may be resumed, ended or
killed in between, and what is written is of before. A trust report takes its summary
(`LoadSummary`, or `MakeSummary` and `SaveSummary`), the records (`ReadRecords`) and the
baseline's summary (`Compare`) in steps of their own, and `WriteReport` writes what it made
of them. The files of all runs are read in one step, in a summary and in `ReadRecords`. `LoadCampaign` and
`WriteBack` are the two ends of `export_campaign`, which restores an old
`campaign.json`. A summary or report remembers the runs it was made of (`of`,
`records`, `base`), which is what the properties compare with the disk. A reviewer that is
killed is one that takes no further step; a campaign's own summarizing is one
step, as its process writes nothing else meanwhile. The leaderboard is an operator over the state
(`Boards`): it writes nothing but summaries that were missing, and which group it
shows depends on times that are left out, so every group has to be right.


## 3. What each run checks

All bounds are constants with a name; the guards of the actions use them.

| Run | Instance | Distinct states |
|---|---|---|
| `campaign` | 2 rounds, up to 4 attempts each, 3 invocations, one foreign run directory | 336 thousand |
| `campaign_torn_state` | 1 round, 2 invocations | violation |
| `run_job` | 3 tasks, one or two threads, 1 retry per call, trace evaluation and gate on | 650 thousand |
| `job_control` | two suites of 3 cases that cover the six categories, 2 or 4 answers for each, every cut into chunks, a new or a used directory, any number of requests | 79 thousand |
| `verify_service` | 2 calls, live or dry, 1 request each, clients may leave | 450 thousand |
| `verify_overlap` | the same | violation |
| `verify_core` | the shipped counts, five kinds of endpoint, three sets of probes | 2.3 million |
| `verify_core_sse` | the same with only the sse probe asked for | violation |
| `lineage` | 2 builders, 3 fingerprints, 4 builds | 590 thousand |
| `lineage_overlap` | 2 builders, 2 builds | violation |
| `evidence` | 2 rescorings, 1 trace evaluation, 1 gate, 1 export, 2 clerks; 3 started, 2 at a time, 2 troubles; three kinds of run | 1.1 million |
| `review` | a gateway's campaign of 2 rounds and an official one of 1, live or dry; 3 references and 1; 2 invocations, one under way at a time, 1 command, 1 kill, of the gateway's | 920 thousand |

Why these bounds are enough for the question asked. A campaign treats its rounds
one after another and two rounds already give "before", "in" and "after" a round
that is complete; three invocations give a resume of a resume, which is where a
run that was replaced could be replaced or counted again; four attempts are
what three invocations can use and the one that the foreign directory takes.
Three tasks on two threads give a task that waits while another raises. Three
cases of a suite are a first, a middle and a last, and the two suites have one case
of each category between them. The answers of a category are a good one and
those that lack what its case is there to see in one way each: another model, a
wrong order, no end, fences around the JSON, no token counts, no JSON, a
refusal; both styles of line ends occur, comments, events without data, and a name in
place of a type. Chunks are cut at every token and there is no
bound on their number. Two builders and three
fingerprints give a fingerprint that returns after another (`A, B, A`), and four
builds let each builder go through that. Two rescorings, of
which the clerks work on one, give the newest that is not the one the gate read
or the request names; three workers started are evidence, gate and export, or two
pieces of evidence and a gate; two at a time give every pair that can interleave,
and two troubles a stop that races a death or two calls to the registry that
overlap. The clerks are symmetric: no action, property or bound tells them apart.
The three kinds of run (`MCRuns`) are one that reaches GO, one whose second
record cannot be rescored and has a broken trace, and one answered by another
model; GO, REVIEW, NO-GO and every warning of an export occur. No instance
archives the compatibility run (`Archivable`), so its absence is not exercised.
Two invocations of `review` are a campaign and its resume, or two campaigns to be
ranked; the yields are a good run, one whose second answer is another model's, and one without a
score and without what a gateway may leave out (the official campaign's when it is dry), so that GO, REVIEW
and NO-GO, with and without a baseline, and leaderboards of two, of one kind or not, occur. Two reviewers at
once are too many states for a run; a second one would overwrite what the first wrote with
what it gathered itself, which the campaign's own summaries do as well. The theorems
about `PublishedFinal` and `DecisionsEarned` have any number of them. Three references
are two rounds and the rerun of one; a resume that reruns both is cut by the bound. A kill of the
official campaign, which has one round, is left to the theorems.
What the small instances leave open is
closed by the theorems where there is one (section 5).

Properties, by what could go wrong:

* Campaign. `ListsSound`: the lists name each round's runs without duplicates,
  skip foreign directories and agree with the directories. `FinishedOnce`: a
  finished round is not run again, nor its run marked replaced, although a kill can
  fall between the end of the run and the write that records it. `PublishedTrue`: a `campaign.json` or `summary.json` that says
  "completed" is backed by completed runs. `RunsNotOverwritten`, `HistoryKept`:
  no run directory is written by a later invocation, and the saved references are
  only added to. `ImplementsLedger`: the refinement. `Settles`: an invocation that
  is not killed ends.
* RunJob. `CallsAccounted` (no model is asked once too often or too seldom, the judge
  only about an answer), `OutcomesTold` (the progress counts outcomes in hand and the records are
  those of the tasks, in their order), `CompletedIsWhole`, `QuietAfterEnd` (no thread is at
  work once `run_job` returned or raised), `ImplementsChildRun` and `RunEnds`.
* JobControl. `StopTakesEffect` (at most one more case starts after a stop),
  `ParkedIsReleasable`, `ReportsTrue`, `EndIsFinal`, `JobEnds` (unless the job is
  left paused), `ShownPauseHeals` (a displayed status that is older than the flags
  is corrected). They are checked of the job that runs the suite.
* CompatSuite. `EventsAsSent`: however the bytes are cut into chunks, the reader
  yields the provider's events, each once, in order and whole, and drops only a
  last one that was cut off. `CaseJudgedRight`, in terms of the events sent and
  not of the metrics: a case passes only on what it is there to see, even when the
  connection was lost; a sound answer passes, wherever it was cut; an answer
  in which another model names itself fails. `ListedTellsTruth`: a run the list shows has its files,
  and its manifest, the records and the job's counters tell one story, whatever
  stopped the suite and when.
* VerifyService. `EnvRestored`, `OwnKeyOnly`, `OneAnswer`, `CallsEnd`.
* VerifyCore. `OfficialNeverConvicted`: whatever requests fail, an official
  endpoint is not called a downgrade or a mismatch. `TellsConvict`: something an
  official endpoint never sends, seen once anywhere, cannot be outvoted.
  `CrashedProbesShow`: a probe that raised is in the evidence and caps the
  confidence (all probes but `sse_fingerprint`).
* BaselineLineage. `LineageSound` (each listed version has its whole snapshot and
  its drift was measured against its parent), `BuildsCounted` (each build that
  returned is counted once, at its own fingerprint), `ListedOnce`,
  `VersionsImmutable`.
* EvidencePipeline. `GateReadsFinal`: what a gate has read of a piece of evidence is never
  written again, and says so if it is partial. `GoRests`: no evidence that is partial, stopped, torn or still
  being written stands behind a GO, if the gate was asked for it, nor does it
  lose what it rests on later. `ExportFollowsGate`: an export holds what the
  gate decided on, not what appeared since, or warns. `SealedExports`: checksums
  and manifest agree however late a stop comes. `PutAwayHeld`: evidence archived
  is not taken up unasked and stays archived, unless calls to the registry
  overlapped.

* CampaignReview. `PublishedFinal`: a summary or report that says "completed" was
  made of all the rounds' last runs, and the leaderboard ranks only such
  campaigns, of one kind, as their runs on disk would. `DecisionsEarned`: a GO was
  measured and good, in plain counts of the records; what is merely missing is
  no NO-GO.

Every property has a mutant in `PROJECT.json`: a definition of the model changed
the way a slip in the code would change it, under which TLC refutes the property.

Fairness. `Campaign`: weak fairness of the process's own steps, none of a kill or
of an invocation; a process that nobody kills runs on. `RunJob`: weak fairness of
each thread and of the collector; a request ends because of its timeout
(`model_client.py`). `CompatSuite` (`FairSuite`): weak fairness of the worker, as
connections and reads have timeouts and an answer is finite; none of the
operator, so a job may stay paused for ever, and `JobEnds` says so.
`VerifyService`: weak fairness of both threads of a call, as requests have
timeouts and the stream's `get` returns as soon as there is an event; none of the
client. Deadlock is not checked in these configurations because each of the
systems really stops: the command returns, the job ends, the calls of the
instance are answered.


## 4. Findings

Four statements of the repository that the code does not keep; each is a run
that ends in a counterexample.

1. `campaign_torn_state`. README.md:259 says that incomplete rounds are rerun. A
   kill in the middle of a write of `state.json` leaves a file that the resume
   cannot parse: `run_state_for` raises out of `run_campaign` (`eval_cli.py:1071`)
   on this and every later resume.
2. `verify_overlap`. The comment at `api_server.py:540` says the key is bound only
   for the duration of a call. When a dry run overlaps a live one it saves the
   live call's key as "prior" and puts it back after that call removed it
   (`api_server.py:604`, `:633`).
3. `verify_core_sse`. The comment at `eval_cli.py:2153` says that a requested probe
   that crashed must not vanish. `sse_fingerprint` (`eval_cli.py:2662`) catches
   the failure itself and returns a result without a `probe_error`; the verdict
   neither shows it nor is capped.
4. `lineage_overlap`. `baseline_registry.py:332` calls a version immutable. Two
   builds that overlap derive the same label from the same list, and the later
   snapshot overwrites the version the earlier one listed.

Seen while modelling, and not findings because no line of the repository says
otherwise, or because it can be read either way:

* A borderline capability gap and a borderline variance set one flag
  (`baseline_registry.py:692`), so that two soft signals count as one; the
  comments at 683 and 728 can be read either way. Modelled as it is.
* The model id check (`baseline_registry.py:567`) compares the configured model,
  not one the endpoint reported.
* Anchors that failed leave the denominator. Against a baseline that itself missed
  some anchors, the rest weigh more; `OfficialNeverConvicted` is therefore stated
  for a baseline that passed every anchor it answered.
* `baseline diff` without arguments compares the last but one version with the
  pointer (`eval_cli.py:1654`), which is not the last version when a fingerprint
  came back.
* A dry-run build replaces the pointer of a live baseline.
* A broken connection leaves an error in the record of a case and decides nothing: a
  case passes if what it looks at came before the break. A suite that was stopped
  after a case that passed has the suite status PASS, with the status "stopped".
* A data line that is JSON but no object (`compatibility.py:244`) raises out of the
  suite, and all its records, which are in memory only, are lost with it.
* `iter_sse_events` looks for a CRLF blank line in the whole buffer before it looks
  for an LF one: a stream that mixes the two has events merged. No provider is
  known to do so, and such streams are not in the model.
* The content hash covers measured latencies, so that almost every rebuild is a
  new version.
* A pause, resume and pause within one wait leaves the display at "pausing"
  without the resume button, although the route accepts a resume;
  `ShownPauseHeals` covers it. A late report may show "running" after a stop; the
  worker's next report corrects it.
* A campaign killed between `mkdir` and the first `campaign.json` can be neither
  created nor resumed under that id.
* A torn `versions.json` makes every later build raise.
* A gate that did not ask for a trace evaluation or a rescoring does not review
  whether one it found is whole. A partial rescoring can then shape the score when
  the run has no benchmark score. `GoRests` is stated for evidence asked for.
* The manifest of an export says "completed" before the checksums exist; a death
  between them leaves a completed export that does not verify.
* Evidence a gate decided on and that is archived since is left out of its export
  with a warning that it "did not match"; an explicit rescoring replaces the
  gate's without a warning.
* `quality_gate.py:797` says that a campaign that carries an authenticity verdict
  can no longer get a GO, but the decision of a campaign
  (`campaigns.py`, `summarize_campaign`) reads neither gate nor authenticity; and the
  artifact the gate reads is written by no code in `src/` but tests. The rule on
  silent truncation is never given a count.
* Two calls to the archive registry that overlap lose one of the changes. No property
  excludes that: `PutAwayHeld` is stated for calls that do not overlap.
* A suite run again under its `--run-id` has the earlier manifest listed beside its own
  records until it opens the new one, and for good if it is killed before.


* A trust report of a campaign under way mixes the summary as it was with the
  records as they are: `authenticity-export` and `fingerprint` do not summarize first.
  It can then be a NO-GO for fields that are merely missing; `DecisionsEarned`
  leaves that case out. One without any record is a NO-GO for its auditability.
* A resume does not refresh `authenticity_summary.json`, and
  `load_or_build_authenticity` serves the old one (`authenticity.py:839`).
* An export that overlaps the end of a campaign writes "running" over "completed"
  (`campaigns.py:859`); every summary from then on says running, and the leaderboard
  drops the campaign until it is resumed.
* The baseline of a comparison may be unfinished, a dry run, or the campaign
  itself. The average quality counts scored records only, so that one scored
  record of many is enough for a GO.


## 5. What is proved

The proofs hold for every value of the constants that satisfies the named
assumptions of the modules: any number of rounds, attempts, tasks, threads, cases,
calls, samples, anchors, builders, fingerprints, rescorings, gates, exports,
campaigns and reviewers. TLC checked each invariant first, except
`DecisionsMade`, whose baseline is any value at all.

The assumptions are few. They say that the bounds are numbers, that the sets of names of
different kinds do not share a member (`NamesDistinct`, `ReviewAssumption`), and what
the inputs look like (`RunsAssumption`, `RequestsAssumption`, `SuitesAssumption`,
`AnswersAssumption`, the yields of a run; that a JSON object does not begin with a
Markdown fence, and that no model is called "none").
One of them was found by a proof: the placeholder `None` must not be a decision,
or an idle gate would count as one that decided.

**`CampaignProofs`**. `IndInv` is the inductive invariant: the types;
`WellFormed` of both lists of references, in memory and on disk (each is a list
of distinct runs that exist or are about to, at most one of a round not
replaced); `ProcessOK`, what the position of the process says of the round and of
the last reference; `DiskOK`, how far the disk may lag behind the memory; and
`PublishedOK`, what a published "completed" rests on. The safety invariants need
it because none of them mentions the copy in memory, from which the next write
comes. From it: `TypeCorrect`, `ReferencesSafe`, `PublishedBacked`,
`NoOverwrite`, `CompletedOnce` and `FinishedRoundsStay`, `HistorySafe` (with `MemoryAhead`: the list in
memory extends the one on disk), and `Refinement`: every step of `Campaign` is a
step of `CampaignLedger` or leaves it unchanged.

**`RunJobProofs`**. `RunInv` is the inductive invariant: what each place a task can be in
has cost in requests, whatever the other threads do (`CallLedger`); which threads may
be at work at which step of `run_job`, and that it leaves the pool with none
(`ThreadsInStep`); that what was collected and counted are the same tasks
(`OutcomesInStep`); and what the later steps leave in the files one after the other
(`FilesInStep`). From it `RunTypeCorrect`, `CallsAreAccounted`, `EndedRunIsQuiet`,
`OutcomesAreTold`, `CompletedRunIsWhole`; and `RunImplementsChild`, the refinement of `ChildRun`, which is
what lets a campaign treat a run as three steps. The order of the records is
stated by the rank of a task among those collected, which needs no sorting.

**`CompatSuiteProofs`, on any job**. `IndInv` adds to the types that the flags, the event and the
status agree (`FlagsAgree`), where a worker can be that has started a case after
a stop (`LateStart`), that a parked worker can be resumed, that progress is
exact, and the shape of an ended job (`EndShape`). From it: `JobTypeCorrect`,
`StopIsPrompt`, `ResumeReachesParked`, `ReportsAreTrue`, `EndIsKept`. These use nothing
that the suite assumes.

**`CompatSuiteProofs`, on the suite**. `SuiteImplementsJob`: each step of the suite is a step of
`JobControl` or leaves its variables alone, whatever suites and answers the
constants hold; no refinement mapping is needed because `CompatSuite` extends the
module. `SuiteKeepsJobPromises` carries the theorems of the first part over to it.
`SuiteInv` is the inductive invariant of the rest: the records are those of the
first cases in their order, the job's counters count them by status, files appear
in their order, and the manifest is made of the records. It needs the invariant
of the job, because what is counted there decides where the suite stops. From it
`ListedRunsTellTruth`; the counts are by the library's facts on
the cardinality of finite sets.

**`CompatSuiteProofs`, on the stream**. `EventsArriveAsSent`: for every answer, of any length
and in either style of line end, cut into chunks anywhere, the reader yields the
events sent, in order, each once and with its own fields. `AnswersAssumption` says
what it takes: an answer is in one style and each of its events has something to tell
(`Composed`). The argument has three steps. What is written of one event is its lines
in place, so that what the parser collects is found by counting lines (`Parsed`,
a recursive function over the lines). The first blank line of a text that begins
with an event is the end of that event, whichever of the two separators is looked for
first; a blank line that is cut off half way is none. So `StreamInv` holds: what is
in the buffer and what is still to come are together the writing of the events not yet
yielded, and of the last one only a part when the answer was cut short. The
writing of a list of events is a `FlattenSeq`, about which the library proves
nothing: that it grows event by event is shown over the set of lengths for which
it does (`UpTo`), by the well-foundedness of the numbers, because an induction theorem
that takes an operator cannot be used.

**`CompatSuiteProofs`, on the judgement of a case**. `CasesAreJudgedRight`: a case passes only on
what it is there to see, a sound conversation passes, another model fails, for any
suite and any answers. `Tells` relates metrics to a list of events: the model
named last, the text put together, the counts given last, the tool call, and, by
a strictly increasing map from the types listed to the events (`Placed`), their
order. One more event keeps it (`TellsNext`), whatever it is. `ProbeInv` says that what is
kept of every request of the case, and of the one being read, tells of the events
read so far; it needs `StreamInv`, because the event absorbed must be the next one sent.
What a pass takes is then stated check by check (`CommonClean` to `ToolClean`) and carried
over to the events (`PassEarned`, `SoundPasses`, `OtherModelCaught`).
The attempt found two holes in the statement: a conversation that ends a first time
before it ends was called well-formed, and does fail the order of the "sse" case, as it should
(`WellFormed` now wants one start and one stop); and a JSON object that looks like a
fence, which no JSON object does.

**`VerifyServiceProofs`**. As long as `overlapped` is false, `SerialInv` holds: one
call at most is inside (`OneAtATime`), and what it saved and bound is what its
position says (`BindingShape`). From it `SerialCallsRestore` and
`SerialCallsUseOwnKey`. Two theorems need no such condition: `ServiceTypeCorrect`
has the types, with `RequestsLeft`, a call that may still ask has not made all of its
requests; and `ClientGetsOneAnswer` rests on what is still in the queue when a
thread puts its last event there, so that a client that stays gets one answer, last,
and the one of its call.

**`VerifyCoreProofs`**. `Ordered` relates each count to the position in the sequence of
probes. `OfficialOK` says that what has been observed of an official endpoint is
official or nothing; with the order of the rules in `compare_to_baseline` it
yields `OfficialIsSafe`. `TellsKept` follows a tell from the request that brought
it through the counters to the verdict (`TellsAreHeld`); `CrashesKept` does the
same for a probe that raised (`CrashesAreShown`).

**`BaselineLineageProofs`**. `NoTwice` holds however builds overlap, because a builder
appends only a fingerprint its own copy lacks (`NothingListedTwice`). `Serial`,
which holds while builds do not overlap, says that only one builder is inside,
that its copy is the list on disk, and that a snapshot beyond the list is at the
next label only, where the next build will write. From it `LineageIsSound`,
`ReturnedBuildsCounted` and `VersionsAreImmutable`.

**`EvidencePipelineProofs`**. The argument rests on the manifests. A worker writes its
manifest last, so evidence with a whole manifest does not change any more
(`WholeEvidenceStays`, `WholeGatesStay`); and whoever looks for evidence finds it by a
whole manifest (`SelectedCanBeRead`). So what a gate or an export has read stays true
however long it takes to write, and whoever is stopped or dies meanwhile.
`PipelineInv` says this worker by worker: `EvidenceInStep` (the marks are those of the first
records, and a worker that was not stopped is not done before the last),
`GatesInStep` (what is read, and a decision that follows from it by the policy),
`ExportsInStep` (what is bound comes from the gate or from the request, the manifest
after the files, the checksums after the manifest) and `RegistryInStep` (no call
but the one at work is between its read and its write, as long as none raced). From it
`GatesReadFinalEvidence`, `ExportsFollowTheirGates`, `SealsAreTrue`,
`GoRestsOnWholeEvidence` and `WhatIsPutAwayIsLeft`. That the newest of a list exists
(`LastPosition`) is by well-foundedness of the numbers.

**`CampaignReviewProofs`**. A campaign is called completed only when every round has its
completed run (`DocFinal`), and from then on neither its references nor its runs change
(`SettledRunsStay`), so what anybody has gathered about it stays true however late it is
written (`GatheredStays`). What a reviewer holds is good for the part of its step it is at
(`HeldGood`: a document, a summary, a summary with the records, or a report), stays so
under the steps of others (`HeldStays`) and is handed on so (`TurnsTo`). `ReviewInv` has the place of every runner
(`RunnersInStep`: the rounds before its own are opened, so that at the end "all
active runs completed" means all rounds), the files (`SummariesFinal`, `TrustFinal`), and
what the reviewers hold and have not yet written (`HandsFinal`), a `campaign.json` read
before a resume and written back after it included. From it `ReviewTypeCorrect` and
`WhatIsPublishedIsFinal`, the leaderboards included, with any number of reviewers at a
time; TLC has one.

The second half is about decisions. `GoIsEarned` is about the rules alone, with any
finite records: all of `GoOfRecords` follows from the grades, because a rate that is missing
is never a GO, and from the rank of the p95, beyond which only one latency in twenty can
lie (`FewAreLong`). What a GO of a trust report adds is hidden in averages. A mean of five
rates that reaches 85 percent leaves none of them below a quarter (`MeanReached`), which
gives the named answers and those with usage and stop reason (`FingerprintEarned`). Of
the 100 points of auditability named answers and upstream ids are 20 each, so that 80
points leave the two rates at least one between them (`AuditEarned`). The other way round, records without a blemish give full rates for all
that is not a gateway's to leave out, and no rule makes a NO-GO of them
(`FlawlessIsNoNoGo`). `DecisionsMade` carries this to the files: whatever is published, and
whatever a reviewer holds, was made by these rules of the runs it names, which `Evidence`
yields finitely many of. From it `DecisionsAreEarned`. The attempt found that the
property was wrong of a report without any record, which is a NO-GO although nothing
went wrong, and that the order of the references matters to the last score of a task; the
property excuses the one and the model has the other.

The type invariants are theorems and no run repeats them.

Only model-checked, and why:

* Liveness under fairness (`Settles`, `RunEnds`, `JobEnds`, `ShownPauseHeals`,
  `CallsEnd`): out of the prover's reach.
* The violations: a counterexample is its own proof.


## 6. What is not modelled, and what could come next

The request itself, prompts, answers, scoring of an answer, prices, wording,
timestamps and identifiers are abstracted everywhere to what the properties
distinguish. Redaction, logging, the web pages, scripts and task sets are left
out: they keep no state a property could be about. Judge calibration and
`run_eval.py` are statistics and a sequential command whose state does not
outlive a step, apart from the stream reader. Of the compatibility suite the event and
response files, the payload of a request and streams that mix line ends are left out; of a
directory used twice only the manifest is told apart, and what the list shows of the
earlier run while its records are replaced is no property's subject. `EvidencePipeline` has one run of one provider: the comparison of
run ids and of providers by which `select_manifest_dir` filters, and explicit
compatibility or trace ids of an export, are left out.

What would say most, in this order:

1. That the run steps of `Campaign` (`MakeRunDir`, `WriteRunning`, `FinishRun`,
   `RunRaises`) are steps of `ChildRun`, which closes the gap between `Campaign` and
   the proved refinement of `RunJob`.
2. `GatewayProbe`: the cost cap with requests under way; the bound of the
   overshoot, proved for every number of workers.
3. A second invocation of a campaign at the same time, as a variant of `Campaign`.
