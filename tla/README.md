# TLA+ specifications of the forensic evidence platform

This directory specifies the parts of the repository in which concurrency, failure and
ordering decide whether the system keeps its promises: the evidence store, the API's
upload and analysis requests with their database, the runner of external tools and the
analysis that is built on it, the image worker with the cache it starts from, the
preflight that explains a worker without CUDA, and the control of the paid endpoint. TLC
checks every specification on small instances; TLAPS proves the main invariants for every
number of requests, every size and every limit.

Run a model with `tlc -config MC<Module>_<run>.cfg MC<Module>` and check a proof with
`tlapm <Module>_proofs.tla`. `PROJECT.json` maps each definition to the lines it models.

## The system and its parts

| part | state it keeps | operations | talks to |
|---|---|---|---|
| Evidence store (`packages/evidence`) | objects at digest-named paths, staging files | `put_stream`, `contains`, `iter_content_hashes` | file system; called by the intake and by reconciliation |
| Repository and tables (`apps/api/.../db`) | cases, evidence assets and blobs, structural runs, results, reports | `create_case`, `record_evidence`, `compensate_missing_object`, `create_structural_run`, `finalize_structural_run` | SQLite, one session for each request |
| Evidence intake | locals of a request | `ingest` | store, repository |
| Structural analysis service | locals of a request, result files | `start` | repository, integrity verifier, engine, result storage |
| Engine, registry, adapters, summaries, consistency | none between calls | `analyze` | subprocess runner |
| Subprocess runner | pipes, selector, buffers, a child process | `run`, `probe` | operating system |
| Reconciliation | none | `main` | store, then repository |
| Image worker (`workers/image-community`) | services cached between jobs, the loaded model, temporary files | start-up, bootstrap, GPU validation, detector jobs | model cache, GPU, input provider, RunPod |
| Phase 6 control | a client of the paid endpoint | submit, poll, cancel, retry, purge, lock | RunPod API, operator |
| Model cache resolver (same worker) | locals of a call | `resolve`, `inspect_safetensors` | the cache that the host fills |
| CUDA preflight (same worker) | checks of the children, the report file | `run_preflight`, `main` | device nodes, libraries, four child processes |
| Reporting, decoding, preprocessing, contracts, migrations, release scripts | none that outlives a call | pure functions and one-shot commands | |

The API serves each request on a thread of its own. Threads share the database and two
directories and nothing else, so every interaction goes through committed rows and
visible files. The worker is one thread that takes one job after another; what it shares
with the world is a checkpoint file it does not own. The API does not call the worker.

### What is hard here

* **No common transaction.** Objects and rows are written by different systems. Between
  any two steps of an upload another request, a failure or the death of the process may
  come; the order (bytes first, rows second, a last look, compensation) carries the
  whole guarantee.
* **Stale reads.** The SQLite driver opens a transaction at the first write, not at the
  first read. A status or a blob row that was read before may have changed when the
  session writes, and SQLAlchemy leaves an unchanged column out of the UPDATE.
* **Create-once files.** Objects are hard-linked, result files created exclusively; a
  loser of the race must verify, not replace, and a half-written file stays.
* **A claim that only its owner releases.** A RUNNING row blocks further analyses of the
  evidence. Every exit of `start` must end it.
* **One loop, four events.** In the runner the end of output, the exit of the tool, the
  output limit and the deadline race; tools ignore signals and leave children behind
  that hold the pipes open.
* **Partial answers.** Any tool may be missing, fail or print something unusable; the
  analysis has to say so and still use what the others said, preferring one source and
  falling back to another.
* **Paid jobs without an answer.** A response is lost although the job was bought, a
  request arrives late, a job ends between the look at it and its cancellation. Money is
  bounded by what the client may send and not by what it learns.
* **Checked, then used.** The worker hashes a checkpoint twice and opens it a third time.
  It keeps services between jobs and must not keep one whose checks failed.
* **Looking at what others move.** The resolver looks at a cache ten times while the host
  may still be filling it; the header it reads need not be of the file it hashed. Whether
  a header accounts for all data is decided by comparing neighbours of a sorted list.
* **Explaining a failure with failing means.** The preflight infers one cause from its own
  looks and from four children, each of which may hang, die or print anything, on a host
  that may change meanwhile, and it must not overwrite an earlier report.

### What makes each part correct

* Store: visible objects are whole and sealed; nothing is replaced; of concurrent equal
  uploads one creates and the others verify; staging is bounded and removed.
* Tables: keys hold under all interleavings; no row without object; an accepted upload
  stays; duplicates share an association; the status of a case follows its evidence.
* Analysis: one active run, terminal rows final, answers agree with rows, reports are
  backed by complete files, claims are released.
* Reconciliation: no accepted upload is reported, every orphan has a cause.
* Runner: no tool outlives its reported result, capture is bounded, a success was read
  to its end, an outcome is what happened, every call returns.
* Engine: the verdict and the inventory are what the tools did; a value was printed by
  a tool that is asked for it; mismatches are reported exactly; only output that cannot be
  written or summarized, or a tool that cannot be ended, aborts.
* Phase 6 control: never more jobs and never more money than approved; only evidence of
  the right operation is accepted; a job that may run on is reported as such; the lock
  means quiet.
* Worker: an artifact names the checkpoint that ran, a result is about the whole input,
  temporary files go, only checked services serve jobs, every job is answered.
* Cache: an accepted header gives every byte of the data to one tensor; an undisturbed
  call refuses only what is unusable, but for one kind of empty tensor; a record is of one
  file, or else still of the content that the manifest pins.
* Preflight: the diagnosis is true of a host that stood still and names a cause if there
  is one; a report is created and never replaces another file.

## Modules

```
CreateOnlyStore            abstract promise of the store
   ^ refined by
EvidenceStore              put_stream, one step for each file-system call
Repository                 tables, and the objects as CreateOnlyStore promises them
   EvidenceIntake          ingest           } extend Repository
   StructuralAnalysis      start            }
      ForensicApi          both beside each other, reconciliation, crashes; properties
         ^ refined by
      ApiOverStore         the same with put_stream as three steps over CreateOnlyStore
   EvidenceRegistry        abstract promise of uploads  } ForensicApi
   AnalysisClaims          abstract promise of analyses } refines both
ToolAnswers                what a call of the runner may come back with
   ToolCall                abstract promise to the adapters
      ^ refined by
   ToolRunner              SafeSubprocessRunner beside a tool
   StructuralEngine        analyze, on the answers of ToolAnswers
ImageWorker                one worker process, its jobs and its cache
SafetensorsLayout          inspect_safetensors, record by record and range by range
   CheckpointCache         resolve, beside a host that changes the cache
CudaPreflight              run_preflight and main, beside a host and four children
PrepaidJobs                abstract promise to the one who pays
   ^ refined by
Phase6Control              budget, approval and controller beside the RunPod queue
```

`MC*` modules give values to constants; `*_proofs` modules hold the theorems.

**EvidenceStore.** `writer[w]` is the program counter and outcome of one call of
`put_stream`; `staging[w]` and `objects[c]` are inodes (bytes, sealed, faithful). Actions
follow the code: `OpenStaging`, `WriteChunk`, `ChunkTooLarge`, `StreamFails`, `Seal` with
the signature check, `Link` or `LinkExists`, `VerifyExisting`, `RemoveStaging`. A content is one
member of a set; its digest is its identity. `CreateOnlyStore` says the same in one
indivisible step; the refinement mapping reads the phase of a call off its counter and
its staging inode.

**Repository, EvidenceIntake, StructuralAnalysis, ForensicApi.** A repository method is
one step for each SELECT that precedes its first write and one step for the rest; an
IntegrityError is a conflict predicate over the tables (`InsertConflicts`,
`RunConflicts`, `Restricted`). `upload[u]` and `analysis[a]` hold what the session
loaded (`sawStatus`, `sawBlob`, `contents`), because that is what the code decides and
writes by. `put_stream` is one step here (`ApiOverStore` shows that it may be). What a request
commits and what it then answers are separate steps: `Finish`, `Refuse` and
`RecordFailure` settle a run and `Respond` tells its client; a compensation ends in
"retracted" and `ReportInconsistent` raises. Only where the last thing a request does is a
read are decision and answer one step, because a crash between the two leaves what a crash
before the read leaves. `Crash` ends all requests in flight, those that have committed
and not answered included, keeps files and committed rows and rolls open transactions back.

**ApiOverStore.** The same API beside a store of which only the promise is known: a call
begins, links or finds its object, and returns or raises, and other requests, crashes and
tampering come in between. It keeps the promise (`PutsKeepThePromise`), which
`EvidenceStore` shows put_stream to implement, and the API behaves as if each call were the
one step at which it links or finds (`PutIsOneStep`); an upload that has not returned from
the call by then is shown to `ForensicApi` as if it had. Both are proved and have no run.

**EvidenceRegistry, AnalysisClaims.** Each says in a page what a client may count on, with
steps that nothing interrupts. A registry takes at most one entry for a case and a content,
after the content is stored, and accepts an upload only with the id of such an entry; only
if the store cannot be trusted may it take one back, and then it says so or is cut off
before it can. A claim needs evidence that is there and that nobody else is claiming; it is
settled in one step, once, and told in a later one if its client lives to hear it.
`ForensicApi` maps its state to theirs: entries are the rows of
`evidence_assets`, the entries there ever were are the ids that uploads issued, an answer
is the class of a status code; a claim is the status of a run's row, and a run that reads
as succeeded without a report that can be read would map to a value that no abstract step
produces. Reads, conflicts that are resolved, verification, tools and files are stutters;
a committing step is the abstract one, and so is the answer after it. A crash loses all
requests in flight at once, and so does the abstract step: a claim that was settled by then
stays settled, and nobody was told. A failure that could not be recorded is a claim that
stays active behind a lost answer.

**ToolRunner.** `process`, `signal`, `writers`, `written` are the tool; `buffer`,
`registered`, `ready`, `outcome` are the runner's locals; `pc` walks through `_execute`
one selector event, read, poll and wait at a time. `run` calls `_execute` for the
version and then for the evidence. Tools write, close streams, fork children that hold
the pipes, exit with either status, die of a signal or ignore it.

**ToolAnswers, ToolCall.** What the adapters rely on: the tool is started at most once for
the version and once for the evidence, never two at a time, and a call comes back once,
with an answer about a tool that is gone. It comes back without one only if a tool is still
there after SIGKILL. `Promised` are the answers of `run`; `ToolRunner` is shown to implement
`ToolCall`, and `StructuralEngine` takes the answers of its tools from the same set.

**StructuralEngine.** `stage` walks through the adapters in the order of the code.
`said[t]` records what the runner and the tool did (an answer of the runner's and, for a
success, what was printed), `results` is `adapter_results`, `report` the result. A document
gives each field that some decision reads a value, none, or a wild one: a number that `int`
or the summary models refuse. `Escapes` is what no adapter catches. The operators after
that are the code's pure functions, in its order: `ImageSummary` and its siblings,
`Finding`, `Available`, `TestStatus`, `Verdict`. `StructuralAnalysis` uses two facts only,
that `analyze` gives a verdict or raises.

**Phase6Control.** `jobs`, `starting`, `idle` are the provider's; `counted` and `known`
the operator's; `call` is the controller call in hand with the locals of its loop. Each
method of the controller is one step for each transport call it makes. The queue is
external: it is modelled by what the controller relies on and by what the documents of
the deployment have seen (requests that arrive late, a second worker beside a maximum of
one). Two assumptions are about the operator: the count of paid jobs that is passed in
goes up with each submission, and a budget states no more than what the account holds.
A cancellation stops the job, comes too late, or comes back with the job still queued or
running, which the controller reports as unconfirmed. The deadline of a poll is independent
of how long a cold start takes.

**PrepaidJobs.** What is left of that for the one who pays: jobs are bought on approved
terms, out of a number of slots and of funds that are never overdrawn, and no later step
changes the terms; a job ends once, with a last word; a result, a refusal or a deadline is
told of one bought job that has ended, and it is its last word only if that is fit for the
operation that was bought. An error of the transport and a cancellation that the provider
does not confirm tell nothing of the job, which may still run. `Terms` is a sent job's
operation and approved price, `WordOf` its status and output once that status is final,
`News` what an ended controller call reports; the looks of a poll, purges, locks,
configuration, idle workers and the calls in hand are stutters.

**ImageWorker.** `stage` walks through the start (`Boot`, `Resolve`, `Probe`, `Checks`)
and through the three kinds of job. `file` is the content of the cached checkpoint, and
`Swap` replaces it at any time. `checkpoint` is the hash seen at the start, `verified`
that `ensure_loaded` has hashed the file and not opened it yet, `model` the content the
loaded model was read from, `ready` that the module-level service or handler is kept.
`fetch` is the download: bytes written, bytes `iter_bytes` still holds back, whether all
are the expected ones. In production `main` builds the Phase 6 service first and that
requires the confined mode, so detector jobs are served by the other processes only.
`Resolve` is one step that finds a usable file of the right hash or not; what makes it so
is the next module.

**SafetensorsLayout, CheckpointCache.** `stage` names the next look of `resolve` (root and
snapshot, the references, the walk, the path, its kind, its hash) and of
`inspect_safetensors` (stat, open, the loop over the records, the loop over the sorted
ranges). `disk` is the cache as it is now, and `HostChanges` may replace it between any two
looks; `path`, `bytes`, `hashed`, `size` and `opened` are what single looks gave the call.
The loops take one step for each turn: `index` is the record that is next, `placed` the
tensors whose ranges were passed and `expected` where the next one has to start. `LaidOut`
and `Sound` say without loops what a sound file is, and nothing of the bounds that the loop
puts on a product before it is complete; `LateZero` names the sound files that these turn
away. A content is told by its size, its
header length and the pairs of its header; a SHA-256 stands for the content it is of.

**CudaPreflight.** `seen` is what the parent observed itself, `checks` the results of the
children in their order, `output` the file at the path of `--output`, `exit` the status of
the process. `Diagnose` and `VisibleState` are the code's functions; `Answer` is what the
child script reports of a host. PyTorch and the driver are external: `RuntimeWorks` and
`NvmlWorks` say when a check that the script makes succeeds, and `Counted` that
`device_count` asks NVML first in every mode and falls back to the runtime, so that a
check by NVML succeeds on a host where only the runtime works. `steady` remembers whether the
host stood still, because no diagnosis can be true of a host that has changed since.

## What is checked

Every property has a comment in its module that says what it means for the code.

| run | instance | shows |
|---|---|---|
| `store` | 2 writers; contents of length 0, 3 (the limit), 4 (above it) and an unsupported one of 2; chunks of 2; read, write, promotion, unlink failures, crashes; objects removed, altered, resized, replaced from outside | `OnlyWholeAdded`, refinement (`ImplementsCreateOnlyStore`), `PutTerminates` |
| `uploads` | 2 cases, 1 content, 2 uploads, 1 analysis, 1 reconciliation, fair; database, storage and process fail | `MetadataHasObject`, `AcceptedIsPreserved`, `ImplementsEvidenceRegistry`, `OrphansAreExplained`, `CaseStatusTracksEvidence`, `AnswersMatchRuns`, `ReportsHaveFiles`, `ReconcileSparesAccepted`, `RequestsAnswered` |
| `analyses` | 1 case, 1 content, 2 uploads, 2 analyses; storage, verification, engine and result files fail, objects are lost | `ReferentialIntegrity`, `CompensatesUnlessClaimed`, `RunningIsOwned`, `ConflictsAreExplained`, `ImplementsAnalysisClaims` |
| `runner` | pipes of 3 bytes, reads of 1, limit 1, a tool that writes up to 4 bytes to a stream | `DeadOnReturn`, `CaptureBounded`, `SuccessReadsAll`, `OutcomeIsTrue`, `CallReturns` |
| `worker` | 2 jobs, 2 checkpoints, 6 kinds of request, 6 settings, inputs up to 4 bytes with limit 3 and chunks of 2, 1 redirect; every fault | `EvidenceNamesTheModel`, `ResultsAreOfTheInput`, `LateBytesBounded`, `KeptIsReady`, `JobsAnswered` |
| `engine` | 6 kinds of evidence, 4 to 6 documents for each tool whose values agree, differ, are missing, zero or wild; every fault | `VerdictIsTrue`, `SummaryIsSourced`, `MismatchesAreObserved` |
| `control` | 2 remaining paid jobs and one attempt more; 4 budgets, of which two understate or are not covered; poll interval 2 and deadlines of 1 to 3; up to 2 observed workers; every fault | `PaidJobsAuthorized`, `SpendWithinCap`, `ImplementsPrepaidJobs`, `NothingLeftRunning`, `LockMeansQuiet` |
| `cache` | every two ranges over 3 bytes and every three over 2; widths, shapes, names and header lengths at and beyond their limits; caches with one thing wrong each; 7 states the host may bring the cache into | `AcceptedTilesData`, `RefusedForAReason`, `RecordIsOfOneFile` |
| `preflight` | every host whose listing is short, one whose listing is cut off, 22 environments, 2 hosts it may change into; every fault | `DiagnosisNamesCause`, `ReportIsCreated` |

A type invariant is no run of its own: every `TypeOK` is proved, so no run repeats it.
`UploadsConverge`, `DuplicatesShareAssociation`, `TerminalRunsFinal`, `StagingBounded`,
`StagingRemoved`, `PromotedObjectsAreWhole`, `TempRemoved`, `PollsBounded`,
`EvidenceAccepted`, `AbortsHaveCauses`, `CallsKeepTheContract`, `NothingDoneTwice`,
`JobsKept`, and `EndsOnceLate`, `RequestsAdvance`, `CallsAdvance`, `WorkEnds`, which bound
the steps that are left, are proved as well and have no run.

*Why the bounds are enough.* The races of an upload are between two requests for the same
content; the second case adds blobs that are shared across cases, and two writers are a
winner and a loser of each link. Sizes are chosen at and around the limit and not at a
multiple of the chunk. The analysis beside them is there for the crashes of `uploads`,
which come between its commit and its answer and between two result files. Two analyses
are what the partial unique index is about (whether one is active at a time is what
`ImplementsAnalysisClaims` asks), and two uploads give them evidence that comes and goes.
A pipe of three bytes holds more than one read and more than the limit. Two jobs show what
the first leaves for the second. The documents of the engine hold every relation of two
values that a comparison tells apart, at and beyond the tolerance. One submission more
than the two that are paid for is what a cap must refuse, and deadlines lie at and off the
poll interval. Two ranges over three bytes stand in every relation two ranges can have
(apart, touching, overlapping, nested, equal, empty and inside another), and the third
adds the neighbour that a sort may put between them. Every branch of the diagnosis has a
host and an environment that takes it and one that just does not. The theorems below
remove these bounds for safety.

Deadlock is checked where a call must return (`Idle`, `Done` stutter in the final
states, and the operator of `control` can always change the configuration). It is off for
`worker`, whose process waits for ever once all jobs are answered.

### Disagreements between code and documents

Three runs end in a counterexample, each to one sentence of the repository.

* `outage`: two first uploads of the same bytes to *different* cases. The loser's blob
  insert fails on its primary key, the handler looks for an association of its own case
  only, finds none and answers 503 (`repositories.py:231`); ADR 0004 lets cases share
  the blob.
* `unsealed`: a compensation sets a case to CREATED between another upload's read of
  SEALED and its write, which leaves the unchanged column out
  (`repositories.py:228`). The case has evidence and reads CREATED.
* `limit`: a tool exits between the select and the poll of one round; the drain does not
  compare with `max_output_bytes` (`runner.py:149`) and the truncated output is reported
  as SUCCEEDED. `CaptureBounded` is what does hold.

Seven more were met while modelling; the property that does hold is checked instead.

* ADR 0004:49-50 says that a failed final check is compensated before the error is
  returned. An analysis may have claimed the new evidence by then; its foreign key
  refuses the compensation and the error is answered with the association in place
  (`evidence_intake.py:102`). `CompensatesUnlessClaimed` says so.
* structural-analysis.md:49-51 says that parser errors map to FAILED and do not prevent
  other tests. A number that is not finite passes `json.loads` and is refused by
  `canonical_json_bytes`, and so are surrogates; a number with too many digits and deep
  nesting raise something other than `JSONDecodeError`; a negative or overflowing number is
  refused by the summaries; and a tool that survives SIGKILL raises out of the runner. All
  of them end `analyze`. `AbortsHaveCauses` says, for every tool and every document, that
  nothing else of a tool's does; it is proved and has no run.
* An audio summary falls back to the duration of MediaInfo's audio track, and the mismatch
  of durations compares that of the container (`Asked` and `Compared` differ in this).
* cuda_preflight.py:3-5 runs the checks in children "so one failed initialization cannot
  poison the remaining observations". Bytes of a child or of ldconfig that do not decode
  raise an error that nothing catches, and all observations are lost (`UndecodableOutput`).
  `ReportIsCreated` says what is left: a process that succeeds has left a whole report.
* Only the first 64 sorted device paths are looked at (`cuda_preflight.py:255`). Those of
  nvidia-caps sort first, so a GPU with many partitions is told CUDA_DEVICE_NODES_MISSING;
  `DiagnosisNamesCause` exempts such a host.
* A compat library is recognised by the directory it was mapped from. If
  /usr/local/cuda/compat is a link to a versioned directory, the mapped file has the name
  of the latter, and the conflict is found only if `LD_LIBRARY_PATH` shows it. `Causes`
  counts what the code can see.
* `inspect_safetensors` multiplies a shape dimension by dimension and refuses as soon as
  the product passes the bytes there are (`cache_resolver.py:159-166`). An empty tensor of
  shape [3, 0] in a file without data is refused although its range is right, and [0, 3] is
  accepted. `RefusedForAReason` exempts such a file by name (`LateZero`); without the
  exemption TLC finds the refusal.

### Fairness

* `EvidenceStore`, `ForensicApi`: weak fairness for each call or request on its own, and
  only for the steps in which the code goes on (`WriterWorks`, `UploadWorks`,
  `AnalysisWorks`). Failures and crashes are part of those runs and need never happen.
  The thread pool runs every thread that can run; no wait in the code depends on another
  request except for SQLite's lock, whose expiry is the `"db"` fault. Clients need not
  send anything; a request that a crash ended counts as ended, because nothing restarts it.
* `ToolRunner`: weak fairness of the runner's thread and of the passing of time. None
  for the tool, which may hang.
* `ImageWorker`: weak fairness of the process. None for the queue, the cache or the
  restart; each network read has a timeout of its own, so the process never waits
  for the provider for ever.
* `StructuralEngine`, `Phase6Control`, `CheckpointCache`, `CudaPreflight`: none; nothing
  eventual is claimed. `PollsBounded` is a safety property of the clock, because the
  controller cannot be sure of an answer.

## What is proved

TLAPS checks these for all values of the constants; the assumptions are the `ASSUME`s of
the modules (sizes and limits are naturals, chunks are positive, ids are distinct from
the null values, faults are any subset of the listed kinds).

| module | theorems |
|---|---|
| `EvidenceStore_proofs` | `TypeCorrect`, `BoundedStaging`, `RemovedStaging`, `WholeObjects`, `WholeAndNew`, `DuplicatesConverge`, `Refinement`, `CallsEnd` |
| `ForensicApi_proofs` | `TypeCorrect`; runs: `RunsFinal`, `AnswersAgree`, `ReportsReadable`, `RunsAreOwned`, `ConflictsHaveReasons`; tables: `TablesIntegrity`, `RowsHaveObjects`, `AcceptedStays`, `DuplicatesAgree`, `AcceptedIsNoOrphan`, `Compensates`, `Orphans`, `StatusIsTrue`; `UploadsRefineRegistry`, `AnalysesRefineClaims`; `PutsKeepPromise`, `PutsAreOneStep`; `NoneGoesBack`, `NothingTwice` |
| `ImageWorker_proofs` | `WorkerTypes`, `EvidenceIsTrue`, `ResultsAreTrue`, `LateBytesAreBounded`, `TempIsRemoved`, `OnlyReadyIsKept`, `WorkIsFinite`, `NoJobIsLost` |
| `Phase6Control_proofs` | `TypeCorrect`, `JobsAreAuthorized`, `SpendingIsCapped`, `EvidenceIsRight`, `NothingRunsOn`, `PollsAreBounded`, `LockIsQuiet`, `ControlRefinesPrepaid` |
| `StructuralEngine_proofs` | `TypeCorrect`, `VerdictTrue`, `SummarySourced`, `AbortsAreExplained`, `MismatchesObserved` |
| `ToolRunner_proofs` | `TypeCorrect`, `ToolIsDead`, `OutcomeTrue`, `SuccessIsComplete`, `BoundedCapture`, `RunnerIsCall`, `LateCommandsEnd` |
| `CheckpointCache_proofs` | `TypeCorrect`, `AcceptedTiles`, `RefusalsHaveReasons`, `RecordsAgree` |
| `CudaPreflight_proofs` | `TypeCorrect`, `TrueDiagnoses`, `CreatedReports` |

The arguments:

* *Store.* A staging inode is a faithful prefix of its call's content and is sealed only
  when whole (`StagingFaithful`); only `Link` makes an inode visible, and only into an
  empty path. The refinement adds a table that relates each program counter to a phase
  of the abstract put.
* *Runs.* `RunInv(a)` ties the row of a run, the counter of its request and its result
  files together: RUNNING exactly between the claim and the terminal transaction, settled
  as it will be answered between that and the answer, the files sealed in their order.
  `ConflictInv` keeps the reason for which a claim met a conflict until it is explained: no
  step undoes it (`ReasonsStay`), because an id that is gone is not issued again and a run
  that has begun keeps its evidence.
* *Tables.* `KeysInv`: an id names one upload's case and content, and a request's
  `asset` is a row or gone. `ReferentialIntegrity` follows with it. `StoreInv` adds what
  each position of an upload knows about its object; from it come `MetadataHasObject`,
  `AcceptedIsPreserved` and the rest. `OrphanInv` explains objects without a row,
  `StatusInv` says which statuses a session may have read given what exists now. The
  status is not inductive alone: a session writes a status that it read earlier.
* *The API's refinements.* `ClaimTable` and `ReplyKinds` read the claim and the answer off
  a row and a counter; `OneRequestShows` and `OneUploadShows` say that a step shows in one
  claim or one answer only. Each step of a request is then an abstract step or a stutter
  (`RequestRefines`, `UploadRefines`). What makes the cases work are the invariants: a
  settled claim needs `ReportsHaveFiles`, a refused claim the run that the conflict
  predicate names and the keys, an acceptance `IssuedInv` (an id names for ever what its
  upload brought) and `StoreInv`, a withdrawal the foreign key of `ReferentialIntegrity`.
* *One step for a put.* `OverInv` says that a call is about the bytes of its upload and that
  no call begins before its upload gets to it. With that `SameOwnStep` and
  `SameAnalysisStep` carry every step outside of a call over to `ForensicApi` as it is, and
  `SamePutStep` shows that of a call one step is its put, one that raises its failure, and the
  others nothing; a call that was cut off after its link is a crash of an upload that has
  stored its bytes (`SameCrash`).
* *Runner.* `Stages` (what a position of the thread implies for the process), `Causes`
  (why an outcome was settled), `Heard` (a stream leaves the selector only at its true
  end unless a child holds it) and `Capture` (only the drain after an exit reads past
  the limit unchecked, and once).
* *Engine.* `Linked`: the result of an adapter is `Parse` of what its tool did, so that
  what `analyze` reads is what the tools told (`OutputsAreTold`); `Order` says which
  adapters have answered at a stage. The properties are then facts about the pure
  operators (`SummaryTold`, `VerdictTold`, `MismatchTold`) at the one step that reports.
* *Phase 6 control.* `Ledger`: a valid budget prices all slots, whichever it is, so
  `Slots` times the sum committed is at most the number of jobs sent times the cap; with
  no more jobs than slots the sum is within it (`WithinCap`). `Approved` says on what
  terms each job was sent and `Advances` what may still happen to one, so that what a
  poll told stays true (`ToldStays`). `Clock` relates the time left to the pauses. `Quiet`:
  while the maximum is zero, no step lists another worker than the lock has read.
* *Its refinement.* A step that sends no job keeps the terms of all jobs and the last words
  of those that have ended (`LedgerAdvances`), so it can only end some. `BuyStep` takes the
  funds from `JobsAreAuthorized` and `SpendingIsCapped` of the state after the submission.
  What is told needs that a job that was read as ended cannot change its word
  before the call ends, and that a call in hand has told nothing yet (`SilentKept`).
* *Worker.* `Position` and `Started` say what a stage implies for the job in hand and for
  what is kept; `Provenance` follows a checkpoint from its hash over the verification to
  the loaded model, which is where a replaced file enters; `Transfer` shows that late
  bytes are only ever pending ones. `Answered` carries both over to the answer, which is
  given stages after the fact it states.
* *Cache.* `Tiles` is the invariant of the loop over the sorted ranges: those that were
  placed cover the bytes below `expected` exactly once and no empty one lies inside
  another. It is kept because the next range starts at `expected` and `Passed` bounds it;
  at the end `expected` is all data, which is `LaidOut`. For refusals the argument runs
  backwards: what was placed sorts before the rest (`Sorted`), so in a sound file the
  least remaining range has to start at `expected` (`NextStartsHere`). That a tensor which
  has bytes never fails the check of its partial products is a fact about a product
  computed by recursion, which induction over data would give; `Least` (a set of naturals
  that is not empty has a least element) stands in for it, in `ProductsExist`,
  `ElementsAreProducts` and `ProductsGrow`, so that `ProductsFit` leaves the late zero as
  the only exemption. `Kept`, `Located` and `Identified` say what each look has
  established of a cache that stood still, and what remains if it did not.
* *Preflight.* `Known` says what the parent's looks and each ended child mean for a host
  that stood still: a child's answer is that of this host, or it is silent. What
  `VisibleState` makes of the environment is settled apart from it (`EnvironmentMeans`),
  and so is what the answers mean (`AnswersMean`). The diagnosis is then a chain of
  conditions with a known meaning each. The invariant is needed because the diagnosis
  reads observations of four different moments.

* *The runner's contract.* `RunnerIsCall` maps each step of `_execute` to a step of
  `ToolCall` or a stutter. `Stages` and `Causes` supply what an answer needs: at the return
  the tool is gone, an outcome that says it never started was settled without a process, and
  a success is the exit status that was waited for. The engine's proofs assume of an answer
  only that it is `Promised`, which is what the runner's proof gives.
* *Progress.* For the four eventual properties the part that is a fact about steps is
  proved. A rank (`StepsLeft`, `UploadLeft`, `AnalysisLeft`) says how many steps are left at
  most from a position; each step of the actor lowers it and nothing another actor, the
  environment or a fault does raises it, so no retry, redirect, chunk, race or replaced file
  can go on for ever. The invariants are needed for its bounds: a download holds no more
  than limit and chunk (`Transfer`), a staging file no more than the limit
  (`StagingFaithful`), a late runner has no more streams than are ready. `NothingDoneTwice`
  and `JobsKept` say that the code's own refusals ("already terminal", "already exists") do
  not stop a request and that no job is dropped on the way.

Only model-checked: liveness itself (`PutTerminates`, `RequestsAnswered`, `CallReturns`,
`JobsAnswered`), which is out of the prover's reach. To the theorems on progress it adds
that some step is always possible until the end, and fairness.

## What is left out

* Nothing recovers a RUNNING row after a crash, or after a database failure in the
  failure handler. The models show such rows (`RunningIsOwned` excludes both faults);
  there is no code to specify that would end them.
* Timestamps, so which report counts as the latest; versions, messages and error codes;
  filenames and declared media types beyond "rejected".
* The bytes that tools read from an object after its verification: the store is
  create-only and the code promises nothing about tampering in that window.
* In the engine: fields that are copied without a decision, the redaction of paths, the
  texts of findings; numbers are compared as the text that was printed.
* In Phase 6 control: the validation of a proposal's fields, the check of a worker's
  assignment, redaction, the pauses between HTTP attempts, and
  `retry_approved_transient_failure`, which always raises. Not promised by the code and
  therefore no property: an error of the transport in a poll leaves its job unattended
  (`interrupted`), so does a cancellation that is not confirmed, after which the job may
  run on to the end that its budget has paid for, one approval may serve two submissions,
  and `validate_completed_output` compares neither the job nor the release of a response
  with the approved ones.
* In the worker: address checks and the transport (a refused connection), the command for
  a single local event, numbers. Two checkpoints are told apart by their logits, so the
  parity check compares contents.
* In the cache: which of the directories is missing, a link or outside (one fact), the
  reading of the manifest, headers that exhaust Python's recursion or memory, the dtypes
  beyond the width of an element. A hash names one content, so no collisions.
* In the preflight: the fields that are copied into the report and the sanitising of
  texts, except where the code computes with a sanitised value. Values that CUDA and the
  code read differently are modelled as CUDA reads them (`Shown`); a value that no pattern
  of the code takes is one class ("other"), and of it nothing is claimed.
* Report rendering, image decoding and preprocessing, contracts, migrations and the
  release scripts keep no state between calls and are not planned as state machines.

## Plan

1. Done: `EvidenceStore` and `CreateOnlyStore`; `Repository`, `EvidenceIntake`,
   `StructuralAnalysis`, `ForensicApi`, `ApiOverStore`; `ToolRunner`; `ImageWorker`;
   `StructuralEngine`; `Phase6Control`; the theorems above.
2. Done: `SafetensorsLayout`, `CheckpointCache` and `CudaPreflight`, with their theorems;
   liveness of requests beside failures and crashes.
3. The proposal of `Phase6Control` with its partition of GPU types and the assignments that
   are checked against it, then the contract of a response field by field.
4. `Phase6Control` composed with `ImageWorker`: what follows for an accepted response from
   the release that was approved, given that the code does not compare the two.
5. `ImageWorker`'s resolution as a refinement of `CheckpointCache`.
