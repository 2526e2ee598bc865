---------------------------- MODULE ImageWorker ----------------------------
(***************************************************************************)
(* One process of the image worker (workers/image-community): its start,   *)
(* the cached services its handler keeps between jobs, and the three kinds *)
(* of job it runs: checkpoint bootstrap, GPU validation and ordinary       *)
(* detector jobs with their download.  The checkpoint is a file in a cache *)
(* that the process does not own and that may be replaced at any time.     *)
(*                                                                         *)
(* An exception carries only that it was raised: its code and its text are *)
(* left out.  Numerical work is the question whether it succeeds, and two  *)
(* checkpoints are told apart by their logits.                             *)
(***************************************************************************)
EXTENDS Naturals

CONSTANTS
    Jobs,          \* the jobs the queue hands to this process
    Requests,      \* what a job may ask for, a set of records
    Configs,       \* the settings the process may be started with
    Contents,      \* contents of the checkpoint file, told apart by SHA-256
    PinnedHash,    \* the hash in the model manifest
    MaxInputBytes, \* settings.max_input_bytes
    ChunkBytes,    \* settings.download_chunk_bytes
    MaxRedirects,  \* settings.max_redirects
    Faults         \* which of "swap", "gpu", "disk", "network", "unlink" occur

Missing  == "missing"   \* no usable checkpoint file
NoHash   == "no hash"   \* the cache was not resolved yet
NoModel  == "no model"  \* no model is loaded
NoJob    == "no job"
MockModel == "mock"     \* the deterministic mock backend

Request == [op : {"checkpoint_bootstrap", "gpu_validation", "detector", "other"},
            hash : Contents, size : Nat, valid : BOOLEAN]

\* config.ImageCommunitySettings: validate_mode refuses every other combination.
Config == {c \in [production : BOOLEAN, mock : BOOLEAN, bootstrap : BOOLEAN,
                  phase6Only : BOOLEAN, observed : BOOLEAN] :
              c.production => ~c.mock}

ASSUME WorkerAssumption ==
    /\ Requests \subseteq Request
    /\ Configs \subseteq Config
    /\ PinnedHash \in Contents
    /\ Contents \cap {Missing, NoHash, NoModel, MockModel} = {}
    /\ NoJob \notin Jobs
    /\ MaxInputBytes \in Nat /\ ChunkBytes \in 1..MaxInputBytes
    /\ MaxRedirects \in Nat
    /\ Faults \subseteq {"swap", "gpu", "disk", "network", "unlink"}

VARIABLES
    config,     \* ImageCommunitySettings and the status of the manifest's hash
    file,       \* the content of the cached checkpoint, or Missing
    stage,      \* what the process does next
    checkpoint, \* CachedCheckpoint.sha256, as resolved when the process started
    verified,   \* ensure_loaded has verified the file and not loaded it yet
    raced,      \* history: the file was replaced between that and the load
    model,      \* the content the loaded model was read from
    ready,      \* _phase6_service or _default_handler is kept
    job,        \* the job in hand
    request,    \* what each job asked for
    fetch,      \* the download of the job in hand
    temp,       \* jobs with a file below the temporary root
    stuck,      \* history: jobs whose file could not be removed
    outcome,    \* what the job in hand will be answered after its cleanup
    answers     \* what each job was answered

vars == <<config, file, stage, checkpoint, verified, raced, model, ready, job,
          request, fetch, temp, stuck, outcome, answers>>
settings == <<config>>
backend == <<checkpoint, verified, raced, model>>
disk == <<temp, stuck>>

Startup == {"boot", "resolve"}
JobStages == {"dispatch", "build", "identity", "fixture", "fixture decode",
              "adapter", "parity", "repeat", "negative", "policy", "connect",
              "body", "decode", "inference", "cleanup"}
Stages == Startup \cup JobStages \cup {"probe", "checks", "waiting", "exited"}

\* total bytes are written and pending ones held back by iter_bytes; genuine: all
\* are those of the expected hash; history: overdue ones came after the deadline.
Fetch == [total : 0..MaxInputBytes, pending : 0..(ChunkBytes - 1), genuine : BOOLEAN,
          late : BOOLEAN, overdue : Nat, redirects : 0..MaxRedirects]
NoFetch == [total |-> 0, pending |-> 0, genuine |-> TRUE, late |-> FALSE,
            overdue |-> 0, redirects |-> 0]

NoAnswer == [kind |-> "none"]
Error == [kind |-> "error"]
Evidence == [kind : {"receipt", "passed"}, named : Contents, ran : Contents, raced : BOOLEAN]
Result == [kind : {"result"}, total : Nat, genuine : BOOLEAN, overdue : Nat]
Answer == {NoAnswer, Error} \cup Evidence \cup Result

\* The job in hand is for the Phase 6 service, not for the ordinary handler.
Phase6Operation(r) == r.op \in {"checkpoint_bootstrap", "gpu_validation"}
Phase6Job == job # NoJob /\ Phase6Operation(request[job])

Init ==
    /\ config \in Configs
    /\ file \in Contents \cup {Missing}
    /\ stage = "boot"
    /\ checkpoint = NoHash /\ verified = FALSE /\ raced = FALSE /\ model = NoModel
    /\ ready = FALSE
    /\ job = NoJob
    /\ request \in [Jobs -> Requests]
    /\ fetch = NoFetch
    /\ temp = {} /\ stuck = {}
    /\ outcome = NoAnswer
    /\ answers = [j \in Jobs |-> NoAnswer]

----------------------------------------------------------------------------
(* The end of a job and of a start.                                        *)

\* runpod_handler turns whatever was raised or returned into the job's answer.
Reply(a) ==
    /\ answers' = [answers EXCEPT ![job] = a]
    /\ job' = NoJob
    /\ stage' = "waiting"
    /\ fetch' = NoFetch
    /\ outcome' = NoAnswer

\* A failure while the service or the handler is built: nothing of it is kept.
\* In main() the process ends; in a job the job is answered with the error.
InitializationFails ==
    /\ checkpoint' = NoHash /\ verified' = FALSE /\ model' = NoModel
    /\ IF job = NoJob
       THEN stage' = "exited" /\ UNCHANGED <<job, fetch, outcome, answers>>
       ELSE Reply(Error)
    /\ UNCHANGED <<settings, file, raced, ready, request, disk>>

\* A failure while a job runs: the services stay for the next job.
JobFails ==
    /\ Reply(Error)
    /\ UNCHANGED <<settings, file, checkpoint, raced, model, ready, request>>

StepFails == IF ready THEN JobFails /\ verified' = FALSE /\ UNCHANGED disk
                      ELSE InitializationFails

Goto(s) == stage' = s /\ UNCHANGED <<job, fetch, outcome, answers>>

----------------------------------------------------------------------------
(* Starting: main and _initialize_phase6_worker.                           *)

\* Only a production process builds its service before it takes jobs.
Boot ==
    /\ stage = "boot"
    /\ Goto(IF config.production THEN "resolve" ELSE "waiting")
    /\ UNCHANGED <<settings, file, backend, ready, request, disk>>

\* The platform starts a process that ended again; its memory is gone.
Restart ==
    /\ stage = "exited"
    /\ raced' = FALSE
    /\ Goto("boot")
    /\ UNCHANGED <<settings, file, checkpoint, verified, model, ready, request, disk>>

\* resolve_runpod_checkpoint and RunPodModelCacheResolver.resolve: outside
\* bootstrap mode the manifest has to hold an observed hash, and the file's.
Resolvable ==
    /\ file \in Contents
    /\ ~config.bootstrap => config.observed /\ file = PinnedHash

Resolve ==
    /\ stage = "resolve"
    /\ Resolvable
    /\ config.phase6Only
    /\ checkpoint' = file
    /\ IF config.bootstrap THEN Goto("waiting") /\ ready' = TRUE
                           ELSE Goto("probe") /\ UNCHANGED ready
    /\ UNCHANGED <<settings, file, verified, raced, model, request, disk>>

\* The cache cannot be resolved, or the process is not confined to Phase 6.
ResolveFails ==
    /\ stage = "resolve"
    /\ ~Resolvable \/ ~config.phase6Only
    /\ InitializationFails

----------------------------------------------------------------------------
(* WorkerFitnessCheck.check: the probe inference loads the model.           *)

\* Mutant of ExpectedHash: the hash seen at the start is not handed on, the file is taken as it is.
ExpectedWhateverIsThere == file

\* The hash the backend was built with.
ExpectedHash == IF config.production THEN checkpoint ELSE PinnedHash

MustLoad == stage = "probe" /\ ~config.mock /\ model = NoModel

VerifyCheckpoint ==
    /\ MustLoad /\ ~verified
    /\ file = ExpectedHash
    /\ verified' = TRUE
    /\ raced' = FALSE
    /\ UNCHANGED <<settings, file, stage, checkpoint, model, ready, job, request,
                   fetch, disk, outcome, answers>>

VerifyFails ==
    /\ MustLoad /\ ~verified
    /\ file # ExpectedHash
    /\ StepFails

\* load_model opens the path again: whatever is there now becomes the model.
LoadModel ==
    /\ MustLoad /\ verified
    /\ file \in Contents
    /\ model' = file
    /\ verified' = FALSE
    /\ UNCHANGED <<settings, file, stage, checkpoint, raced, ready, job, request,
                   fetch, disk, outcome, answers>>

LoadFails ==
    /\ MustLoad /\ verified
    /\ file = Missing \/ "gpu" \in Faults
    /\ StepFails

\* The probe ran and its output has the pinned shape.
Probe ==
    /\ stage = "probe"
    /\ ~MustLoad
    /\ IF job # NoJob /\ ~Phase6Operation(request[job])
       THEN ready' = TRUE /\ Goto("policy")
       ELSE UNCHANGED ready
            /\ Goto(IF Phase6Job /\ request[job].op = "gpu_validation" THEN "adapter"
                                                                      ELSE "checks")
    /\ model' = IF config.mock THEN MockModel ELSE model
    /\ UNCHANGED <<settings, file, checkpoint, verified, raced, request, disk>>

\* Too little free GPU memory, a CUDA error, or no writable temporary root.
ProbeFails ==
    /\ stage = "probe"
    /\ ~MustLoad
    /\ "disk" \in Faults \/ ("gpu" \in Faults /\ ~config.mock)
    /\ StepFails

\* _detailed_fitness_checks.  Only a bootstrap does not compare with the manifest.
ChecksPass ==
    /\ file # Missing
    /\ config.bootstrap \/ checkpoint = PinnedHash
    /\ model # NoModel

EvidenceOf(kind) == [kind |-> kind, named |-> checkpoint, ran |-> model, raced |-> raced]

Checks ==
    /\ stage = "checks"
    /\ ChecksPass
    /\ IF job = NoJob
       THEN ready' = TRUE /\ Goto("waiting")
       ELSE /\ UNCHANGED ready
            /\ Reply(EvidenceOf(IF config.bootstrap THEN "receipt" ELSE "passed"))
    /\ UNCHANGED <<settings, file, backend, request, disk>>

ChecksFail ==
    /\ stage = "checks"
    /\ ~ChecksPass \/ "gpu" \in Faults
    /\ StepFails

----------------------------------------------------------------------------
(* Taking a job: runpod_handler.                                           *)

Take(j) ==
    /\ stage = "waiting"
    /\ answers[j] = NoAnswer
    /\ job' = j
    /\ stage' = "dispatch"
    /\ UNCHANGED <<settings, file, backend, ready, request, fetch, disk, outcome, answers>>

\* The operation is served here: by the cached Phase 6 service of a production
\* process, or by the ordinary handler of any other.
Served == IF Phase6Job THEN config.production ELSE ~config.phase6Only

Dispatch ==
    /\ stage = "dispatch"
    /\ Served
    /\ Goto(IF Phase6Job THEN "identity" ELSE IF ready THEN "policy" ELSE "build")
    /\ UNCHANGED <<settings, file, backend, ready, request, disk>>

\* A job this endpoint does not take, or a Phase 6 job without a real backend.
Refuse ==
    /\ stage = "dispatch"
    /\ ~Served
    /\ JobFails
    /\ UNCHANGED <<verified, disk>>

\* Mutant of Build: the handler is kept before its fitness check.
BuildKeeps ==
    /\ stage = "build"
    /\ ready' = TRUE
    /\ Goto("probe")
    /\ UNCHANGED <<settings, file, backend, request, disk>>

\* build_ready_handler: the handler is kept only when its fitness check passes.
Build ==
    /\ stage = "build"
    /\ Goto("probe")
    /\ UNCHANGED <<settings, file, backend, ready, request, disk>>

----------------------------------------------------------------------------
(* checkpoint_bootstrap and gpu_validation.                                *)

\* _validate_common, the mode of this release and, for a validation, the four
\* comparisons of the requested checkpoint with the manifest and the cache.
IdentityHolds ==
    LET r == request[job] IN
    /\ r.valid
    /\ r.op = "checkpoint_bootstrap" => config.bootstrap
    /\ r.op = "gpu_validation" =>
          /\ ~config.bootstrap
          /\ config.observed
          /\ r.hash = PinnedHash /\ r.hash = checkpoint

Identity ==
    /\ stage = "identity"
    /\ IdentityHolds
    /\ Goto(IF request[job].op = "checkpoint_bootstrap" THEN "probe" ELSE "fixture")
    /\ UNCHANGED <<settings, file, backend, ready, request, disk>>

IdentityFails ==
    /\ stage = "identity"
    /\ ~IdentityHolds
    /\ StepFails

\* _decode_generated_fixture writes the fixture to a temporary file ...
WriteFixture ==
    /\ stage = "fixture"
    /\ temp' = temp \cup {job}
    /\ Goto("fixture decode")
    /\ UNCHANGED <<settings, file, backend, ready, request, stuck>>

\* ... decodes it and removes the file in its finally clause, decoded or not.
DecodeFixture ==
    /\ stage = "fixture decode"
    /\ temp' = temp \ {job}
    /\ Goto("probe")
    /\ UNCHANGED <<settings, file, backend, ready, request, stuck>>

FixtureFails ==
    /\ stage = "fixture decode"
    /\ "disk" \in Faults
    /\ temp' = temp \ {job}
    /\ JobFails
    /\ UNCHANGED <<verified, stuck>>

FixtureStays ==
    /\ stage = "fixture decode"
    /\ "unlink" \in Faults
    /\ stuck' = stuck \cup {job}
    /\ JobFails
    /\ UNCHANGED <<verified, temp>>

\* The steps on the GPU, in their order.  The reference of the parity check is
\* read from the file again, without a verification, and has to agree with the
\* loaded model; the negative tests only need a file that can be hashed.
Successor == [adapter |-> "parity", parity |-> "repeat", repeat |-> "negative",
              negative |-> "checks"]

StepHolds ==
    /\ stage = "parity" => file = model
    /\ stage = "negative" => file # Missing

ValidationStep ==
    /\ stage \in DOMAIN Successor
    /\ StepHolds
    /\ Goto(Successor[stage])
    /\ UNCHANGED <<settings, file, backend, ready, request, disk>>

ValidationFails ==
    /\ stage \in DOMAIN Successor
    /\ ~StepHolds \/ ("gpu" \in Faults /\ stage # "negative")
    /\ StepFails

----------------------------------------------------------------------------
(* Detector jobs: ImageCommunityJobService.execute and HttpsInputFetcher.  *)

Acceptable(r) == r.op = "detector" /\ r.valid /\ r.size \in 1..MaxInputBytes

Policy ==
    /\ stage = "policy"
    /\ Acceptable(request[job])
    /\ Goto("connect")
    /\ UNCHANGED <<settings, file, backend, ready, request, disk>>

\* Not a DetectorJob, an expired or foreign one, or one that declares too much.
PolicyRefuses ==
    /\ stage = "policy"
    /\ ~Acceptable(request[job])
    /\ StepFails

\* A 200 response whose headers agree with the job: its body is written to a
\* fresh temporary file.
Connect ==
    /\ stage = "connect"
    /\ temp' = temp \cup {job}
    /\ Goto("body")
    /\ UNCHANGED <<settings, file, backend, ready, request, stuck>>

\* Mutant of Redirect: every response starts to count again.
RedirectRecounted ==
    /\ stage = "connect"
    /\ fetch' = [fetch EXCEPT !.redirects = (@ + 1) % (MaxRedirects + 1)]
    /\ UNCHANGED <<settings, file, stage, backend, ready, job, request, disk, outcome, answers>>

Redirect ==
    /\ stage = "connect"
    /\ fetch.redirects < MaxRedirects
    /\ fetch' = [fetch EXCEPT !.redirects = @ + 1]
    /\ UNCHANGED <<settings, file, stage, backend, ready, job, request, disk, outcome, answers>>

\* A destination, redirect, status or header that is refused, or no response.
ConnectFails ==
    /\ stage = "connect"
    /\ "network" \in Faults
    /\ StepFails

\* total_timeout_seconds have passed; nobody is told.
Deadline ==
    /\ stage \in {"connect", "body"}
    /\ ~fetch.late
    /\ fetch' = [fetch EXCEPT !.late = TRUE]
    /\ UNCHANGED <<settings, file, stage, backend, ready, job, request, disk, outcome, answers>>

\* Mutant of Accepted: the deadline holds for the response only, not for its body.
AcceptedLate(f) == f.total + f.pending <= request[job].size

\* iter_bytes hands out a chunk when it is complete or the body has ended.
Accepted(f) == ~f.late /\ f.total + f.pending <= request[job].size
Written(f) == [f EXCEPT !.total = @ + f.pending, !.pending = 0]

\* One more byte of the body: the expected one or another.
Longer(good) ==
    [fetch EXCEPT !.pending = @ + 1,
                  !.genuine = @ /\ good /\ fetch.total + fetch.pending < request[job].size,
                  !.overdue = IF fetch.late THEN @ + 1 ELSE @]

Receive ==
    /\ stage = "body"
    /\ \E good \in BOOLEAN :
         LET f == Longer(good) IN
         /\ f.pending < ChunkBytes \/ Accepted(f)
         /\ fetch' = IF f.pending < ChunkBytes THEN f ELSE Written(f)
    /\ UNCHANGED <<settings, file, stage, backend, ready, job, request, disk, outcome, answers>>

\* Mutant of Complete: a body of the right length is accepted.
CompleteUnhashed(f) == f.total = request[job].size

Complete(f) == f.total = request[job].size /\ f.genuine

\* The body ends: length and hash are compared with the job.
EndOfBody ==
    /\ stage = "body"
    /\ fetch.pending = 0 \/ Accepted(fetch)
    /\ Complete(Written(fetch))
    /\ fetch' = Written(fetch)
    /\ stage' = "decode"
    /\ UNCHANGED <<settings, file, backend, ready, job, request, disk, outcome, answers>>

\* Every way in which a body is refused; the partial file is removed ...
BodyRefused ==
    \/ fetch.pending + 1 = ChunkBytes /\ ~Accepted(Longer(TRUE))
    \/ fetch.pending > 0 /\ ~Accepted(fetch)
    \/ ~Complete(Written(fetch))
    \/ {"network", "disk"} \cap Faults # {}

BodyFails ==
    /\ stage = "body"
    /\ BodyRefused
    /\ temp' = temp \ {job}
    /\ JobFails
    /\ UNCHANGED <<verified, stuck>>

\* ... unless that fails as well.
BodyStays ==
    /\ stage = "body"
    /\ BodyRefused
    /\ "unlink" \in Faults
    /\ stuck' = stuck \cup {job}
    /\ JobFails
    /\ UNCHANGED <<verified, temp>>

Ends(a) ==
    /\ outcome' = a
    /\ stage' = "cleanup"
    /\ UNCHANGED <<settings, file, backend, ready, job, request, fetch, disk, answers>>

Decode ==
    /\ stage = "decode"
    /\ stage' = "inference"
    /\ UNCHANGED <<settings, file, backend, ready, job, request, fetch, disk, outcome, answers>>

Infer ==
    /\ stage = "inference"
    /\ Ends([kind |-> "result", total |-> fetch.total, genuine |-> fetch.genuine,
             overdue |-> fetch.overdue])

\* The image is refused or the backend fails, between the fetch and the result.
AnalysisFails ==
    /\ stage = "decode" \/ (stage = "inference" /\ "gpu" \in Faults)
    /\ Ends(Error)

\* The finally clause of execute.
Cleanup ==
    /\ stage = "cleanup"
    /\ temp' = temp \ {job}
    /\ Reply(outcome)
    /\ UNCHANGED <<settings, file, backend, ready, request, stuck>>

\* An OSError of the removal replaces the result.
CleanupFails ==
    /\ stage = "cleanup"
    /\ "unlink" \in Faults
    /\ stuck' = stuck \cup {job}
    /\ Reply(Error)
    /\ UNCHANGED <<settings, file, backend, ready, request, temp>>

----------------------------------------------------------------------------
\* Somebody replaces, removes or restores the checkpoint in the cache.
Swap ==
    /\ "swap" \in Faults
    /\ file' \in (Contents \cup {Missing}) \ {file}
    /\ raced' = (raced \/ verified)
    /\ UNCHANGED <<settings, stage, checkpoint, verified, model, ready, job, request,
                   fetch, disk, outcome, answers>>

\* The process: one of these steps is its next whenever it is not waiting.
Process ==
    \/ Boot \/ Resolve \/ ResolveFails
    \/ VerifyCheckpoint \/ VerifyFails \/ LoadModel \/ LoadFails
    \/ Probe \/ ProbeFails \/ Checks \/ ChecksFail
    \/ Dispatch \/ Refuse \/ Build
    \/ Identity \/ IdentityFails
    \/ WriteFixture \/ DecodeFixture \/ FixtureFails \/ FixtureStays
    \/ ValidationStep \/ ValidationFails
    \/ Policy \/ PolicyRefuses
    \/ Connect \/ Redirect \/ ConnectFails
    \/ Receive \/ EndOfBody \/ BodyFails \/ BodyStays
    \/ Decode \/ Infer \/ AnalysisFails \/ Cleanup \/ CleanupFails

Next ==
    \/ Process
    \/ Restart \/ Deadline \/ Swap
    \/ \E j \in Jobs : Take(j)

Spec == Init /\ [][Next]_vars

\* The process, a single thread, keeps running.
FairSpec == Spec /\ WF_vars(Process)

----------------------------------------------------------------------------
(* Properties.                                                             *)

TypeOK ==
    /\ config \in Configs
    /\ file \in Contents \cup {Missing}
    /\ stage \in Stages
    /\ checkpoint \in Contents \cup {NoHash}
    /\ verified \in BOOLEAN /\ raced \in BOOLEAN /\ ready \in BOOLEAN
    /\ model \in Contents \cup {NoModel, MockModel}
    /\ job \in Jobs \cup {NoJob}
    /\ request \in [Jobs -> Requests]
    /\ fetch \in Fetch
    /\ temp \subseteq Jobs /\ stuck \subseteq Jobs
    /\ outcome \in Answer
    /\ answers \in [Jobs -> Answer]

\* An artifact states one checkpoint hash although the file is read three times and
\* may be replaced between any two: it names the hash that the job asked for and the
\* manifest pins, and the model that ran was read from that content, unless the file
\* was replaced in the short time between its verification and the load.
EvidenceNamesTheModel ==
    \A j \in Jobs : answers[j] \in Evidence =>
        /\ answers[j].ran = answers[j].named \/ answers[j].raced
        /\ answers[j].kind = "passed" => answers[j].named = PinnedHash
                                        /\ request[j].hash = PinnedHash

\* A detector result is about the whole input of its job and nothing else, for
\* any length, chunk size and provider.
ResultsAreOfTheInput ==
    \A j \in Jobs : answers[j] \in Result =>
        /\ request[j].op = "detector" /\ request[j].valid
        /\ answers[j].total = request[j].size /\ answers[j].total <= MaxInputBytes
        /\ answers[j].genuine

\* The total timeout: although it is looked at only when a chunk is complete, less
\* than a chunk is read after it, and a result holds no byte that came late.
LateBytesBounded ==
    /\ fetch.overdue < ChunkBytes
    /\ \A j \in Jobs : answers[j] \in Result => answers[j].overdue = 0

\* Whatever way a job ends, its temporary file is gone before the next job is taken,
\* unless the removal itself failed.
TempRemoved == temp \subseteq stuck \cup {job}

\* The handler and the service that are kept between jobs have passed their checks:
\* a failed start leaves nothing that a later job would be served by.
KeptIsReady ==
    ready =>
        /\ config.production => config.phase6Only /\ checkpoint # NoHash
        /\ config.production /\ ~config.bootstrap => checkpoint = PinnedHash
        /\ (config.bootstrap /\ config.production) \/ model # NoModel

\* Every job that is taken is answered, whatever the cache, the GPU, the disk and
\* the provider do.
JobsAnswered == \A j \in Jobs : job = j ~> answers[j] # NoAnswer

\* How many steps are left at most until the process waits again or has ended: its
\* stages in their order, and within a stage what its own loop has yet to do.
DownloadSteps == MaxInputBytes + ChunkBytes + 4
ProbeSteps == DownloadSteps + MaxRedirects + 3
StepsLeft ==
    IF stage \in {"boot", "dispatch"} THEN ProbeSteps + 6
    ELSE IF stage = "identity" THEN ProbeSteps + 5
    ELSE IF stage = "fixture" THEN ProbeSteps + 4
    ELSE IF stage \in {"resolve", "build", "fixture decode"} THEN ProbeSteps + 3
    ELSE IF stage = "probe"
    THEN ProbeSteps + (IF ~MustLoad THEN 0 ELSE IF verified THEN 1 ELSE 2)
    ELSE IF stage = "policy" THEN DownloadSteps + MaxRedirects + 2
    ELSE IF stage = "connect" THEN DownloadSteps + MaxRedirects + 1 - fetch.redirects
    ELSE IF stage = "body" THEN DownloadSteps - (fetch.total + fetch.pending)
    ELSE IF stage = "adapter" THEN 5
    ELSE IF stage = "parity" THEN 4
    ELSE IF stage \in {"repeat", "decode"} THEN 3
    ELSE IF stage \in {"negative", "inference"} THEN 2
    ELSE IF stage \in {"checks", "cleanup"} THEN 1
    ELSE 0

\* Each step of the process brings the end of what it does nearer, and neither the cache
\* nor a deadline puts it off: no checkpoint is verified again and again while it is
\* replaced, no provider keeps a download going, no failure leads to another try.
WorkEnds ==
    [][stage \notin {"waiting", "exited"} =>
         /\ StepsLeft' \in 0..StepsLeft
         /\ Process => StepsLeft' < StepsLeft]_vars

\* runpod_handler: a job that was taken is let go with an answer, its first and only one,
\* and none is taken meanwhile, whatever fails between, the cleanup included.
JobsKept ==
    [][\A j \in Jobs :
         /\ job = j /\ job' # j => answers[j] = NoAnswer /\ answers'[j] # NoAnswer
         /\ answers'[j] # answers[j] => job = j /\ answers[j] = NoAnswer]_vars
=============================================================================
