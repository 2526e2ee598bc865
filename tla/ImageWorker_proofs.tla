------------------------- MODULE ImageWorker_proofs -------------------------
(***************************************************************************)
(* What the image worker promises for every set of jobs, requests,         *)
(* settings and checkpoints, any limits and any faults.                    *)
(*                                                                         *)
(* The invariant has five parts.  Position says what the stage implies for *)
(* the job in hand and for what is kept.  Provenance follows the content   *)
(* of the checkpoint from its hash to the loaded model.  Transfer is about *)
(* the download, Disk about the temporary files, Answered about answers.   *)
(***************************************************************************)
EXTENDS ImageWorker, TLAPS

Unready == {"boot", "resolve", "exited"}
ValidationStages == {"fixture", "fixture decode", "adapter", "parity", "repeat", "negative"}
DetectorStages == {"policy", "connect", "body", "decode", "inference", "cleanup"}
FetchStages == DetectorStages \ {"policy"}

\* What the identity check of a Phase 6 job has established.
Identified ==
    /\ config.production
    /\ request[job].op = "checkpoint_bootstrap" => config.bootstrap
    /\ request[job].op = "gpu_validation" =>
          ~config.bootstrap /\ request[job].hash = PinnedHash /\ checkpoint = PinnedHash

\* A production process is confined, knows its checkpoint and serves only once its
\* service is kept; any other process only ever probes for a job.
Started ==
    IF config.production
    THEN stage \notin Unready =>
            /\ config.phase6Only /\ checkpoint \in Contents
            /\ config.bootstrap \/ checkpoint = PinnedHash
            /\ ready = (job # NoJob \/ stage = "waiting")
            /\ job = NoJob /\ stage # "waiting" => ~config.bootstrap
    ELSE /\ stage \notin {"resolve", "exited"}
         /\ stage \in {"probe", "checks"} => job \in Jobs

Position ==
    /\ stage \in Unready \cup {"waiting"} => job = NoJob
    /\ stage \in JobStages => job \in Jobs
    /\ stage \in Unready => ~ready /\ model = NoModel /\ ~verified
    /\ stage \in ValidationStages => request[job].op = "gpu_validation" /\ Identified
    /\ stage = "identity" => Phase6Job /\ config.production
    /\ stage \in {"probe", "checks"} /\ Phase6Job => Identified
    /\ stage = "checks" => job = NoJob \/ Phase6Job
    /\ stage \in DetectorStages \cup {"build"} => ~Phase6Job
    /\ stage \in DetectorStages => ready
    /\ stage \in FetchStages => Acceptable(request[job])
    /\ ready /\ ~(config.bootstrap /\ config.production) => model # NoModel

Provenance ==
    /\ config.mock => ~verified /\ model \in {NoModel, MockModel}
    /\ ~config.mock => model # MockModel
    /\ verified => stage = "probe" /\ model = NoModel /\ (raced \/ file = ExpectedHash)
    /\ model \in Contents => raced \/ model = ExpectedHash

Transfer ==
    /\ stage \notin FetchStages => fetch = NoFetch
    /\ stage = "connect" => fetch.total = 0 /\ fetch.pending = 0
    /\ stage \in {"connect", "body"} => fetch.total <= request[job].size
    /\ stage \in {"decode", "inference"} => Complete(fetch)
    /\ fetch.overdue <= fetch.pending
    /\ ~fetch.late => fetch.overdue = 0
    /\ stage \in {"decode", "inference", "cleanup"} => fetch.pending = 0

Disk ==
    /\ TempRemoved
    /\ stage \notin {"fixture decode", "body", "decode", "inference", "cleanup"} => temp \subseteq stuck

\* What an answer to a request may be.
Right(r, a) ==
    /\ a \in Evidence =>
          /\ a.ran = a.named \/ a.raced
          /\ a.kind = "passed" => a.named = PinnedHash /\ r.hash = PinnedHash
    /\ a \in Result => Acceptable(r) /\ a.total = r.size /\ a.genuine /\ a.overdue = 0

Answered ==
    /\ \A j \in Jobs : Right(request[j], answers[j])
    /\ IF stage = "cleanup" THEN Right(request[job], outcome) ELSE outcome = NoAnswer

WorkerInv == TypeOK /\ Position /\ Started /\ Provenance /\ Transfer /\ Disk /\ Answered

----------------------------------------------------------------------------
(* The steps that fail where a service may or may not be kept already.     *)

Fails ==
    \/ VerifyFails \/ LoadFails \/ ProbeFails \/ ChecksFail \/ IdentityFails
    \/ ValidationFails \/ PolicyRefuses \/ ConnectFails

FailureStages == {"probe", "checks", "identity", "adapter", "parity", "repeat",
                  "negative", "policy", "connect"}

\* A job is answered with the error and the process waits again.
Refused ==
    /\ stage' = "waiting" /\ job' = NoJob /\ fetch' = NoFetch /\ outcome' = NoAnswer
    /\ answers' = [answers EXCEPT ![job] = Error]

LEMMA FailureEffect ==
    ASSUME Fails
    PROVE  /\ stage \in FailureStages
           /\ UNCHANGED <<config, file, raced, ready, request, temp, stuck>>
           /\ verified' = FALSE
           /\ IF ready THEN UNCHANGED <<checkpoint, model>>
                       ELSE checkpoint' = NoHash /\ model' = NoModel
           /\ IF ready \/ job # NoJob
              THEN Refused
              ELSE stage' = "exited" /\ UNCHANGED <<job, fetch, outcome, answers>>
  <1>1. stage \in FailureStages /\ StepFails
    BY DEF Fails, FailureStages, VerifyFails, LoadFails, ProbeFails, ChecksFail,
           IdentityFails, ValidationFails, PolicyRefuses, ConnectFails, MustLoad, Successor
  <1> QED
    BY <1>1 DEF StepFails, JobFails, InitializationFails, Reply, Refused, settings, disk

LEMMA NextStage ==
    ASSUME ValidationStep
    PROVE  /\ stage \in {"adapter", "parity", "repeat", "negative"}
           /\ stage' \in {"parity", "repeat", "negative", "checks"}
           /\ stage = "negative" <=> stage' = "checks"
  <1>1. stage \in DOMAIN Successor /\ stage' = Successor[stage]
    BY DEF ValidationStep, Goto
  <1> QED
    BY <1>1 DEF Successor

LEMMA NoFetchType == NoFetch \in Fetch /\ {NoAnswer, Error} \subseteq Answer
  <1>1. 0 \in 0..MaxInputBytes /\ 0 \in 0..(ChunkBytes - 1) /\ 0 \in 0..MaxRedirects
    BY WorkerAssumption
  <1> QED
    BY <1>1 DEF NoFetch, Fetch, Answer

\* The download of a job whose request was accepted.
LEMMA Download ==
    ASSUME TypeOK, Position, Transfer, stage = "body"
    PROVE  /\ job \in Jobs
           /\ request[job].size \in 1..MaxInputBytes
           /\ fetch.total \in Nat /\ fetch.pending \in Nat /\ fetch.overdue \in Nat
           /\ fetch.total <= request[job].size
           /\ ChunkBytes \in Nat \ {0} /\ MaxInputBytes \in Nat
  <1>1. job \in Jobs /\ Acceptable(request[job])
    BY DEF Position, JobStages, FetchStages, DetectorStages
  <1> QED
    BY <1>1, WorkerAssumption DEF TypeOK, Transfer, Acceptable, Fetch

\* A download before its bounds are known.
Loose == [total : Nat, pending : Nat, genuine : BOOLEAN, late : BOOLEAN,
          overdue : Nat, redirects : 0..MaxRedirects]

LEMMA WrittenFields ==
    ASSUME NEW f \in Loose
    PROVE  /\ Written(f) \in Loose
           /\ Written(f).total = f.total + f.pending /\ Written(f).pending = 0
           /\ Written(f).genuine = f.genuine /\ Written(f).late = f.late
           /\ Written(f).overdue = f.overdue
  <1>1. f.total + f.pending \in Nat
    BY DEF Loose
  <1>2. Written(f) \in Loose
    BY <1>1 DEF Written, Loose
  <1> QED
    BY <1>2 DEF Written, Loose

LEMMA LongerFields ==
    ASSUME fetch \in Loose, NEW good \in BOOLEAN
    PROVE  /\ Longer(good) \in Loose
           /\ Longer(good).total = fetch.total /\ Longer(good).pending = fetch.pending + 1
           /\ Longer(good).late = fetch.late
           /\ Longer(good).overdue = IF fetch.late THEN fetch.overdue + 1 ELSE fetch.overdue
  <1> DEFINE genuine == fetch.genuine /\ good /\ fetch.total + fetch.pending < request[job].size
             overdue == IF fetch.late THEN fetch.overdue + 1 ELSE fetch.overdue
  <1>1. genuine \in BOOLEAN /\ overdue \in Nat /\ fetch.pending + 1 \in Nat
    BY DEF Loose
  <1>2. Longer(good) = [fetch EXCEPT !.pending = fetch.pending + 1, !.genuine = genuine,
                                     !.overdue = overdue]
    BY DEF Longer
  <1> HIDE DEF genuine, overdue
  <1>3. Longer(good) \in Loose /\ Longer(good).overdue = overdue
    BY <1>1, <1>2 DEF Loose
  <1>4. /\ Longer(good).total = fetch.total /\ Longer(good).pending = fetch.pending + 1
        /\ Longer(good).late = fetch.late
    BY <1>2 DEF Loose
  <1> QED
    BY <1>3, <1>4 DEF overdue

LEMMA FetchIsLoose ==
    /\ Fetch \subseteq Loose
    /\ \A f \in Loose : f.total <= MaxInputBytes /\ f.pending < ChunkBytes => f \in Fetch
  <1>1. Fetch \subseteq Loose
    BY WorkerAssumption DEF Fetch, Loose
  <1>2. ASSUME NEW f \in Loose, f.total <= MaxInputBytes, f.pending < ChunkBytes
        PROVE  f \in Fetch
    <2>1. f.total \in 0..MaxInputBytes /\ f.pending \in 0..(ChunkBytes - 1)
      BY <1>2, WorkerAssumption DEF Loose
    <2> QED
      BY <2>1 DEF Fetch, Loose
  <1> QED
    BY <1>1, <1>2

\* The download after a byte: held back, or written with its chunk.
LEMMA ReceiveEffect ==
    ASSUME TypeOK, Receive
    PROVE  /\ fetch' \in Loose
           /\ fetch'.late = fetch.late
           /\ fetch'.overdue = IF fetch.late THEN fetch.overdue + 1 ELSE fetch.overdue
           /\ \/ /\ fetch.pending + 1 < ChunkBytes
                 /\ fetch'.pending = fetch.pending + 1 /\ fetch'.total = fetch.total
              \/ /\ ~fetch.late
                 /\ fetch.total + (fetch.pending + 1) <= request[job].size
                 /\ fetch'.pending = 0
                 /\ fetch'.total = fetch.total + (fetch.pending + 1)
  <1>1. fetch \in Loose
    BY FetchIsLoose DEF TypeOK
  <1>2. PICK good \in BOOLEAN :
            /\ Longer(good).pending < ChunkBytes \/ Accepted(Longer(good))
            /\ fetch' = IF Longer(good).pending < ChunkBytes
                        THEN Longer(good) ELSE Written(Longer(good))
    BY DEF Receive
  <1> QED
    BY <1>1, <1>2, LongerFields, WrittenFields DEF Accepted

\* The download after the end of its body.
LEMMA EndOfBodyEffect ==
    ASSUME TypeOK, EndOfBody
    PROVE  /\ fetch' \in Loose
           /\ fetch'.total = request[job].size /\ fetch'.genuine
           /\ fetch'.pending = 0
           /\ fetch'.late = fetch.late /\ fetch'.overdue = fetch.overdue
           /\ fetch.pending = 0 \/ ~fetch.late
  <1>1. fetch \in Loose
    BY FetchIsLoose DEF TypeOK
  <1> QED
    BY <1>1, WrittenFields DEF EndOfBody, Complete, Accepted

LEMMA DeadlineEffect ==
    ASSUME TypeOK, Deadline
    PROVE  /\ fetch' \in Fetch /\ fetch'.late
           /\ fetch'.total = fetch.total /\ fetch'.pending = fetch.pending
           /\ fetch'.overdue = fetch.overdue
  BY DEF TypeOK, Deadline, Fetch

LEMMA RedirectEffect ==
    ASSUME TypeOK, Redirect
    PROVE  /\ fetch' \in Fetch
           /\ fetch'.total = fetch.total /\ fetch'.pending = fetch.pending
           /\ fetch'.late = fetch.late /\ fetch'.overdue = fetch.overdue
  <1>1. fetch \in Fetch /\ fetch' = [fetch EXCEPT !.redirects = fetch.redirects + 1]
    BY DEF TypeOK, Redirect
  <1>2. fetch.redirects + 1 \in 0..MaxRedirects
    BY <1>1, WorkerAssumption DEF Redirect, Fetch
  <1> QED
    BY <1>1, <1>2 DEF Fetch

----------------------------------------------------------------------------
(* Every step preserves the types.                                         *)

LEMMA StepTypeOK ==
    TypeOK /\ Position /\ Started /\ Provenance /\ Transfer /\
        [Next]_vars => TypeOK'
  <1> SUFFICES ASSUME TypeOK, Position, Started, Provenance, Transfer, [Next]_vars PROVE
        TypeOK'
    OBVIOUS
  <1> USE DEF TypeOK, settings, backend, disk, Stages, Startup, JobStages
  <1>1. stage \in JobStages => job \in Jobs
    BY DEF Position
  <1>2. CASE Fails
    BY <1>2, FailureEffect, <1>1, NoFetchType DEF Refused, FailureStages
  <1>3. CASE Boot
    BY <1>3, <1>1, NoFetchType DEF Boot, Goto
  <1>4. CASE Resolve
    BY <1>4, <1>1, NoFetchType DEF Resolve, Goto, Resolvable
  <1>5. CASE ResolveFails
    BY <1>5, <1>1, NoFetchType DEF ResolveFails, InitializationFails, Reply, Resolvable
  <1>6. CASE VerifyCheckpoint
    BY <1>6, <1>1, NoFetchType DEF VerifyCheckpoint, ExpectedHash, MustLoad
  <1>7. CASE LoadModel
    BY <1>7, <1>1, NoFetchType DEF LoadModel, MustLoad
  <1>8. CASE Probe
    BY <1>8, <1>1, NoFetchType DEF Probe, MockModel, Phase6Job, Phase6Operation, Goto,
        MustLoad
  <1>9. CASE Checks
    <2>1. ASSUME job # NoJob
          PROVE  EvidenceOf(IF config.bootstrap THEN "receipt" ELSE "passed") \in Answer
      <3>1. config.production /\ checkpoint \in Contents
        BY <1>9, <2>1 DEF Checks, Position, Identified, Started, Unready
      <3>2. model \in Contents
        BY <1>9, <3>1, WorkerAssumption DEF Checks, ChecksPass, Provenance, Config
      <3> QED
        BY <3>1, <3>2 DEF EvidenceOf, Answer, Evidence
    <2> QED
      BY <1>9, <2>1, NoFetchType DEF Checks, Reply, Goto
  <1>10. CASE Dispatch
    BY <1>10, <1>1, NoFetchType DEF Dispatch, Phase6Job, Phase6Operation, Goto, Served
  <1>11. CASE Refuse
    BY <1>11, <1>1, NoFetchType DEF Refuse, JobFails, Reply, Served, Phase6Job,
        Phase6Operation
  <1>12. CASE Build
    BY <1>12, <1>1, NoFetchType DEF Build, Goto
  <1>13. CASE Identity
    BY <1>13, <1>1, NoFetchType DEF Identity, Goto, IdentityHolds
  <1>14. CASE WriteFixture
    BY <1>14, <1>1, NoFetchType DEF WriteFixture, Goto
  <1>15. CASE DecodeFixture
    BY <1>15, <1>1, NoFetchType DEF DecodeFixture, Goto
  <1>16. CASE FixtureFails
    BY <1>16, <1>1, NoFetchType DEF FixtureFails, JobFails, Reply
  <1>17. CASE FixtureStays
    BY <1>17, <1>1, NoFetchType DEF FixtureStays, JobFails, Reply
  <1>18. CASE ValidationStep
    <2>1. stage' \in Stages
      BY <1>18, NextStage
    <2>2. /\ UNCHANGED <<job, fetch, outcome, answers>>
          /\ UNCHANGED <<settings, file, backend, ready, request, disk>>
      BY <1>18 DEF ValidationStep, Goto
    <2> QED
      BY <2>1, <2>2
  <1>19. CASE Policy
    BY <1>19, <1>1, NoFetchType DEF Policy, Goto, Acceptable
  <1>20. CASE Connect
    BY <1>20, <1>1, NoFetchType DEF Connect, Goto
  <1>21. CASE Redirect
    BY <1>21, RedirectEffect DEF Redirect
  <1>22. CASE Receive
    <2>1. fetch' \in Fetch
      <3>1. fetch' \in Loose /\ fetch'.total <= MaxInputBytes /\ fetch'.pending < ChunkBytes
        BY <1>22, ReceiveEffect, Download DEF Receive
      <3> QED
        BY <3>1, FetchIsLoose
    <2> QED
      BY <1>22, <2>1 DEF Receive
  <1>23. CASE EndOfBody
    <2>1. fetch' \in Fetch
      <3>1. fetch' \in Loose /\ fetch'.total <= MaxInputBytes /\ fetch'.pending < ChunkBytes
        BY <1>23, EndOfBodyEffect, Download DEF EndOfBody
      <3> QED
        BY <3>1, FetchIsLoose
    <2> QED
      BY <1>23, <2>1 DEF EndOfBody
  <1>24. CASE BodyFails
    BY <1>24, <1>1, NoFetchType DEF BodyFails, JobFails, Reply, BodyRefused, Written,
        Complete, Accepted, Longer
  <1>25. CASE BodyStays
    BY <1>25, <1>1, NoFetchType DEF BodyStays, JobFails, Reply, BodyRefused, Written,
        Complete, Accepted, Longer
  <1>26. CASE Decode
    BY <1>26, <1>1, NoFetchType DEF Decode
  <1>27. CASE Infer
    <2>1. [kind |-> "result", total |-> fetch.total, genuine |-> fetch.genuine,
           overdue |-> fetch.overdue] \in Answer
      BY FetchIsLoose DEF Loose, Answer, Result
    <2> QED
      BY <1>27, <2>1 DEF Infer, Ends
  <1>28. CASE AnalysisFails
    BY <1>28, <1>1, NoFetchType DEF AnalysisFails, Ends
  <1>29. CASE Cleanup
    BY <1>29, <1>1, NoFetchType DEF Cleanup, Reply
  <1>30. CASE CleanupFails
    BY <1>30, <1>1, NoFetchType DEF CleanupFails, Reply
  <1>31. CASE Restart
    BY <1>31, <1>1, NoFetchType DEF Restart, Goto
  <1>32. CASE Deadline
    BY <1>32, DeadlineEffect DEF Deadline
  <1>33. CASE Swap
    BY <1>33, <1>1, NoFetchType DEF Swap
  <1>34. CASE \E j \in Jobs : Take(j)
    BY <1>34, <1>1, NoFetchType DEF Take
  <1>35. CASE UNCHANGED vars
    BY <1>35, <1>1, NoFetchType DEF vars
  <1> QED
    BY <1>2, <1>3, <1>4, <1>5, <1>6, <1>7, <1>8, <1>9, <1>10, <1>11, <1>12, <1>13,
       <1>14, <1>15, <1>16, <1>17, <1>18, <1>19, <1>20, <1>21, <1>22, <1>23, <1>24,
       <1>25, <1>26, <1>27, <1>28, <1>29, <1>30, <1>31, <1>32, <1>33, <1>34, <1>35 DEF
       Next, Process, Fails

\* Every step keeps what the stage says about the job in hand and the services kept.
LEMMA StepPosition ==
    TypeOK /\ Position /\ Started /\ [Next]_vars => Position'
  <1> SUFFICES ASSUME TypeOK, Position, Started, [Next]_vars PROVE Position'
    OBVIOUS
  <1> USE DEF Position, settings, backend, disk, Unready, ValidationStages,
        DetectorStages, FetchStages, Startup, JobStages, Phase6Job, Phase6Operation,
        Identified, TypeOK, Started
  <1>1. NoJob \notin Jobs /\ NoModel \notin Contents /\ MockModel # NoModel
    BY WorkerAssumption DEF MockModel, NoModel
  <1>2. CASE Fails
    <2>1. /\ ready' = ready /\ config' = config /\ verified' = FALSE
          /\ ready => model' = model
          /\ ~ready => model' = NoModel
          /\ \/ stage' = "waiting" /\ job' = NoJob
             \/ stage' = "exited" /\ job' = NoJob /\ ~ready
      BY <1>2, FailureEffect DEF Refused, FailureStages
    <2>2. ready /\ ~(config.bootstrap /\ config.production) => model # NoModel
      OBVIOUS
    <2> QED
      BY <2>1, <2>2
  <1>3. CASE Boot
    BY <1>3, <1>1 DEF Boot, Goto
  <1>4. CASE Resolve
    BY <1>4, <1>1 DEF Resolve, Goto, Resolvable
  <1>5. CASE ResolveFails
    BY <1>5, <1>1 DEF ResolveFails, InitializationFails, Reply, Resolvable
  <1>6. CASE VerifyCheckpoint
    BY <1>6, <1>1 DEF VerifyCheckpoint, ExpectedHash, MustLoad
  <1>7. CASE LoadModel
    BY <1>7, <1>1 DEF LoadModel, MustLoad
  <1>8. CASE Probe
    BY <1>8, <1>1 DEF Probe, Goto, MustLoad
  <1>9. CASE Checks
    BY <1>9, <1>1 DEF Checks, EvidenceOf, Reply, Goto, ChecksPass
  <1>10. CASE Dispatch
    BY <1>10, <1>1 DEF Dispatch, Goto, Served
  <1>11. CASE Refuse
    BY <1>11, <1>1 DEF Refuse, JobFails, Reply, Served
  <1>12. CASE Build
    BY <1>12, <1>1 DEF Build, Goto
  <1>13. CASE Identity
    BY <1>13, <1>1 DEF Identity, Goto, IdentityHolds
  <1>14. CASE WriteFixture
    BY <1>14, <1>1 DEF WriteFixture, Goto
  <1>15. CASE DecodeFixture
    BY <1>15, <1>1 DEF DecodeFixture, Goto
  <1>16. CASE FixtureFails
    BY <1>16, <1>1 DEF FixtureFails, JobFails, Reply
  <1>17. CASE FixtureStays
    BY <1>17, <1>1 DEF FixtureStays, JobFails, Reply
  <1>18. CASE ValidationStep
    <2>1. /\ UNCHANGED <<job, fetch, outcome, answers>>
          /\ UNCHANGED <<settings, file, backend, ready, request, disk>>
      BY <1>18 DEF ValidationStep, Goto
    <2> QED
      BY <1>18, <2>1, <1>1, NextStage
  <1>19. CASE Policy
    BY <1>19, <1>1 DEF Policy, Goto, Acceptable
  <1>20. CASE Connect
    BY <1>20, <1>1 DEF Connect, Goto
  <1>21. CASE Redirect
    BY <1>21, <1>1 DEF Redirect
  <1>22. CASE Receive
    BY <1>22, <1>1 DEF Receive, Written, Accepted, Longer
  <1>23. CASE EndOfBody
    BY <1>23, <1>1 DEF EndOfBody, Written, Complete, Accepted
  <1>24. CASE BodyFails
    BY <1>24, <1>1 DEF BodyFails, JobFails, Reply, BodyRefused, Written, Complete,
        Accepted, Longer
  <1>25. CASE BodyStays
    BY <1>25, <1>1 DEF BodyStays, JobFails, Reply, BodyRefused, Written, Complete,
        Accepted, Longer
  <1>26. CASE Decode
    BY <1>26, <1>1 DEF Decode
  <1>27. CASE Infer
    BY <1>27, <1>1 DEF Infer, Ends
  <1>28. CASE AnalysisFails
    BY <1>28, <1>1 DEF AnalysisFails, Ends
  <1>29. CASE Cleanup
    BY <1>29, <1>1 DEF Cleanup, Reply
  <1>30. CASE CleanupFails
    BY <1>30, <1>1 DEF CleanupFails, Reply
  <1>31. CASE Restart
    BY <1>31, <1>1 DEF Restart, Goto
  <1>32. CASE Deadline
    BY <1>32, <1>1 DEF Deadline
  <1>33. CASE Swap
    BY <1>33, <1>1 DEF Swap
  <1>34. CASE \E j \in Jobs : Take(j)
    BY <1>34, <1>1 DEF Take
  <1>35. CASE UNCHANGED vars
    BY <1>35, <1>1 DEF vars
  <1> QED
    BY <1>2, <1>3, <1>4, <1>5, <1>6, <1>7, <1>8, <1>9, <1>10, <1>11, <1>12, <1>13,
       <1>14, <1>15, <1>16, <1>17, <1>18, <1>19, <1>20, <1>21, <1>22, <1>23, <1>24,
       <1>25, <1>26, <1>27, <1>28, <1>29, <1>30, <1>31, <1>32, <1>33, <1>34, <1>35 DEF
       Next, Process, Fails

\* A production process is confined to Phase 6 and serves only what it has prepared.
LEMMA StepStarted ==
    TypeOK /\ Position /\ Started /\ [Next]_vars => Started'
  <1> SUFFICES ASSUME TypeOK, Position, Started, [Next]_vars PROVE Started'
    OBVIOUS
  <1> USE DEF Position, settings, backend, disk, Unready, ValidationStages,
        DetectorStages, FetchStages, Startup, JobStages, Phase6Job, Phase6Operation,
        Identified, TypeOK, Started
  <1>1. NoJob \notin Jobs /\ PinnedHash \in Contents
    BY WorkerAssumption
  <1>2. CASE Fails
    <2>1. CASE ready \/ job # NoJob
      BY <1>2, <2>1, <1>1, FailureEffect DEF Refused, FailureStages
    <2>2. CASE ~(ready \/ job # NoJob)
      BY <1>2, <2>2, <1>1, FailureEffect DEF FailureStages
    <2> QED
      BY <2>1, <2>2
  <1>3. CASE Boot
    BY <1>3, <1>1 DEF Boot, Goto
  <1>4. CASE Resolve
    BY <1>4, <1>1 DEF Resolve, Goto, Resolvable
  <1>5. CASE ResolveFails
    BY <1>5, <1>1 DEF ResolveFails, InitializationFails, Reply, Resolvable
  <1>6. CASE VerifyCheckpoint
    BY <1>6, <1>1 DEF VerifyCheckpoint, ExpectedHash, MustLoad
  <1>7. CASE LoadModel
    BY <1>7, <1>1 DEF LoadModel, MustLoad
  <1>8. CASE Probe
    BY <1>8, <1>1 DEF Probe, Goto, MustLoad
  <1>9. CASE Checks
    BY <1>9, <1>1 DEF Checks, EvidenceOf, Reply, Goto, ChecksPass
  <1>10. CASE Dispatch
    BY <1>10, <1>1 DEF Dispatch, Goto, Served
  <1>11. CASE Refuse
    BY <1>11, <1>1 DEF Refuse, JobFails, Reply, Served
  <1>12. CASE Build
    BY <1>12, <1>1 DEF Build, Goto
  <1>13. CASE Identity
    BY <1>13, <1>1 DEF Identity, Goto, IdentityHolds
  <1>14. CASE WriteFixture
    BY <1>14, <1>1 DEF WriteFixture, Goto
  <1>15. CASE DecodeFixture
    BY <1>15, <1>1 DEF DecodeFixture, Goto
  <1>16. CASE FixtureFails
    BY <1>16, <1>1 DEF FixtureFails, JobFails, Reply
  <1>17. CASE FixtureStays
    BY <1>17, <1>1 DEF FixtureStays, JobFails, Reply
  <1>18. CASE ValidationStep
    <2>1. /\ UNCHANGED <<job, fetch, outcome, answers>>
          /\ UNCHANGED <<settings, file, backend, ready, request, disk>>
      BY <1>18 DEF ValidationStep, Goto
    <2> QED
      BY <1>18, <2>1, <1>1, NextStage
  <1>19. CASE Policy
    BY <1>19, <1>1 DEF Policy, Goto, Acceptable
  <1>20. CASE Connect
    BY <1>20, <1>1 DEF Connect, Goto
  <1>21. CASE Redirect
    BY <1>21, <1>1 DEF Redirect
  <1>22. CASE Receive
    BY <1>22, <1>1 DEF Receive, Written, Accepted, Longer
  <1>23. CASE EndOfBody
    BY <1>23, <1>1 DEF EndOfBody, Written, Complete, Accepted
  <1>24. CASE BodyFails
    BY <1>24, <1>1 DEF BodyFails, JobFails, Reply, BodyRefused, Written, Complete,
        Accepted, Longer
  <1>25. CASE BodyStays
    BY <1>25, <1>1 DEF BodyStays, JobFails, Reply, BodyRefused, Written, Complete,
        Accepted, Longer
  <1>26. CASE Decode
    BY <1>26, <1>1 DEF Decode
  <1>27. CASE Infer
    BY <1>27, <1>1 DEF Infer, Ends
  <1>28. CASE AnalysisFails
    BY <1>28, <1>1 DEF AnalysisFails, Ends
  <1>29. CASE Cleanup
    BY <1>29, <1>1 DEF Cleanup, Reply
  <1>30. CASE CleanupFails
    BY <1>30, <1>1 DEF CleanupFails, Reply
  <1>31. CASE Restart
    BY <1>31, <1>1 DEF Restart, Goto
  <1>32. CASE Deadline
    BY <1>32, <1>1 DEF Deadline
  <1>33. CASE Swap
    BY <1>33, <1>1 DEF Swap
  <1>34. CASE \E j \in Jobs : Take(j)
    BY <1>34, <1>1 DEF Take
  <1>35. CASE UNCHANGED vars
    BY <1>35, <1>1 DEF vars
  <1> QED
    BY <1>2, <1>3, <1>4, <1>5, <1>6, <1>7, <1>8, <1>9, <1>10, <1>11, <1>12, <1>13,
       <1>14, <1>15, <1>16, <1>17, <1>18, <1>19, <1>20, <1>21, <1>22, <1>23, <1>24,
       <1>25, <1>26, <1>27, <1>28, <1>29, <1>30, <1>31, <1>32, <1>33, <1>34, <1>35 DEF
       Next, Process, Fails

\* A loaded model was read from the verified content, unless the file was replaced between.
LEMMA StepProvenance ==
    TypeOK /\ Position /\ Started /\ Provenance /\ [Next]_vars
        => Provenance'
  <1> SUFFICES ASSUME TypeOK, Position, Started, Provenance, [Next]_vars PROVE
        Provenance'
    OBVIOUS
  <1> USE DEF Provenance, ExpectedHash, settings, backend, disk, TypeOK
  <1>1. NoJob \notin Jobs /\ NoModel \notin Contents /\ MockModel \notin Contents /\ MockModel # NoModel
        /\ Missing \notin Contents
    BY WorkerAssumption DEF MockModel, NoModel
  <1>2. CASE Fails
    BY <1>2, FailureEffect, <1>1 DEF Refused, FailureStages
  <1>3. CASE Boot
    BY <1>3, <1>1 DEF Boot, Goto
  <1>4. CASE Resolve
    BY <1>4, <1>1 DEF Resolve, Goto, Resolvable, Position, Unready
  <1>5. CASE ResolveFails
    BY <1>5, <1>1 DEF ResolveFails, InitializationFails, Reply, Resolvable, Position,
        Unready
  <1>6. CASE VerifyCheckpoint
    BY <1>6, <1>1 DEF VerifyCheckpoint, MustLoad
  <1>7. CASE LoadModel
    BY <1>7, <1>1 DEF LoadModel, MustLoad
  <1>8. CASE Probe
    BY <1>8, <1>1 DEF Probe, Phase6Job, Phase6Operation, Goto, MustLoad
  <1>9. CASE Checks
    BY <1>9, <1>1 DEF Checks, EvidenceOf, Reply, Goto, ChecksPass
  <1>10. CASE Dispatch
    BY <1>10, <1>1 DEF Dispatch, Phase6Job, Phase6Operation, Goto, Served
  <1>11. CASE Refuse
    BY <1>11, <1>1 DEF Refuse, JobFails, Reply, Served, Phase6Job, Phase6Operation
  <1>12. CASE Build
    BY <1>12, <1>1 DEF Build, Goto
  <1>13. CASE Identity
    BY <1>13, <1>1 DEF Identity, Goto, IdentityHolds
  <1>14. CASE WriteFixture
    BY <1>14, <1>1 DEF WriteFixture, Goto
  <1>15. CASE DecodeFixture
    BY <1>15, <1>1 DEF DecodeFixture, Goto
  <1>16. CASE FixtureFails
    BY <1>16, <1>1 DEF FixtureFails, JobFails, Reply
  <1>17. CASE FixtureStays
    BY <1>17, <1>1 DEF FixtureStays, JobFails, Reply
  <1>18. CASE ValidationStep
    <2>1. /\ UNCHANGED <<job, fetch, outcome, answers>>
          /\ UNCHANGED <<settings, file, backend, ready, request, disk>>
      BY <1>18 DEF ValidationStep, Goto
    <2> QED
      BY <1>18, <2>1, <1>1, NextStage
  <1>19. CASE Policy
    BY <1>19, <1>1 DEF Policy, Goto, Acceptable
  <1>20. CASE Connect
    BY <1>20, <1>1 DEF Connect, Goto
  <1>21. CASE Redirect
    BY <1>21, <1>1 DEF Redirect
  <1>22. CASE Receive
    BY <1>22, <1>1 DEF Receive, Written, Accepted, Longer
  <1>23. CASE EndOfBody
    BY <1>23, <1>1 DEF EndOfBody, Written, Complete, Accepted
  <1>24. CASE BodyFails
    BY <1>24, <1>1 DEF BodyFails, JobFails, Reply, BodyRefused, Written, Complete,
        Accepted, Longer
  <1>25. CASE BodyStays
    BY <1>25, <1>1 DEF BodyStays, JobFails, Reply, BodyRefused, Written, Complete,
        Accepted, Longer
  <1>26. CASE Decode
    BY <1>26, <1>1 DEF Decode
  <1>27. CASE Infer
    BY <1>27, <1>1 DEF Infer, Ends
  <1>28. CASE AnalysisFails
    BY <1>28, <1>1 DEF AnalysisFails, Ends
  <1>29. CASE Cleanup
    BY <1>29, <1>1 DEF Cleanup, Reply
  <1>30. CASE CleanupFails
    BY <1>30, <1>1 DEF CleanupFails, Reply
  <1>31. CASE Restart
    BY <1>31, <1>1 DEF Restart, Goto, Position, Unready
  <1>32. CASE Deadline
    BY <1>32, <1>1 DEF Deadline
  <1>33. CASE Swap
    BY <1>33, <1>1 DEF Swap
  <1>34. CASE \E j \in Jobs : Take(j)
    BY <1>34, <1>1 DEF Take
  <1>35. CASE UNCHANGED vars
    BY <1>35, <1>1 DEF vars
  <1> QED
    BY <1>2, <1>3, <1>4, <1>5, <1>6, <1>7, <1>8, <1>9, <1>10, <1>11, <1>12, <1>13,
       <1>14, <1>15, <1>16, <1>17, <1>18, <1>19, <1>20, <1>21, <1>22, <1>23, <1>24,
       <1>25, <1>26, <1>27, <1>28, <1>29, <1>30, <1>31, <1>32, <1>33, <1>34, <1>35 DEF
       Next, Process, Fails

\* The download: what was written never exceeds the job, and late bytes are never written.
LEMMA StepTransfer ==
    TypeOK /\ Position /\ Started /\ Transfer /\ [Next]_vars =>
        Transfer'
  <1> SUFFICES ASSUME TypeOK, Position, Started, Transfer, [Next]_vars PROVE Transfer'
    OBVIOUS
  <1> USE DEF Transfer, Complete, FetchStages, DetectorStages, settings, backend, disk
  <1>1. NoFetch.total = 0 /\ NoFetch.pending = 0 /\ NoFetch.overdue = 0
    BY DEF NoFetch
  <1>2. fetch \in Fetch
    BY DEF TypeOK
  <1>3. CASE Fails
    <2>1. CASE ready \/ job # NoJob
      BY <1>3, <2>1, <1>1, FailureEffect DEF Refused, FailureStages
    <2>2. CASE ~(ready \/ job # NoJob)
      <3>1. stage \notin FetchStages
        BY <2>2 DEF Position
      <3> QED
        BY <1>3, <2>2, <3>1, FailureEffect DEF FailureStages
    <2> QED
      BY <2>1, <2>2
  <1>4. CASE Boot
    BY <1>4, <1>1, <1>2 DEF Boot, Goto
  <1>5. CASE Resolve
    BY <1>5, <1>1, <1>2 DEF Resolve, Goto, Resolvable
  <1>6. CASE ResolveFails
    BY <1>6, <1>1, <1>2 DEF ResolveFails, InitializationFails, Reply, Resolvable
  <1>7. CASE VerifyCheckpoint
    BY <1>7, <1>1, <1>2 DEF VerifyCheckpoint, ExpectedHash, MustLoad
  <1>8. CASE LoadModel
    BY <1>8, <1>1, <1>2 DEF LoadModel, MustLoad
  <1>9. CASE Probe
    BY <1>9, <1>1, <1>2 DEF Probe, Phase6Job, Phase6Operation, Goto, MustLoad
  <1>10. CASE Checks
    BY <1>10, <1>1, <1>2 DEF Checks, EvidenceOf, Reply, Goto, ChecksPass
  <1>11. CASE Dispatch
    BY <1>11, <1>1, <1>2 DEF Dispatch, Phase6Job, Phase6Operation, Goto, Served
  <1>12. CASE Refuse
    BY <1>12, <1>1, <1>2 DEF Refuse, JobFails, Reply, Served, Phase6Job, Phase6Operation
  <1>13. CASE Build
    BY <1>13, <1>1, <1>2 DEF Build, Goto
  <1>14. CASE Identity
    BY <1>14, <1>1, <1>2 DEF Identity, Goto, IdentityHolds
  <1>15. CASE WriteFixture
    BY <1>15, <1>1, <1>2 DEF WriteFixture, Goto
  <1>16. CASE DecodeFixture
    BY <1>16, <1>1, <1>2 DEF DecodeFixture, Goto
  <1>17. CASE FixtureFails
    BY <1>17, <1>1, <1>2 DEF FixtureFails, JobFails, Reply
  <1>18. CASE FixtureStays
    BY <1>18, <1>1, <1>2 DEF FixtureStays, JobFails, Reply
  <1>19. CASE ValidationStep
    <2>1. /\ UNCHANGED <<job, fetch, outcome, answers>>
          /\ UNCHANGED <<settings, file, backend, ready, request, disk>>
      BY <1>19 DEF ValidationStep, Goto
    <2> QED
      BY <1>19, <2>1, NextStage
  <1>20. CASE Policy
    BY <1>20, <1>1, <1>2 DEF Policy, Goto, Acceptable
  <1>21. CASE Connect
    BY <1>21, <1>1, <1>2 DEF Connect, Goto
  <1>22. CASE Redirect
    BY <1>22, RedirectEffect DEF Redirect
  <1>23. CASE Receive
    <2>1. stage' = "body" /\ UNCHANGED <<job, request>>
      BY <1>23 DEF Receive
    <2>2. fetch'.total <= request[job].size
      BY <1>23, ReceiveEffect, Download DEF Receive
    <2>3. fetch'.overdue <= fetch'.pending /\ (~fetch'.late => fetch'.overdue = 0)
      BY <1>23, ReceiveEffect, Download DEF Receive
    <2> QED
      BY <2>1, <2>2, <2>3
  <1>24. CASE EndOfBody
    <2>1. stage' = "decode" /\ UNCHANGED <<job, request>>
      BY <1>24 DEF EndOfBody
    <2>2. fetch'.total = request[job].size /\ fetch'.genuine /\ fetch'.pending = 0
      BY <1>24, EndOfBodyEffect
    <2>3. fetch'.overdue <= fetch'.pending /\ (~fetch'.late => fetch'.overdue = 0)
      BY <1>24, EndOfBodyEffect, Download DEF EndOfBody
    <2> QED
      BY <2>1, <2>2, <2>3
  <1>25. CASE BodyFails
    BY <1>25, <1>1, <1>2 DEF BodyFails, JobFails, Reply, BodyRefused, Written, Accepted,
        Longer
  <1>26. CASE BodyStays
    BY <1>26, <1>1, <1>2 DEF BodyStays, JobFails, Reply, BodyRefused, Written, Accepted,
        Longer
  <1>27. CASE Decode
    BY <1>27, <1>1, <1>2 DEF Decode
  <1>28. CASE Infer
    BY <1>28, <1>1, <1>2 DEF Infer, Ends
  <1>29. CASE AnalysisFails
    BY <1>29, <1>1, <1>2 DEF AnalysisFails, Ends
  <1>30. CASE Cleanup
    BY <1>30, <1>1, <1>2 DEF Cleanup, Reply
  <1>31. CASE CleanupFails
    BY <1>31, <1>1, <1>2 DEF CleanupFails, Reply
  <1>32. CASE Restart
    BY <1>32, <1>1, <1>2 DEF Restart, Goto
  <1>33. CASE Deadline
    BY <1>33, DeadlineEffect DEF Deadline
  <1>34. CASE Swap
    BY <1>34, <1>1, <1>2 DEF Swap
  <1>35. CASE \E j \in Jobs : Take(j)
    BY <1>35, <1>1, <1>2 DEF Take
  <1>36. CASE UNCHANGED vars
    BY <1>36, <1>1, <1>2 DEF vars
  <1> QED
    BY <1>3, <1>4, <1>5, <1>6, <1>7, <1>8, <1>9, <1>10, <1>11, <1>12, <1>13, <1>14,
       <1>15, <1>16, <1>17, <1>18, <1>19, <1>20, <1>21, <1>22, <1>23, <1>24, <1>25,
       <1>26, <1>27, <1>28, <1>29, <1>30, <1>31, <1>32, <1>33, <1>34, <1>35, <1>36 DEF
       Next, Process, Fails

\* A temporary file belongs to the job in hand, or its removal failed.
LEMMA StepDisk ==
    TypeOK /\ Position /\ Disk /\ [Next]_vars => Disk'
  <1> SUFFICES ASSUME TypeOK, Position, Disk, [Next]_vars PROVE Disk'
    OBVIOUS
  <1> USE DEF Disk, TempRemoved, FetchStages, DetectorStages, settings, backend, disk
  <1>1. stage \in JobStages => job \in Jobs
    BY DEF Position
  <1>2. CASE Fails
    BY <1>2, FailureEffect, <1>1 DEF Refused, FailureStages
  <1>3. CASE Boot
    BY <1>3, <1>1 DEF Boot, Goto
  <1>4. CASE Resolve
    BY <1>4, <1>1 DEF Resolve, Goto, Resolvable
  <1>5. CASE ResolveFails
    BY <1>5, <1>1 DEF ResolveFails, InitializationFails, Reply, Resolvable
  <1>6. CASE VerifyCheckpoint
    BY <1>6, <1>1 DEF VerifyCheckpoint, ExpectedHash, MustLoad
  <1>7. CASE LoadModel
    BY <1>7, <1>1 DEF LoadModel, MustLoad
  <1>8. CASE Probe
    BY <1>8, <1>1 DEF Probe, Phase6Job, Phase6Operation, Goto, MustLoad
  <1>9. CASE Checks
    BY <1>9, <1>1 DEF Checks, EvidenceOf, Reply, Goto, ChecksPass
  <1>10. CASE Dispatch
    BY <1>10, <1>1 DEF Dispatch, Phase6Job, Phase6Operation, Goto, Served
  <1>11. CASE Refuse
    BY <1>11, <1>1 DEF Refuse, JobFails, Reply, Served, Phase6Job, Phase6Operation
  <1>12. CASE Build
    BY <1>12, <1>1 DEF Build, Goto
  <1>13. CASE Identity
    BY <1>13, <1>1 DEF Identity, Goto, IdentityHolds
  <1>14. CASE WriteFixture
    BY <1>14, <1>1 DEF WriteFixture, Goto
  <1>15. CASE DecodeFixture
    BY <1>15, <1>1 DEF DecodeFixture, Goto
  <1>16. CASE FixtureFails
    BY <1>16, <1>1 DEF FixtureFails, JobFails, Reply
  <1>17. CASE FixtureStays
    BY <1>17, <1>1 DEF FixtureStays, JobFails, Reply
  <1>18. CASE ValidationStep
    <2>1. /\ UNCHANGED <<job, fetch, outcome, answers>>
          /\ UNCHANGED <<settings, file, backend, ready, request, disk>>
      BY <1>18 DEF ValidationStep, Goto
    <2> QED
      BY <1>18, <2>1, NextStage
  <1>19. CASE Policy
    BY <1>19, <1>1 DEF Policy, Goto, Acceptable
  <1>20. CASE Connect
    BY <1>20, <1>1 DEF Connect, Goto
  <1>21. CASE Redirect
    BY <1>21, <1>1 DEF Redirect
  <1>22. CASE Receive
    BY <1>22, <1>1 DEF Receive, Written, Accepted, Longer
  <1>23. CASE EndOfBody
    BY <1>23, <1>1 DEF EndOfBody, Written, Complete, Accepted
  <1>24. CASE BodyFails
    BY <1>24, <1>1 DEF BodyFails, JobFails, Reply, BodyRefused, Written, Complete,
        Accepted, Longer
  <1>25. CASE BodyStays
    BY <1>25, <1>1 DEF BodyStays, JobFails, Reply, BodyRefused, Written, Complete,
        Accepted, Longer
  <1>26. CASE Decode
    BY <1>26, <1>1 DEF Decode
  <1>27. CASE Infer
    BY <1>27, <1>1 DEF Infer, Ends
  <1>28. CASE AnalysisFails
    BY <1>28, <1>1 DEF AnalysisFails, Ends
  <1>29. CASE Cleanup
    BY <1>29, <1>1 DEF Cleanup, Reply
  <1>30. CASE CleanupFails
    BY <1>30, <1>1 DEF CleanupFails, Reply
  <1>31. CASE Restart
    BY <1>31, <1>1 DEF Restart, Goto
  <1>32. CASE Deadline
    BY <1>32, <1>1 DEF Deadline
  <1>33. CASE Swap
    BY <1>33, <1>1 DEF Swap
  <1>34. CASE \E j \in Jobs : Take(j)
    BY <1>34, <1>1 DEF Take
  <1>35. CASE UNCHANGED vars
    BY <1>35, <1>1 DEF vars
  <1> QED
    BY <1>2, <1>3, <1>4, <1>5, <1>6, <1>7, <1>8, <1>9, <1>10, <1>11, <1>12, <1>13,
       <1>14, <1>15, <1>16, <1>17, <1>18, <1>19, <1>20, <1>21, <1>22, <1>23, <1>24,
       <1>25, <1>26, <1>27, <1>28, <1>29, <1>30, <1>31, <1>32, <1>33, <1>34, <1>35 DEF
       Next, Process, Fails

\* A job that is not served is answered with nothing that could be wrong.
LEMMA HarmlessAnswers == \A r : Right(r, Error) /\ Right(r, NoAnswer)
  BY DEF Right, Error, NoAnswer, Evidence, Result

LEMMA AnsweredByReply ==
    ASSUME TypeOK, Answered, job \in Jobs, NEW a, Right(request[job], a),
           answers' = [answers EXCEPT ![job] = a],
           stage' = "waiting", outcome' = NoAnswer, request' = request
    PROVE  Answered'
  <1>1. ASSUME NEW j \in Jobs
        PROVE  Right(request'[j], answers'[j])
    BY DEF TypeOK, Answered
  <1> QED
    BY <1>1 DEF Answered

LEMMA AnsweredFrame ==
    ASSUME Answered, UNCHANGED <<answers, request, outcome>>,
           stage # "cleanup", stage' # "cleanup"
    PROVE  Answered'
  BY DEF Answered

\* What a job is answered is right.
LEMMA StepAnswered ==
    TypeOK /\ Position /\ Started /\ Provenance /\ Transfer /\
        Answered /\ [Next]_vars => Answered'
  <1> SUFFICES ASSUME TypeOK, Position, Started, Provenance, Transfer, Answered, [Next]_vars
        PROVE Answered'
    OBVIOUS
  <1>1. stage \in JobStages => job \in Jobs
    BY DEF Position
  <1>2. CASE Fails
    <2>1. CASE ready \/ job # NoJob
      <3>1. job \in Jobs
        BY <1>2, <2>1, FailureEffect DEF FailureStages, Position, Started, Unready, TypeOK, JobStages, Stages
      <3> QED
        BY <1>2, <2>1, <3>1, HarmlessAnswers, AnsweredByReply, FailureEffect DEF Refused
    <2>2. CASE ~(ready \/ job # NoJob)
      BY <1>2, <2>2, FailureEffect, AnsweredFrame DEF FailureStages
    <2> QED
      BY <2>1, <2>2
  <1>3. CASE Boot
    BY <1>3, AnsweredFrame DEF Boot, Goto
  <1>4. CASE Resolve
    BY <1>4, AnsweredFrame DEF Resolve, Goto
  <1>5. CASE ResolveFails
    <2>1. job = NoJob
      BY <1>5 DEF ResolveFails, Position, Unready
    <2> QED
      BY <1>5, <2>1, AnsweredFrame DEF ResolveFails, InitializationFails
  <1>6. CASE VerifyCheckpoint
    BY <1>6, AnsweredFrame DEF VerifyCheckpoint, MustLoad
  <1>7. CASE LoadModel
    BY <1>7, AnsweredFrame DEF LoadModel, MustLoad
  <1>8. CASE Probe
    BY <1>8, AnsweredFrame DEF Probe, MustLoad, Goto
  <1>9. CASE Checks
    <2>1. CASE job = NoJob
      BY <1>9, <2>1, AnsweredFrame DEF Checks, Goto
    <2>2. CASE job # NoJob
      <3> DEFINE a == EvidenceOf(IF config.bootstrap THEN "receipt" ELSE "passed")
      <3>1. /\ job \in Jobs /\ Phase6Job /\ config.production /\ ~config.mock
            /\ request[job].op = "gpu_validation" \/ config.bootstrap
        BY <1>9, <2>2, WorkerAssumption
           DEF Checks, Position, Phase6Job, Phase6Operation, Identified, Config, TypeOK
      <3>2. checkpoint \in Contents /\ model \in Contents
        BY <1>9, <3>1, <2>2 DEF Checks, ChecksPass, Provenance, Started, Unready, TypeOK
      <3>3. raced \/ model = checkpoint
        BY <3>1, <3>2 DEF Provenance, ExpectedHash
      <3>4. ~config.bootstrap => checkpoint = PinnedHash /\ request[job].hash = PinnedHash
        BY <1>9, <3>1 DEF Checks, Position, Identified
      <3>5. a.ran = model /\ a.named = checkpoint /\ a.raced = raced
            /\ a.kind = IF config.bootstrap THEN "receipt" ELSE "passed"
        BY DEF EvidenceOf
      <3>6. a \notin Result
        BY <3>5 DEF Result
      <3> HIDE DEF a
      <3>7. Right(request[job], a)
        BY <3>3, <3>4, <3>5, <3>6 DEF Right
      <3>8. Reply(a) /\ UNCHANGED request
        BY <1>9, <2>2 DEF Checks, a
      <3> QED
        BY <3>1, <3>7, <3>8, AnsweredByReply DEF Reply
    <2> QED
      BY <2>1, <2>2
  <1>10. CASE Dispatch
    BY <1>10, AnsweredFrame DEF Dispatch, Goto
  <1>11. CASE Refuse
    BY <1>11, <1>1, HarmlessAnswers, AnsweredByReply DEF Refuse, JobFails, Reply, Position, JobStages
  <1>12. CASE Build
    BY <1>12, AnsweredFrame DEF Build, Goto
  <1>13. CASE Identity
    BY <1>13, AnsweredFrame DEF Identity, Goto
  <1>14. CASE WriteFixture
    BY <1>14, AnsweredFrame DEF WriteFixture, Goto
  <1>15. CASE DecodeFixture
    BY <1>15, AnsweredFrame DEF DecodeFixture, Goto
  <1>16. CASE FixtureFails
    BY <1>16, <1>1, HarmlessAnswers, AnsweredByReply DEF FixtureFails, JobFails, Reply, Position, JobStages
  <1>17. CASE FixtureStays
    BY <1>17, <1>1, HarmlessAnswers, AnsweredByReply DEF FixtureStays, JobFails, Reply, Position, JobStages
  <1>18. CASE ValidationStep
    BY <1>18, NextStage, AnsweredFrame DEF ValidationStep, Goto
  <1>19. CASE Policy
    BY <1>19, AnsweredFrame DEF Policy, Goto
  <1>20. CASE Connect
    BY <1>20, AnsweredFrame DEF Connect, Goto
  <1>21. CASE Redirect
    BY <1>21, AnsweredFrame DEF Redirect
  <1>22. CASE Receive
    BY <1>22, AnsweredFrame DEF Receive
  <1>23. CASE EndOfBody
    BY <1>23, AnsweredFrame DEF EndOfBody
  <1>24. CASE BodyFails
    BY <1>24, <1>1, HarmlessAnswers, AnsweredByReply DEF BodyFails, JobFails, Reply, Position, JobStages
  <1>25. CASE BodyStays
    BY <1>25, <1>1, HarmlessAnswers, AnsweredByReply DEF BodyStays, JobFails, Reply, Position, JobStages
  <1>26. CASE Decode
    BY <1>26, AnsweredFrame DEF Decode
  <1>27. CASE Infer
    <2> DEFINE a == [kind |-> "result", total |-> fetch.total, genuine |-> fetch.genuine,
                     overdue |-> fetch.overdue]
    <2>1. Acceptable(request[job]) /\ Complete(fetch) /\ fetch.overdue <= 0
      BY <1>27 DEF Infer, Position, FetchStages, DetectorStages, Transfer
    <2>2. fetch.overdue = 0
      BY <2>1 DEF TypeOK, Fetch
    <2>3. a \notin Evidence
      BY DEF Evidence
    <2>4. Right(request[job], a)
      BY <2>1, <2>2, <2>3 DEF Right, Complete
    <2>5. outcome' = a /\ stage' = "cleanup" /\ UNCHANGED <<answers, request, job>>
      BY <1>27 DEF Infer, Ends
    <2> HIDE DEF a
    <2>6. stage # "cleanup"
      BY <1>27 DEF Infer
    <2> QED
      BY <2>4, <2>5 DEF Answered
  <1>28. CASE AnalysisFails
    BY <1>28, HarmlessAnswers DEF AnalysisFails, Ends, Answered
  <1>29. CASE Cleanup
    <2>1. Right(request[job], outcome)
      BY <1>29 DEF Cleanup, Answered
    <2> QED
      BY <1>29, <2>1, <1>1, AnsweredByReply DEF Cleanup, Reply, JobStages
  <1>30. CASE CleanupFails
    BY <1>30, <1>1, HarmlessAnswers, AnsweredByReply DEF CleanupFails, Reply, Position, JobStages
  <1>31. CASE Restart
    BY <1>31, AnsweredFrame DEF Restart, Goto
  <1>32. CASE Deadline
    BY <1>32, AnsweredFrame DEF Deadline
  <1>33. CASE Swap
    BY <1>33 DEF Swap, Answered
  <1>34. CASE \E j \in Jobs : Take(j)
    BY <1>34, AnsweredFrame DEF Take
  <1>35. CASE UNCHANGED vars
    BY <1>35 DEF vars, Answered
  <1> QED
    BY <1>2, <1>3, <1>4, <1>5, <1>6, <1>7, <1>8, <1>9, <1>10, <1>11, <1>12, <1>13,
       <1>14, <1>15, <1>16, <1>17, <1>18, <1>19, <1>20, <1>21, <1>22, <1>23, <1>24,
       <1>25, <1>26, <1>27, <1>28, <1>29, <1>30, <1>31, <1>32, <1>33, <1>34, <1>35 DEF
       Next, Process, Fails

----------------------------------------------------------------------------
(* The invariant and what follows from it.                                 *)

LEMMA InitWorkerInv == Init => WorkerInv
  <1> SUFFICES ASSUME Init
               PROVE  WorkerInv
    OBVIOUS
  <1> USE DEF Init
  <1>1. NoJob \notin Jobs /\ NoModel \notin Contents /\ MockModel # NoModel
    BY WorkerAssumption DEF MockModel, NoModel
  <1>2. TypeOK
    BY NoFetchType DEF TypeOK, Stages, Startup
  <1>3. Position /\ Started
    BY <1>1 DEF Position, Started, Unready, JobStages, ValidationStages, DetectorStages,
                FetchStages
  <1>4. Provenance
    BY <1>1 DEF Provenance
  <1>5. Transfer /\ Disk
    BY DEF Transfer, Disk, TempRemoved, NoFetch, FetchStages, DetectorStages
  <1>6. Answered
    BY HarmlessAnswers DEF Answered
  <1> QED
    BY <1>2, <1>3, <1>4, <1>5, <1>6 DEF WorkerInv

LEMMA StepWorkerInv == WorkerInv /\ [Next]_vars => WorkerInv'
  BY StepTypeOK, StepPosition, StepStarted, StepProvenance, StepTransfer, StepDisk,
     StepAnswered DEF WorkerInv

\* All five parts hold in every state, for any jobs, settings, limits and faults.
THEOREM WorkerInvariant == Spec => []WorkerInv
  BY InitWorkerInv, StepWorkerInv, PTL DEF Spec

\* Type correctness of the worker.
THEOREM WorkerTypes == Spec => []TypeOK
  <1>1. WorkerInv => TypeOK
    BY DEF WorkerInv
  <1> QED
    BY <1>1, WorkerInvariant, PTL

\* A receipt or a passed validation names the checkpoint whose content the model was
\* read from; only a file replaced between its verification and the load escapes.
THEOREM EvidenceIsTrue == Spec => []EvidenceNamesTheModel
  <1>1. WorkerInv => EvidenceNamesTheModel
    BY DEF WorkerInv, Answered, Right, EvidenceNamesTheModel
  <1> QED
    BY <1>1, WorkerInvariant, PTL

\* A detector result is about all bytes of the input of its job and about no others,
\* however the provider splits, delays or replaces them.
THEOREM ResultsAreTrue == Spec => []ResultsAreOfTheInput
  <1>1. ASSUME WorkerInv, NEW j \in Jobs, answers[j] \in Result
        PROVE  /\ request[j].op = "detector" /\ request[j].valid
               /\ answers[j].total = request[j].size
               /\ answers[j].total <= MaxInputBytes /\ answers[j].genuine
    BY <1>1, WorkerAssumption DEF WorkerInv, Answered, Right, Acceptable
  <1>2. WorkerInv => ResultsAreOfTheInput
    BY <1>1 DEF ResultsAreOfTheInput
  <1> QED
    BY <1>2, WorkerInvariant, PTL

\* Fewer bytes than a chunk are read after the deadline, and no result holds one.
THEOREM LateBytesAreBounded == Spec => []LateBytesBounded
  <1>1. ASSUME WorkerInv
        PROVE  fetch.overdue < ChunkBytes
    BY <1>1, WorkerAssumption DEF WorkerInv, TypeOK, Transfer, Fetch
  <1>2. ASSUME WorkerInv, NEW j \in Jobs, answers[j] \in Result
        PROVE  answers[j].overdue = 0
    BY <1>2 DEF WorkerInv, Answered, Right
  <1>3. WorkerInv => LateBytesBounded
    BY <1>1, <1>2 DEF LateBytesBounded
  <1> QED
    BY <1>3, WorkerInvariant, PTL

\* Between jobs no temporary file is left but one whose removal failed.
THEOREM TempIsRemoved == Spec => []TempRemoved
  <1>1. WorkerInv => TempRemoved
    BY DEF WorkerInv, Disk
  <1> QED
    BY <1>1, WorkerInvariant, PTL

\* A failed start leaves no handler and no service behind that a job could reach.
THEOREM OnlyReadyIsKept == Spec => []KeptIsReady
  <1>1. ASSUME WorkerInv, ready
        PROVE  /\ config.production => config.phase6Only /\ checkpoint # NoHash
               /\ config.production /\ ~config.bootstrap => checkpoint = PinnedHash
               /\ (config.bootstrap /\ config.production) \/ model # NoModel
    <2>1. stage \notin Unready
      BY <1>1 DEF WorkerInv, Position
    <2>2. NoHash \notin Contents
      BY WorkerAssumption
    <2> QED
      BY <1>1, <2>1, <2>2 DEF WorkerInv, Position, Started
  <1>2. WorkerInv => KeptIsReady
    BY <1>1 DEF KeptIsReady
  <1> QED
    BY <1>2, WorkerInvariant, PTL

----------------------------------------------------------------------------
(* The work ends.                                                          *)

\* The stage says how many steps are left, but for what its own loop has yet to do.
Distance ==
    /\ stage \in {"boot", "dispatch"} => StepsLeft = ProbeSteps + 6
    /\ stage = "identity" => StepsLeft = ProbeSteps + 5
    /\ stage = "fixture" => StepsLeft = ProbeSteps + 4
    /\ stage \in {"resolve", "build", "fixture decode"} => StepsLeft = ProbeSteps + 3
    /\ stage = "probe" /\ MustLoad /\ ~verified => StepsLeft = ProbeSteps + 2
    /\ stage = "probe" /\ MustLoad /\ verified => StepsLeft = ProbeSteps + 1
    /\ stage = "probe" /\ ~MustLoad => StepsLeft = ProbeSteps + 0
    /\ stage = "policy" => StepsLeft = DownloadSteps + MaxRedirects + 2
    /\ stage = "connect" => StepsLeft = DownloadSteps + MaxRedirects + 1 - fetch.redirects
    /\ stage = "body" => StepsLeft = DownloadSteps - (fetch.total + fetch.pending)
    /\ stage = "adapter" => StepsLeft = 5
    /\ stage = "parity" => StepsLeft = 4
    /\ stage \in {"repeat", "decode"} => StepsLeft = 3
    /\ stage \in {"negative", "inference"} => StepsLeft = 2
    /\ stage \in {"checks", "cleanup"} => StepsLeft = 1
    /\ stage \in {"waiting", "exited"} => StepsLeft = 0

LEMMA Distances == Distance
  <1>1. stage \in {"boot", "dispatch"} => StepsLeft = ProbeSteps + 6
    BY Zenon DEF StepsLeft
  <1>2. stage = "identity" => StepsLeft = ProbeSteps + 5
    BY Zenon DEF StepsLeft
  <1>3. stage = "fixture" => StepsLeft = ProbeSteps + 4
    BY Zenon DEF StepsLeft
  <1>4. stage \in {"resolve", "build", "fixture decode"} => StepsLeft = ProbeSteps + 3
    BY Zenon DEF StepsLeft
  <1>5. stage = "probe" /\ MustLoad /\ ~verified => StepsLeft = ProbeSteps + 2
    BY Zenon DEF StepsLeft
  <1>6. stage = "probe" /\ MustLoad /\ verified => StepsLeft = ProbeSteps + 1
    BY Zenon DEF StepsLeft
  <1>7. stage = "probe" /\ ~MustLoad => StepsLeft = ProbeSteps + 0
    BY Zenon DEF StepsLeft
  <1>8. stage = "policy" => StepsLeft = DownloadSteps + MaxRedirects + 2
    BY Zenon DEF StepsLeft
  <1>9. stage = "connect" => StepsLeft = DownloadSteps + MaxRedirects + 1 - fetch.redirects
    BY Zenon DEF StepsLeft
  <1>10. stage = "body" => StepsLeft = DownloadSteps - (fetch.total + fetch.pending)
    BY Zenon DEF StepsLeft
  <1>11. stage = "adapter" => StepsLeft = 5
    BY Zenon DEF StepsLeft
  <1>12. stage = "parity" => StepsLeft = 4
    BY Zenon DEF StepsLeft
  <1>13. stage \in {"repeat", "decode"} => StepsLeft = 3
    BY Zenon DEF StepsLeft
  <1>14. stage \in {"negative", "inference"} => StepsLeft = 2
    BY Zenon DEF StepsLeft
  <1>15. stage \in {"checks", "cleanup"} => StepsLeft = 1
    BY Zenon DEF StepsLeft
  <1>16. stage \in {"waiting", "exited"} => StepsLeft = 0
    BY Zenon DEF StepsLeft
  <1> QED
    BY <1>1, <1>2, <1>3, <1>4, <1>5, <1>6, <1>7, <1>8, <1>9, <1>10, <1>11, <1>12, <1>13,
       <1>14, <1>15, <1>16, Zenon DEF Distance

LEMMA DistancesNext == Distance'
  BY Distances, PTL

LEMMA Bounds ==
    ASSUME TypeOK
    PROVE  /\ MaxInputBytes \in Nat /\ ChunkBytes \in Nat /\ MaxRedirects \in Nat
           /\ DownloadSteps \in Nat /\ ProbeSteps \in Nat
           /\ DownloadSteps = MaxInputBytes + ChunkBytes + 4
           /\ ProbeSteps = DownloadSteps + MaxRedirects + 3
           /\ fetch.total \in Nat /\ fetch.pending \in Nat /\ fetch.redirects \in Nat
           /\ fetch.total <= MaxInputBytes /\ fetch.pending < ChunkBytes
           /\ fetch.redirects <= MaxRedirects
  BY WorkerAssumption DEF DownloadSteps, ProbeSteps, TypeOK, Fetch

\* There is something left as long as the process is at work, and never less than nothing.
LEMMA SomethingLeft ==
    ASSUME TypeOK
    PROVE  /\ StepsLeft \in Nat
           /\ stage \notin {"waiting", "exited"} => StepsLeft > 0
  <1>1. stage \in Stages
    BY DEF TypeOK
  <1>b. /\ ProbeSteps \in Nat /\ DownloadSteps \in Nat
        /\ DownloadSteps = MaxInputBytes + ChunkBytes + 4
        /\ MaxInputBytes \in Nat /\ ChunkBytes \in Nat /\ MaxRedirects \in Nat
        /\ fetch.total \in Nat /\ fetch.pending \in Nat /\ fetch.redirects \in Nat
        /\ fetch.total <= MaxInputBytes /\ fetch.pending < ChunkBytes
        /\ fetch.redirects <= MaxRedirects
    BY Bounds
  <1>2. CASE stage = "connect"
    <2>1. StepsLeft = DownloadSteps + MaxRedirects + 1 - fetch.redirects
      BY <1>2, Distances, Zenon DEF Distance
    <2>2. StepsLeft \in Nat /\ StepsLeft > 0
      BY <2>1, <1>b
    <2> QED
      BY <2>2
  <1>3. CASE stage = "body"
    <2>1. StepsLeft = DownloadSteps - (fetch.total + fetch.pending)
      BY <1>3, Distances, Zenon DEF Distance
    <2>2. StepsLeft \in Nat /\ StepsLeft > 0
      BY <2>1, <1>b
    <2> QED
      BY <2>2
  <1>4. CASE stage \in {"waiting", "exited"}
    <2>1. StepsLeft = 0
      BY <1>4, Distances, Zenon DEF Distance
    <2> QED
      BY <1>4, <2>1
  <1>5. CASE stage = "policy"
    <2>1. StepsLeft = DownloadSteps + MaxRedirects + 2
      BY <1>5, Distances, Zenon DEF Distance
    <2>2. StepsLeft \in Nat /\ StepsLeft > 0
      BY <2>1, <1>b
    <2> QED
      BY <2>2
  <1>6. CASE stage \in {"boot", "dispatch", "identity", "fixture", "resolve", "build",
                        "fixture decode", "probe"}
    <2>1. \E n \in 0..6 : StepsLeft = ProbeSteps + n
      <3>1. \/ StepsLeft = ProbeSteps + 6 \/ StepsLeft = ProbeSteps + 5
            \/ StepsLeft = ProbeSteps + 4 \/ StepsLeft = ProbeSteps + 3
            \/ StepsLeft = ProbeSteps + 2 \/ StepsLeft = ProbeSteps + 1
            \/ StepsLeft = ProbeSteps + 0
        BY <1>6, Distances, Zenon DEF Distance
      <3> QED
        BY <3>1
    <2>2. ProbeSteps > 0
      BY Bounds
    <2>3. StepsLeft \in Nat /\ StepsLeft > 0
      BY <2>1, <2>2, <1>b
    <2> QED
      BY <2>3
  <1>7. CASE stage \in {"adapter", "parity", "repeat", "decode", "negative", "inference",
                        "checks", "cleanup"}
    <2>1. \/ StepsLeft = 5 \/ StepsLeft = 4 \/ StepsLeft = 3 \/ StepsLeft = 2
          \/ StepsLeft = 1
      BY <1>7, Distances, Zenon DEF Distance
    <2> QED
      BY <2>1
  <1> QED
    BY <1>1, <1>2, <1>3, <1>4, <1>5, <1>6, <1>7, Zenon
    DEF Stages, Startup, JobStages

LEMMA SomethingLeftNext == (TypeOK => StepsLeft \in Nat)'
  <1>1. TypeOK => StepsLeft \in Nat
    BY SomethingLeft
  <1> QED
    BY <1>1, PTL

\* Each step of the process leads to a later stage, or further in the loop of its own.
LEMMA ProcessAdvances ==
    ASSUME TypeOK, Position, Transfer, Process
    PROVE  StepsLeft' < StepsLeft
  <1>c. ProbeSteps' = ProbeSteps /\ DownloadSteps' = DownloadSteps
    BY DEF ProbeSteps, DownloadSteps
  <1>d. Distance /\ Distance'
    BY Distances, DistancesNext
  <1>b. /\ MaxInputBytes \in Nat /\ ChunkBytes \in Nat /\ MaxRedirects \in Nat
        /\ DownloadSteps \in Nat /\ ProbeSteps \in Nat
        /\ DownloadSteps = MaxInputBytes + ChunkBytes + 4
        /\ ProbeSteps = DownloadSteps + MaxRedirects + 3
        /\ fetch.total \in Nat /\ fetch.pending \in Nat /\ fetch.redirects \in Nat
        /\ fetch.total <= MaxInputBytes /\ fetch.pending < ChunkBytes
        /\ fetch.redirects <= MaxRedirects
    BY Bounds
  <1> DEFINE Down(from, to) == stage = from /\ stage' = to
  <1>1. ASSUME stage \notin {"waiting", "exited"}, stage' \in {"waiting", "exited"}
        PROVE  StepsLeft' < StepsLeft
    <2>1. StepsLeft' = 0
      BY <1>1, <1>d, Zenon DEF Distance
    <2>2. StepsLeft \in Nat /\ StepsLeft > 0
      BY <1>1, SomethingLeft
    <2> QED
      BY <2>1, <2>2
  \* whatever leads to the probe leads from farther away
  <1>2. ASSUME stage' = "probe",
               stage \in {"dispatch", "identity", "resolve", "build", "fixture decode"}
        PROVE  StepsLeft' < StepsLeft
    <2>1. \/ StepsLeft' = ProbeSteps + 2 \/ StepsLeft' = ProbeSteps + 1
          \/ StepsLeft' = ProbeSteps + 0
      BY <1>2, <1>c, <1>d, Zenon DEF Distance
    <2>2. \/ StepsLeft = ProbeSteps + 6 \/ StepsLeft = ProbeSteps + 5
          \/ StepsLeft = ProbeSteps + 3
      BY <1>2, <1>d, Zenon DEF Distance
    <2> QED
      BY <2>1, <2>2, <1>b
  <1>3. CASE Fails
    <2>1. stage \in FailureStages /\ stage' \in {"waiting", "exited"}
      BY <1>3, FailureEffect DEF Refused
    <2> QED
      BY <1>1, <2>1 DEF FailureStages
  <1>4. CASE Boot
    <2>1. Down("boot", "resolve") \/ Down("boot", "waiting")
      BY <1>4 DEF Boot, Goto
    <2>8. StepsLeft = ProbeSteps + 6
      BY <2>1, <1>d, Zenon DEF Distance
    <2>9. StepsLeft' = ProbeSteps + 3 \/ StepsLeft' = 0
      BY <2>1, <1>c, <1>d, Zenon DEF Distance
    <2> QED
      BY <2>8, <2>9, <1>b
  <1>5. CASE Resolve
    <2>1. Down("resolve", "waiting") \/ Down("resolve", "probe")
      BY <1>5 DEF Resolve, Goto
    <2> QED
      BY <2>1, <1>1, <1>2
  <1>6. CASE ResolveFails
    <2>1. stage = "resolve" /\ stage' \in {"waiting", "exited"}
      BY <1>6 DEF ResolveFails, InitializationFails, Reply
    <2> QED
      BY <2>1, <1>1
  <1>7. CASE VerifyCheckpoint
    <2>1. /\ Down("probe", "probe") /\ MustLoad /\ ~verified /\ verified'
          /\ UNCHANGED <<config, model>>
      BY <1>7 DEF VerifyCheckpoint, MustLoad, settings
    <2>2. MustLoad'
      BY <2>1 DEF MustLoad
    <2>8. StepsLeft = ProbeSteps + 2
      BY <2>1, <2>2, <1>d, Zenon DEF Distance
    <2>9. StepsLeft' = ProbeSteps + 1
      BY <2>1, <2>2, <1>c, <1>d, Zenon DEF Distance
    <2> QED
      BY <2>8, <2>9, <1>b
  <1>8. CASE LoadModel
    <2>1. /\ Down("probe", "probe") /\ MustLoad /\ verified
          /\ model' \in Contents
      BY <1>8 DEF LoadModel, MustLoad
    <2>2. ~MustLoad'
      BY <2>1, WorkerAssumption DEF MustLoad
    <2>8. StepsLeft = ProbeSteps + 1
      BY <2>1, <2>2, <1>d, Zenon DEF Distance
    <2>9. StepsLeft' = ProbeSteps + 0
      BY <2>1, <2>2, <1>c, <1>d, Zenon DEF Distance
    <2> QED
      BY <2>8, <2>9, <1>b
  <1>9. CASE Probe
    <2>1. stage = "probe" /\ ~MustLoad /\ stage' \in {"policy", "adapter", "checks"}
      BY <1>9 DEF Probe, Goto
    <2>8. StepsLeft = ProbeSteps + 0
      BY <2>1, <1>d, Zenon DEF Distance
    <2>9. \/ StepsLeft' = DownloadSteps + MaxRedirects + 2
          \/ StepsLeft' = 5 \/ StepsLeft' = 1
      BY <2>1, <1>c, <1>d, Zenon DEF Distance
    <2> QED
      BY <2>8, <2>9, <1>b
  <1>10. CASE Checks
    <2>1. Down("checks", "waiting")
      BY <1>10 DEF Checks, Goto, Reply
    <2> QED
      BY <2>1, <1>1
  <1>11. CASE Dispatch
    <2>1. /\ stage = "dispatch"
          /\ stage' \in {"identity", "policy", "build"}
      BY <1>11 DEF Dispatch, Goto
    <2>8. StepsLeft = ProbeSteps + 6
      BY <2>1, <1>d, Zenon DEF Distance
    <2>9. \/ StepsLeft' = ProbeSteps + 5 \/ StepsLeft' = ProbeSteps + 3
          \/ StepsLeft' = DownloadSteps + MaxRedirects + 2
      BY <2>1, <1>c, <1>d, Zenon DEF Distance
    <2> QED
      BY <2>8, <2>9, <1>b
  <1>12. CASE Build \/ DecodeFixture
    <2>1. Down("build", "probe") \/ Down("fixture decode", "probe")
      BY <1>12 DEF Build, DecodeFixture, Goto
    <2> QED
      BY <2>1, <1>2
  <1>13. CASE Identity
    <2>1. Down("identity", "probe") \/ Down("identity", "fixture")
      BY <1>13 DEF Identity, Goto
    <2>2. CASE stage' = "fixture"
      <3>1. StepsLeft = ProbeSteps + 5
        BY <2>1, <1>d, Zenon DEF Distance
      <3>2. StepsLeft' = ProbeSteps + 4
        BY <2>2, <1>c, <1>d, Zenon DEF Distance
      <3> QED
        BY <3>1, <3>2, <1>b
    <2> QED
      BY <2>1, <2>2, <1>2
  <1>14. CASE WriteFixture
    <2>1. Down("fixture", "fixture decode")
      BY <1>14 DEF WriteFixture, Goto
    <2>8. StepsLeft = ProbeSteps + 4
      BY <2>1, <1>d, Zenon DEF Distance
    <2>9. StepsLeft' = ProbeSteps + 3
      BY <2>1, <1>c, <1>d, Zenon DEF Distance
    <2> QED
      BY <2>8, <2>9, <1>b
  <1>15. CASE Refuse \/ FixtureFails \/ FixtureStays \/ BodyFails \/ BodyStays \/ Cleanup
              \/ CleanupFails
    <2>1. stage \in {"dispatch", "fixture decode", "body", "cleanup"} /\ stage' = "waiting"
      BY <1>15 DEF Refuse, FixtureFails, FixtureStays, BodyFails, BodyStays, Cleanup,
                   CleanupFails, JobFails, Reply
    <2> QED
      BY <2>1, <1>1
  <1>16. CASE ValidationStep
    <2>1. stage \in DOMAIN Successor /\ stage' = Successor[stage]
      BY <1>16 DEF ValidationStep, Goto
    <2>2. \/ Down("adapter", "parity") \/ Down("parity", "repeat")
          \/ Down("repeat", "negative") \/ Down("negative", "checks")
      BY <2>1 DEF Successor
    <2>3. CASE Down("adapter", "parity")
      <3>1. StepsLeft = 5 /\ StepsLeft' = 4
        BY <2>3, <1>d, Zenon DEF Distance
      <3> QED
        BY <3>1
    <2>4. CASE Down("parity", "repeat")
      <3>1. StepsLeft = 4 /\ StepsLeft' = 3
        BY <2>4, <1>d, Zenon DEF Distance
      <3> QED
        BY <3>1
    <2>5. CASE Down("repeat", "negative")
      <3>1. StepsLeft = 3 /\ StepsLeft' = 2
        BY <2>5, <1>d, Zenon DEF Distance
      <3> QED
        BY <3>1
    <2>6. CASE Down("negative", "checks")
      <3>1. StepsLeft = 2 /\ StepsLeft' = 1
        BY <2>6, <1>d, Zenon DEF Distance
      <3> QED
        BY <3>1
    <2> QED
      BY <2>2, <2>3, <2>4, <2>5, <2>6
  <1>17. CASE Policy
    <2>1. Down("policy", "connect") /\ fetch' = fetch
      BY <1>17 DEF Policy, Goto
    <2>8. StepsLeft = DownloadSteps + MaxRedirects + 2
      BY <2>1, <1>d, Zenon DEF Distance
    <2>9. StepsLeft' = DownloadSteps + MaxRedirects + 1 - fetch.redirects
      BY <2>1, <1>c, <1>d, Zenon DEF Distance
    <2> QED
      BY <2>8, <2>9, <1>b
  <1>18. CASE Connect
    <2>1. Down("connect", "body") /\ fetch' = fetch
      BY <1>18 DEF Connect, Goto
    <2>8. StepsLeft = DownloadSteps + MaxRedirects + 1 - fetch.redirects
      BY <2>1, <1>d, Zenon DEF Distance
    <2>9. StepsLeft' = DownloadSteps - (fetch.total + fetch.pending)
      BY <2>1, <1>c, <1>d, Zenon DEF Distance
    <2> QED
      BY <2>8, <2>9, <1>b
  <1>19. CASE Redirect
    <2>1. Down("connect", "connect") /\ fetch'.redirects = fetch.redirects + 1
      BY <1>19 DEF Redirect, TypeOK, Fetch
    <2>8. StepsLeft = DownloadSteps + MaxRedirects + 1 - fetch.redirects
      BY <2>1, <1>d, Zenon DEF Distance
    <2>9. StepsLeft' = DownloadSteps + MaxRedirects + 1 - fetch'.redirects
      BY <2>1, <1>c, <1>d, Zenon DEF Distance
    <2> QED
      BY <2>8, <2>9, <2>1, <1>b
  <1>20. CASE Receive
    <2>1. Down("body", "body")
      BY <1>20 DEF Receive
    <2>2. fetch'.total + fetch'.pending = fetch.total + fetch.pending + 1
      BY <1>20, <1>b, ReceiveEffect
    <2>8. StepsLeft = DownloadSteps - (fetch.total + fetch.pending)
      BY <2>1, <2>2, <1>d, Zenon DEF Distance
    <2>9. StepsLeft' = DownloadSteps - (fetch'.total + fetch'.pending)
      BY <2>1, <2>2, <1>c, <1>d, Zenon DEF Distance
    <2> QED
      BY <2>8, <2>9, <2>2, <1>b
  <1>21. CASE EndOfBody
    <2>1. Down("body", "decode")
      BY <1>21 DEF EndOfBody
    <2>8. StepsLeft = DownloadSteps - (fetch.total + fetch.pending)
      BY <2>1, <1>d, Zenon DEF Distance
    <2>9. StepsLeft' = 3
      BY <2>1, <1>c, <1>d, Zenon DEF Distance
    <2> QED
      BY <2>8, <2>9, <1>b
  <1>22. CASE Decode \/ Infer \/ AnalysisFails
    <2>1. \/ Down("decode", "inference") \/ Down("inference", "cleanup")
          \/ Down("decode", "cleanup")
      BY <1>22 DEF Decode, Infer, AnalysisFails, Ends
    <2>2. CASE Down("decode", "inference")
      <3>1. StepsLeft = 3 /\ StepsLeft' = 2
        BY <2>2, <1>d, Zenon DEF Distance
      <3> QED
        BY <3>1
    <2>3. CASE Down("inference", "cleanup")
      <3>1. StepsLeft = 2 /\ StepsLeft' = 1
        BY <2>3, <1>d, Zenon DEF Distance
      <3> QED
        BY <3>1
    <2>4. CASE Down("decode", "cleanup")
      <3>1. StepsLeft = 3 /\ StepsLeft' = 1
        BY <2>4, <1>d, Zenon DEF Distance
      <3> QED
        BY <3>1
    <2> QED
      BY <2>1, <2>2, <2>3, <2>4
  <1> QED
    BY <1>3, <1>4, <1>5, <1>6, <1>7, <1>8, <1>9, <1>10, <1>11, <1>12, <1>13, <1>14, <1>15,
       <1>16, <1>17, <1>18, <1>19, <1>20, <1>21, <1>22 DEF Process, Fails

\* The cache and the clock change nothing of what is left.
LEMMA WorldKeepsDistance ==
    ASSUME TypeOK, [Next]_vars, ~Process, stage \notin {"waiting", "exited"}
    PROVE  StepsLeft' = StepsLeft
  <1>1. /\ UNCHANGED <<config, stage, verified, model>>
        /\ /\ fetch'.total = fetch.total /\ fetch'.pending = fetch.pending
           /\ fetch'.redirects = fetch.redirects
    <2>1. CASE Deadline
      BY <2>1 DEF Deadline, TypeOK, Fetch, settings, backend
    <2>2. CASE Swap
      BY <2>2 DEF Swap, settings
    <2>3. CASE UNCHANGED vars
      BY <2>3 DEF vars
    <2> QED
      BY <2>1, <2>2, <2>3 DEF Next, Restart, Take
  <1> QED
    BY <1>1 DEF StepsLeft, MustLoad

\* Whatever the process is at, its own steps bring the end of it nearer, and neither a
\* replaced checkpoint nor a deadline ever puts the end off.
THEOREM WorkIsFinite == Spec => WorkEnds
  <1> DEFINE Nearer == stage \notin {"waiting", "exited"} =>
                        /\ StepsLeft' \in 0..StepsLeft
                        /\ Process => StepsLeft' < StepsLeft
  <1>1. WorkerInv /\ [Next]_vars => [Nearer]_vars
    <2> SUFFICES ASSUME WorkerInv, [Next]_vars, stage \notin {"waiting", "exited"}
                 PROVE  /\ StepsLeft' \in 0..StepsLeft
                        /\ Process => StepsLeft' < StepsLeft
      OBVIOUS
    <2>1. WorkerInv'
      BY StepWorkerInv
    <2>2. StepsLeft \in Nat /\ StepsLeft' \in Nat
      BY <2>1, SomethingLeft, SomethingLeftNext DEF WorkerInv
    <2>3. CASE Process
      BY <2>2, <2>3, ProcessAdvances DEF WorkerInv
    <2>4. CASE ~Process
      BY <2>2, <2>4, WorldKeepsDistance DEF WorkerInv
    <2> QED
      BY <2>3, <2>4
  <1> QED
    BY <1>1, WorkerInvariant, PTL DEF Spec, WorkEnds

\* A job in hand has no answer yet, and has one waiting when only the cleanup is left.
Held ==
    /\ job \in Jobs => answers[job] = NoAnswer
    /\ stage = "cleanup" => outcome # NoAnswer

KeepsJobs ==
    \A j \in Jobs :
        /\ job = j /\ job' # j => answers[j] = NoAnswer /\ answers'[j] # NoAnswer
        /\ answers'[j] # answers[j] => job = j /\ answers[j] = NoAnswer

LEMMA AnswersDiffer ==
    /\ Error # NoAnswer
    /\ \A t, g, o : [kind |-> "result", total |-> t, genuine |-> g, overdue |-> o] # NoAnswer
  BY DEF Error, NoAnswer

LEMMA ReplyKeeps ==
    ASSUME TypeOK, Held, job \in Jobs, NEW a, a # NoAnswer,
           answers' = [answers EXCEPT ![job] = a], job' = NoJob, stage' = "waiting"
    PROVE  Held' /\ KeepsJobs
  BY WorkerAssumption DEF TypeOK, Held, KeepsJobs

LEMMA HandKeeps ==
    ASSUME Held, UNCHANGED <<job, answers>>, stage' = "cleanup" => outcome' # NoAnswer
    PROVE  Held' /\ KeepsJobs
  BY DEF Held, KeepsJobs

LEMMA StepHeld ==
    ASSUME TypeOK, Position, Started, Held, [Next]_vars
    PROVE  Held' /\ KeepsJobs
  <1>1. stage \in JobStages => job \in Jobs
    BY DEF Position
  <1>2. CASE Fails
    <2>1. CASE ready \/ job # NoJob
      <3>1. job \in Jobs
        BY <1>2, <2>1, FailureEffect
        DEF FailureStages, Position, Started, Unready, TypeOK, JobStages, Stages
      <3> QED
        BY <1>2, <2>1, <3>1, AnswersDiffer, ReplyKeeps, FailureEffect DEF Refused
    <2>2. CASE ~(ready \/ job # NoJob)
      BY <1>2, <2>2, FailureEffect, HandKeeps
    <2> QED
      BY <2>1, <2>2
  <1>3. CASE ResolveFails
    <2>1. job = NoJob
      BY <1>3 DEF ResolveFails, Position, Unready
    <2> QED
      BY <1>3, <2>1, HandKeeps DEF ResolveFails, InitializationFails
  <1>4. CASE Checks
    <2>1. CASE job = NoJob
      BY <1>4, <2>1, HandKeeps DEF Checks, Goto
    <2>2. CASE job # NoJob
      <3> DEFINE a == EvidenceOf(IF config.bootstrap THEN "receipt" ELSE "passed")
      <3>1. job \in Jobs
        BY <2>2 DEF TypeOK
      <3>2. a.kind # "none"
        BY DEF EvidenceOf
      <3>3. a # NoAnswer
        BY <3>2 DEF NoAnswer
      <3> HIDE DEF a
      <3>4. Reply(a)
        BY <1>4, <2>2 DEF Checks, a
      <3> QED
        BY <3>1, <3>3, <3>4, ReplyKeeps DEF Reply
    <2> QED
      BY <2>1, <2>2
  <1>5. CASE Refuse \/ FixtureFails \/ FixtureStays \/ BodyFails \/ BodyStays \/ CleanupFails
    <2>1. Reply(Error) /\ job \in Jobs
      BY <1>5, <1>1 DEF Refuse, FixtureFails, FixtureStays, BodyFails, BodyStays, CleanupFails,
                        JobFails, JobStages
    <2> QED
      BY <2>1, AnswersDiffer, ReplyKeeps DEF Reply
  <1>6. CASE Cleanup
    BY <1>6, <1>1, ReplyKeeps DEF Cleanup, Reply, JobStages, Held
  <1>7. CASE Infer
    <2>1. outcome' # NoAnswer /\ UNCHANGED <<job, answers>>
      BY <1>7, AnswersDiffer DEF Infer, Ends
    <2> QED
      BY <2>1, HandKeeps
  <1>8. CASE AnalysisFails
    BY <1>8, AnswersDiffer, HandKeeps DEF AnalysisFails, Ends
  <1>9. CASE \/ Boot \/ Resolve \/ VerifyCheckpoint \/ LoadModel \/ Probe \/ Dispatch
             \/ Build \/ Identity \/ WriteFixture \/ DecodeFixture \/ Policy \/ Connect
             \/ Redirect \/ Receive \/ EndOfBody \/ Decode \/ Restart \/ Deadline
    <2>1. UNCHANGED <<job, answers>> /\ stage' # "cleanup"
      BY <1>9
      DEF Boot, Resolve, VerifyCheckpoint, LoadModel, Probe, Dispatch, Build, Identity,
          WriteFixture, DecodeFixture, Policy, Connect, Redirect, Receive, EndOfBody, Decode,
          Restart, Deadline, MustLoad, Goto
    <2> QED
      BY <2>1, HandKeeps
  <1>10. CASE ValidationStep
    BY <1>10, NextStage, HandKeeps DEF ValidationStep, Goto
  <1>11. CASE Swap \/ UNCHANGED vars
    <2>1. UNCHANGED <<job, answers, stage, outcome>>
      BY <1>11 DEF Swap, vars
    <2> QED
      BY <2>1, HandKeeps DEF Held
  <1>12. CASE \E j \in Jobs : Take(j)
    BY <1>12, WorkerAssumption DEF Take, Position, Held, KeepsJobs
  <1> QED
    BY <1>2, <1>3, <1>4, <1>5, <1>6, <1>7, <1>8, <1>9, <1>10, <1>11, <1>12
    DEF Next, Process, Fails

\* Whatever fails, a job that was taken is let go with its one and only answer.
THEOREM NoJobIsLost == Spec => JobsKept
  <1>1. Init => Held
    BY WorkerAssumption DEF Init, Held
  <1>2. WorkerInv /\ Held /\ [Next]_vars => Held' /\ [KeepsJobs]_vars
    BY StepHeld DEF WorkerInv
  <1>3. Spec => [][KeepsJobs]_vars
    BY <1>1, <1>2, WorkerInvariant, PTL DEF Spec
  <1> QED
    BY <1>3 DEF JobsKept, KeepsJobs
=============================================================================
