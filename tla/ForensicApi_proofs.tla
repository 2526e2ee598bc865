------------------------- MODULE ForensicApi_proofs -------------------------
(***************************************************************************)
(* Proofs about the API process, for any number of requests, cases and     *)
(* contents and any choice of faults: type correctness; then the analysis  *)
(* runs, one active for each evidence asset and agreeing with the answers  *)
(* and the report files; then the evidence tables and the objects they     *)
(* point to; that analyses implement atomic claims (AnalysisClaims) and    *)
(* uploads atomic registrations (EvidenceRegistry), and that requests      *)
(* advance; last, that put_stream may be taken for one step (ApiOverStore).*)
(***************************************************************************)
EXTENDS ApiOverStore, TLAPS

-----------------------------------------------------------------------------
(* Type correctness *)

UploadType == [Upload -> UploadRecord]
AnalysisType == [Analysis -> AnalysisRecord]

\* What the steps of a request do to its own record keeps the record's type.
LEMMA UploadGoToType ==
    ASSUME UploadTypeOK, NEW u \in Upload, NEW pc \in UploadPC, UploadGoTo(u, pc)
    PROVE  UploadTypeOK'
  BY DEF UploadTypeOK, UploadGoTo, UploadRecord

LEMMA UploadEndType ==
    ASSUME UploadTypeOK, NEW u \in Upload, NEW answer \in UploadAnswer, UploadEnd(u, answer)
    PROVE  UploadTypeOK'
  <1>1. upload[u] \in UploadRecord /\ "done" \in UploadPC /\ "unknown" \in CaseStatus
    BY DEF UploadTypeOK, UploadPC, CaseStatus
  <1>2. [upload[u] EXCEPT !.pc = "done", !.answer = answer, !.sawStatus = "unknown",
                          !.sawBlob = FALSE, !.sawCases = {}] \in UploadRecord
    BY <1>1 DEF UploadRecord
  <1> QED  BY <1>2 DEF UploadTypeOK, UploadEnd

LEMMA UploadGivesUpType ==
    ASSUME UploadTypeOK, NEW u \in Upload, UploadGivesUp(u)
    PROVE  UploadTypeOK'
  <1>1. upload[u] \in UploadRecord /\ "retracted" \in UploadPC
    BY DEF UploadTypeOK, UploadPC
  <1>2. [upload[u] EXCEPT !.pc = "retracted", !.sawCases = {}] \in UploadRecord
    BY <1>1 DEF UploadRecord
  <1> QED  BY <1>2 DEF UploadTypeOK, UploadGivesUp

LEMMA ReuseType ==
    ASSUME UploadTypeOK, NEW u \in Upload, NEW id \in Upload, Reuse(u, id)
    PROVE  UploadTypeOK'
  <1>1. upload[u] \in UploadRecord /\ "checking" \in UploadPC /\ "unknown" \in CaseStatus
    BY DEF UploadTypeOK, UploadPC, CaseStatus
  <1>2. [upload[u] EXCEPT !.pc = "checking", !.asset = id, !.reused = TRUE,
                          !.sawStatus = "unknown", !.sawBlob = FALSE] \in UploadRecord
    BY <1>1 DEF UploadRecord
  <1> QED  BY <1>2 DEF UploadTypeOK, Reuse

LEMMA AnalysisGoToType ==
    ASSUME analysis \in AnalysisType, NEW a \in Analysis, NEW pc \in AnalysisPC,
           AnalysisGoTo(a, pc)
    PROVE  analysis' \in AnalysisType
  BY DEF AnalysisType, AnalysisGoTo, AnalysisRecord

LEMMA AnalysisEndType ==
    ASSUME analysis \in AnalysisType, NEW a \in Analysis, NEW answer \in AnalysisAnswer,
           AnalysisEnd(a, answer)
    PROVE  analysis' \in AnalysisType
  BY DEF AnalysisType, AnalysisEnd, AnalysisRecord, AnalysisPC, Succeeded

LEMMA AnalysisSettlesType ==
    ASSUME analysis \in AnalysisType, NEW a \in Analysis, NEW response \in Response,
           AnalysisSettles(a, response)
    PROVE  analysis' \in AnalysisType
  BY DEF AnalysisType, AnalysisSettles, AnalysisRecord, AnalysisPC, Response, Succeeded

LEMMA FinalizeType ==
    ASSUME RepositoryTypeOK, NEW a \in Analysis, NEW k \in Case, NEW status \in RunStatus,
           FinalizeRun(a, k, status), objects' = objects
    PROVE  RepositoryTypeOK'
  BY DEF RepositoryTypeOK, FinalizeRun, Run, RunStatus, CaseStatus

LEMMA InitTypeOK == Init => TypeOK
  <1> SUFFICES ASSUME Init PROVE TypeOK
    OBVIOUS
  <1>1. RepositoryTypeOK
    BY DEF Init, RepositoryInit, RepositoryTypeOK, ObjectState, CaseStatus, Run, RunStatus
  <1>2. UploadTypeOK
    BY DEF Init, UploadInit, UploadTypeOK, UploadRecord, UploadPC, UploadAnswer, CaseStatus
  <1>3. AnalysisTypeOK
    BY DEF Init, AnalysisInit, AnalysisTypeOK, AnalysisRecord, AnalysisPC, AnalysisAnswer,
           ResultFile, FileState
  <1>4. reconcile \in [Reconciler -> ReconcileRecord]
    BY DEF Init, ReconcileRecord
  <1> QED  BY <1>1, <1>2, <1>3, <1>4 DEF TypeOK

LEMMA UploadStepType ==
    ASSUME RepositoryTypeOK, UploadTypeOK, NEW u \in Upload, Receive(u) \/ UploadStep(u)
    PROVE  RepositoryTypeOK' /\ UploadTypeOK'
  <1> USE DEF UploadPC, UploadAnswer
  <1>u. upload[u] \in UploadRecord
    BY DEF UploadTypeOK
  <1>1. CASE Receive(u) \/ LookupCase(u) \/ CommitConflict(u) \/ CheckObject(u)
             \/ CompensationRefused(u) \/ ReportInconsistent(u) \/ UploadDbFails(u)
    <2>1. RepositoryTypeOK'
      BY <1>1 DEF Receive, LookupCase, CommitConflict, CheckObject, CompensationRefused,
                  ReportInconsistent, UploadDbFails, tables, RepositoryTypeOK
    <2>2. UploadTypeOK'
      BY <1>1, UploadGoToType, UploadEndType, UploadGivesUpType
      DEF Receive, LookupCase, CommitConflict, CheckObject, CompensationRefused,
          ReportInconsistent, UploadDbFails
    <2> QED  BY <2>1, <2>2
  <1>2. CASE PutObject(u) \/ PutFails(u)
    <2>1. RepositoryTypeOK'
      BY <1>2 DEF PutObject, PutFails, tables, RepositoryTypeOK, ObjectState
    <2>2. UploadTypeOK'
      BY <1>2, UploadGoToType, UploadEndType DEF PutObject, PutFails
    <2> QED  BY <2>1, <2>2
  <1>3. CASE ReadCase(u) \/ ReadBlob(u) \/ FindCompensated(u)
    <2>1. RepositoryTypeOK'
      BY <1>3 DEF ReadCase, ReadBlob, FindCompensated, tables, RepositoryTypeOK
    <2>2. /\ caseStatus[upload[u].case] \in CaseStatus
          /\ CaseOf(upload[u].asset) \subseteq Case
          /\ (upload[u].content \in blobs) \in BOOLEAN
      BY <1>u DEF RepositoryTypeOK, CaseOf, Asset, UploadRecord
    <2>3. UploadTypeOK'
      BY <1>3, <2>2 DEF ReadCase, ReadBlob, FindCompensated, UploadTypeOK, UploadRecord
    <2> QED  BY <2>1, <2>3
  <1>4. CASE FindAssociation(u) \/ Fallback(u)
    <2>1. RepositoryTypeOK'
      BY <1>4 DEF FindAssociation, Fallback, tables, RepositoryTypeOK
    <2>2. Ids(upload[u].case, upload[u].content) \subseteq Upload
      BY DEF RepositoryTypeOK, Ids, Asset
    <2>3. UploadTypeOK'
      BY <1>4, <2>2, ReuseType, UploadGoToType, UploadEndType DEF FindAssociation, Fallback
    <2> QED  BY <2>1, <2>3
  <1>5. CASE CommitEvidence(u)
    <2>1. RepositoryTypeOK'
      BY <1>5, <1>u DEF CommitEvidence, InsertEvidence, RepositoryTypeOK, Asset, CaseStatus,
                        UploadRecord
    <2>2. "unknown" \in CaseStatus
      BY DEF CaseStatus
    <2>3. [upload[u] EXCEPT !.pc = "checking", !.asset = u, !.sawStatus = "unknown",
                            !.sawBlob = FALSE] \in UploadRecord
      BY <1>u, <2>2 DEF UploadRecord
    <2>4. UploadTypeOK'
      BY <1>5, <2>3 DEF CommitEvidence, UploadTypeOK
    <2> QED  BY <2>1, <2>4
  <1>6. CASE Compensate(u)
    <2>1. RepositoryTypeOK'
      BY <1>6, <1>u DEF Compensate, DeleteEvidence, RepositoryTypeOK, CaseStatus
    <2>2. UploadTypeOK'
      BY <1>6, UploadGivesUpType DEF Compensate
    <2> QED  BY <2>1, <2>2
  <1> QED
    BY <1>1, <1>2, <1>3, <1>4, <1>5, <1>6 DEF UploadStep, UploadWorks

LEMMA AnalysisStepType ==
    ASSUME RepositoryTypeOK, AnalysisTypeOK, NEW a \in Analysis, Request(a) \/ AnalysisStep(a)
    PROVE  RepositoryTypeOK' /\ AnalysisTypeOK'
  <1> USE DEF AnalysisPC, AnalysisAnswer, ResultFile
  <1>a. /\ analysis[a] \in AnalysisRecord
        /\ analysis \in AnalysisType
        /\ results \in [Analysis -> [ResultFile -> FileState]]
    BY DEF AnalysisTypeOK, AnalysisType
  <1>g. SUFFICES RepositoryTypeOK' /\ analysis' \in AnalysisType
                 /\ results' \in [Analysis -> [ResultFile -> FileState]]
    BY DEF AnalysisTypeOK, AnalysisType
  <1>1. CASE \/ Request(a) \/ ClaimConflict(a) \/ ExplainConflict(a) \/ Verify(a)
             \/ VerifyFails(a) \/ AnalysisRaises(a) \/ AnalysisDbFails(a) \/ Respond(a)
    <2>1. UNCHANGED <<objects, tables, results>>
      BY <1>1 DEF Request, ClaimConflict, ExplainConflict, Verify, VerifyFails,
                  AnalysisRaises, AnalysisDbFails, Respond
    <2>2. analysis' \in AnalysisType
      BY <1>1, <1>a, AnalysisGoToType, AnalysisEndType, AnalysisSettlesType
      DEF Request, ClaimConflict, ExplainConflict, Verify, VerifyFails,
          AnalysisRaises, AnalysisDbFails, Respond, Response
    <2> QED  BY <2>1, <2>2, <1>a DEF tables, RepositoryTypeOK
  <1>2. CASE LoadContext(a)
    <2>1. \A r \in assets : r.content \in Content
      BY DEF RepositoryTypeOK, Asset
    <2>2. analysis' \in AnalysisType
      BY <1>2, <1>a, <2>1, AnalysisEndType DEF LoadContext, AnalysisType, AnalysisRecord
    <2> QED  BY <1>2, <2>2, <1>a DEF LoadContext, tables, RepositoryTypeOK
  <1>3. CASE ClaimEvidence(a)
    <2>1. RepositoryTypeOK'
      BY <1>3, <1>a DEF ClaimEvidence, InsertRun, RepositoryTypeOK, Run, RunStatus,
                        AnalysisRecord
    <2> QED  BY <1>3, <1>a, <2>1, AnalysisGoToType DEF ClaimEvidence
  <1>4. CASE Refuse(a) \/ Finish(a) \/ RecordFailure(a)
    <2>1. PICK status \in RunStatus \cup {analysis[a].verdict} :
              FinalizeRun(a, analysis[a].case, status) /\ objects' = objects
      BY <1>4 DEF Refuse, Finish, RecordFailure, RunStatus
    <2>2. status \in RunStatus
      BY <1>a DEF AnalysisRecord, Succeeded, RunStatus
    <2>3. analysis[a].case \in Case
      BY <1>a DEF AnalysisRecord
    <2>4. RepositoryTypeOK'
      BY <2>1, <2>2, <2>3, FinalizeType
    <2> QED
      BY <1>4, <1>a, <2>4, AnalysisSettlesType DEF Refuse, Finish, RecordFailure, Response
  <1>5. CASE Analyze(a)
    <2>1. analysis' \in AnalysisType
      <3>1. ASSUME NEW verdict \in Succeeded, NEW next \in {"tool", "json"}
            PROVE  [analysis[a] EXCEPT !.pc = next, !.verdict = verdict] \in AnalysisRecord
        BY <1>a DEF AnalysisRecord
      <3>2. \E verdict \in Succeeded, next \in {"tool", "json"} :
               analysis' = [analysis EXCEPT ![a] =
                               [analysis[a] EXCEPT !.pc = next, !.verdict = verdict]]
        BY <1>5, <1>a DEF Analyze, AnalysisType
      <3> QED  BY <3>1, <3>2, <1>a DEF AnalysisType
    <2> QED  BY <1>5, <1>a, <2>1 DEF Analyze, tables, RepositoryTypeOK
  <1>6. CASE CreateResult(a)
    BY <1>6, <1>a DEF CreateResult, tables, RepositoryTypeOK, FileState
  <1>7. CASE SealResult(a)
    <2>1. AfterFile[analysis[a].pc] \in AnalysisPC
      BY <1>7 DEF SealResult, AfterFile
    <2>2. analysis' \in AnalysisType
      BY <1>7, <1>a, <2>1, AnalysisGoToType DEF SealResult
    <2> QED  BY <1>7, <1>a, <2>2 DEF SealResult, tables, RepositoryTypeOK, FileState
  <1> QED
    BY <1>1, <1>2, <1>3, <1>4, <1>5, <1>6, <1>7 DEF AnalysisStep, AnalysisWorks

LEMMA StepTypeOK == TypeOK /\ [Next]_vars => TypeOK'
  <1> SUFFICES ASSUME TypeOK, [Next]_vars PROVE TypeOK'
    OBVIOUS
  <1> USE DEF TypeOK
  <1>1. ASSUME NEW k \in Case, CreateCase(k), UNCHANGED requests PROVE TypeOK'
    BY <1>1 DEF CreateCase, requests, RepositoryTypeOK, UploadTypeOK, AnalysisTypeOK, CaseStatus
  <1>2. ASSUME NEW u \in Upload, Receive(u) \/ UploadStep(u),
               UNCHANGED <<analysis, results, reconcile>>
        PROVE  TypeOK'
    BY <1>2, UploadStepType DEF AnalysisTypeOK
  <1>3. ASSUME NEW a \in Analysis, Request(a) \/ AnalysisStep(a), UNCHANGED <<upload, reconcile>>
        PROVE  TypeOK'
    BY <1>3, AnalysisStepType DEF UploadTypeOK
  <1>4. ASSUME NEW r \in Reconciler, ListObjects(r) \/ ReportOrphans(r) PROVE TypeOK'
    <2>1. /\ UNCHANGED <<objects, tables, upload, analysis, results>>
          /\ reconcile' \in [Reconciler -> ReconcileRecord]
      BY <1>4 DEF ListObjects, ReportOrphans, ReconcileRecord
    <2> QED  BY <2>1 DEF tables, RepositoryTypeOK, UploadTypeOK, AnalysisTypeOK
  <1>5. ASSUME NEW c \in Content, LoseObject(c) PROVE TypeOK'
    BY <1>5 DEF LoseObject, tables, requests, RepositoryTypeOK, UploadTypeOK, AnalysisTypeOK,
                ObjectState
  <1>6. CASE Crash
    <2> USE DEF UploadPC, UploadAnswer, AnalysisPC, AnalysisAnswer
    <2>1. UploadTypeOK'
      <3>1. ASSUME NEW q \in UploadRecord
            PROVE  [q EXCEPT !.pc = "done", !.answer = "died", !.sawStatus = "unknown",
                             !.sawBlob = FALSE, !.sawCases = {}] \in UploadRecord
        BY DEF UploadRecord, CaseStatus
      <3> QED  BY <1>6, <3>1 DEF Crash, UploadTypeOK
    <2>2. AnalysisTypeOK'
      <3>1. ASSUME NEW q \in AnalysisRecord
            PROVE  [q EXCEPT !.pc = "done", !.answer = "died", !.contents = {},
                             !.verdict = "none"] \in AnalysisRecord
        BY DEF AnalysisRecord
      <3> QED  BY <1>6, <3>1 DEF Crash, AnalysisTypeOK
    <2> QED  BY <1>6, <2>1, <2>2 DEF Crash, tables, RepositoryTypeOK
  <1>7. CASE UNCHANGED vars
    BY <1>7 DEF vars, tables, RepositoryTypeOK, UploadTypeOK, AnalysisTypeOK
  <1> QED
    BY <1>1, <1>2, <1>3, <1>4, <1>5, <1>6, <1>7 DEF Next, Idle

\* Every table row, request and file stays within its type.
THEOREM TypeCorrect == Spec => []TypeOK
  BY InitTypeOK, StepTypeOK, PTL DEF Spec

-----------------------------------------------------------------------------
(* What the steps of a request leave alone *)

LEMMA AnalysisGoToEffect ==
    ASSUME AnalysisTypeOK, NEW a \in Analysis, NEW pc, AnalysisGoTo(a, pc)
    PROVE  /\ analysis'[a].pc = pc
           /\ analysis'[a].answer = analysis[a].answer
           /\ analysis'[a].verdict = analysis[a].verdict
           /\ analysis'[a].case = analysis[a].case
           /\ analysis'[a].asset = analysis[a].asset
           /\ \A b \in Analysis \ {a} : analysis'[b] = analysis[b]
  BY DEF AnalysisTypeOK, AnalysisRecord, AnalysisGoTo

LEMMA AnalysisEndEffect ==
    ASSUME AnalysisTypeOK, NEW a \in Analysis, NEW answer, AnalysisEnd(a, answer)
    PROVE  /\ analysis'[a].pc = "done"
           /\ analysis'[a].answer = answer
           /\ analysis'[a].case = analysis[a].case
           /\ analysis'[a].asset = analysis[a].asset
           /\ \A b \in Analysis \ {a} : analysis'[b] = analysis[b]
  BY DEF AnalysisTypeOK, AnalysisRecord, AnalysisEnd

LEMMA AnalysisSettlesEffect ==
    ASSUME AnalysisTypeOK, NEW a \in Analysis, NEW response, AnalysisSettles(a, response)
    PROVE  /\ analysis'[a].pc = response
           /\ analysis'[a].answer = analysis[a].answer
           /\ analysis'[a].case = analysis[a].case
           /\ analysis'[a].asset = analysis[a].asset
           /\ \A b \in Analysis \ {a} : analysis'[b] = analysis[b]
  BY DEF AnalysisTypeOK, AnalysisRecord, AnalysisSettles

LEMMA UploadGoToEffect ==
    ASSUME UploadTypeOK, NEW u \in Upload, NEW pc, UploadGoTo(u, pc)
    PROVE  /\ upload'[u].pc = pc
           /\ upload'[u].case = upload[u].case
           /\ upload'[u].content = upload[u].content
           /\ upload'[u].answer = upload[u].answer
           /\ upload'[u].asset = upload[u].asset
           /\ upload'[u].reused = upload[u].reused
           /\ upload'[u].sawStatus = upload[u].sawStatus
           /\ \A v \in Upload \ {u} : upload'[v] = upload[v]
  BY DEF UploadTypeOK, UploadRecord, UploadGoTo

LEMMA UploadEndEffect ==
    ASSUME UploadTypeOK, NEW u \in Upload, NEW answer, UploadEnd(u, answer)
    PROVE  /\ upload'[u].pc = "done"
           /\ upload'[u].case = upload[u].case
           /\ upload'[u].content = upload[u].content
           /\ upload'[u].answer = answer
           /\ upload'[u].asset = upload[u].asset
           /\ upload'[u].reused = upload[u].reused
           /\ upload'[u].sawStatus = "unknown"
           /\ \A v \in Upload \ {u} : upload'[v] = upload[v]
  BY DEF UploadTypeOK, UploadRecord, UploadEnd

LEMMA UploadGivesUpEffect ==
    ASSUME UploadTypeOK, NEW u \in Upload, UploadGivesUp(u)
    PROVE  /\ upload'[u].pc = "retracted"
           /\ upload'[u].case = upload[u].case
           /\ upload'[u].content = upload[u].content
           /\ upload'[u].answer = upload[u].answer
           /\ upload'[u].asset = upload[u].asset
           /\ upload'[u].reused = upload[u].reused
           /\ upload'[u].sawStatus = upload[u].sawStatus
           /\ \A v \in Upload \ {u} : upload'[v] = upload[v]
  BY DEF UploadTypeOK, UploadRecord, UploadGivesUp

LEMMA ReuseEffect ==
    ASSUME UploadTypeOK, NEW u \in Upload, NEW id, Reuse(u, id)
    PROVE  /\ upload'[u].pc = "checking"
           /\ upload'[u].case = upload[u].case
           /\ upload'[u].content = upload[u].content
           /\ upload'[u].answer = upload[u].answer
           /\ upload'[u].asset = id
           /\ upload'[u].reused = TRUE
           /\ upload'[u].sawStatus = "unknown"
           /\ \A v \in Upload \ {u} : upload'[v] = upload[v]
  BY DEF UploadTypeOK, UploadRecord, Reuse

LEMMA FinalizeEffect ==
    ASSUME RepositoryTypeOK, NEW a \in Analysis, NEW k, NEW status, FinalizeRun(a, k, status)
    PROVE  /\ runs[a].status = "RUNNING"
           /\ runs'[a].status = status
           /\ runs'[a].asset = runs[a].asset
           /\ \A b \in Analysis \ {a} : runs'[b] = runs[b]
           /\ \A b \in Analysis \ {a} : b \in reports' <=> b \in reports
           /\ a \in reports' <=> a \in reports \/ status \in Succeeded
           /\ UNCHANGED <<assets, blobs>>
  BY DEF RepositoryTypeOK, Run, FinalizeRun

\* An upload never touches the runs, their reports or the record of another upload,
\* and what it uploads is fixed.
LEMMA UploadStepFrame ==
    ASSUME UploadTypeOK, NEW u \in Upload, Receive(u) \/ UploadStep(u)
    PROVE  /\ UNCHANGED <<runs, reports>>
           /\ upload'[u].case = upload[u].case
           /\ upload'[u].content = upload[u].content
           /\ \A v \in Upload \ {u} : upload'[v] = upload[v]
  <1>1. CASE Receive(u) \/ LookupCase(u) \/ CommitConflict(u) \/ CheckObject(u)
             \/ CompensationRefused(u) \/ ReportInconsistent(u) \/ UploadDbFails(u)
             \/ PutObject(u) \/ PutFails(u) \/ FindAssociation(u) \/ Fallback(u)
    BY <1>1, UploadGoToEffect, UploadEndEffect, UploadGivesUpEffect, ReuseEffect
    DEF Receive, LookupCase, CommitConflict, CheckObject, CompensationRefused,
        ReportInconsistent, UploadDbFails, PutObject, PutFails, FindAssociation, Fallback, tables
  <1>2. CASE ReadCase(u) \/ ReadBlob(u) \/ FindCompensated(u)
    BY <1>2 DEF ReadCase, ReadBlob, FindCompensated, tables, UploadTypeOK, UploadRecord
  <1>3. CASE CommitEvidence(u)
    BY <1>3 DEF CommitEvidence, InsertEvidence, UploadTypeOK, UploadRecord
  <1>4. CASE Compensate(u)
    BY <1>4, UploadGivesUpEffect DEF Compensate, DeleteEvidence
  <1> QED
    BY <1>1, <1>2, <1>3, <1>4 DEF UploadStep, UploadWorks

\* An analysis never touches the evidence or the record, run, report or files of
\* another analysis, and what it analyses is fixed.
LEMMA AnalysisStepFrame ==
    ASSUME RepositoryTypeOK, AnalysisTypeOK, NEW a \in Analysis, Request(a) \/ AnalysisStep(a)
    PROVE  /\ UNCHANGED <<objects, assets, blobs>>
           /\ analysis'[a].case = analysis[a].case
           /\ analysis'[a].asset = analysis[a].asset
           /\ \A b \in Analysis \ {a} :
                  /\ analysis'[b] = analysis[b]
                  /\ runs'[b] = runs[b]
                  /\ results'[b] = results[b]
                  /\ b \in reports' <=> b \in reports
  <1>1. CASE Request(a) \/ ClaimConflict(a) \/ ExplainConflict(a) \/ Verify(a)
             \/ VerifyFails(a) \/ AnalysisRaises(a) \/ AnalysisDbFails(a) \/ Respond(a)
    BY <1>1, AnalysisGoToEffect, AnalysisEndEffect, AnalysisSettlesEffect
    DEF Request, ClaimConflict, ExplainConflict, Verify, VerifyFails, AnalysisRaises,
        AnalysisDbFails, Respond, tables
  <1>2. CASE Refuse(a) \/ Finish(a) \/ RecordFailure(a)
    BY <1>2, FinalizeEffect, AnalysisSettlesEffect DEF Refuse, Finish, RecordFailure
  <1>3. CASE LoadContext(a)
    BY <1>3, AnalysisEndEffect DEF LoadContext, tables, AnalysisTypeOK, AnalysisRecord
  <1>4. CASE ClaimEvidence(a)
    BY <1>4, AnalysisGoToEffect DEF ClaimEvidence, InsertRun, RepositoryTypeOK
  <1>5. CASE Analyze(a)
    BY <1>5 DEF Analyze, tables, AnalysisTypeOK, AnalysisRecord
  <1>6. CASE CreateResult(a) \/ SealResult(a)
    BY <1>6, AnalysisGoToEffect DEF CreateResult, SealResult, tables, AnalysisTypeOK
  <1> QED
    BY <1>1, <1>2, <1>3, <1>4, <1>5, <1>6 DEF AnalysisStep, AnalysisWorks

-----------------------------------------------------------------------------
(* The analysis runs                                                        *)

\* Where a request holds its claim, and where it has none yet.
Claimed == {"verifying", "refusing", "engine", "tool", "json", "html", "finalizing", "failing"}
Unclaimed == {"idle", "context", "claiming", "conflict"}

\* What its client was told, or will be if the process lives.
Told(a) == IF analysis[a].pc \in Response THEN analysis[a].pc ELSE analysis[a].answer

\* The position of a request tells the state of its run.
ClaimFollowsPosition(a) ==
    /\ analysis[a].answer # "none" <=> analysis[a].pc = "done"
    /\ analysis[a].pc \in Unclaimed => runs[a].status = "none"
    /\ analysis[a].pc \in Claimed => runs[a].status = "RUNNING"
    /\ runs[a].status = "RUNNING" =>
           \/ analysis[a].pc \in Claimed
           \/ Told(a) = "died"
           \/ "db" \in Faults /\ Told(a) \in {"failed", "database_unavailable"}

\* A run belongs to the asset its request named.
RunNamesAsset(a) ==
    runs[a].asset = IF runs[a].status = "none" THEN NoAsset ELSE analysis[a].asset

\* The files are sealed in order, before the report row is committed.
FilesFollowPosition(a) ==
    /\ analysis[a].pc \in {"json", "html", "finalizing"} => analysis[a].verdict \in Succeeded
    /\ analysis[a].pc = "tool" => analysis[a].verdict \in Succeeded
    /\ analysis[a].pc = "html" => results[a]["json"] = "sealed"
    /\ analysis[a].pc = "finalizing" => results[a]["json"] = "sealed" /\ results[a]["html"] = "sealed"
    /\ a \in reports <=> runs[a].status \in Succeeded
    /\ a \in reports => results[a]["json"] = "sealed" /\ results[a]["html"] = "sealed"

AnswerMatchesRun(a) ==
    /\ Told(a) = "analyzed" => runs[a].status \in Succeeded
    /\ Told(a) = "integrity_failure" => runs[a].status = "REFUSED"
    /\ Told(a) = "failed" =>
           runs[a].status = "FAILED" \/ (runs[a].status = "RUNNING" /\ "db" \in Faults)
    /\ Told(a) \in {"evidence_not_found", "active"} => runs[a].status = "none"
    /\ Told(a) = "database_unavailable" /\ runs[a].status # "none"
           => runs[a].status = "RUNNING" /\ "db" \in Faults
    /\ runs[a].status \in Succeeded => Told(a) \in {"analyzed", "died"}
    /\ runs[a].status = "REFUSED" => Told(a) \in {"integrity_failure", "died"}
    /\ runs[a].status = "FAILED" => Told(a) \in {"failed", "died"}

RunInv(a) ==
    /\ ClaimFollowsPosition(a)
    /\ RunNamesAsset(a)
    /\ FilesFollowPosition(a)
    /\ AnswerMatchesRun(a)

RunsInv == \A a \in Analysis : RunInv(a)

-----------------------------------------------------------------------------
(* Runs, answers and report files *)

LEMMA InitRunsInv == Init => RunsInv
  BY DEF Init, RepositoryInit, AnalysisInit, RunsInv, RunInv, ClaimFollowsPosition,
         RunNamesAsset, FilesFollowPosition, AnswerMatchesRun, Told, Claimed, Unclaimed,
         Response, Succeeded

\* What a step of a request does to its own record, run and files.
LEMMA AnalysisStepOwn ==
    ASSUME TypeOK, NEW a \in Analysis, RunInv(a), Request(a) \/ AnalysisStep(a)
    PROVE  RunInv(a)'
  <1> USE DEF TypeOK, AnalysisAt, tables
  <1>d. /\ ClaimFollowsPosition(a)
        /\ RunNamesAsset(a)
        /\ FilesFollowPosition(a)
        /\ AnswerMatchesRun(a)
    BY DEF RunInv
  <1>t. /\ analysis[a].pc \in AnalysisPC
        /\ analysis[a].asset # NoAsset
    BY RepositoryAssumption DEF AnalysisTypeOK, AnalysisRecord
  <1> USE DEF AnalysisPC, Claimed, Unclaimed, Response, ResultFile, Told
  \* steps that change neither the tables nor the files
  <1>1. ASSUME UNCHANGED <<tables, results>>,
               analysis'[a].asset = analysis[a].asset,
               analysis'[a].answer = analysis[a].answer,
               \/ /\ analysis[a].pc \in Unclaimed
                  /\ analysis'[a].pc \in Unclaimed
               \/ /\ analysis[a].pc \in Claimed
                  /\ analysis'[a].pc \in {"engine", "refusing", "failing"}
        PROVE  RunInv(a)'
    <2>1. ClaimFollowsPosition(a)'
      BY <1>1, <1>d DEF ClaimFollowsPosition
    <2>2. RunNamesAsset(a)' /\ AnswerMatchesRun(a)'
      BY <1>1, <1>d DEF RunNamesAsset, AnswerMatchesRun
    <2>3. FilesFollowPosition(a)'
      BY <1>1, <1>d DEF FilesFollowPosition
    <2> QED  BY <2>1, <2>2, <2>3 DEF RunInv
  <1>2. CASE Request(a) \/ ClaimConflict(a) \/ Verify(a) \/ VerifyFails(a) \/ AnalysisRaises(a)
    BY <1>2, <1>1, AnalysisGoToEffect
    DEF Request, ClaimConflict, Verify, VerifyFails, AnalysisRaises
  \* steps that only answer
  <1>3. ASSUME UNCHANGED <<tables, results>>,
               analysis'[a].asset = analysis[a].asset,
               analysis'[a].pc = "done",
               \/ /\ analysis[a].pc \in Unclaimed
                  /\ analysis'[a].answer \in {"evidence_not_found", "active", "database_unavailable"}
               \/ /\ analysis[a].pc \in Claimed /\ "db" \in Faults
                  /\ analysis'[a].answer \in {"failed", "database_unavailable"}
        PROVE  RunInv(a)'
    <2>1. runs[a].status \in {"none", "RUNNING"} /\ runs[a].status \notin Succeeded
      BY <1>3, <1>d DEF ClaimFollowsPosition, Succeeded
    <2>2. ClaimFollowsPosition(a)'
      BY <1>3, <1>d DEF ClaimFollowsPosition
    <2>3. RunNamesAsset(a)'
      BY <1>3, <1>d DEF RunNamesAsset
    <2>4. FilesFollowPosition(a)'
      BY <1>3, <1>d DEF FilesFollowPosition
    <2>5. AnswerMatchesRun(a)'
      <3>1. CASE analysis[a].pc \in Unclaimed
        BY <1>3, <1>d, <2>1, <3>1 DEF AnswerMatchesRun, ClaimFollowsPosition
      <3>2. CASE analysis[a].pc \in Claimed
        BY <1>3, <1>d, <2>1, <3>2 DEF AnswerMatchesRun, ClaimFollowsPosition
      <3> QED  BY <1>3, <3>1, <3>2
    <2> QED  BY <2>2, <2>3, <2>4, <2>5 DEF RunInv
  <1>4. CASE ExplainConflict(a)
    BY <1>4, <1>3, AnalysisEndEffect DEF ExplainConflict
  <1>11. CASE AnalysisDbFails(a)
    <2>1. CASE AnalysisEnd(a, "database_unavailable")
      BY <1>11, <2>1, <1>3, AnalysisEndEffect DEF AnalysisDbFails
    \* the failure could not be recorded
    <2>2. CASE analysis[a].pc = "failing" /\ AnalysisSettles(a, "failed")
      <3>1. /\ analysis'[a].pc = "failed" /\ analysis'[a].answer = "none"
            /\ analysis'[a].asset = analysis[a].asset
            /\ runs[a].status = "RUNNING" /\ "db" \in Faults
            /\ UNCHANGED <<runs, reports, results>>
        BY <1>11, <2>2, <1>d, AnalysisSettlesEffect DEF AnalysisDbFails, ClaimFollowsPosition
      <3>2. ClaimFollowsPosition(a)' /\ AnswerMatchesRun(a)'
        BY <3>1 DEF ClaimFollowsPosition, AnswerMatchesRun, Succeeded
      <3>3. RunNamesAsset(a)'
        BY <3>1, <1>d DEF RunNamesAsset
      <3>4. FilesFollowPosition(a)'
        BY <3>1, <1>d DEF FilesFollowPosition
      <3> QED  BY <3>2, <3>3, <3>4 DEF RunInv
    <2> QED  BY <1>11, <2>1, <2>2 DEF AnalysisDbFails
  <1>12. CASE Respond(a)
    <2>1. /\ analysis[a].pc \in Response
          /\ analysis'[a].pc = "done" /\ analysis'[a].answer = analysis[a].pc
          /\ analysis'[a].asset = analysis[a].asset
          /\ UNCHANGED <<runs, reports, results>>
      BY <1>12, AnalysisEndEffect DEF Respond
    <2>2. Told(a)' = Told(a)
      BY <2>1
    <2>3. ClaimFollowsPosition(a)'
      BY <2>1, <2>2, <1>d DEF ClaimFollowsPosition
    <2>4. RunNamesAsset(a)'
      BY <2>1, <1>d DEF RunNamesAsset
    <2>5. AnswerMatchesRun(a)'
      BY <2>1, <2>2, <1>d DEF AnswerMatchesRun
    <2>6. FilesFollowPosition(a)'
      BY <2>1, <1>d DEF FilesFollowPosition
    <2> QED  BY <2>3, <2>4, <2>5, <2>6 DEF RunInv
  <1>5. CASE LoadContext(a)
    <2>1. \/ AnalysisEnd(a, "evidence_not_found")
          \/ /\ analysis'[a].pc = "claiming"
             /\ analysis'[a].asset = analysis[a].asset
             /\ analysis'[a].answer = analysis[a].answer
      BY <1>5 DEF LoadContext, AnalysisTypeOK, AnalysisRecord
    <2> QED  BY <1>5, <2>1, <1>1, <1>3, AnalysisEndEffect DEF LoadContext
  <1>6. CASE ClaimEvidence(a)
    <2>1. /\ analysis[a].pc = "claiming"
          /\ analysis'[a].pc = "verifying"
          /\ analysis'[a].answer = analysis[a].answer
          /\ analysis'[a].asset = analysis[a].asset
          /\ runs'[a].status = "RUNNING"
          /\ runs'[a].asset = analysis[a].asset
          /\ UNCHANGED <<reports, results>>
      BY <1>6, AnalysisGoToEffect DEF ClaimEvidence, InsertRun, RepositoryTypeOK
    <2>2. runs[a].status = "none" /\ analysis[a].answer = "none"
      BY <1>d, <2>1 DEF ClaimFollowsPosition
    <2>3. ClaimFollowsPosition(a)' /\ RunNamesAsset(a)'
      BY <2>1, <2>2 DEF ClaimFollowsPosition, RunNamesAsset
    <2>4. FilesFollowPosition(a)' /\ AnswerMatchesRun(a)'
      BY <1>d, <2>1, <2>2 DEF FilesFollowPosition, AnswerMatchesRun, Succeeded
    <2> QED  BY <2>3, <2>4 DEF RunInv
  <1>7. CASE Analyze(a)
    <2>1. /\ analysis[a].pc = "engine"
          /\ analysis'[a].pc \in {"tool", "json"}
          /\ analysis'[a].verdict \in Succeeded
          /\ analysis'[a].answer = analysis[a].answer
          /\ analysis'[a].asset = analysis[a].asset
          /\ UNCHANGED <<runs, reports, results>>
      BY <1>7 DEF Analyze, AnalysisTypeOK, AnalysisRecord
    <2>2. ClaimFollowsPosition(a)' /\ RunNamesAsset(a)' /\ AnswerMatchesRun(a)'
      BY <1>d, <2>1 DEF ClaimFollowsPosition, RunNamesAsset, AnswerMatchesRun
    <2>3. FilesFollowPosition(a)'
      BY <1>d, <2>1 DEF FilesFollowPosition
    <2> QED  BY <2>2, <2>3 DEF RunInv
  <1>8. CASE CreateResult(a)
    <2>1. /\ UNCHANGED <<runs, reports, analysis>>
          /\ analysis[a].pc \in ResultFile
          /\ results[a][analysis[a].pc] = "absent"
          /\ \A f \in ResultFile \ {analysis[a].pc} : results'[a][f] = results[a][f]
      BY <1>8 DEF CreateResult, AnalysisTypeOK
    <2>2. ClaimFollowsPosition(a)' /\ RunNamesAsset(a)' /\ AnswerMatchesRun(a)'
      BY <1>d, <2>1 DEF ClaimFollowsPosition, RunNamesAsset, AnswerMatchesRun
    <2>3. a \notin reports
      BY <1>d, <2>1 DEF FilesFollowPosition, ClaimFollowsPosition, Succeeded
    <2>4. FilesFollowPosition(a)'
      BY <1>d, <2>1, <2>3 DEF FilesFollowPosition
    <2> QED  BY <2>2, <2>4 DEF RunInv
  <1>9. CASE SealResult(a)
    <2>1. /\ UNCHANGED <<runs, reports>>
          /\ analysis[a].pc \in ResultFile
          /\ results'[a][analysis[a].pc] = "sealed"
          /\ \A f \in ResultFile \ {analysis[a].pc} : results'[a][f] = results[a][f]
          /\ analysis'[a].pc = AfterFile[analysis[a].pc]
          /\ analysis'[a].verdict = analysis[a].verdict
          /\ analysis'[a].answer = analysis[a].answer
          /\ analysis'[a].asset = analysis[a].asset
      BY <1>9, AnalysisGoToEffect DEF SealResult, AnalysisTypeOK
    <2>2. ClaimFollowsPosition(a)' /\ RunNamesAsset(a)' /\ AnswerMatchesRun(a)'
      BY <1>d, <2>1 DEF ClaimFollowsPosition, RunNamesAsset, AnswerMatchesRun, AfterFile
    <2>3. a \notin reports
      BY <1>d, <2>1 DEF FilesFollowPosition, ClaimFollowsPosition, Succeeded
    <2>4. FilesFollowPosition(a)'
      BY <1>d, <2>1, <2>3 DEF FilesFollowPosition, AfterFile
    <2> QED  BY <2>2, <2>4 DEF RunInv
  <1>10. CASE Refuse(a) \/ Finish(a) \/ RecordFailure(a)
    <2>1. PICK status \in RunStatus \cup {analysis[a].verdict}, response \in Response :
              /\ FinalizeRun(a, analysis[a].case, status)
              /\ AnalysisSettles(a, response)
              /\ \/ /\ analysis[a].pc = "refusing"
                    /\ status = "REFUSED" /\ response = "integrity_failure"
                 \/ /\ analysis[a].pc = "finalizing"
                    /\ status = analysis[a].verdict /\ response = "analyzed"
                 \/ analysis[a].pc = "failing" /\ status = "FAILED" /\ response = "failed"
      BY <1>10 DEF Refuse, Finish, RecordFailure, RunStatus
    <2>2. /\ analysis'[a].pc = response
          /\ analysis'[a].answer = "none"
          /\ analysis'[a].asset = analysis[a].asset
          /\ runs[a].status = "RUNNING"
          /\ runs'[a].status = status
          /\ runs'[a].asset = runs[a].asset
          /\ a \in reports' <=> a \in reports \/ status \in Succeeded
          /\ UNCHANGED results
      BY <1>10, <2>1, <1>d, AnalysisSettlesEffect, FinalizeEffect
      DEF Refuse, Finish, RecordFailure, ClaimFollowsPosition
    <2>3. status \in Succeeded <=> analysis[a].pc = "finalizing"
      BY <1>d, <2>1 DEF FilesFollowPosition, Succeeded
    <2>4. status \notin {"none", "RUNNING"}
      BY <1>d, <2>1 DEF FilesFollowPosition, Succeeded
    <2>5. ClaimFollowsPosition(a)'
      BY <2>1, <2>2, <2>4 DEF ClaimFollowsPosition
    <2>6. RunNamesAsset(a)'
      BY <1>d, <2>2, <2>4 DEF RunNamesAsset
    <2>7. FilesFollowPosition(a)'
      <3>1. a \notin reports
        BY <1>d, <2>2 DEF FilesFollowPosition, Succeeded
      <3>2. status \in Succeeded => results[a]["json"] = "sealed" /\ results[a]["html"] = "sealed"
        BY <1>d, <2>3 DEF FilesFollowPosition
      <3> QED  BY <2>2, <3>1, <3>2 DEF FilesFollowPosition
    <2>8. AnswerMatchesRun(a)'
      BY <1>d, <2>1, <2>2, <2>3, <2>4 DEF AnswerMatchesRun, FilesFollowPosition, Succeeded
    <2> QED  BY <2>5, <2>6, <2>7, <2>8 DEF RunInv
  <1> QED
    BY <1>2, <1>4, <1>5, <1>6, <1>7, <1>8, <1>9, <1>10, <1>11, <1>12 DEF AnalysisStep, AnalysisWorks

LEMMA StepRunsInv == TypeOK /\ RunsInv /\ [Next]_vars => RunsInv'
  <1> SUFFICES ASSUME TypeOK, RunsInv, [Next]_vars, NEW a \in Analysis PROVE RunInv(a)'
    BY DEF RunsInv
  <1> USE DEF RunInv, ClaimFollowsPosition, RunNamesAsset, FilesFollowPosition,
              AnswerMatchesRun, Told
  <1>r. RunInv(a)
    BY DEF RunsInv
  <1>1. ASSUME analysis'[a] = analysis[a], runs'[a] = runs[a], results'[a] = results[a],
               a \in reports' <=> a \in reports
        PROVE  RunInv(a)'
    BY <1>r, <1>1
  <1>2. ASSUME UNCHANGED <<analysis, runs, results, reports>> PROVE RunInv(a)'
    BY <1>1, <1>2
  <1>3. ASSUME NEW b \in Analysis, Request(b) \/ AnalysisStep(b) PROVE RunInv(a)'
    <2>1. CASE a = b
      BY <1>3, <2>1, <1>r, AnalysisStepOwn
    <2>2. CASE a # b
      BY <1>3, <2>2, <1>1, AnalysisStepFrame DEF TypeOK
    <2> QED  BY <2>1, <2>2
  <1>4. ASSUME NEW u \in Upload, Receive(u) \/ UploadStep(u),
               UNCHANGED <<analysis, results, reconcile>>
        PROVE  RunInv(a)'
    BY <1>4, <1>2, UploadStepFrame DEF TypeOK
  <1>5. CASE Crash
    <2>1. CASE ~AnalysisInFlight(a)
      BY <1>5, <2>1, <1>1 DEF Crash, tables, TypeOK, AnalysisTypeOK
    <2>2. CASE AnalysisInFlight(a)
      <3>1. /\ analysis'[a].pc = "done"
            /\ analysis'[a].answer = "died"
            /\ analysis'[a].asset = analysis[a].asset
            /\ UNCHANGED <<runs, results, reports>>
            /\ "crash" \in Faults
        BY <1>5, <2>2 DEF Crash, tables, TypeOK, AnalysisTypeOK, AnalysisRecord
      <3>2. Told(a)' = "died"
        BY <3>1 DEF Response
      <3>4. ClaimFollowsPosition(a)'
        BY <3>1, <3>2 DEF Claimed, Unclaimed
      <3>5. RunNamesAsset(a)' /\ FilesFollowPosition(a)' /\ AnswerMatchesRun(a)'
        BY <1>r, <3>1, <3>2
      <3> QED  BY <3>4, <3>5
    <2> QED  BY <2>1, <2>2
  <1> QED
    BY <1>2, <1>3, <1>4, <1>5
    DEF Next, CreateCase, ListObjects, ReportOrphans, LoseObject, Idle, vars, tables, requests

LEMMA RunsInvariant == Spec => [](TypeOK /\ RunsInv)
  BY InitTypeOK, StepTypeOK, InitRunsInv, StepRunsInv, PTL DEF Spec

\* What the client was told agrees with the row of the run, whatever fails, and a run
\* that ended was reported as it ended unless its client waits or the process died.
THEOREM AnswersAgree == Spec => []AnswersMatchRuns
  <1>1. RunsInv => AnswersMatchRuns
    <2> SUFFICES ASSUME RunsInv, NEW a \in Analysis
                 PROVE  /\ AnswerMatchesRun(a)
                        /\ analysis[a].answer \in {Told(a), "none"}
      BY DEF AnswerMatchesRun, AnswersMatchRuns, Succeeded
    <2>1. analysis[a].pc \in Response => analysis[a].answer = "none"
      BY DEF RunsInv, RunInv, ClaimFollowsPosition, Response
    <2> QED  BY <2>1 DEF RunsInv, RunInv, Told
  <1> QED  BY <1>1, RunsInvariant, PTL

\* A report row is there only with both its files sealed.
THEOREM ReportsReadable == Spec => []ReportsHaveFiles
  <1>1. TypeOK /\ RunsInv => ReportsHaveFiles
    BY DEF TypeOK, RepositoryTypeOK, RunsInv, RunInv, FilesFollowPosition, ReportsHaveFiles
  <1> QED  BY <1>1, RunsInvariant, PTL

\* Every exit ends its run, unless its request died or the database failed it.
THEOREM RunsAreOwned == Spec => []RunningIsOwned
  <1>1. RunsInv => RunningIsOwned
    BY DEF RunsInv, RunInv, ClaimFollowsPosition, RunningIsOwned, AnalysisInFlight, Claimed,
           Told, Response
  <1> QED  BY <1>1, RunsInvariant, PTL

\* A run keeps its evidence, and its state once it is terminal.
LEMMA RunsStay ==
    ASSUME TypeOK, RunsInv, [Next]_vars, NEW a \in Analysis
    PROVE  /\ runs[a].status \notin {"none", "RUNNING"} => runs'[a] = runs[a]
           /\ runs[a].status = "RUNNING" => runs'[a].asset = runs[a].asset
  <1>1. CASE runs'[a] = runs[a]
    BY <1>1
  <1>2. CASE runs'[a] # runs[a]
    <2>1. PICK b \in Analysis : Request(b) \/ AnalysisStep(b)
      BY <1>2, UploadStepFrame
      DEF Next, CreateCase, ListObjects, ReportOrphans, LoseObject, Crash, Idle, vars, tables, TypeOK
    <2>2. a = b
      BY <1>2, <2>1, AnalysisStepFrame DEF TypeOK
    <2>3. CASE ClaimEvidence(a)
      BY <2>3 DEF ClaimEvidence, AnalysisAt, RunsInv, RunInv, ClaimFollowsPosition, Unclaimed
    <2>4. CASE Refuse(a) \/ Finish(a) \/ RecordFailure(a)
      BY <2>4, FinalizeEffect DEF Refuse, Finish, RecordFailure, TypeOK
    <2> QED
      BY <1>2, <2>1, <2>2, <2>3, <2>4
      DEF Request, LoadContext, ClaimConflict, ExplainConflict, Verify, VerifyFails, Analyze,
          CreateResult, SealResult, AnalysisRaises, AnalysisDbFails, Respond, AnalysisStep,
          AnalysisWorks, tables
  <1> QED  BY <1>1, <1>2

\* Evidence that a run refers to is referred to for good.
LEMMA RestrictedStays ==
    ASSUME TypeOK, RunsInv, [Next]_vars, NEW id \in Upload, Restricted(id)
    PROVE  Restricted(id)'
  <1>1. PICK a \in Analysis : runs[a].asset = id
    BY DEF Restricted
  <1>2. runs[a].status # "none"
    BY <1>1, RepositoryAssumption DEF RunsInv, RunInv, RunNamesAsset
  <1>3. runs'[a].asset = id
    BY <1>1, <1>2, RunsStay
  <1> QED  BY <1>3 DEF Restricted

\* No step reopens a terminal run or points a run at other evidence.
THEOREM RunsFinal == Spec => TerminalRunsFinal
  <1>1. TypeOK /\ RunsInv /\ [Next]_vars =>
            [\A a \in Analysis :
                /\ runs[a].status \notin {"none", "RUNNING"} => runs'[a] = runs[a]
                /\ runs[a].status = "RUNNING" => runs'[a].asset = runs[a].asset]_vars
    BY RunsStay
  <1> QED  BY <1>1, RunsInvariant, PTL DEF Spec, TerminalRunsFinal

-----------------------------------------------------------------------------
(* The steps of an upload, by what they mean to the tables                  *)

PreCommit == {"idle", "lookup", "putting", "reading", "finding", "blob", "committing", "fallback"}
PastPut == {"reading", "finding", "blob", "committing", "fallback"}
Doubtful == {"compensating", "deleting", "retracted"}

SameEvidence == UNCHANGED <<caseStatus, assets, blobs>>
KeepsAsset(u) ==
    upload'[u].asset = upload[u].asset /\ upload'[u].reused = upload[u].reused

\* on the way to the commit
Advances(u) ==
    /\ SameEvidence /\ KeepsAsset(u)
    /\ upload'[u].answer = upload[u].answer
    /\ \/ upload[u].pc \in PreCommit \ PastPut
          /\ upload'[u].pc \in {"lookup", "putting"}
          /\ UNCHANGED objects
       \/ upload[u].pc = "putting"
          /\ upload'[u].pc = "reading"
          /\ objects'[upload[u].content] = "intact"
       \/ upload[u].pc \in PastPut
          /\ upload'[u].pc \in PastPut
          /\ UNCHANGED objects

\* answered before the commit
TurnsAway(u) ==
    /\ SameEvidence /\ KeepsAsset(u) /\ UNCHANGED objects
    /\ upload[u].pc \in PreCommit
    /\ upload'[u].pc = "done"
    /\ upload'[u].answer \in {"case_not_found", "rejected", "storage_unavailable",
                              "database_unavailable"}
    /\ upload[u].pc \in PastPut =>
           upload'[u].answer \in {"storage_unavailable", "database_unavailable"}

Reuses(u) ==
    /\ SameEvidence /\ UNCHANGED objects
    /\ upload[u].pc \in PastPut
    /\ upload'[u].pc = "checking"
    /\ upload'[u].answer = upload[u].answer
    /\ upload'[u].reused = TRUE
    /\ upload'[u].asset \in Ids(upload[u].case, upload[u].content)

Inserts(u) ==
    /\ CommitEvidence(u)
    /\ upload[u].pc \in PastPut
    /\ upload'[u].pc = "checking"
    /\ upload'[u].answer = upload[u].answer
    /\ upload'[u].reused = upload[u].reused
    /\ upload'[u].asset = u

Accepts(u) ==
    /\ SameEvidence /\ KeepsAsset(u) /\ UNCHANGED objects
    /\ upload[u].pc = "checking" /\ upload'[u].pc = "done"
    /\ Contained(upload[u].content)
    /\ upload'[u].answer = IF upload[u].reused THEN "reused" ELSE "created"

Doubts(u) ==
    /\ SameEvidence /\ KeepsAsset(u) /\ UNCHANGED objects
    /\ upload'[u].answer = upload[u].answer
    /\ upload'[u].pc \in Doubtful \ {"retracted"}
    /\ \/ upload[u].pc \in Doubtful \ {"retracted"}
       \/ upload[u].pc = "checking"
          /\ (~Contained(upload[u].content) \/ "stat" \in Faults)

GivesUp(u) ==
    /\ KeepsAsset(u) /\ UNCHANGED objects
    /\ upload[u].pc \in Doubtful \ {"retracted"} /\ upload'[u].pc = "retracted"
    /\ upload'[u].answer = upload[u].answer
    /\ \/ Compensate(u)
       \/ SameEvidence /\ ("db" \in Faults \/ Restricted(Id(u)))

Admits(u) ==
    /\ SameEvidence /\ KeepsAsset(u) /\ UNCHANGED objects
    /\ upload[u].pc = "retracted" /\ upload'[u].pc = "done"
    /\ upload'[u].answer = "consistency_failure"

\* Every step of an upload is one of these eight.
LEMMA UploadStepCases ==
    ASSUME TypeOK, NEW u \in Upload, Receive(u) \/ UploadStep(u)
    PROVE  \/ Advances(u) \/ TurnsAway(u) \/ Reuses(u) \/ Inserts(u)
           \/ Accepts(u) \/ Doubts(u) \/ GivesUp(u) \/ Admits(u)
  <1> USE DEF TypeOK, UploadAt, tables, SameEvidence, KeepsAsset, PreCommit, PastPut, Doubtful
  <1>1. CASE Receive(u)
    BY <1>1, UploadGoToEffect DEF Receive, Advances
  <1>2. CASE LookupCase(u)
    BY <1>2, UploadGoToEffect, UploadEndEffect DEF LookupCase, Advances, TurnsAway
  <1>3. CASE PutObject(u)
    <2>1. /\ upload[u].content \in Content
          /\ objects \in [Content -> ObjectState]
      BY DEF UploadTypeOK, UploadRecord, RepositoryTypeOK
    <2> QED
      BY <1>3, <2>1, UploadGoToEffect, UploadEndEffect DEF PutObject, Advances, TurnsAway
  <1>4. CASE PutFails(u)
    BY <1>4, UploadEndEffect DEF PutFails, TurnsAway
  <1>5. CASE ReadCase(u) \/ ReadBlob(u)
    BY <1>5 DEF ReadCase, ReadBlob, Advances, UploadTypeOK, UploadRecord
  <1>6. CASE FindAssociation(u) \/ Fallback(u)
    <2>1. UNCHANGED <<objects, tables>> /\ upload[u].pc \in {"finding", "fallback"}
      BY <1>6 DEF FindAssociation, Fallback
    <2>2. \/ \E id \in Ids(upload[u].case, upload[u].content) : Reuse(u, id)
          \/ upload[u].pc = "finding" /\ UploadGoTo(u, "blob")
          \/ upload[u].pc = "fallback" /\ UploadEnd(u, "database_unavailable")
      BY <1>6 DEF FindAssociation, Fallback
    <2>3. CASE \E id \in Ids(upload[u].case, upload[u].content) : Reuse(u, id)
      BY <2>1, <2>3, ReuseEffect DEF Reuses
    <2>4. CASE upload[u].pc = "finding" /\ UploadGoTo(u, "blob")
      BY <2>1, <2>4, UploadGoToEffect DEF Advances
    <2>5. CASE upload[u].pc = "fallback" /\ UploadEnd(u, "database_unavailable")
      BY <2>1, <2>5, UploadEndEffect DEF TurnsAway
    <2> QED  BY <2>2, <2>3, <2>4, <2>5
  <1>7. CASE CommitEvidence(u)
    <2>1. /\ upload[u].pc = "committing"
          /\ upload'[u].pc = "checking"
          /\ upload'[u].answer = upload[u].answer
          /\ upload'[u].reused = upload[u].reused
          /\ upload'[u].asset = u
      BY <1>7 DEF CommitEvidence, UploadTypeOK, UploadRecord
    <2> QED  BY <1>7, <2>1 DEF Inserts
  <1>8. CASE CommitConflict(u)
    BY <1>8, UploadGoToEffect DEF CommitConflict, Advances
  <1>9. CASE CheckObject(u)
    BY <1>9, UploadGoToEffect, UploadEndEffect DEF CheckObject, Accepts, Doubts
  <1>10. CASE FindCompensated(u)
    BY <1>10 DEF FindCompensated, Doubts, UploadTypeOK, UploadRecord
  <1>11. CASE Compensate(u)
    BY <1>11, UploadGivesUpEffect DEF Compensate, GivesUp
  <1>12. CASE CompensationRefused(u) \/ UploadDbFails(u)
    BY <1>12, UploadEndEffect, UploadGivesUpEffect
    DEF CompensationRefused, UploadDbFails, GivesUp, TurnsAway, Id
  <1>13. CASE ReportInconsistent(u)
    BY <1>13, UploadEndEffect DEF ReportInconsistent, Admits
  <1> QED
    BY <1>1, <1>2, <1>3, <1>4, <1>5, <1>6, <1>7, <1>8, <1>9, <1>10, <1>11, <1>12, <1>13 DEF UploadStep, UploadWorks

\* What a request uploads is fixed, whoever makes the step.
LEMMA InputsFixed ==
    ASSUME TypeOK, [Next]_vars, NEW u \in Upload
    PROVE  upload'[u].case = upload[u].case /\ upload'[u].content = upload[u].content
  <1> USE DEF TypeOK
  <1>1. ASSUME NEW v \in Upload, Receive(v) \/ UploadStep(v)
        PROVE  upload'[u].case = upload[u].case /\ upload'[u].content = upload[u].content
    BY <1>1, UploadStepFrame
  <1>2. CASE Crash
    BY <1>2 DEF Crash, UploadTypeOK, UploadRecord
  <1>3. CASE UNCHANGED upload
    BY <1>3
  <1> QED
    BY <1>1, <1>2, <1>3
    DEF Next, CreateCase, Request, AnalysisStep, AnalysisWorks, ListObjects, ReportOrphans, LoseObject, Idle,
        vars, requests

LEMMA AnalysisInputsFixed ==
    ASSUME TypeOK, [Next]_vars, NEW a \in Analysis
    PROVE  analysis'[a].case = analysis[a].case /\ analysis'[a].asset = analysis[a].asset
  <1> USE DEF TypeOK
  <1>1. ASSUME NEW b \in Analysis, Request(b) \/ AnalysisStep(b)
        PROVE  analysis'[a].case = analysis[a].case /\ analysis'[a].asset = analysis[a].asset
    BY <1>1, AnalysisStepFrame
  <1>2. CASE Crash
    BY <1>2 DEF Crash, AnalysisTypeOK, AnalysisRecord
  <1> QED
    BY <1>1, <1>2
    DEF Next, CreateCase, ListObjects, ReportOrphans, LoseObject, Idle, vars, requests

-----------------------------------------------------------------------------
(* Keys *)

\* The association a request answers for is one for its own case and content.
NamesOwnEvidence(u) ==
    /\ upload[u].answer # "none" <=> upload[u].pc = "done"
    /\ upload[u].pc \in PreCommit => upload[u].asset = NoAsset /\ ~upload[u].reused
    /\ \/ upload[u].pc \in {"checking"} \cup Doubtful
       \/ upload[u].answer \in Accepted \cup {"consistency_failure"}
       => upload[u].asset # NoAsset
    /\ upload[u].answer = "created" => ~upload[u].reused
    /\ upload[u].asset # NoAsset =>
           /\ upload[upload[u].asset].case = upload[u].case
           /\ upload[upload[u].asset].content = upload[u].content
           /\ ~upload[u].reused => upload[u].asset = u

\* A row carries the id, the case and the content of the upload that inserted it.
RowsMatch ==
    \A r \in assets : /\ upload[r.id].asset = r.id
                      /\ upload[r.id].case = r.case
                      /\ upload[r.id].content = r.content

\* An analysis that found its evidence knows the case it belongs to.
AnalysisNamesCase(a) ==
    analysis[a].pc \in {"claiming", "conflict"} \cup Claimed =>
        upload[analysis[a].asset].case = analysis[a].case

KeysInv ==
    /\ \A u \in Upload : NamesOwnEvidence(u)
    /\ RowsMatch
    /\ \A a \in Analysis : AnalysisNamesCase(a)

LEMMA InitKeysInv == Init => KeysInv /\ ReferentialIntegrity
  <1> SUFFICES ASSUME Init PROVE KeysInv /\ ReferentialIntegrity
    OBVIOUS
  <1>1. ASSUME NEW u \in Upload PROVE NamesOwnEvidence(u)
    BY DEF Init, UploadInit, NamesOwnEvidence, Doubtful, Accepted
  <1>2. RowsMatch /\ ReferentialIntegrity
    BY DEF Init, RepositoryInit, RowsMatch, ReferentialIntegrity
  <1>3. ASSUME NEW a \in Analysis PROVE AnalysisNamesCase(a)
    BY DEF Init, AnalysisInit, AnalysisNamesCase, Claimed
  <1> QED  BY <1>1, <1>2, <1>3 DEF KeysInv

LEMMA StepNamesOwnEvidence ==
    ASSUME TypeOK, KeysInv, [Next]_vars, NEW u \in Upload
    PROVE  NamesOwnEvidence(u)'
  <1> USE DEF TypeOK
  <1>k. NamesOwnEvidence(u) /\ RowsMatch
    BY DEF KeysInv
  <1>f. \A v \in Upload : /\ upload'[v].case = upload[v].case
                          /\ upload'[v].content = upload[v].content
    BY InputsFixed
  <1>t. /\ upload[u].asset \in Upload \cup {NoAsset}
        /\ upload[u].pc \in UploadPC
    BY DEF UploadTypeOK, UploadRecord
  <1>1. ASSUME upload'[u] = upload[u] PROVE NamesOwnEvidence(u)'
    BY <1>1, <1>k, <1>f, <1>t DEF NamesOwnEvidence
  <1>2. ASSUME Receive(u) \/ UploadStep(u) PROVE NamesOwnEvidence(u)'
    <2>0. \/ Advances(u) \/ TurnsAway(u) \/ Reuses(u) \/ Inserts(u)
          \/ Accepts(u) \/ Doubts(u) \/ GivesUp(u) \/ Admits(u)
      BY <1>2, UploadStepCases
    <2> USE DEF KeepsAsset, PreCommit, PastPut, Doubtful, Accepted
    <2>1. CASE Advances(u)
      BY <2>1, <1>k, <1>f, <1>t DEF Advances, NamesOwnEvidence
    <2>2. CASE TurnsAway(u)
      BY <2>2, <1>k, <1>f, <1>t DEF TurnsAway, NamesOwnEvidence
    <2>3. CASE Reuses(u)
      <3>1. PICK r \in assets : /\ r.id = upload'[u].asset
                                /\ r.case = upload[u].case
                                /\ r.content = upload[u].content
        BY <2>3 DEF Reuses, Ids
      <3>2. upload'[u].asset \in Upload
        BY <3>1 DEF RepositoryTypeOK, Asset
      <3>3. upload[u].answer = "none"
        BY <2>3, <1>k DEF Reuses, NamesOwnEvidence
      <3>4. /\ upload'[upload'[u].asset].case = upload'[u].case
            /\ upload'[upload'[u].asset].content = upload'[u].content
        BY <1>k, <1>f, <3>1, <3>2 DEF RowsMatch
      <3> QED
        BY <2>3, <3>2, <3>3, <3>4, RepositoryAssumption DEF Reuses, NamesOwnEvidence
    <2>4. CASE Inserts(u)
      <3>1. upload[u].answer = "none"
        BY <2>4, <1>k DEF Inserts, NamesOwnEvidence
      <3> QED  BY <2>4, <3>1, <1>f, RepositoryAssumption DEF Inserts, NamesOwnEvidence
    <2>5. CASE Accepts(u)
      BY <2>5, <1>k, <1>f, <1>t DEF Accepts, NamesOwnEvidence
    <2>6. CASE Doubts(u)
      BY <2>6, <1>k, <1>f, <1>t DEF Doubts, NamesOwnEvidence
    <2>7. CASE GivesUp(u) \/ Admits(u)
      BY <2>7, <1>k, <1>f, <1>t DEF GivesUp, Admits, NamesOwnEvidence
    <2> QED  BY <2>0, <2>1, <2>2, <2>3, <2>4, <2>5, <2>6, <2>7
  <1>3. ASSUME NEW v \in Upload, Receive(v) \/ UploadStep(v) PROVE NamesOwnEvidence(u)'
    BY <1>1, <1>2, <1>3, UploadStepFrame
  <1>4. CASE Crash
    <2>1. \/ upload'[u] = upload[u]
          \/ /\ upload'[u].pc = "done" /\ upload'[u].answer = "died"
             /\ KeepsAsset(u)
      BY <1>4 DEF Crash, KeepsAsset, UploadTypeOK, UploadRecord
    <2> QED
      BY <2>1, <1>1, <1>k, <1>f, <1>t
      DEF KeepsAsset, NamesOwnEvidence, PreCommit, Doubtful, Accepted
  <1> QED
    BY <1>1, <1>3, <1>4
    DEF Next, CreateCase, Request, AnalysisStep, AnalysisWorks, ListObjects, ReportOrphans, LoseObject, Idle,
        vars, requests

\* What a step does to the evidence rows: nothing, or one upload inserts its own
\* row, or one upload deletes the row it answers for.
LEMMA RowChanges ==
    ASSUME TypeOK, [Next]_vars
    PROVE  \/ UNCHANGED <<assets, blobs>>
           \/ \E u \in Upload : Inserts(u)
           \/ \E u \in Upload : upload[u].pc \in Doubtful /\ Compensate(u)
  <1>1. ASSUME NEW u \in Upload, Receive(u) \/ UploadStep(u)
        PROVE  \/ UNCHANGED <<assets, blobs>>
               \/ Inserts(u)
               \/ upload[u].pc \in Doubtful /\ Compensate(u)
    BY <1>1, UploadStepCases
    DEF Advances, TurnsAway, Reuses, Accepts, Doubts, GivesUp, Admits, SameEvidence
  <1>2. ASSUME NEW a \in Analysis, Request(a) \/ AnalysisStep(a)
        PROVE  UNCHANGED <<assets, blobs>>
    BY <1>2, AnalysisStepFrame DEF TypeOK
  <1> QED
    BY <1>1, <1>2
    DEF Next, CreateCase, ListObjects, ReportOrphans, LoseObject, Crash, Idle, vars, tables

\* An association that a request answers for is never exchanged.
LEMMA AssetStays ==
    ASSUME TypeOK, KeysInv, [Next]_vars, NEW v \in Upload, upload[v].asset # NoAsset
    PROVE  upload'[v].asset = upload[v].asset
  <1> USE DEF TypeOK
  <1>1. CASE upload'[v] = upload[v]
    BY <1>1
  <1>2. ASSUME NEW u \in Upload, Receive(u) \/ UploadStep(u)
        PROVE  upload'[v].asset = upload[v].asset
    <2>1. CASE u # v
      BY <1>2, <2>1, UploadStepFrame
    <2>2. CASE u = v
      <3>1. upload[v].pc \notin PreCommit
        BY DEF KeysInv, NamesOwnEvidence
      <3> QED
        BY <3>1, <1>2, <2>2, UploadStepCases
        DEF Advances, TurnsAway, Reuses, Inserts, Accepts, Doubts, GivesUp, Admits, KeepsAsset,
            PreCommit, PastPut
    <2> QED  BY <2>1, <2>2
  <1>3. CASE Crash
    BY <1>3 DEF Crash, UploadTypeOK, UploadRecord
  <1> QED
    BY <1>1, <1>2, <1>3
    DEF Next, CreateCase, Request, AnalysisStep, AnalysisWorks, ListObjects, ReportOrphans, LoseObject,
        Idle, vars, requests

LEMMA StepRowsMatch ==
    ASSUME TypeOK, KeysInv, [Next]_vars
    PROVE  RowsMatch'
  <1> USE DEF TypeOK
  <1>f. \A v \in Upload : /\ upload'[v].case = upload[v].case
                          /\ upload'[v].content = upload[v].content
    BY InputsFixed
  <1>k. RowsMatch /\ \A v \in Upload : NamesOwnEvidence(v)
    BY DEF KeysInv
  <1>r. \A r \in assets : r.id \in Upload /\ r.id # NoAsset
    BY RepositoryAssumption DEF RepositoryTypeOK, Asset
  <1>2. ASSUME NEW r \in assets
        PROVE  /\ upload'[r.id].asset = r.id
               /\ upload'[r.id].case = r.case
               /\ upload'[r.id].content = r.content
    BY AssetStays, <1>f, <1>k, <1>r DEF RowsMatch
  <1>3. CASE assets' \subseteq assets
    BY <1>2, <1>3 DEF RowsMatch
  <1>4. ASSUME NEW u \in Upload, Inserts(u) PROVE RowsMatch'
    <2>1. assets' = assets \cup {[id |-> u, case |-> upload[u].case,
                                  content |-> upload[u].content]}
      BY <1>4 DEF Inserts, CommitEvidence, InsertEvidence
    <2>2. upload'[u].asset = u
      BY <1>4 DEF Inserts
    <2> QED  BY <1>2, <1>f, <2>1, <2>2 DEF RowsMatch
  <1>5. ASSUME NEW u \in Upload, Compensate(u) PROVE assets' \subseteq assets
    BY <1>5 DEF Compensate, DeleteEvidence
  <1> QED  BY <1>3, <1>4, <1>5, RowChanges

LEMMA StepAnalysisNamesCase ==
    ASSUME TypeOK, KeysInv, [Next]_vars, NEW a \in Analysis
    PROVE  AnalysisNamesCase(a)'
  <1> USE DEF TypeOK, AnalysisAt, Claimed, ResultFile
  <1>k. RowsMatch /\ AnalysisNamesCase(a)
    BY DEF KeysInv
  <1>t. analysis[a].asset \in Upload /\ analysis[a].pc \in AnalysisPC
    BY DEF AnalysisTypeOK, AnalysisRecord
  <1>f. upload'[analysis[a].asset].case = upload[analysis[a].asset].case
    BY <1>t, InputsFixed
  <1>1. CASE analysis'[a] = analysis[a]
    BY <1>1, <1>k, <1>f DEF AnalysisNamesCase
  <1>2. ASSUME analysis'[a].pc \in AnalysisPC \ ({"claiming", "conflict"} \cup Claimed)
        PROVE  AnalysisNamesCase(a)'
    BY <1>2 DEF AnalysisNamesCase
  <1>3. ASSUME analysis[a].pc \in {"claiming", "conflict"} \cup Claimed,
               analysis'[a].case = analysis[a].case, analysis'[a].asset = analysis[a].asset
        PROVE  AnalysisNamesCase(a)'
    BY <1>3, <1>k, <1>f DEF AnalysisNamesCase
  <1>4. ASSUME Request(a) \/ AnalysisStep(a) PROVE AnalysisNamesCase(a)'
    <2>f. analysis'[a].case = analysis[a].case /\ analysis'[a].asset = analysis[a].asset
      BY <1>4, AnalysisStepFrame
    <2>1. CASE Request(a)
      BY <2>1, <1>2, AnalysisGoToEffect DEF Request, AnalysisPC
    <2>2. CASE LoadContext(a)
      <3>1. CASE AnalysisEnd(a, "evidence_not_found")
        BY <3>1, <1>2, AnalysisEndEffect DEF AnalysisPC
      <3>2. CASE \E r \in assets : r.id = analysis[a].asset /\ r.case = analysis[a].case
        BY <3>2, <1>k, <1>f, <2>f DEF RowsMatch, AnalysisNamesCase
      <3> QED  BY <2>2, <3>1, <3>2 DEF LoadContext
    <2>3. CASE AnalysisDbFails(a)
      BY <2>3, <1>2, AnalysisEndEffect, AnalysisSettlesEffect DEF AnalysisDbFails, AnalysisPC
    <2>4. CASE Respond(a)
      BY <2>4, <1>2, AnalysisEndEffect DEF Respond, AnalysisPC
    <2>5. CASE ~(Request(a) \/ LoadContext(a) \/ AnalysisDbFails(a) \/ Respond(a))
      BY <1>4, <2>5, <2>f, <1>3
      DEF AnalysisStep, AnalysisWorks, ClaimEvidence, ClaimConflict, ExplainConflict, Verify, VerifyFails,
          Refuse, Analyze, CreateResult, SealResult, AnalysisRaises, Finish, RecordFailure
    <2> QED  BY <2>1, <2>2, <2>3, <2>4, <2>5
  <1>5. ASSUME NEW b \in Analysis, Request(b) \/ AnalysisStep(b) PROVE AnalysisNamesCase(a)'
    BY <1>1, <1>4, <1>5, AnalysisStepFrame
  <1>6. CASE Crash
    <2>1. analysis'[a] = analysis[a] \/ analysis'[a].pc = "done"
      BY <1>6 DEF Crash, AnalysisTypeOK, AnalysisRecord
    <2> QED  BY <2>1, <1>1, <1>2 DEF AnalysisPC
  <1> QED
    BY <1>1, <1>5, <1>6
    DEF Next, CreateCase, ListObjects, ReportOrphans, LoseObject, Idle, vars, requests

LEMMA StepKeysInv == TypeOK /\ KeysInv /\ [Next]_vars => KeysInv'
  <1> SUFFICES ASSUME TypeOK, KeysInv, [Next]_vars PROVE KeysInv'
    OBVIOUS
  <1>1. \A u \in Upload : NamesOwnEvidence(u)'
    BY StepNamesOwnEvidence
  <1>2. RowsMatch'
    BY StepRowsMatch
  <1>3. \A a \in Analysis : AnalysisNamesCase(a)'
    BY StepAnalysisNamesCase
  <1> QED  BY <1>1, <1>2, <1>3 DEF KeysInv

\* The three parts of ReferentialIntegrity.
OneAssociation ==
    \A a, b \in assets : a.id = b.id \/ (a.case = b.case /\ a.content = b.content) => a = b
BlobsMatch == blobs = {a.content : a \in assets}
RunHasEvidence(a) ==
    runs[a].status # "none" =>
        \E r \in assets : r.id = runs[a].asset /\ r.case = analysis[a].case

LEMMA IntegrityParts ==
    ReferentialIntegrity <=>
        OneAssociation /\ BlobsMatch /\ \A a \in Analysis : RunHasEvidence(a)
  BY DEF ReferentialIntegrity, OneAssociation, BlobsMatch, RunHasEvidence

\* The row that an upload inserts has a new id, case and content.
LEMMA InsertedRow ==
    ASSUME TypeOK, KeysInv, ReferentialIntegrity, NEW u \in Upload, Inserts(u)
    PROVE  OneAssociation' /\ BlobsMatch'
  <1> DEFINE new == [id |-> u, case |-> upload[u].case, content |-> upload[u].content]
  <1>1. /\ assets' = assets \cup {new}
        /\ blobs' = blobs \cup {new.content}
        /\ ~InsertConflicts(new.case, new.content, upload[u].sawBlob)
    BY DEF Inserts, CommitEvidence, InsertEvidence
  <1>2. OneAssociation /\ BlobsMatch
    BY IntegrityParts
  <1>3. \A r \in assets : r.id # u
    <2>1. upload[u].asset = NoAsset
      BY DEF KeysInv, NamesOwnEvidence, Inserts, PreCommit, PastPut
    <2> QED  BY <2>1, RepositoryAssumption DEF KeysInv, RowsMatch
  <1>4. \A r \in assets : ~(r.case = new.case /\ r.content = new.content)
    BY <1>1 DEF InsertConflicts, Ids
  <1>5. OneAssociation'
    BY <1>1, <1>2, <1>3, <1>4 DEF OneAssociation
  <1>6. BlobsMatch'
    BY <1>1, <1>2 DEF BlobsMatch
  <1> QED  BY <1>5, <1>6

LEMMA DeletedRow ==
    ASSUME TypeOK, KeysInv, ReferentialIntegrity, NEW u \in Upload,
           upload[u].pc \in Doubtful, Compensate(u)
    PROVE  OneAssociation' /\ BlobsMatch'
  <1> DEFINE kept == {a \in assets : a.id # upload[u].asset}
  <1>1. /\ assets' = kept
        /\ blobs' = IF \E a \in kept : a.content = upload[u].content
                    THEN blobs ELSE blobs \ {upload[u].content}
    BY DEF Compensate, DeleteEvidence
  <1>2. OneAssociation /\ BlobsMatch
    BY IntegrityParts
  <1>3. \A r \in assets : r.id = upload[u].asset => r.content = upload[u].content
    BY DEF KeysInv, NamesOwnEvidence, RowsMatch, Doubtful
  <1>4. OneAssociation'
    BY <1>1, <1>2 DEF OneAssociation
  <1>5. \A r \in assets \ kept : r.content = upload[u].content
    BY <1>3
  <1>6. BlobsMatch'
    BY <1>1, <1>2, <1>5 DEF BlobsMatch
  <1> QED  BY <1>4, <1>6

LEMMA StepRunHasEvidence ==
    ASSUME TypeOK, RunsInv, KeysInv, ReferentialIntegrity, [Next]_vars, NEW a \in Analysis
    PROVE  RunHasEvidence(a)'
  <1> USE DEF TypeOK
  <1>r. RunHasEvidence(a)
    BY IntegrityParts
  <1>f. analysis'[a].case = analysis[a].case /\ analysis'[a].asset = analysis[a].asset
    BY AnalysisInputsFixed
  \* the rows that a run needs stay
  <1>1. ASSUME runs'[a].status # "none" => runs'[a].asset = runs[a].asset /\ runs[a].status # "none",
               assets \subseteq assets'
        PROVE  RunHasEvidence(a)'
    BY <1>1, <1>r, <1>f DEF RunHasEvidence
  <1>2. ASSUME NEW u \in Upload, Receive(u) \/ UploadStep(u) PROVE RunHasEvidence(a)'
    <2>0. UNCHANGED runs
      BY <1>2, UploadStepFrame
    <2>1. CASE assets \subseteq assets'
      BY <2>0, <2>1, <1>1
    <2>2. CASE Inserts(u)
      BY <2>2, <2>1 DEF Inserts, CommitEvidence, InsertEvidence
    <2>3. CASE Compensate(u)
      <3>1. /\ assets' = {r \in assets : r.id # upload[u].asset}
            /\ ~Restricted(upload[u].asset)
        BY <2>3 DEF Compensate, DeleteEvidence
      <3>2. runs[a].asset # upload[u].asset
        BY <3>1 DEF Restricted
      <3> QED  BY <2>0, <3>1, <3>2, <1>r, <1>f DEF RunHasEvidence
    <2> QED
      BY <2>1, <2>2, <2>3, <1>2, UploadStepCases
      DEF Advances, TurnsAway, Reuses, Accepts, Doubts, GivesUp, Admits, SameEvidence
  <1>3. ASSUME NEW b \in Analysis, Request(b) \/ AnalysisStep(b) PROVE RunHasEvidence(a)'
    <2>0. UNCHANGED assets /\ (a # b => runs'[a] = runs[a])
      BY <1>3, AnalysisStepFrame
    <2>1. CASE a # b \/ UNCHANGED runs
      BY <2>0, <2>1, <1>1
    <2>2. CASE a = b /\ ClaimEvidence(a)
      <3>1. /\ runs'[a].asset = analysis[a].asset
            /\ CaseOf(analysis[a].asset) # {}
            /\ analysis[a].pc = "claiming"
        BY <2>2 DEF ClaimEvidence, InsertRun, RunConflicts, RepositoryTypeOK, AnalysisAt
      <3>2. PICK r \in assets : r.id = analysis[a].asset
        BY <3>1 DEF CaseOf
      <3>3. r.case = analysis[a].case
        BY <3>1, <3>2 DEF KeysInv, RowsMatch, AnalysisNamesCase
      <3> QED  BY <2>0, <3>1, <3>2, <3>3, <1>f DEF RunHasEvidence
    <2>3. CASE a = b /\ (Refuse(a) \/ Finish(a) \/ RecordFailure(a))
      BY <2>0, <2>3, <1>1, FinalizeEffect DEF Refuse, Finish, RecordFailure
    <2> QED
      BY <1>3, <2>1, <2>2, <2>3
      DEF Request, LoadContext, ClaimConflict, ExplainConflict, Verify, VerifyFails, Analyze,
          CreateResult, SealResult, AnalysisRaises, AnalysisDbFails, Respond, AnalysisStep,
          AnalysisWorks, tables
  <1> QED
    BY <1>1, <1>2, <1>3
    DEF Next, CreateCase, ListObjects, ReportOrphans, LoseObject, Crash, Idle, vars, tables

LEMMA StepIntegrity ==
    TypeOK /\ RunsInv /\ KeysInv /\ ReferentialIntegrity /\ [Next]_vars => ReferentialIntegrity'
  <1> SUFFICES ASSUME TypeOK, RunsInv, KeysInv, ReferentialIntegrity, [Next]_vars
               PROVE  ReferentialIntegrity'
    OBVIOUS
  <1>1. OneAssociation' /\ BlobsMatch'
    <2>1. CASE UNCHANGED <<assets, blobs>>
      BY <2>1, IntegrityParts DEF OneAssociation, BlobsMatch
    <2> QED  BY <2>1, RowChanges, InsertedRow, DeletedRow
  <1>2. \A a \in Analysis : RunHasEvidence(a)'
    BY StepRunHasEvidence
  <1> QED
    BY <1>1, <1>2 DEF ReferentialIntegrity, OneAssociation, BlobsMatch, RunHasEvidence

TableInv == TypeOK /\ RunsInv /\ KeysInv /\ ReferentialIntegrity

LEMMA TableInvariant == Spec => []TableInv
  <1>1. Init => TableInv
    BY InitTypeOK, InitRunsInv, InitKeysInv DEF TableInv
  <1>2. TableInv /\ [Next]_vars => TableInv'
    BY StepTypeOK, StepRunsInv, StepKeysInv, StepIntegrity DEF TableInv
  <1> QED  BY <1>1, <1>2, PTL DEF Spec

\* Stale reads, conflicting inserts, compensations and crashes never break a key:
\* one association per case and content, a blob row exactly while it is needed,
\* and no run without its evidence.
THEOREM TablesIntegrity == Spec => []ReferentialIntegrity
  BY TableInvariant, PTL DEF TableInv

-----------------------------------------------------------------------------
(* Ids *)

\* An id that a request answers for was issued by the upload of that id, and a request
\* that reuses an association did not issue it.
IdIsIssued(u) ==
    Id(u) # NoAsset => /\ Id(Id(u)) = Id(u)
                       /\ upload[u].reused => Id(u) # u
IssuedInv == \A u \in Upload : IdIsIssued(u)

LEMMA StepIssuedInv == TypeOK /\ KeysInv /\ IssuedInv /\ [Next]_vars => IssuedInv'
  <1> SUFFICES ASSUME TypeOK, KeysInv, IssuedInv, [Next]_vars, NEW u \in Upload
               PROVE  IdIsIssued(u)'
    BY DEF IssuedInv
  <1>t. \A v \in Upload : Id(v) \in Upload \cup {NoAsset}
    BY DEF Id, TypeOK, UploadTypeOK, UploadRecord
  <1>s. \A v \in Upload : Id(v) # NoAsset => Id(v)' = Id(v)
    BY AssetStays DEF Id
  <1>i. IdIsIssued(u)
    BY DEF IssuedInv
  <1>1. CASE KeepsAsset(u)
    <2>1. Id(u)' = Id(u) /\ upload'[u].reused = upload[u].reused
      BY <1>1 DEF KeepsAsset, Id
    <2>2. Id(u) # NoAsset => Id(Id(u))' = Id(Id(u))
      BY <1>t, <1>s, <1>i DEF IdIsIssued, Id
    <2> QED  BY <1>i, <2>1, <2>2 DEF IdIsIssued, Id
  <1>2. ASSUME Receive(u) \/ UploadStep(u) PROVE IdIsIssued(u)'
    <2>1. CASE Reuses(u)
      <3>1. PICK r \in assets : r.id = upload'[u].asset
        BY <2>1 DEF Reuses, Ids
      <3>2. r.id \in Upload /\ upload[r.id].asset = r.id /\ r.id # NoAsset
        BY <3>1, RepositoryAssumption DEF TypeOK, RepositoryTypeOK, Asset, KeysInv, RowsMatch
      <3>3. upload[u].asset = NoAsset
        BY <2>1 DEF Reuses, KeysInv, NamesOwnEvidence, PreCommit, PastPut
      <3>4. upload'[r.id].asset = r.id
        BY <3>2, AssetStays
      <3> QED  BY <3>1, <3>2, <3>3, <3>4 DEF IdIsIssued, Id
    <2>2. CASE Inserts(u)
      <3>1. upload[u].pc \in PreCommit /\ upload'[u].asset = u
        BY <2>2 DEF Inserts, PreCommit, PastPut
      <3>2. ~upload'[u].reused
        BY <2>2, <3>1 DEF Inserts, KeysInv, NamesOwnEvidence
      <3> QED  BY <3>1, <3>2 DEF IdIsIssued, Id
    <2>3. CASE Advances(u) \/ TurnsAway(u) \/ Accepts(u) \/ Doubts(u) \/ GivesUp(u) \/ Admits(u)
      BY <2>3, <1>1 DEF Advances, TurnsAway, Accepts, Doubts, GivesUp, Admits
    <2> QED  BY <1>2, <2>1, <2>2, <2>3, UploadStepCases
  <1>3. ASSUME NEW v \in Upload, Receive(v) \/ UploadStep(v) PROVE IdIsIssued(u)'
    BY <1>1, <1>2, <1>3, UploadStepFrame DEF KeepsAsset, TypeOK
  <1>4. CASE Crash
    BY <1>1, <1>4 DEF Crash, KeepsAsset, TypeOK, UploadTypeOK, UploadRecord
  <1> QED
    BY <1>1, <1>3, <1>4
    DEF Next, CreateCase, Request, AnalysisStep, AnalysisWorks, ListObjects, ReportOrphans,
        LoseObject, Idle, vars, requests, KeepsAsset

LEMMA IssuedInvariant == Spec => [](TableInv /\ IssuedInv)
  <1>1. Init => IssuedInv
    BY DEF Init, UploadInit, IssuedInv, IdIsIssued, Id
  <1> QED  BY <1>1, StepIssuedInv, TableInvariant, PTL DEF Spec, TableInv

\* An evidence row whose id was issued, and that is gone, does not come back.
LEMMA GoneStaysGone ==
    ASSUME TypeOK, KeysInv, [Next]_vars, NEW r \in assets', upload[r.id].asset # NoAsset
    PROVE  r \in assets
  <1>1. ASSUME NEW u \in Upload, Inserts(u) PROVE r \in assets
    <2>1. upload[u].asset = NoAsset
      BY <1>1 DEF Inserts, PreCommit, PastPut, KeysInv, NamesOwnEvidence
    <2> QED  BY <1>1, <2>1 DEF Inserts, CommitEvidence, InsertEvidence
  <1>2. ASSUME NEW u \in Upload, Compensate(u) PROVE r \in assets
    BY <1>2 DEF Compensate, DeleteEvidence
  <1> QED  BY <1>1, <1>2, RowChanges

-----------------------------------------------------------------------------
(* Objects *)

\* An upload changes an object only when put_stream adds it.
LEMMA UploadPuts ==
    ASSUME TypeOK, NEW u \in Upload, Receive(u) \/ UploadStep(u), objects' # objects
    PROVE  /\ upload[u].pc = "putting"
           /\ objects[upload[u].content] = "absent"
           /\ objects' = [objects EXCEPT ![upload[u].content] = "intact"]
           /\ upload'[u].pc = "reading"
  <1> USE DEF TypeOK
  <1>1. PutObject(u)
    BY DEF Receive, UploadStep, UploadWorks, PutFails, LookupCase, ReadCase, FindAssociation, ReadBlob,
           CommitEvidence, CommitConflict, Fallback, CheckObject, FindCompensated, Compensate,
           CompensationRefused, ReportInconsistent, UploadDbFails
  <1> QED
    BY <1>1, UploadGoToEffect DEF PutObject, UploadAt

\* Objects appear by uploads only, and change by the environment only.
LEMMA ObjectChanges ==
    ASSUME TypeOK, [Next]_vars
    PROVE  \/ UNCHANGED objects
           \/ \E c \in Content : LoseObject(c)
           \/ \E u \in Upload :
                 /\ upload[u].pc = "putting"
                 /\ objects[upload[u].content] = "absent"
                 /\ objects' = [objects EXCEPT ![upload[u].content] = "intact"]
                 /\ upload'[u].pc = "reading" \/ upload'[u].answer = "storage_unavailable"
  <1>1. ASSUME NEW a \in Analysis, Request(a) \/ AnalysisStep(a) PROVE UNCHANGED objects
    BY <1>1, AnalysisStepFrame DEF TypeOK
  <1> QED
    BY <1>1, UploadPuts DEF Next, CreateCase, ListObjects, ReportOrphans, Crash, Idle, vars

\* While nobody disturbs the store, an intact object stays intact.
LEMMA StoredStays ==
    ASSUME TypeOK, [Next]_vars, ~Disturbed, NEW c \in Content, Stored(c)
    PROVE  Stored(c)'
  BY ObjectChanges DEF LoseObject, Disturbed, Stored, TypeOK, RepositoryTypeOK

\* An undisturbed upload has its object from put_stream on, never doubts it, and
\* answers for a row that is committed.
Preserved(u) ==
    /\ upload[u].pc \in PastPut \cup {"checking"} \/ upload[u].answer \in Accepted
           => Stored(upload[u].content)
    /\ upload[u].pc \notin Doubtful
    /\ upload[u].pc = "checking" \/ upload[u].answer \in Accepted => RowOf(u) \in assets

StoreInv ==
    ~Disturbed => /\ \A u \in Upload : Preserved(u)
                  /\ \A a \in assets : Stored(a.content)

LEMMA InitStoreInv == Init => StoreInv
  BY DEF Init, RepositoryInit, UploadInit, StoreInv, Preserved, PastPut, Doubtful, Accepted

LEMMA StepStoreInv == TableInv /\ StoreInv /\ [Next]_vars => StoreInv'
  <1> SUFFICES ASSUME TableInv, StoreInv, [Next]_vars, ~Disturbed
               PROVE  /\ \A u \in Upload : Preserved(u)'
                      /\ \A a \in assets' : Stored(a.content)'
    BY DEF StoreInv, Disturbed
  <1> USE DEF TableInv, TypeOK
  <1>p. /\ \A u \in Upload : Preserved(u)
        /\ \A a \in assets : Stored(a.content)
    BY DEF StoreInv
  <1>c. \A u \in Upload : upload[u].content \in Content
    BY DEF UploadTypeOK, UploadRecord
  <1>f. \A v \in Upload : /\ upload'[v].case = upload[v].case
                          /\ upload'[v].content = upload[v].content
    BY InputsFixed
  <1>s. \A u \in Upload : Stored(upload[u].content) => Stored(upload[u].content)'
    BY <1>c, <1>f, StoredStays DEF Stored
  \* nothing is ever compensated, so rows only come
  <1>1. assets \subseteq assets'
    <2>1. \A u \in Upload : upload[u].pc \notin Doubtful
      BY <1>p DEF Preserved
    <2> QED  BY <2>1, RowChanges DEF Inserts, CommitEvidence, InsertEvidence
  <1>2. ASSUME NEW a \in assets' PROVE Stored(a.content)'
    <2>1. CASE a \in assets
      BY <2>1, <1>p, StoredStays DEF RepositoryTypeOK, Asset
    <2>2. CASE a \notin assets
      <3>1. PICK u \in Upload : Inserts(u)
        BY <1>p, <2>2, RowChanges DEF Preserved
      <3>2. a.content = upload[u].content /\ upload[u].pc \in PastPut
        BY <2>2, <3>1 DEF Inserts, CommitEvidence, InsertEvidence
      <3>3. Stored(upload[u].content)'
        BY <1>p, <1>s, <3>2 DEF Preserved
      <3> QED  BY <3>2, <3>3, <1>f DEF Stored
    <2> QED  BY <2>1, <2>2
  \* a request that does not move keeps what it has
  <1>3. ASSUME NEW u \in Upload, upload'[u] = upload[u] PROVE Preserved(u)'
    BY <1>3, <1>p, <1>s, <1>1 DEF Preserved, RowOf, Id, Stored
  <1>4. ASSUME NEW u \in Upload, Receive(u) \/ UploadStep(u) PROVE Preserved(u)'
    <2>0. \/ Advances(u) \/ TurnsAway(u) \/ Reuses(u) \/ Inserts(u)
          \/ Accepts(u) \/ Doubts(u) \/ GivesUp(u) \/ Admits(u)
      BY <1>4, UploadStepCases
    <2>p. Preserved(u) /\ NamesOwnEvidence(u)
      BY <1>p DEF KeysInv
    <2> USE DEF PreCommit, PastPut, Doubtful, Accepted
    <2>1. CASE Advances(u)
      <3>1. upload'[u].answer = "none"
        BY <2>1, <2>p DEF Advances, NamesOwnEvidence
      <3>2. /\ upload'[u].pc \notin {"checking", "done"} \cup Doubtful
            /\ upload'[u].pc \in PastPut => Stored(upload[u].content)'
        BY <2>1, <2>p, <1>s, <1>f DEF Advances, Preserved, Stored
      <3> QED  BY <3>1, <3>2, <1>f DEF Preserved, Stored
    <2>2. CASE TurnsAway(u)
      BY <2>2 DEF TurnsAway, Preserved
    <2>3. CASE Reuses(u)
      <3>1. PICK r \in assets : /\ r.id = upload'[u].asset
                                /\ r.case = upload[u].case
                                /\ r.content = upload[u].content
        BY <2>3 DEF Reuses, Ids
      <3>2. RowOf(u)' = r
        BY <3>1, <1>f DEF RowOf, Id, RepositoryTypeOK, Asset
      <3>3. Stored(upload[u].content)'
        BY <2>3, <2>p, <1>s DEF Reuses, Preserved
      <3>4. upload'[u].answer = "none" /\ upload'[u].pc = "checking"
        BY <2>3, <2>p DEF Reuses, NamesOwnEvidence
      <3> QED  BY <3>2, <3>3, <3>4, <1>1, <1>f DEF Preserved, Stored
    <2>4. CASE Inserts(u)
      <3>1. RowOf(u)' \in assets'
        BY <2>4, <1>f DEF Inserts, CommitEvidence, InsertEvidence, RowOf, Id
      <3>2. Stored(upload[u].content)'
        BY <2>4, <2>p, <1>s DEF Inserts, Preserved
      <3>3. upload'[u].pc = "checking"
        BY <2>4 DEF Inserts
      <3> QED  BY <3>1, <3>2, <3>3, <1>f DEF Preserved, Stored
    <2>5. CASE Accepts(u)
      <3>1. Stored(upload[u].content)' /\ RowOf(u) \in assets
        BY <2>5, <2>p, <1>s DEF Accepts, Preserved
      <3>2. RowOf(u)' = RowOf(u) /\ upload'[u].pc = "done"
        BY <2>5, <1>f DEF Accepts, KeepsAsset, RowOf, Id
      <3> QED  BY <3>1, <3>2, <1>1, <1>f DEF Preserved, Stored
    <2>6. CASE Doubts(u)
      <3>1. FALSE
        BY <2>6, <2>p DEF Doubts, Preserved, Stored, Contained, Disturbed
      <3> QED  BY <3>1
    <2>7. CASE GivesUp(u) \/ Admits(u)
      BY <2>7, <2>p DEF GivesUp, Admits, Preserved
    <2> QED  BY <2>0, <2>1, <2>2, <2>3, <2>4, <2>5, <2>6, <2>7
  <1>5. ASSUME NEW u \in Upload, Crash PROVE Preserved(u)'
    <2>1. upload'[u] = upload[u] \/ (upload'[u].pc = "done" /\ upload'[u].answer = "died")
      BY <1>5 DEF Crash, UploadTypeOK, UploadRecord
    <2> QED  BY <2>1, <1>3 DEF Preserved, PastPut, Doubtful, Accepted
  <1>6. ASSUME NEW u \in Upload PROVE Preserved(u)'
    <2>1. ASSUME NEW v \in Upload, Receive(v) \/ UploadStep(v) PROVE Preserved(u)'
      BY <1>3, <1>4, <2>1, UploadStepFrame
    <2> QED
      BY <1>3, <1>5, <2>1
      DEF Next, CreateCase, Request, AnalysisStep, AnalysisWorks, ListObjects, ReportOrphans, LoseObject,
          Idle, vars, requests
  <1> QED  BY <1>2, <1>6

LEMMA StoreInvariant == Spec => [](TableInv /\ StoreInv)
  <1>1. Init => StoreInv
    BY InitStoreInv
  <1> QED  BY <1>1, StepStoreInv, TableInvariant, PTL DEF Spec

\* Storage first, metadata second: no row ever points to an object that is not there.
THEOREM RowsHaveObjects == Spec => []MetadataHasObject
  <1>1. StoreInv => MetadataHasObject
    BY DEF StoreInv, MetadataHasObject
  <1> QED  BY <1>1, StoreInvariant, PTL

\* An accepted upload stays committed, with its object intact.
THEOREM AcceptedStays == Spec => []AcceptedIsPreserved
  <1>1. StoreInv => AcceptedIsPreserved
    BY DEF StoreInv, Preserved, AcceptedIsPreserved
  <1> QED  BY <1>1, StoreInvariant, PTL

\* Duplicates of one upload are answered with one id, and one request created it.
THEOREM DuplicatesAgree == Spec => []DuplicatesShareAssociation
  <1>1. TableInv /\ StoreInv => DuplicatesShareAssociation
    <2> SUFFICES ASSUME TableInv, StoreInv, ~Disturbed, NEW u \in Upload, NEW v \in Upload,
                        upload[u].answer \in Accepted, upload[v].answer \in Accepted,
                        upload[u].case = upload[v].case,
                        upload[u].content = upload[v].content
                 PROVE  /\ Id(u) = Id(v)
                        /\ upload[u].answer = "created" /\ upload[v].answer = "created" => u = v
      BY DEF DuplicatesShareAssociation
    <2>1. RowOf(u) \in assets /\ RowOf(v) \in assets
      BY DEF StoreInv, Preserved
    <2>2. RowOf(u) = RowOf(v)
      BY <2>1, IntegrityParts DEF TableInv, OneAssociation, RowOf
    <2>3. Id(u) = Id(v)
      BY <2>2 DEF RowOf
    <2>4. \A w \in {u, v} : upload[w].answer = "created" => upload[w].asset = w
      BY DEF TableInv, KeysInv, NamesOwnEvidence, Accepted
    <2> QED  BY <2>3, <2>4 DEF Id
  <1> QED  BY <1>1, StoreInvariant, PTL

\* Reconciliation never reports the object of an accepted upload.
THEOREM AcceptedIsNoOrphan == Spec => ReconcileSparesAccepted
  <1>1. TableInv /\ StoreInv /\ [Next]_vars =>
            [~Disturbed => \A r \in Reconciler :
                \A c \in reconcile'[r].reported \ reconcile[r].reported :
                    \A u \in Upload :
                        ~(upload[u].content = c /\ upload[u].answer \in Accepted)]_vars
    <2> SUFFICES ASSUME TableInv, StoreInv, Next, ~Disturbed, NEW r \in Reconciler,
                        NEW c \in reconcile'[r].reported \ reconcile[r].reported,
                        NEW u \in Upload, upload[u].content = c, upload[u].answer \in Accepted
                 PROVE  FALSE
      OBVIOUS
    <2>1. RowOf(u) \in assets
      BY DEF StoreInv, Preserved
    <2>2. c \in blobs
      BY <2>1, IntegrityParts DEF TableInv, BlobsMatch, RowOf
    <2>3. PICK q \in Reconciler : ListObjects(q) \/ ReportOrphans(q)
      BY DEF Next, CreateCase, LoseObject, Crash, Idle, vars, requests
    <2>4. c \notin blobs
      <3>1. CASE ListObjects(q)
        BY <3>1 DEF ListObjects, TableInv, TypeOK, ReconcileRecord
      <3>2. CASE ReportOrphans(q)
        BY <3>2 DEF ReportOrphans, TableInv, TypeOK, ReconcileRecord
      <3> QED  BY <2>3, <3>1, <3>2
    <2> QED  BY <2>2, <2>4
  <1> QED  BY <1>1, StoreInvariant, PTL DEF Spec, ReconcileSparesAccepted

LEMMA StepCompensates ==
    ASSUME TableInv, IssuedInv, CompensatesUnlessClaimed, [Next]_vars
    PROVE  CompensatesUnlessClaimed'
  <1> SUFFICES ASSUME "db" \notin Faults, NEW u \in Upload, AnswersInconsistent(u)',
                      NEW r \in assets', r.id = Id(u)'
               PROVE  Restricted(r.id)'
    BY DEF CompensatesUnlessClaimed
  <1> USE DEF TableInv, TypeOK
  <1>k. NamesOwnEvidence(u) /\ Id(u) \in Upload \cup {NoAsset}
    BY DEF KeysInv, UploadTypeOK, UploadRecord, Id
  \* it was said before: the row is still gone, or still claimed
  <1>1. CASE AnswersInconsistent(u)
    <2>1. Id(u) # NoAsset /\ r.id = Id(u)
      BY <1>1, <1>k, AssetStays DEF AnswersInconsistent, UploadAt, NamesOwnEvidence, Doubtful, Id
    <2>2. r.id \in Upload /\ upload[r.id].asset # NoAsset
      BY <1>k, <2>1 DEF IssuedInv, IdIsIssued, Id
    <2>3. r \in assets
      BY <2>2, GoneStaysGone
    <2>4. Restricted(r.id)
      BY <1>1, <2>1, <2>3 DEF CompensatesUnlessClaimed
    <2> QED  BY <2>2, <2>4, RestrictedStays
  <1>2. CASE ~AnswersInconsistent(u)
    <2>1. upload'[u] # upload[u]
      BY <1>2 DEF AnswersInconsistent, UploadAt
    <2>2. ~Crash
      <3>1. ASSUME Crash
            PROVE  \/ upload'[u] = upload[u]
                   \/ upload'[u].pc = "done" /\ upload'[u].answer = "died"
        BY <3>1 DEF Crash, UploadTypeOK, UploadRecord
      <3> QED  BY <2>1, <3>1 DEF AnswersInconsistent, UploadAt
    <2>3. PICK v \in Upload : Receive(v) \/ UploadStep(v)
      BY <2>1, <2>2
      DEF Next, CreateCase, Request, AnalysisStep, AnalysisWorks, ListObjects, ReportOrphans,
          LoseObject, Idle, vars, requests
    <2>4. u = v /\ UNCHANGED runs
      BY <2>1, <2>3, UploadStepFrame
    <2>5. GivesUp(u)
      BY <1>2, <1>k, <2>3, <2>4, UploadStepCases
      DEF Advances, TurnsAway, Reuses, Inserts, Accepts, Doubts, Admits, AnswersInconsistent,
          UploadAt, NamesOwnEvidence, PreCommit, PastPut, Doubtful
    <2>6. Id(u)' = Id(u)
      BY <2>5 DEF GivesUp, KeepsAsset, Id
    <2>7. Restricted(Id(u))
      BY <2>5, <2>6 DEF GivesUp, Compensate, DeleteEvidence, Id
    <2> QED  BY <2>4, <2>6, <2>7 DEF Restricted
  <1> QED  BY <1>1, <1>2

\* While the database works, an upload is told of a consistency failure only once its
\* association is gone for good, unless an analysis claimed the evidence first.
THEOREM Compensates == Spec => []CompensatesUnlessClaimed
  <1>1. Init => CompensatesUnlessClaimed
    BY DEF Init, UploadInit, CompensatesUnlessClaimed, AnswersInconsistent, UploadAt
  <1> QED  BY <1>1, StepCompensates, IssuedInvariant, PTL DEF Spec

-----------------------------------------------------------------------------
(* Conflicting claims *)

Others(a) == {b \in Analysis \ {a} : runs[b].asset = analysis[a].asset}

\* Why the INSERT of a run failed is asked afterwards, but a reason once there stays:
\* another run of the evidence, or its absence after it had been registered.
ConflictInv(a) ==
    LET id == analysis[a].asset IN
    /\ analysis[a].answer = "active" => Others(a) # {}
    /\ "db" \notin Faults =>
          /\ \/ analysis[a].pc \in {"claiming", "conflict"}
             \/ analysis[a].answer = "database_unavailable"
             => upload[id].asset # NoAsset
          /\ analysis[a].pc = "conflict" => CaseOf(id) = {} \/ Others(a) # {}
          /\ analysis[a].answer = "database_unavailable" =>
                 CaseOf(id) = {} \/ \E b \in Others(a) : runs[b].status # "RUNNING"

LEMMA ReasonsStay ==
    ASSUME TypeOK, RunsInv, KeysInv, [Next]_vars, NEW a \in Analysis
    PROVE  /\ \A b \in Others(a) :
                  /\ b \in Others(a)'
                  /\ runs[b].status # "RUNNING" => runs'[b].status # "RUNNING"
           /\ upload[analysis[a].asset].asset # NoAsset =>
                  /\ upload'[analysis[a].asset].asset # NoAsset
                  /\ \A r \in assets' : r.id = analysis[a].asset => r \in assets
  <1>1. analysis'[a].asset = analysis[a].asset /\ analysis[a].asset \in Upload
    BY AnalysisInputsFixed DEF TypeOK, AnalysisTypeOK, AnalysisRecord
  <1>2. ASSUME NEW b \in Others(a)
        PROVE  /\ b \in Others(a)'
               /\ runs[b].status # "RUNNING" => runs'[b].status # "RUNNING"
    <2>1. runs[b].status # "none"
      BY <1>1, <1>2, RepositoryAssumption DEF Others, RunsInv, RunInv, RunNamesAsset
    <2> QED  BY <1>1, <1>2, <2>1, RunsStay DEF Others
  <1>3. ASSUME upload[analysis[a].asset].asset # NoAsset
        PROVE  /\ upload'[analysis[a].asset].asset # NoAsset
               /\ \A r \in assets' : r.id = analysis[a].asset => r \in assets
    BY <1>1, <1>3, AssetStays, GoneStaysGone
  <1> QED  BY <1>2, <1>3

LEMMA StepConflictInv ==
    ASSUME TableInv, [Next]_vars, NEW a \in Analysis, ConflictInv(a)
    PROVE  ConflictInv(a)'
  <1> USE DEF TableInv, TypeOK, AnalysisAt
  <1>r. RunInv(a) /\ RowsMatch
    BY DEF RunsInv, KeysInv
  <1>f. analysis'[a].asset = analysis[a].asset /\ analysis[a].asset \in Upload
    BY AnalysisInputsFixed DEF AnalysisTypeOK, AnalysisRecord
  <1>s. /\ Others(a) # {} => Others(a)' # {}
        /\ (\E b \in Others(a) : runs[b].status # "RUNNING") =>
               \E b \in Others(a)' : runs'[b].status # "RUNNING"
    BY ReasonsStay
  <1>c. upload[analysis[a].asset].asset # NoAsset =>
            /\ upload'[analysis[a].asset].asset # NoAsset
            /\ CaseOf(analysis[a].asset) = {} => CaseOf(analysis[a].asset)' = {}
    <2>1. ASSUME upload[analysis[a].asset].asset # NoAsset, CaseOf(analysis[a].asset) = {}
          PROVE  CaseOf(analysis[a].asset)' = {}
      <3>1. \A r \in assets : r.id # analysis[a].asset
        BY <2>1 DEF CaseOf
      <3>2. \A r \in assets' : r.id # analysis'[a].asset
        BY <2>1, <3>1, <1>f, ReasonsStay
      <3> QED  BY <3>2 DEF CaseOf
    <2> QED  BY <2>1, ReasonsStay
  <1>1. ASSUME analysis'[a].pc \notin {"claiming", "conflict"},
               analysis'[a].answer \notin {"active", "database_unavailable"}
        PROVE  ConflictInv(a)'
    BY <1>1 DEF ConflictInv
  <1>2. ASSUME analysis'[a] = analysis[a] PROVE ConflictInv(a)'
    <2>1. analysis[a].answer = "active" => Others(a)' # {}
      BY <1>s DEF ConflictInv
    <2>2. ASSUME "db" \notin Faults,
                 \/ analysis[a].pc \in {"claiming", "conflict"}
                 \/ analysis[a].answer = "database_unavailable"
          PROVE  /\ upload'[analysis[a].asset].asset # NoAsset
                 /\ CaseOf(analysis[a].asset) = {} => CaseOf(analysis[a].asset)' = {}
      BY <1>c, <2>2 DEF ConflictInv
    <2> QED  BY <1>2, <1>s, <2>1, <2>2 DEF ConflictInv
  <1>3. ASSUME Request(a) \/ AnalysisStep(a) PROVE ConflictInv(a)'
    <2> USE DEF tables
    <2>0. /\ analysis[a].pc # "done" /\ analysis[a].answer = "none"
          /\ analysis[a].pc \in {"claiming", "conflict"} => runs[a].status = "none"
      BY <1>r, <1>3
      DEF RunInv, ClaimFollowsPosition, Unclaimed, Request, LoadContext, ClaimEvidence,
          ClaimConflict, ExplainConflict, Verify, VerifyFails, Refuse, Analyze, CreateResult,
          SealResult, AnalysisRaises, Finish, RecordFailure, AnalysisDbFails, Respond, Response,
          ResultFile, AnalysisStep, AnalysisWorks
    <2>a. \A id \in Upload : Active(id) => \E b \in Analysis :
              runs[b].asset = id /\ runs[b].status = "RUNNING"
      BY DEF Active
    <2>1. CASE LoadContext(a)
      <3>1. CASE AnalysisEnd(a, "evidence_not_found")
        BY <3>1, <1>1, AnalysisEndEffect
      <3>2. CASE ~AnalysisEnd(a, "evidence_not_found")
        <4>1. PICK r \in assets : r.id = analysis[a].asset
          BY <2>1, <3>2 DEF LoadContext
        <4>2. upload[analysis[a].asset].asset # NoAsset
          BY <4>1, <1>r, <1>f, RepositoryAssumption DEF RowsMatch
        <4>3. analysis'[a].pc = "claiming" /\ analysis'[a].answer = "none"
          BY <2>0, <2>1, <3>2 DEF LoadContext, AnalysisTypeOK, AnalysisRecord
        <4> QED  BY <4>2, <4>3, <1>c, <1>f DEF ConflictInv
      <3> QED  BY <3>1, <3>2
    <2>2. CASE ClaimConflict(a)
      <3>1. /\ analysis[a].pc = "claiming" /\ analysis'[a].pc = "conflict"
            /\ analysis'[a].answer = "none"
        BY <2>0, <2>2, AnalysisGoToEffect DEF ClaimConflict
      <3>2. CaseOf(analysis[a].asset) = {} \/ Others(a) # {}
        BY <2>0, <2>2, <2>a, <3>1, <1>f DEF ClaimConflict, RunConflicts, Others
      <3>3. "db" \notin Faults => upload[analysis[a].asset].asset # NoAsset
        BY <3>1 DEF ConflictInv
      <3>4. ASSUME "db" \notin Faults
            PROVE  /\ upload'[analysis'[a].asset].asset # NoAsset
                   /\ CaseOf(analysis[a].asset)' = {} \/ Others(a)' # {}
        BY <3>2, <3>3, <3>4, <1>c, <1>s, <1>f
      <3> QED  BY <3>1, <3>4 DEF ConflictInv
    <2>3. CASE ExplainConflict(a)
      <3>1. /\ analysis[a].pc = "conflict" /\ analysis'[a].pc = "done"
            /\ analysis'[a].answer = IF Active(analysis[a].asset) THEN "active"
                                     ELSE "database_unavailable"
        BY <2>3, AnalysisEndEffect DEF ExplainConflict
      <3>2. CASE Active(analysis[a].asset)
        <4>1. Others(a) # {}
          BY <2>0, <2>a, <3>1, <3>2, <1>f DEF Others
        <4> QED  BY <3>1, <3>2, <4>1, <1>s DEF ConflictInv
      <3>3. CASE ~Active(analysis[a].asset)
        <4>1. \A b \in Others(a) : runs[b].status # "RUNNING"
          BY <3>3 DEF Active, Others, RepositoryTypeOK, Run
        <4>2. ASSUME "db" \notin Faults
              PROVE  /\ upload[analysis[a].asset].asset # NoAsset
                     /\ \/ CaseOf(analysis[a].asset) = {}
                        \/ \E b \in Others(a) : runs[b].status # "RUNNING"
          BY <3>1, <4>1, <4>2 DEF ConflictInv
        <4>3. ASSUME "db" \notin Faults
              PROVE  /\ upload'[analysis'[a].asset].asset # NoAsset
                     /\ \/ CaseOf(analysis[a].asset)' = {}
                        \/ \E b \in Others(a)' : runs'[b].status # "RUNNING"
          BY <4>2, <4>3, <1>c, <1>s, <1>f
        <4> QED  BY <3>1, <3>3, <4>3 DEF ConflictInv
      <3> QED  BY <3>2, <3>3
    <2>4. CASE AnalysisDbFails(a)
      <3>1. "db" \in Faults /\ analysis'[a].answer # "active"
        BY <2>0, <2>4, AnalysisEndEffect, AnalysisSettlesEffect DEF AnalysisDbFails
      <3> QED  BY <3>1 DEF ConflictInv
    <2>5. CASE Request(a) \/ ClaimEvidence(a) \/ Verify(a) \/ VerifyFails(a) \/ AnalysisRaises(a)
      BY <2>0, <2>5, <1>1, AnalysisGoToEffect
      DEF Request, ClaimEvidence, Verify, VerifyFails, AnalysisRaises
    <2>6. CASE SealResult(a)
      <3>1. AfterFile[analysis[a].pc] \in {"json", "html", "finalizing"}
        BY <2>6 DEF SealResult, AfterFile, ResultFile
      <3> QED  BY <2>0, <2>6, <3>1, <1>1, AnalysisGoToEffect DEF SealResult
    <2>7. CASE Refuse(a) \/ Finish(a) \/ RecordFailure(a)
      BY <2>0, <2>7, <1>1, AnalysisSettlesEffect DEF Refuse, Finish, RecordFailure
    <2>8. CASE Analyze(a)
      BY <2>0, <2>8, <1>1 DEF Analyze, AnalysisTypeOK, AnalysisRecord
    <2>9. CASE CreateResult(a)
      BY <2>9, <1>2 DEF CreateResult
    <2>10. CASE Respond(a)
      BY <2>10, <1>1, AnalysisEndEffect DEF Respond, Response
    <2> QED
      BY <1>3, <2>1, <2>2, <2>3, <2>4, <2>5, <2>6, <2>7, <2>8, <2>9, <2>10
      DEF AnalysisStep, AnalysisWorks
  <1>4. ASSUME NEW b \in Analysis, Request(b) \/ AnalysisStep(b) PROVE ConflictInv(a)'
    BY <1>2, <1>3, <1>4, AnalysisStepFrame
  <1>5. CASE Crash
    <2>1. analysis'[a] = analysis[a] \/ (analysis'[a].pc = "done" /\ analysis'[a].answer = "died")
      BY <1>5 DEF Crash, AnalysisTypeOK, AnalysisRecord
    <2> QED  BY <2>1, <1>1, <1>2
  <1> QED
    BY <1>2, <1>4, <1>5
    DEF Next, CreateCase, ListObjects, ReportOrphans, LoseObject, Idle, vars, requests

\* A client is told that an analysis is active only when another one had claimed the
\* evidence, and of an unavailable database, while it works, only when the evidence was
\* withdrawn or the other analysis has ended.
THEOREM ConflictsHaveReasons == Spec => []ConflictsAreExplained
  <1>1. Init => \A a \in Analysis : ConflictInv(a)
    BY DEF Init, AnalysisInit, ConflictInv
  <1>2. TableInv /\ [Next]_vars /\ (\A a \in Analysis : ConflictInv(a)) =>
            (\A a \in Analysis : ConflictInv(a))'
    BY StepConflictInv
  <1>3. (\A a \in Analysis : ConflictInv(a)) => ConflictsAreExplained
    BY DEF ConflictInv, ConflictsAreExplained, Others
  <1> QED  BY <1>1, <1>2, <1>3, TableInvariant, PTL DEF Spec

-----------------------------------------------------------------------------
(* Orphans *)

\* An upload compensated it, and says so unless it died.
Compensated(c) ==
    \E v \in Upload : /\ upload[v].content = c
                      /\ AnswersInconsistent(v) \/ upload[v].answer = "died"

\* A blob row that a request counted on is gone only after a compensation.
BlobGone(u) ==
    upload[u].asset # NoAsset /\ upload[u].content \notin blobs => Compensated(upload[u].content)

OrphanInv == OrphansAreExplained /\ \A u \in Upload : BlobGone(u)

\* An explanation of an orphan is replaced only by another one, as long as the
\* content has no blob row.
LEMMA ExplanationStays ==
    ASSUME TableInv, OrphanInv, [Next]_vars, NEW u \in Upload, PutDone(u),
           upload[u].content \notin blobs'
    PROVE  \E v \in Upload : upload[v].content = upload[u].content /\ PutDone(v)'
  <1> USE DEF TableInv, TypeOK
  <1>1. CASE upload'[u] = upload[u]
    BY <1>1 DEF PutDone
  <1>2. CASE Crash
    BY <1>1, <1>2 DEF Crash, UploadTypeOK, UploadRecord, PutDone
  <1>3. ASSUME Receive(u) \/ UploadStep(u), upload'[u] # upload[u]
        PROVE  \E v \in Upload : upload[v].content = upload[u].content /\ PutDone(v)'
    <2>k. NamesOwnEvidence(u)
      BY DEF KeysInv
    <2>0. \/ Advances(u) \/ TurnsAway(u) \/ Reuses(u) \/ Inserts(u)
          \/ Accepts(u) \/ Doubts(u) \/ GivesUp(u) \/ Admits(u)
      BY <1>3, UploadStepCases
    <2> USE DEF PreCommit, PastPut, Doubtful
    <2>1. upload[u].pc # "done"
      BY <2>0 DEF Advances, TurnsAway, Reuses, Inserts, Accepts, Doubts, GivesUp, Admits
    <2>2. upload[u].pc \in PastPut \cup Doubtful \cup {"checking"}
      BY <2>1, <2>k DEF PutDone, NamesOwnEvidence
    <2>3. CASE Accepts(u)
      <3>1. Compensated(upload[u].content)
        <4>1. upload[u].asset # NoAsset
          BY <2>3, <2>k DEF Accepts, NamesOwnEvidence
        <4>2. upload[u].content \notin blobs
          BY <2>3 DEF Accepts, SameEvidence
        <4> QED  BY <4>1, <4>2 DEF OrphanInv, BlobGone
      <3>2. PICK v \in Upload : /\ upload[v].content = upload[u].content
                                /\ AnswersInconsistent(v) \/ upload[v].answer = "died"
        BY <3>1 DEF Compensated
      <3>3. v # u
        BY <2>1, <2>3, <2>k, <3>2 DEF NamesOwnEvidence, Accepts, AnswersInconsistent, UploadAt
      <3>4. upload'[v] = upload[v]
        BY <1>3, <3>3, UploadStepFrame
      <3> QED  BY <3>2, <3>4 DEF PutDone, AnswersInconsistent, UploadAt
    <2>4. CASE \/ Advances(u) \/ TurnsAway(u) \/ Reuses(u) \/ Inserts(u) \/ Doubts(u)
               \/ GivesUp(u) \/ Admits(u)
      <3>1. PutDone(u)'
        BY <2>2, <2>4 DEF Advances, TurnsAway, Reuses, Inserts, Doubts, GivesUp, Admits, PutDone
      <3> QED  BY <3>1
    <2> QED  BY <2>0, <2>3, <2>4
  <1>4. ASSUME NEW v \in Upload, Receive(v) \/ UploadStep(v)
        PROVE  \E w \in Upload : upload[w].content = upload[u].content /\ PutDone(w)'
    BY <1>1, <1>3, <1>4, UploadStepFrame
  <1> QED
    BY <1>1, <1>2, <1>4
    DEF Next, CreateCase, Request, AnalysisStep, AnalysisWorks, ListObjects, ReportOrphans, LoseObject, Idle,
        vars, requests

LEMMA StepOrphansAreExplained ==
    ASSUME TableInv, OrphanInv, [Next]_vars
    PROVE  OrphansAreExplained'
  <1> SUFFICES ASSUME NEW c \in Content \ blobs', objects'[c] # "absent"
               PROVE  \E u \in Upload : upload'[u].content = c /\ PutDone(u)'
    BY DEF OrphansAreExplained
  <1> USE DEF TableInv, TypeOK
  <1>f. \A v \in Upload : upload'[v].content = upload[v].content
    BY InputsFixed
  <1>1. CASE objects[c] = "absent"
    <2>1. ~ \E d \in Content : LoseObject(d) /\ c = d
      BY <1>1 DEF LoseObject
    <2>2. PICK u \in Upload :
              /\ upload[u].content = c
              /\ upload'[u].pc = "reading" \/ upload'[u].answer = "storage_unavailable"
      BY <1>1, <2>1, ObjectChanges DEF LoseObject, RepositoryTypeOK, UploadTypeOK, UploadRecord
    <2> QED  BY <2>2, <1>f DEF PutDone
  <1>2. CASE objects[c] # "absent" /\ c \notin blobs
    <2>1. PICK u \in Upload : upload[u].content = c /\ PutDone(u)
      BY <1>2 DEF OrphanInv, OrphansAreExplained
    <2> QED  BY <2>1, <1>f, ExplanationStays
  \* the row was compensated in this step
  <1>3. CASE c \in blobs
    <2>1. PICK u \in Upload : upload[u].pc \in Doubtful /\ Compensate(u)
      BY <1>3, RowChanges DEF Inserts, CommitEvidence, InsertEvidence
    <2>2. upload[u].content = c
      BY <1>3, <2>1 DEF Compensate, DeleteEvidence
    <2>3. PutDone(u)'
      BY <2>1, UploadGivesUpEffect DEF Compensate, PutDone
    <2> QED  BY <2>2, <2>3, <1>f
  <1> QED  BY <1>1, <1>2, <1>3

LEMMA StepBlobGone ==
    ASSUME TableInv, OrphanInv, [Next]_vars, NEW u \in Upload
    PROVE  BlobGone(u)'
  <1> SUFFICES ASSUME upload'[u].asset # NoAsset, upload'[u].content \notin blobs'
               PROVE  Compensated(upload[u].content)'
    BY DEF BlobGone
  <1> USE DEF TableInv, TypeOK
  <1>f. \A v \in Upload : upload'[v].content = upload[v].content
    BY InputsFixed
  \* once given up, there is only the answer left, or death
  <1>1. ASSUME NEW v \in Upload, AnswersInconsistent(v) \/ upload[v].answer = "died"
        PROVE  AnswersInconsistent(v)' \/ upload'[v].answer = "died"
    <2> USE DEF AnswersInconsistent, UploadAt
    <2>1. upload[v].pc = "done" \/ upload[v].pc = "retracted"
      BY <1>1 DEF KeysInv, NamesOwnEvidence
    <2>2. ASSUME NEW w \in Upload, Receive(w) \/ UploadStep(w)
          PROVE  upload'[v] = upload[v] \/ upload'[v].answer = "consistency_failure"
      <3>1. CASE w # v
        BY <2>2, <3>1, UploadStepFrame
      <3>2. CASE w = v
        BY <2>1, <2>2, <3>2, UploadStepCases
        DEF Advances, TurnsAway, Reuses, Inserts, Accepts, Doubts, GivesUp, Admits, PreCommit,
            PastPut, Doubtful
      <3> QED  BY <3>1, <3>2
    <2>3. ASSUME Crash PROVE upload'[v] = upload[v] \/ upload'[v].answer = "died"
      BY <2>3 DEF Crash, UploadTypeOK, UploadRecord
    <2> QED
      BY <1>1, <2>2, <2>3
      DEF Next, CreateCase, Request, AnalysisStep, AnalysisWorks, ListObjects, ReportOrphans, LoseObject,
          Idle, vars, requests
  <1>2. CASE Compensated(upload[u].content)
    BY <1>1, <1>2, <1>f DEF Compensated
  <1>3. CASE upload[u].content \in blobs
    <2>1. PICK v \in Upload : upload[v].pc \in Doubtful /\ Compensate(v)
      <3>1. \A v \in Upload : Inserts(v) => blobs \subseteq blobs'
        BY DEF Inserts, CommitEvidence, InsertEvidence
      <3>2. ~(blobs \subseteq blobs')
        BY <1>3, <1>f
      <3> QED  BY <3>1, <3>2, RowChanges
    <2>2. upload[v].content = upload[u].content
      BY <1>3, <1>f, <2>1 DEF Compensate, DeleteEvidence
    <2>3. AnswersInconsistent(v)'
      BY <2>1, UploadGivesUpEffect DEF Compensate, AnswersInconsistent, UploadAt
    <2> QED  BY <2>2, <2>3, <1>f DEF Compensated
  <1>4. CASE upload[u].content \notin blobs /\ ~Compensated(upload[u].content)
    <2>1. upload[u].asset = NoAsset
      BY <1>4 DEF OrphanInv, BlobGone
    <2>2. Receive(u) \/ UploadStep(u)
      <3>1. upload'[u] # upload[u]
        BY <2>1
      <3>2. ~Crash
        BY <2>1 DEF Crash, UploadTypeOK, UploadRecord
      <3>3. ASSUME NEW v \in Upload, Receive(v) \/ UploadStep(v) PROVE u = v
        BY <3>1, <3>3, UploadStepFrame
      <3> QED
        BY <3>1, <3>2, <3>3
        DEF Next, CreateCase, Request, AnalysisStep, AnalysisWorks, ListObjects, ReportOrphans, LoseObject,
            Idle, vars, requests
    <2>3. Reuses(u) \/ Inserts(u)
      BY <2>1, <2>2, UploadStepCases
      DEF Advances, TurnsAway, Accepts, Doubts, GivesUp, Admits, KeepsAsset
    <2>4. CASE Reuses(u)
      <3>1. upload[u].content \in blobs
        BY <2>4, IntegrityParts DEF Reuses, Ids, BlobsMatch
      <3> QED  BY <1>4, <3>1
    <2>5. CASE Inserts(u)
      BY <2>5, <1>f DEF Inserts, CommitEvidence, InsertEvidence
    <2> QED  BY <2>3, <2>4, <2>5
  <1> QED  BY <1>2, <1>3, <1>4

\* An object without a row is the trace of an upload that is running, was turned
\* away after it stored the bytes, gave up or died.
THEOREM Orphans == Spec => []OrphansAreExplained
  <1>1. Init => OrphanInv
    BY DEF Init, RepositoryInit, UploadInit, OrphanInv, OrphansAreExplained, BlobGone
  <1>2. TableInv /\ OrphanInv /\ [Next]_vars => OrphanInv'
    BY StepOrphansAreExplained, StepBlobGone DEF OrphanInv
  <1>3. OrphanInv => OrphansAreExplained
    BY DEF OrphanInv
  <1> QED  BY <1>1, <1>2, <1>3, TableInvariant, PTL DEF Spec

-----------------------------------------------------------------------------
(* The status of a case *)

HasEvidenceStatus == {"SEALED", "ANALYZED"}

\* A request that loaded a case with evidence may rely on it: the case still has.
SawStatusHolds(u) ==
    upload[u].sawStatus \in HasEvidenceStatus =>
        caseStatus[upload[u].case] \in HasEvidenceStatus

StatusFollows(k) ==
    /\ caseStatus[k] \in {"unknown", "CREATED"} <=> ~HasEvidence(assets, k)
    /\ caseStatus[k] = "ANALYZED" => \E a \in reports : analysis[a].case = k

StatusInv ==
    ~Disturbed => /\ \A u \in Upload : SawStatusHolds(u)
                  /\ \A k \in Case : StatusFollows(k)

LEMMA StatusChanges ==
    ASSUME TableInv, StoreInv, [Next]_vars, ~Disturbed
    PROVE  \/ UNCHANGED <<caseStatus, assets>>
           \/ \E k \in Case : CreateCase(k)
           \/ \E u \in Upload : Inserts(u)
           \/ \E a \in Analysis :
                 /\ runs[a].status = "RUNNING" /\ a \in reports'
                 /\ caseStatus' = [caseStatus EXCEPT ![analysis[a].case] = "ANALYZED"]
                 /\ UNCHANGED assets
  <1> USE DEF TableInv, TypeOK
  <1>1. ASSUME NEW u \in Upload, Receive(u) \/ UploadStep(u)
        PROVE  UNCHANGED <<caseStatus, assets>> \/ Inserts(u)
    <2>1. upload[u].pc \notin Doubtful
      BY DEF StoreInv, Preserved
    <2> QED
      BY <1>1, <2>1, UploadStepCases
      DEF Advances, TurnsAway, Reuses, Accepts, Doubts, GivesUp, Admits, SameEvidence
  <1>2. ASSUME NEW a \in Analysis, Request(a) \/ AnalysisStep(a)
        PROVE  \/ UNCHANGED <<caseStatus, assets>>
               \/ /\ runs[a].status = "RUNNING" /\ a \in reports'
                  /\ caseStatus' = [caseStatus EXCEPT ![analysis[a].case] = "ANALYZED"]
                  /\ UNCHANGED assets
    <2>1. CASE Refuse(a) \/ Finish(a) \/ RecordFailure(a)
      BY <2>1 DEF Refuse, Finish, RecordFailure, FinalizeRun
    <2>2. CASE ~(Refuse(a) \/ Finish(a) \/ RecordFailure(a))
      BY <1>2, <2>2
      DEF Request, LoadContext, ClaimEvidence, InsertRun, ClaimConflict, ExplainConflict, Verify,
          VerifyFails, Analyze, CreateResult, SealResult, AnalysisRaises, AnalysisDbFails,
          Respond, AnalysisStep, AnalysisWorks, tables
    <2> QED  BY <2>1, <2>2
  <1> QED
    BY <1>1, <1>2 DEF Next, ListObjects, ReportOrphans, LoseObject, Crash, Idle, vars, tables

\* The status a session has loaded is the committed one, an older one, or forgotten.
LEMMA SawStatusChanges ==
    ASSUME TypeOK, [Next]_vars, NEW u \in Upload
    PROVE  upload'[u].sawStatus \in
               {upload[u].sawStatus, "unknown", caseStatus[upload[u].case]}
  <1> USE DEF TypeOK
  <1>u. upload[u] \in UploadRecord
    BY DEF UploadTypeOK
  <1>1. ASSUME Receive(u) \/ UploadStep(u)
        PROVE  upload'[u].sawStatus \in
                   {upload[u].sawStatus, "unknown", caseStatus[upload[u].case]}
    <2>1. CASE \/ Receive(u) \/ LookupCase(u) \/ PutObject(u) \/ PutFails(u)
               \/ CommitConflict(u) \/ CheckObject(u) \/ Compensate(u)
               \/ CompensationRefused(u) \/ ReportInconsistent(u) \/ UploadDbFails(u)
      BY <2>1, UploadGoToEffect, UploadEndEffect, UploadGivesUpEffect
      DEF Receive, LookupCase, PutObject, PutFails, CommitConflict, CheckObject, Compensate,
          CompensationRefused, ReportInconsistent, UploadDbFails
    <2>2. CASE FindAssociation(u) \/ Fallback(u)
      <3>1. \/ \E id \in Upload : Reuse(u, id)
            \/ UploadGoTo(u, "blob")
            \/ UploadEnd(u, "database_unavailable")
        BY <2>2 DEF FindAssociation, Fallback, Ids, RepositoryTypeOK, Asset
      <3> QED  BY <3>1, UploadGoToEffect, UploadEndEffect, ReuseEffect
    <2>3. CASE ReadCase(u) \/ ReadBlob(u) \/ FindCompensated(u)
      BY <2>3, <1>u DEF ReadCase, ReadBlob, FindCompensated, UploadTypeOK, UploadRecord
    <2>4. CASE CommitEvidence(u)
      BY <2>4, <1>u DEF CommitEvidence, UploadTypeOK, UploadRecord
    <2> QED  BY <1>1, <2>1, <2>2, <2>3, <2>4 DEF UploadStep, UploadWorks
  <1>2. CASE upload'[u] = upload[u]
    BY <1>2
  <1>3. ASSUME NEW v \in Upload, Receive(v) \/ UploadStep(v)
        PROVE  upload'[u].sawStatus \in
                   {upload[u].sawStatus, "unknown", caseStatus[upload[u].case]}
    BY <1>1, <1>2, <1>3, UploadStepFrame
  <1>4. CASE Crash
    <2>1. upload'[u] = upload[u] \/
          upload'[u] = [upload[u] EXCEPT !.pc = "done", !.answer = "died",
                            !.sawStatus = "unknown", !.sawBlob = FALSE, !.sawCases = {}]
      BY <1>4 DEF Crash
    <2> QED  BY <1>u, <2>1 DEF UploadRecord
  <1> QED
    BY <1>2, <1>3, <1>4
    DEF Next, CreateCase, Request, AnalysisStep, AnalysisWorks, ListObjects, ReportOrphans, LoseObject, Idle,
        vars, requests

LEMMA StepStatusInv == TableInv /\ StoreInv /\ StatusInv /\ [Next]_vars => StatusInv'
  <1> SUFFICES ASSUME TableInv, StoreInv, StatusInv, [Next]_vars, ~Disturbed
               PROVE  /\ \A u \in Upload : SawStatusHolds(u)'
                      /\ \A k \in Case : StatusFollows(k)'
    BY DEF StatusInv, Disturbed
  <1> USE DEF TableInv, TypeOK
  <1>i. /\ \A u \in Upload : SawStatusHolds(u)
        /\ \A k \in Case : StatusFollows(k)
    BY DEF StatusInv
  <1>t. /\ \A u \in Upload : upload[u].case \in Case /\ upload'[u].case = upload[u].case
        /\ \A a \in Analysis : analysis[a].case \in Case
        /\ caseStatus \in [Case -> CaseStatus]
    BY InputsFixed DEF UploadTypeOK, UploadRecord, AnalysisTypeOK, AnalysisRecord,
                       RepositoryTypeOK
  \* reports stay, and so does what they are about
  <1>r. \A a \in reports : a \in reports' /\ analysis'[a].case = analysis[a].case
    <2>1. reports \subseteq Analysis
      BY DEF RepositoryTypeOK
    <2>2. ASSUME NEW b \in Analysis, Request(b) \/ AnalysisStep(b), NEW a \in reports
          PROVE  a \in reports' /\ analysis'[a].case = analysis[a].case
      <3>1. CASE a # b
        BY <2>1, <2>2, <3>1, AnalysisStepFrame
      <3>2. CASE a = b
        <4>1. analysis'[a].case = analysis[a].case
          BY <2>1, <2>2, <3>2, AnalysisStepFrame
        <4>2. reports \subseteq reports'
          BY <2>2
          DEF Request, LoadContext, ClaimEvidence, InsertRun, ClaimConflict, ExplainConflict,
              Verify, VerifyFails, Refuse, Analyze, CreateResult, SealResult, AnalysisRaises,
              Finish, RecordFailure, FinalizeRun, AnalysisDbFails, Respond, AnalysisStep,
              AnalysisWorks, tables
        <4> QED  BY <4>1, <4>2
      <3> QED  BY <3>1, <3>2
    <2>3. ASSUME NEW u \in Upload, Receive(u) \/ UploadStep(u) PROVE UNCHANGED reports
      BY <2>3, UploadStepFrame
    <2>4. ASSUME Crash, NEW a \in reports
          PROVE  a \in reports' /\ analysis'[a].case = analysis[a].case
      BY <2>1, <2>4 DEF Crash, tables, AnalysisTypeOK, AnalysisRecord
    <2> QED
      BY <2>1, <2>2, <2>3, <2>4
      DEF Next, CreateCase, ListObjects, ReportOrphans, LoseObject, Idle, vars, tables, requests
  \* a case with evidence keeps it, and its status says so
  <1>1. ASSUME \A k \in Case : caseStatus[k] \in HasEvidenceStatus =>
                   caseStatus'[k] \in HasEvidenceStatus,
               NEW u \in Upload
        PROVE  SawStatusHolds(u)'
    BY <1>1, <1>i, <1>t, SawStatusChanges DEF SawStatusHolds, HasEvidenceStatus
  <1>2. CASE UNCHANGED <<caseStatus, assets>>
    <2>1. ASSUME NEW k \in Case PROVE StatusFollows(k)'
      BY <1>2, <1>i, <1>r DEF StatusFollows, HasEvidence
    <2> QED  BY <1>1, <1>2, <2>1
  <1>3. ASSUME NEW j \in Case, CreateCase(j)
        PROVE  /\ \A u \in Upload : SawStatusHolds(u)'
               /\ \A k \in Case : StatusFollows(k)'
    <2>1. /\ caseStatus[j] = "unknown"
          /\ caseStatus' = [caseStatus EXCEPT ![j] = "CREATED"]
          /\ UNCHANGED assets
      BY <1>3 DEF CreateCase
    <2>2. ASSUME NEW k \in Case PROVE StatusFollows(k)'
      BY <2>1, <1>i, <1>r, <1>t DEF StatusFollows, HasEvidence
    <2> QED  BY <1>1, <1>t, <2>1, <2>2 DEF HasEvidenceStatus
  <1>4. ASSUME NEW w \in Upload, Inserts(w)
        PROVE  /\ \A u \in Upload : SawStatusHolds(u)'
               /\ \A k \in Case : StatusFollows(k)'
    <2> DEFINE new == [id |-> w, case |-> upload[w].case, content |-> upload[w].content]
    <2>1. /\ assets' = assets \cup {new}
          /\ caseStatus' = IF upload[w].sawStatus = "SEALED" THEN caseStatus
                           ELSE [caseStatus EXCEPT ![upload[w].case] = "SEALED"]
      BY <1>4 DEF Inserts, CommitEvidence, InsertEvidence
    <2>2. /\ caseStatus'[upload[w].case] \in HasEvidenceStatus
          /\ caseStatus'[upload[w].case] # "SEALED" =>
                 caseStatus'[upload[w].case] = caseStatus[upload[w].case]
          /\ \A k \in Case \ {upload[w].case} : caseStatus'[k] = caseStatus[k]
      BY <2>1, <1>i, <1>t DEF SawStatusHolds, HasEvidenceStatus
    <2>3. ASSUME NEW k \in Case, k = upload[w].case PROVE StatusFollows(k)'
      <3>1. new \in assets' /\ new.case = k
        BY <2>1, <2>3
      <3> HIDE DEF new
      <3>2. caseStatus'[k] \notin {"unknown", "CREATED"}
        BY <2>2, <2>3 DEF HasEvidenceStatus
      <3>3. caseStatus'[k] = "ANALYZED" => \E a \in reports' : analysis'[a].case = k
        BY <2>2, <2>3, <1>i, <1>r, <1>t DEF StatusFollows
      <3> QED  BY <3>1, <3>2, <3>3 DEF StatusFollows, HasEvidence
    <2>4. ASSUME NEW k \in Case \ {upload[w].case} PROVE StatusFollows(k)'
      <3>1. (\E a \in assets' : a.case = k) <=> (\E a \in assets : a.case = k)
        BY <2>1
      <3> QED  BY <3>1, <2>2, <1>i, <1>r DEF StatusFollows, HasEvidence
    <2> QED  BY <1>1, <1>t, <2>2, <2>3, <2>4
  <1>5. ASSUME NEW a \in Analysis, runs[a].status = "RUNNING", a \in reports',
               caseStatus' = [caseStatus EXCEPT ![analysis[a].case] = "ANALYZED"],
               UNCHANGED assets
        PROVE  /\ \A u \in Upload : SawStatusHolds(u)'
               /\ \A k \in Case : StatusFollows(k)'
    <2>1. HasEvidence(assets, analysis[a].case)
      BY <1>5, IntegrityParts DEF RunHasEvidence, HasEvidence
    <2>2. analysis'[a].case = analysis[a].case
      BY AnalysisInputsFixed
    <2>3. ASSUME NEW k \in Case, k = analysis[a].case PROVE StatusFollows(k)'
      <3>1. HasEvidence(assets, k)'
        BY <1>5, <2>1, <2>3 DEF HasEvidence
      <3>2. caseStatus'[k] = "ANALYZED" /\ analysis'[a].case = k
        BY <1>5, <1>t, <2>2, <2>3
      <3> QED  BY <1>5, <3>1, <3>2 DEF StatusFollows
    <2>4. ASSUME NEW k \in Case \ {analysis[a].case} PROVE StatusFollows(k)'
      BY <1>5, <1>i, <1>r, <1>t DEF StatusFollows, HasEvidence
    <2>5. \A k \in Case : caseStatus[k] \in HasEvidenceStatus =>
             caseStatus'[k] \in HasEvidenceStatus
      BY <1>5, <1>t DEF HasEvidenceStatus
    <2> QED  BY <1>1, <2>3, <2>4, <2>5
  <1>6. \/ UNCHANGED <<caseStatus, assets>>
        \/ \E k \in Case : CreateCase(k)
        \/ \E u \in Upload : Inserts(u)
        \/ \E a \in Analysis :
              /\ runs[a].status = "RUNNING" /\ a \in reports'
              /\ caseStatus' = [caseStatus EXCEPT ![analysis[a].case] = "ANALYZED"]
              /\ UNCHANGED assets
    BY StatusChanges
  <1> HIDE DEF TableInv, TypeOK
  <1> QED  BY <1>2, <1>3, <1>4, <1>5, <1>6

\* Although each session writes a status it computed from a row it loaded earlier, a
\* case is CREATED exactly while it has no evidence and ANALYZED only with a report.
THEOREM StatusIsTrue == Spec => []CaseStatusTracksEvidence
  <1>1. Init => StatusInv
    BY DEF Init, RepositoryInit, UploadInit, StatusInv, SawStatusHolds, StatusFollows,
           HasEvidence, HasEvidenceStatus
  <1>2. StatusInv => CaseStatusTracksEvidence
    BY DEF StatusInv, StatusFollows, CaseStatusTracksEvidence
  <1> QED  BY <1>1, <1>2, StepStatusInv, StoreInvariant, PTL DEF Spec

-----------------------------------------------------------------------------
(* The analyses implement AnalysisClaims                                    *)

\* The variables of AnalysisClaims, as the tables and the requests show them.
Registered == {[id |-> r.id, case |-> r.case] : r \in assets}
Ask == [a \in Analysis |-> [id |-> analysis[a].asset, case |-> analysis[a].case]]
Claim == [a \in Analysis |-> ClaimOf(a)]
Answer == [a \in Analysis |-> AnswerOf(a)]

\* What a client sees of a request, by the state of its run and its answer.
ClaimTable(a) ==
    /\ runs[a].status = "none" => ClaimOf(a) = "none"
    /\ runs[a].status = "RUNNING" => ClaimOf(a) = "active"
    /\ runs[a].status = "REFUSED" => ClaimOf(a) = "refused"
    /\ runs[a].status = "FAILED" => ClaimOf(a) = "failed"
    /\ runs[a].status \in Succeeded => ClaimOf(a) = "succeeded"
    /\ ClaimOf(a) = "none" => runs[a].status = "none"
    /\ ClaimOf(a) = "active" => runs[a].status = "RUNNING"
    /\ analysis[a].answer = "none" => AnswerOf(a) = "none"
    /\ analysis[a].answer = "analyzed" => AnswerOf(a) = "succeeded"
    /\ analysis[a].answer = "integrity_failure" => AnswerOf(a) = "refused"
    /\ analysis[a].answer = "evidence_not_found" => AnswerOf(a) = "no_evidence"
    /\ analysis[a].answer = "active" => AnswerOf(a) = "busy"
    /\ analysis[a].answer = "failed" =>
           AnswerOf(a) = IF runs[a].status = "FAILED" THEN "failed" ELSE "lost"
    /\ analysis[a].answer \in {"database_unavailable", "died"} => AnswerOf(a) = "lost"

LEMMA ClaimsByRow == RunsInv => \A a \in Analysis : ClaimTable(a)
  <1> SUFFICES ASSUME NEW a \in Analysis, RunInv(a) PROVE ClaimTable(a)
    BY DEF RunsInv
  <1>1. runs[a].status \in Succeeded =>
            a \in reports /\ results[a]["json"] = "sealed" /\ results[a]["html"] = "sealed"
    BY DEF RunInv, FilesFollowPosition
  <1>2. /\ runs[a].status = "none" => ClaimOf(a) = "none"
        /\ runs[a].status = "RUNNING" => ClaimOf(a) = "active"
        /\ runs[a].status = "REFUSED" => ClaimOf(a) = "refused"
        /\ runs[a].status = "FAILED" => ClaimOf(a) = "failed"
        /\ runs[a].status \in Succeeded => ClaimOf(a) = "succeeded"
        /\ ClaimOf(a) = "none" => runs[a].status = "none"
        /\ ClaimOf(a) = "active" => runs[a].status = "RUNNING"
    BY <1>1 DEF ClaimOf, Succeeded
  <1>3. /\ analysis[a].answer = "none" => AnswerOf(a) = "none"
        /\ analysis[a].answer = "analyzed" => AnswerOf(a) = "succeeded"
        /\ analysis[a].answer = "integrity_failure" => AnswerOf(a) = "refused"
        /\ analysis[a].answer = "evidence_not_found" => AnswerOf(a) = "no_evidence"
        /\ analysis[a].answer = "active" => AnswerOf(a) = "busy"
        /\ analysis[a].answer = "failed" =>
               AnswerOf(a) = IF runs[a].status = "FAILED" THEN "failed" ELSE "lost"
        /\ analysis[a].answer \in {"database_unavailable", "died"} => AnswerOf(a) = "lost"
    BY DEF AnswerOf
  <1> QED  BY <1>2, <1>3 DEF ClaimTable

LEMMA ClaimsByRowNext == (RunsInv => \A a \in Analysis : ClaimTable(a))'
  BY ClaimsByRow, PTL

\* The step of one request shows in its own claim and answer only.
LEMMA OneRequestShows ==
    ASSUME RepositoryTypeOK, AnalysisTypeOK, NEW a \in Analysis, Request(a) \/ AnalysisStep(a)
    PROVE  /\ Registered' = Registered
           /\ Claim' = [Claim EXCEPT ![a] = ClaimOf(a)']
           /\ Answer' = [Answer EXCEPT ![a] = AnswerOf(a)']
  <1>1. UNCHANGED assets
    BY AnalysisStepFrame
  <1>2. ASSUME NEW b \in Analysis \ {a}
        PROVE  ClaimOf(b)' = ClaimOf(b) /\ AnswerOf(b)' = AnswerOf(b)
    <2>1. /\ analysis'[b] = analysis[b] /\ runs'[b] = runs[b] /\ results'[b] = results[b]
          /\ b \in reports' <=> b \in reports
      BY <1>2, AnalysisStepFrame
    <2>2. ClaimOf(b)' = ClaimOf(b)
      BY <2>1 DEF ClaimOf
    <2>3. AnswerOf(b)' = AnswerOf(b)
      BY <2>1 DEF AnswerOf
    <2> QED  BY <2>2, <2>3
  <1>3. Registered' = Registered
    BY <1>1 DEF Registered
  <1>4. Claim' = [Claim EXCEPT ![a] = ClaimOf(a)']
    BY <1>2 DEF Claim
  <1>5. Answer' = [Answer EXCEPT ![a] = AnswerOf(a)']
    BY <1>2 DEF Answer
  <1> QED  BY <1>3, <1>4, <1>5

LEMMA ClaimStep ==
    ASSUME TableInv, NEW a \in Analysis, RunsInv', ClaimEvidence(a)
    PROVE  Claims!Claim(a)
  <1> USE DEF TableInv, TypeOK
  <1>f. /\ Registered' = Registered
        /\ Claim' = [Claim EXCEPT ![a] = ClaimOf(a)']
        /\ Answer' = [Answer EXCEPT ![a] = AnswerOf(a)']
        /\ UNCHANGED <<assets>>
    BY OneRequestShows, AnalysisStepFrame DEF AnalysisStep, AnalysisWorks
  <1>1. /\ analysis[a].pc = "claiming" /\ analysis'[a].pc = "verifying"
        /\ analysis'[a].answer = analysis[a].answer
        /\ runs'[a].status = "RUNNING"
        /\ CaseOf(analysis[a].asset) # {} /\ ~Active(analysis[a].asset)
    BY AnalysisGoToEffect
    DEF ClaimEvidence, AnalysisAt, InsertRun, RunConflicts, RepositoryTypeOK
  <1>2. ClaimTable(a) /\ ClaimTable(a)' /\ RunInv(a)
    BY ClaimsByRow, ClaimsByRowNext DEF RunsInv
  <1>3. runs[a].status = "none" /\ analysis[a].answer = "none"
    BY <1>1, <1>2 DEF RunInv, ClaimFollowsPosition, Unclaimed
  <1>4. /\ ClaimOf(a) = "none" /\ AnswerOf(a) = "none"
        /\ ClaimOf(a)' = "active" /\ AnswerOf(a)' = "none"
    BY <1>1, <1>2, <1>3 DEF ClaimTable
  <1>5. Ask[a] \in Registered
    <2>1. PICK r \in assets : r.id = analysis[a].asset
      BY <1>1 DEF CaseOf
    <2>2. r.case = analysis[a].case
      BY <1>1, <2>1 DEF KeysInv, RowsMatch, AnalysisNamesCase
    <2> QED  BY <2>1, <2>2 DEF Ask, Registered
  <1>6. ASSUME NEW b \in Analysis, ClaimOf(b) = "active", Ask[b] = Ask[a] PROVE FALSE
    <2>1. runs[b].status = "RUNNING" /\ runs[b].asset = analysis[b].asset
      BY <1>6, ClaimsByRow DEF ClaimTable, RunsInv, RunInv, RunNamesAsset
    <2>2. analysis[b].asset = analysis[a].asset
      BY <1>6 DEF Ask
    <2>3. runs[b] = [asset |-> analysis[a].asset, status |-> "RUNNING"]
      BY <2>1, <2>2 DEF RepositoryTypeOK, Run
    <2> QED  BY <1>1, <2>3 DEF Active
  <1>7. Ask' = Ask
    BY AnalysisStepFrame DEF AnalysisStep, AnalysisWorks, Ask
  <1>8. /\ Answer[a] = "none" /\ Claim[a] = "none"
        /\ \A b \in Analysis : Claim[b] = "active" => Ask[b] # Ask[a]
    BY <1>4, <1>6 DEF Answer, Claim
  <1>9. /\ Claim' = [Claim EXCEPT ![a] = "active"]
        /\ Answer' = Answer
    BY <1>f, <1>4 DEF Answer
  <1> QED
    BY <1>f, <1>5, <1>7, <1>8, <1>9
    DEF Claims!Claim, Claims!Waiting, Claims!Taken, Claim, Answer, Ask, Registered

LEMMA SettleStep ==
    ASSUME TableInv, NEW a \in Analysis, RunsInv', Refuse(a) \/ Finish(a) \/ RecordFailure(a)
    PROVE  Claims!Settle(a)
  <1> USE DEF TableInv, TypeOK, AnalysisAt
  <1>f. /\ Registered' = Registered
        /\ Claim' = [Claim EXCEPT ![a] = ClaimOf(a)']
        /\ Answer' = [Answer EXCEPT ![a] = AnswerOf(a)']
    BY OneRequestShows DEF AnalysisStep, AnalysisWorks
  <1>0. ClaimTable(a) /\ ClaimTable(a)' /\ RunInv(a)
    BY ClaimsByRow, ClaimsByRowNext DEF RunsInv
  <1>1. runs[a].status = "RUNNING" /\ analysis[a].answer = "none"
    <2>1. analysis[a].pc \in {"refusing", "finalizing", "failing"}
      BY DEF Refuse, Finish, RecordFailure
    <2> QED  BY <2>1, <1>0 DEF RunInv, ClaimFollowsPosition, Claimed
  <1>2. ClaimOf(a) = "active" /\ AnswerOf(a) = "none"
    BY <1>0, <1>1 DEF ClaimTable
  <1>3. PICK outcome \in Claims!Outcome : ClaimOf(a)' = outcome
    <2>1. CASE Refuse(a)
      <3>1. runs'[a].status = "REFUSED"
        BY <2>1, FinalizeEffect DEF Refuse
      <3> QED  BY <3>1, <1>0 DEF ClaimTable, Claims!Outcome
    <2>2. CASE Finish(a)
      <3>1. runs'[a].status \in Succeeded
        BY <2>2, <1>0, FinalizeEffect DEF Finish, RunInv, FilesFollowPosition
      <3> QED  BY <3>1, <1>0 DEF ClaimTable, Claims!Outcome
    <2>3. CASE RecordFailure(a)
      <3>1. runs'[a].status = "FAILED"
        BY <2>3, FinalizeEffect DEF RecordFailure
      <3> QED  BY <3>1, <1>0 DEF ClaimTable, Claims!Outcome
    <2> QED  BY <2>1, <2>2, <2>3
  <1>a. AnswerOf(a)' = "none"
    <2>1. analysis'[a].answer = "none"
      BY <1>1, AnalysisSettlesEffect DEF Refuse, Finish, RecordFailure
    <2> QED  BY <2>1, <1>0 DEF ClaimTable
  <1>4. Ask' = Ask
    BY AnalysisStepFrame DEF AnalysisStep, AnalysisWorks, Ask
  <1>5. Answer[a] = "none" /\ Claim[a] = "active"
    BY <1>2 DEF Answer, Claim
  <1>6. Claim' = [Claim EXCEPT ![a] = outcome] /\ Answer' = Answer
    BY <1>f, <1>a, <1>3, <1>5 DEF Answer
  <1> QED
    BY <1>f, <1>3, <1>4, <1>5, <1>6
    DEF Claims!Settle, Claims!Waiting, Claim, Answer, Ask, Registered

\* The answer that follows the commit tells how the claim was settled.
LEMMA ReportStep ==
    ASSUME TableInv, NEW a \in Analysis, RunsInv', Respond(a), runs[a].status # "RUNNING"
    PROVE  Claims!Report(a)
  <1> USE DEF TableInv, TypeOK, AnalysisAt
  <1>f. /\ Registered' = Registered
        /\ Claim' = [Claim EXCEPT ![a] = ClaimOf(a)']
        /\ Answer' = [Answer EXCEPT ![a] = AnswerOf(a)']
    BY OneRequestShows DEF AnalysisStep, AnalysisWorks
  <1>0. ClaimTable(a) /\ ClaimTable(a)' /\ RunInv(a)
    BY ClaimsByRow, ClaimsByRowNext DEF RunsInv
  <1>1. /\ analysis[a].pc \in Response /\ analysis'[a].answer = analysis[a].pc
        /\ analysis[a].answer = "none" /\ runs' = runs
    <2>1. analysis[a].pc \in Response /\ analysis'[a].answer = analysis[a].pc /\ runs' = runs
      BY AnalysisEndEffect DEF Respond, tables
    <2> QED  BY <2>1, <1>0 DEF RunInv, ClaimFollowsPosition, Response
  <1>2. Told(a) = analysis[a].pc
    BY <1>1 DEF Told
  <1>3. PICK outcome \in Claims!Outcome :
            ClaimOf(a) = outcome /\ ClaimOf(a)' = outcome /\ AnswerOf(a)' = outcome
    <2>1. CASE analysis[a].pc = "analyzed"
      <3>1. runs[a].status \in Succeeded
        BY <1>0, <1>2, <2>1 DEF RunInv, AnswerMatchesRun
      <3> QED  BY <1>0, <1>1, <2>1, <3>1 DEF ClaimTable, Claims!Outcome
    <2>2. CASE analysis[a].pc = "integrity_failure"
      <3>1. runs[a].status = "REFUSED"
        BY <1>0, <1>2, <2>2 DEF RunInv, AnswerMatchesRun
      <3> QED  BY <1>0, <1>1, <2>2, <3>1 DEF ClaimTable, Claims!Outcome
    <2>3. CASE analysis[a].pc = "failed"
      <3>1. runs[a].status = "FAILED"
        BY <1>0, <1>2, <2>3 DEF RunInv, AnswerMatchesRun
      <3> QED  BY <1>0, <1>1, <2>3, <3>1 DEF ClaimTable, Claims!Outcome
    <2> QED  BY <1>1, <2>1, <2>2, <2>3 DEF Response
  <1>4. Ask' = Ask
    BY AnalysisStepFrame DEF AnalysisStep, AnalysisWorks, Ask
  <1>5. Answer[a] = "none" /\ Claim[a] = outcome
    BY <1>0, <1>1, <1>3 DEF ClaimTable, Answer, Claim
  <1>6. Claim' = Claim /\ Answer' = [Answer EXCEPT ![a] = outcome]
    BY <1>f, <1>3 DEF Claim
  <1> QED
    BY <1>f, <1>3, <1>4, <1>5, <1>6
    DEF Claims!Report, Claims!Waiting, Claims!Tell, Claim, Answer, Ask, Registered

\* A request that has no claim yet and is answered without one.
LEMMA DeclineStep ==
    ASSUME TableInv, NEW a \in Analysis, RunsInv', LoadContext(a) \/ ExplainConflict(a),
           analysis'[a].answer \in {"evidence_not_found", "active"}
    PROVE  Claims!Decline(a)
  <1> USE DEF TableInv, TypeOK, AnalysisAt
  <1>f. /\ Registered' = Registered
        /\ Claim' = [Claim EXCEPT ![a] = ClaimOf(a)']
        /\ Answer' = [Answer EXCEPT ![a] = AnswerOf(a)']
    BY OneRequestShows DEF AnalysisStep, AnalysisWorks
  <1>0. ClaimTable(a) /\ ClaimTable(a)' /\ RunInv(a) /\ RunInv(a)'
    BY ClaimsByRow, ClaimsByRowNext DEF RunsInv
  <1>1. runs[a].status = "none" /\ analysis[a].answer = "none" /\ runs' = runs
    BY <1>0 DEF LoadContext, ExplainConflict, RunInv, ClaimFollowsPosition, Unclaimed, tables
  <1>2. Claim[a] = "none" /\ Answer[a] = "none" /\ ClaimOf(a)' = "none"
    BY <1>0, <1>1 DEF ClaimTable, Claim, Answer
  <1>3. Ask' = Ask
    BY AnalysisStepFrame DEF AnalysisStep, AnalysisWorks, Ask
  <1>4. Claim' = Claim
    BY <1>f, <1>2 DEF Claim
  <1>5. CASE LoadContext(a)
    <2>1. /\ {r \in assets : r.id = analysis[a].asset /\ r.case = analysis[a].case} = {}
          /\ analysis'[a].answer = "evidence_not_found"
      <3>1. analysis[a].answer = "none"
        BY <1>1
      <3>2. CASE AnalysisEnd(a, "evidence_not_found")
        BY <1>5, <3>2, AnalysisEndEffect DEF LoadContext, AnalysisTypeOK, AnalysisRecord
      <3>3. CASE ~AnalysisEnd(a, "evidence_not_found")
        <4>1. analysis'[a].answer = analysis[a].answer
          BY <1>5, <3>3 DEF LoadContext, AnalysisTypeOK, AnalysisRecord
        <4> QED  BY <3>1, <4>1
      <3> QED  BY <3>2, <3>3
    <2>2. Ask[a] \notin Registered
      BY <2>1 DEF Ask, Registered
    <2>3. Answer' = [Answer EXCEPT ![a] = "no_evidence"]
      BY <1>f, <1>0, <2>1 DEF ClaimTable
    <2> QED
      BY <1>f, <1>2, <1>3, <1>4, <2>2, <2>3
      DEF Claims!Decline, Claims!Waiting, Claims!Tell, Claim, Answer, Ask, Registered
  <1>6. CASE ExplainConflict(a)
    <2>1. Active(analysis[a].asset) /\ analysis'[a].answer = "active" /\ analysis[a].pc = "conflict"
      BY <1>6, AnalysisEndEffect DEF ExplainConflict
    <2>2. PICK b \in Analysis : runs[b] = [asset |-> analysis[a].asset, status |-> "RUNNING"]
      BY <2>1 DEF Active
    <2>3. analysis[b].asset = analysis[a].asset
      BY <2>2 DEF RunsInv, RunInv, RunNamesAsset
    <2>4. analysis[b].case = analysis[a].case
      <3>1. PICK r \in assets : r.id = analysis[a].asset /\ r.case = analysis[b].case
        BY <2>2, IntegrityParts DEF RunHasEvidence
      <3> QED  BY <2>1, <3>1 DEF KeysInv, RowsMatch, AnalysisNamesCase
    <2>5. Claim[b] = "active" /\ Ask[b] = Ask[a]
      BY <2>2, <2>3, <2>4, ClaimsByRow DEF ClaimTable, Claim, Ask
    <2>6. Answer' = [Answer EXCEPT ![a] = "busy"]
      BY <1>f, <1>0, <2>1 DEF ClaimTable
    <2> QED
      BY <1>f, <1>2, <1>3, <1>4, <2>5, <2>6
      DEF Claims!Decline, Claims!Waiting, Claims!Taken, Claims!Tell, Claim, Answer, Ask, Registered
  <1> QED  BY <1>5, <1>6

\* A request that is told nothing about a claim is lost.
LEMMA LoseStep ==
    ASSUME TableInv, NEW a \in Analysis, RunsInv', Request(a) \/ AnalysisStep(a),
           runs' = runs, analysis[a].answer = "none", AnswerOf(a)' = "lost"
    PROVE  Claims!Lose({a})
  <1> USE DEF TableInv, TypeOK
  <1>f. /\ Registered' = Registered
        /\ Claim' = [Claim EXCEPT ![a] = ClaimOf(a)']
        /\ Answer' = [Answer EXCEPT ![a] = AnswerOf(a)']
    BY OneRequestShows
  <1>0. ClaimTable(a) /\ ClaimTable(a)'
    BY ClaimsByRow, ClaimsByRowNext DEF RunsInv
  <1>1. runs[a].status \in RunStatus
    BY DEF RepositoryTypeOK, Run
  <1>2. ClaimOf(a)' = ClaimOf(a)
    BY <1>0, <1>1 DEF ClaimTable, RunStatus, Succeeded
  <1>3. Ask' = Ask
    BY AnalysisStepFrame DEF Ask
  <1>4. Claim' = Claim
    BY <1>f, <1>2 DEF Claim
  <1>5. Answer[a] = "none"
    BY <1>0 DEF ClaimTable, Answer
  <1>6. Answer' = [b \in Analysis |-> IF b \in {a} THEN "lost" ELSE Answer[b]]
    BY <1>f DEF Answer
  <1> QED
    BY <1>f, <1>3, <1>4, <1>5, <1>6 DEF Claims!Lose, Claims!Waiting, Claim, Answer, Ask, Registered

\* The other steps of a request show nothing.
LEMMA HiddenStep ==
    ASSUME TableInv, NEW a \in Analysis, RunsInv', Request(a) \/ AnalysisStep(a),
           runs' = runs, analysis'[a].answer = analysis[a].answer
    PROVE  UNCHANGED <<Registered, Ask, Claim, Answer>>
  <1> USE DEF TableInv, TypeOK
  <1>f. /\ Registered' = Registered
        /\ Claim' = [Claim EXCEPT ![a] = ClaimOf(a)']
        /\ Answer' = [Answer EXCEPT ![a] = AnswerOf(a)']
    BY OneRequestShows
  <1>0. ClaimTable(a) /\ ClaimTable(a)'
    BY ClaimsByRow, ClaimsByRowNext DEF RunsInv
  <1>1. runs[a].status \in RunStatus
    BY DEF RepositoryTypeOK, Run
  <1>2. ClaimOf(a)' = ClaimOf(a)
    BY <1>0, <1>1 DEF ClaimTable, RunStatus, Succeeded
  <1>3. AnswerOf(a)' = AnswerOf(a)
    BY DEF AnswerOf
  <1>4. Ask' = Ask
    BY AnalysisStepFrame DEF Ask
  <1> QED  BY <1>f, <1>2, <1>3, <1>4 DEF Claim, Answer

\* Every step of a request claims, settles, reports, declines, is lost or shows nothing.
LEMMA RequestRefines ==
    ASSUME TableInv, NEW a \in Analysis, RunsInv', Request(a) \/ AnalysisStep(a)
    PROVE  \/ Claims!Claim(a) \/ Claims!Settle(a) \/ Claims!Report(a) \/ Claims!Decline(a)
           \/ Claims!Lose({a}) \/ UNCHANGED <<Registered, Ask, Claim, Answer>>
  <1> USE DEF AnalysisAt, tables
  <1>0. ClaimTable(a)' /\ RunInv(a) /\ RepositoryTypeOK /\ AnalysisTypeOK
    BY ClaimsByRowNext DEF RunsInv, TableInv, TypeOK
  <1>1. CASE ClaimEvidence(a)
    BY <1>1, ClaimStep
  <1>2. CASE Refuse(a) \/ Finish(a) \/ RecordFailure(a)
    BY <1>2, SettleStep
  <1>3. CASE LoadContext(a) \/ ExplainConflict(a)
    <2>0. runs' = runs /\ analysis[a].answer = "none"
      BY <1>0, <1>3 DEF LoadContext, ExplainConflict, RunInv, ClaimFollowsPosition
    <2>1. CASE analysis'[a].answer \in {"evidence_not_found", "active"}
      BY <1>3, <2>1, DeclineStep
    <2>2. CASE analysis'[a].answer = "database_unavailable"
      <3>1. AnswerOf(a)' = "lost"
        BY <1>0, <2>2 DEF ClaimTable
      <3> QED  BY <1>3, <2>0, <3>1, LoseStep DEF AnalysisStep, AnalysisWorks
    <2>3. CASE analysis'[a].answer = analysis[a].answer
      BY <1>3, <2>0, <2>3, HiddenStep DEF AnalysisStep, AnalysisWorks
    <2>4. \/ AnalysisEnd(a, "evidence_not_found") \/ AnalysisEnd(a, "active")
          \/ AnalysisEnd(a, "database_unavailable")
          \/ analysis'[a].answer = analysis[a].answer
      BY <1>0, <1>3 DEF LoadContext, ExplainConflict, AnalysisTypeOK, AnalysisRecord
    <2> QED  BY <1>0, <2>1, <2>2, <2>3, <2>4, AnalysisEndEffect
  <1>4. CASE AnalysisDbFails(a)
    <2>0. runs' = runs /\ analysis[a].answer = "none"
      BY <1>0, <1>4 DEF AnalysisDbFails, RunInv, ClaimFollowsPosition
    <2>1. CASE AnalysisEnd(a, "database_unavailable")
      <3>1. AnswerOf(a)' = "lost"
        BY <1>0, <2>1, AnalysisEndEffect DEF ClaimTable
      <3> QED  BY <1>4, <2>0, <3>1, LoseStep DEF AnalysisStep
    <2>2. CASE AnalysisSettles(a, "failed")
      <3>1. analysis'[a].answer = analysis[a].answer
        BY <1>0, <2>2, AnalysisSettlesEffect
      <3> QED  BY <1>4, <2>0, <3>1, HiddenStep DEF AnalysisStep
    <2> QED  BY <1>4, <2>1, <2>2 DEF AnalysisDbFails
  <1>5. CASE \/ Request(a) \/ ClaimConflict(a) \/ Verify(a) \/ VerifyFails(a) \/ Analyze(a)
             \/ CreateResult(a) \/ SealResult(a) \/ AnalysisRaises(a)
    <2>1. runs' = runs
      BY <1>5 DEF Request, ClaimConflict, Verify, VerifyFails, Analyze, CreateResult,
                  SealResult, AnalysisRaises
    <2>2. analysis'[a].answer = analysis[a].answer
      <3>1. CASE Analyze(a) \/ CreateResult(a)
        BY <1>0, <3>1 DEF Analyze, CreateResult, AnalysisTypeOK, AnalysisRecord
      <3>2. CASE ~(Analyze(a) \/ CreateResult(a))
        BY <1>0, <1>5, <3>2, AnalysisGoToEffect
        DEF Request, ClaimConflict, Verify, VerifyFails, SealResult, AnalysisRaises
      <3> QED  BY <3>1, <3>2
    <2> QED  BY <2>1, <2>2, HiddenStep
  \* what could not be recorded is no outcome
  <1>6. CASE Respond(a)
    <2>1. CASE runs[a].status # "RUNNING"
      BY <1>6, <2>1, ReportStep
    <2>2. CASE runs[a].status = "RUNNING"
      <3>1. analysis[a].pc \in Response /\ analysis'[a].answer = analysis[a].pc /\ runs' = runs
        BY <1>0, <1>6, AnalysisEndEffect DEF Respond
      <3>2. analysis[a].answer = "none" /\ Told(a) = analysis[a].pc
        BY <1>0, <3>1 DEF RunInv, ClaimFollowsPosition, Response, Told
      <3>3. analysis'[a].answer = "failed"
        BY <1>0, <2>2, <3>1, <3>2 DEF RunInv, AnswerMatchesRun, Response, Succeeded
      <3>4. AnswerOf(a)' = "lost"
        BY <1>0, <2>2, <3>1, <3>3 DEF ClaimTable
      <3> QED  BY <1>6, <3>1, <3>2, <3>4, LoseStep DEF AnalysisStep, AnalysisWorks
    <2> QED  BY <2>1, <2>2
  <1> QED  BY <1>1, <1>2, <1>3, <1>4, <1>5, <1>6 DEF AnalysisStep, AnalysisWorks

\* An upload registers the evidence it inserts and withdraws only what nobody claims.
LEMMA UploadRefines ==
    ASSUME TableInv, [Next]_vars, NEW u \in Upload,
           UNCHANGED <<analysis, runs, reports, results>>,
           Inserts(u) \/ (upload[u].pc \in Doubtful /\ Compensate(u))
    PROVE  \E e \in [id: Upload, case: Case] : Claims!Register(e) \/ Claims!Withdraw(e)
  <1> USE DEF TableInv, TypeOK
  <1>1. UNCHANGED <<Ask, Claim, Answer>>
    BY DEF Ask, Claim, Answer, ClaimOf, AnswerOf
  <1>u. upload[u].case \in Case
    BY DEF UploadTypeOK, UploadRecord
  <1>2. CASE Inserts(u)
    <2>0. PICK e \in [id: Upload, case: Case] : e = [id |-> u, case |-> upload[u].case]
      BY <1>u
    <2>1. PICK row : assets' = assets \cup {row} /\ row.id = u /\ row.case = upload[u].case
      <3>1. PICK row : row = [id |-> u, case |-> upload[u].case, content |-> upload[u].content]
        OBVIOUS
      <3> QED  BY <1>2, <3>1 DEF Inserts, CommitEvidence, InsertEvidence
    <2>2. Registered' = Registered \cup {e}
      <3>1. [id |-> row.id, case |-> row.case] = e
        BY <2>0, <2>1
      <3> QED  BY <2>1, <3>1 DEF Registered
    <2>3. Claims!Register(e)
      BY <1>1, <2>2 DEF Claims!Register, Claim, Answer, Ask, Registered
    <2> QED  BY <2>3
  <1>3. CASE upload[u].pc \in Doubtful /\ Compensate(u)
    <2>0. PICK id \in Upload, e \in [id: Upload, case: Case] :
             id = upload[u].asset /\ e = [id |-> id, case |-> upload[u].case]
      BY <1>3, <1>u DEF KeysInv, NamesOwnEvidence, Doubtful, UploadTypeOK, UploadRecord
    <2>1. /\ assets' = {r \in assets : r.id # id}
          /\ \A a \in Analysis : runs[a].asset # id
      BY <1>3, <2>0 DEF Compensate, DeleteEvidence, Restricted
    <2>3. \A r \in assets : r.id = id => r.case = upload[u].case
      BY <2>0, RepositoryAssumption DEF KeysInv, NamesOwnEvidence, RowsMatch
    <2>4. Registered' = Registered \ {e}
      BY <2>0, <2>1, <2>3 DEF Registered
    <2>5. ASSUME NEW a \in Analysis, Claim[a] # "none" PROVE Ask[a] # e
      <3>1. runs[a].status # "none"
        BY <2>5, ClaimsByRow DEF ClaimTable, Claim
      <3>2. runs[a].asset = analysis[a].asset
        BY <3>1 DEF RunsInv, RunInv, RunNamesAsset
      <3> QED  BY <2>0, <2>1, <3>2 DEF Ask
    <2>6. Claims!Withdraw(e)
      BY <1>1, <2>4, <2>5 DEF Claims!Withdraw, Claim, Answer, Ask, Registered
    <2> QED  BY <2>6
  <1> QED  BY <1>2, <1>3

\* A process that dies loses the requests that were in flight and no claim.
LEMMA CrashRefines ==
    ASSUME TableInv, RunsInv', Crash
    PROVE  \E S \in SUBSET Analysis : Claims!Lose(S)
  <1> USE DEF TableInv, TypeOK
  <1> DEFINE S == {a \in Analysis : AnalysisInFlight(a)}
  <1>1. /\ UNCHANGED <<assets, runs, reports, results>>
        /\ \A a \in Analysis \ S : analysis'[a] = analysis[a]
        /\ \A a \in S : analysis'[a].answer = "died"
    BY DEF Crash, tables, AnalysisTypeOK, AnalysisRecord
  <1>2. UNCHANGED <<Registered, Claim>>
    BY <1>1 DEF Registered, Claim, ClaimOf
  <1>3. Ask' = Ask
    <2>1. \A a \in Analysis : /\ analysis'[a].asset = analysis[a].asset
                              /\ analysis'[a].case = analysis[a].case
      BY DEF Crash, AnalysisTypeOK, AnalysisRecord
    <2> QED  BY <2>1 DEF Ask
  <1>4. \A a \in S : Answer[a] = "none"
    BY ClaimsByRow
    DEF AnalysisInFlight, RunsInv, RunInv, ClaimFollowsPosition, ClaimTable, Answer
  <1>5. Answer' = [a \in Analysis |-> IF a \in S THEN "lost" ELSE Answer[a]]
    <2>1. \A a \in Analysis \ S : AnswerOf(a)' = AnswerOf(a)
      BY <1>1 DEF AnswerOf
    <2>2. \A a \in S : AnswerOf(a)' = "lost"
      BY <1>1, ClaimsByRowNext DEF ClaimTable
    <2> QED  BY <2>1, <2>2 DEF Answer
  <1>6. Claims!Lose(S)
    BY <1>2, <1>3, <1>4, <1>5 DEF Claims!Lose, Claims!Waiting, Claim, Answer, Ask, Registered
  <1>7. S \in SUBSET Analysis
    OBVIOUS
  <1> HIDE DEF S
  <1> QED  BY <1>6, <1>7

\* Whatever the interleaving of uploads and analyses, whatever fails or dies, the
\* analyses of an evidence asset behave like atomic claims of it.
THEOREM AnalysesRefineClaims == Spec => ImplementsAnalysisClaims
  <1>1. Init => Claims!Init
    <2> SUFFICES ASSUME Init PROVE Claims!Init
      OBVIOUS
    <2>1. TypeOK /\ RunsInv /\ assets = {}
      BY InitTypeOK, InitRunsInv DEF Init, RepositoryInit
    <2>2. \A a \in Analysis : runs[a].status = "none" /\ analysis[a].answer = "none"
      BY DEF Init, RepositoryInit, AnalysisInit
    <2>3. /\ Claim = [a \in Analysis |-> "none"]
          /\ Answer = [a \in Analysis |-> "none"]
      BY <2>1, <2>2, ClaimsByRow DEF ClaimTable, Claim, Answer
    <2>4. Ask \in [Analysis -> [id: Upload, case: Case]]
      BY <2>1 DEF Ask, TypeOK, AnalysisTypeOK, AnalysisRecord
    <2>5. Registered = {}
      BY <2>1 DEF Registered
    <2> QED  BY <2>3, <2>4, <2>5 DEF Claims!Init, Claim, Answer, Ask, Registered
  <1>2. TableInv /\ TableInv' /\ [Next]_vars => [Claims!Next]_(Claims!vars)
    <2> SUFFICES ASSUME TableInv, RunsInv', [Next]_vars
                 PROVE  Claims!Next \/ UNCHANGED <<Registered, Ask, Claim, Answer>>
      BY DEF TableInv, Claims!vars, Registered, Ask, Claim, Answer
    <2>1. ASSUME NEW a \in Analysis, Request(a) \/ AnalysisStep(a)
          PROVE  Claims!Next \/ UNCHANGED <<Registered, Ask, Claim, Answer>>
      <3>1. {a} \in SUBSET Analysis
        OBVIOUS
      <3> QED  BY <2>1, <3>1, RequestRefines DEF Claims!Next
    <2>2. ASSUME UNCHANGED <<assets, analysis, runs, reports, results>>
          PROVE  UNCHANGED <<Registered, Ask, Claim, Answer>>
      BY <2>2 DEF Registered, Ask, Claim, Answer, ClaimOf, AnswerOf
    <2>3. ASSUME NEW u \in Upload, Receive(u) \/ UploadStep(u),
                 UNCHANGED <<analysis, results, reconcile>>
          PROVE  Claims!Next \/ UNCHANGED <<Registered, Ask, Claim, Answer>>
      <3>1. UNCHANGED <<runs, reports>>
        BY <2>3, UploadStepFrame DEF TableInv, TypeOK
      <3>2. CASE Inserts(u) \/ (upload[u].pc \in Doubtful /\ Compensate(u))
        BY <2>3, <3>1, <3>2, UploadRefines DEF Claims!Next
      <3>3. CASE UNCHANGED assets
        BY <2>2, <2>3, <3>1, <3>3
      <3> QED
        BY <2>3, <3>2, <3>3, UploadStepCases
        DEF TableInv, Advances, TurnsAway, Reuses, Accepts, Doubts, GivesUp, Admits, SameEvidence
    <2>4. CASE Crash
      BY <2>4, CrashRefines DEF Claims!Next
    <2> QED
      BY <2>1, <2>2, <2>3, <2>4
      DEF Next, CreateCase, ListObjects, ReportOrphans, LoseObject, Idle, vars, tables, requests
  <1> QED
    BY <1>1, <1>2, TableInvariant, PTL DEF Spec, ImplementsAnalysisClaims, Claims!Spec

-----------------------------------------------------------------------------
(* The uploads implement EvidenceRegistry                                   *)

\* The variables of EvidenceRegistry, as the tables, the objects and the requests
\* show them; its registry is the table of assets.
StoredContents == {c \in Content : Stored(c)}
IssuedRows == {RowOf(u) : u \in {v \in Upload : Id(v) = v}}
Brings == [u \in Upload |-> [case |-> upload[u].case, content |-> upload[u].content]]
Reply == [u \in Upload |-> ReplyOf(u)]

\* Whether a request still waits, and what it was told otherwise.
LEMMA ReplyKinds ==
    ASSUME NEW u \in Upload
    PROVE  /\ Reply[u] = ReplyOf(u)
           /\ upload[u].pc = "retracted" /\ upload[u].answer = "none" =>
                  ReplyOf(u) = [kind |-> "retracting", id |-> NoAsset]
           /\ upload[u].pc # "retracted" =>
                 /\ upload[u].answer = "none" =>
                        ReplyOf(u) = [kind |-> "none", id |-> NoAsset]
                 /\ upload[u].answer = "consistency_failure" =>
                        ReplyOf(u) = [kind |-> "inconsistent", id |-> NoAsset]
                 /\ upload[u].answer \in {"case_not_found", "rejected", "storage_unavailable",
                                          "database_unavailable", "died"} =>
                        ReplyOf(u) = [kind |-> "refused", id |-> NoAsset]
  BY DEF Reply, ReplyOf, UploadAt, Accepted

\* The step of one upload shows in its own reply only, and adds what it stored.
LEMMA OneUploadShows ==
    ASSUME TypeOK, NEW u \in Upload, Receive(u) \/ UploadStep(u)
    PROVE  /\ Brings' = Brings
           /\ Reply' = [Reply EXCEPT ![u] = ReplyOf(u)']
           /\ StoredContents' \in {StoredContents, StoredContents \cup {upload[u].content}}
           /\ objects' = objects => StoredContents' = StoredContents
  <1> USE DEF TypeOK
  <1>1. Brings' = Brings
    <2>1. \A v \in Upload : /\ upload'[v].case = upload[v].case
                            /\ upload'[v].content = upload[v].content
      BY UploadStepFrame
    <2> QED  BY <2>1 DEF Brings
  <1>2. Reply' = [Reply EXCEPT ![u] = ReplyOf(u)']
    <2>1. \A v \in Upload \ {u} : ReplyOf(v)' = ReplyOf(v)
      BY UploadStepFrame DEF ReplyOf, UploadAt, Id
    <2> QED  BY <2>1 DEF Reply
  <1>3. objects' = objects => StoredContents' = StoredContents
    BY DEF StoredContents, Stored
  <1>4. CASE objects' # objects
    <2>1. /\ objects' = [objects EXCEPT ![upload[u].content] = "intact"]
          /\ upload[u].content \in Content
      BY <1>4, UploadPuts DEF UploadTypeOK, UploadRecord
    <2>2. StoredContents' = StoredContents \cup {upload[u].content}
      BY <2>1 DEF StoredContents, Stored, RepositoryTypeOK
    <2> QED  BY <1>1, <1>2, <1>4, <2>2
  <1> QED  BY <1>1, <1>2, <1>3, <1>4

\* The ids that were issued change only when an upload inserts its row.
LEMMA IssuedChange ==
    ASSUME TypeOK, KeysInv, IssuedInv, [Next]_vars, NEW u \in Upload,
           \A v \in Upload \ {u} : upload'[v] = upload[v]
    PROVE  /\ Id(u) # u /\ Id(u)' # u => IssuedRows' = IssuedRows
           /\ Id(u)' = Id(u) => IssuedRows' = IssuedRows
           /\ Id(u) # u /\ Id(u)' = u => IssuedRows' = IssuedRows \cup {RowOf(u)'}
  <1> DEFINE Issuers == {v \in Upload : Id(v) = v}
  <1>f. /\ upload'[u].case = upload[u].case
        /\ upload'[u].content = upload[u].content
    BY InputsFixed
  <1>1. \A v \in Upload \ {u} : RowOf(v)' = RowOf(v) /\ Id(v)' = Id(v)
    BY DEF RowOf, Id
  <1>2. Id(u)' = Id(u) => RowOf(u)' = RowOf(u)
    BY <1>f DEF RowOf, Id
  <1>3. ASSUME Id(u) # u, Id(u)' # u PROVE IssuedRows' = IssuedRows
    BY <1>1, <1>3 DEF IssuedRows
  <1>4. ASSUME Id(u)' = Id(u) PROVE IssuedRows' = IssuedRows
    BY <1>1, <1>2, <1>4 DEF IssuedRows
  <1>5. ASSUME Id(u) # u, Id(u)' = u PROVE IssuedRows' = IssuedRows \cup {RowOf(u)'}
    BY <1>1, <1>5 DEF IssuedRows
  <1> QED  BY <1>3, <1>4, <1>5

RegistryInv == TableInv /\ StoreInv /\ IssuedInv
RegistryUnchanged == UNCHANGED <<StoredContents, assets, IssuedRows, Brings, Reply>>

LEMMA RegisterStep ==
    ASSUME RegistryInv, [Next]_vars, NEW u \in Upload, Receive(u) \/ UploadStep(u), Inserts(u)
    PROVE  Registry!Register(u)
  <1> USE DEF RegistryInv, TableInv
  <1>o. UNCHANGED objects
    BY DEF Inserts, CommitEvidence
  <1>f. /\ Brings' = Brings /\ Reply' = [Reply EXCEPT ![u] = ReplyOf(u)']
        /\ UNCHANGED StoredContents
        /\ \A v \in Upload \ {u} : upload'[v] = upload[v]
        /\ upload'[u].case = upload[u].case /\ upload'[u].content = upload[u].content
    BY <1>o, OneUploadShows, UploadStepFrame DEF TypeOK
  <1>n. upload[u].answer = "none" /\ Id(u) = NoAsset /\ upload[u].pc \in PastPut
    BY DEF Inserts, KeysInv, NamesOwnEvidence, PreCommit, PastPut, Id
  <1>1. Reply' = Reply /\ Reply[u].kind = "none"
    <2>1. upload'[u].answer = "none" /\ upload'[u].pc = "checking"
      BY <1>n DEF Inserts
    <2>2. ReplyOf(u)' = ReplyOf(u)
      BY <1>n, <2>1 DEF ReplyOf, UploadAt, Accepted, PastPut
    <2>3. Reply[u].kind = "none"
      BY <1>n, ReplyKinds DEF PastPut
    <2> QED  BY <1>f, <2>2, <2>3 DEF Reply
  <1>2. \A e \in IssuedRows : e.id # u
    BY <1>n, RepositoryAssumption DEF IssuedRows, RowOf
  <1>3. /\ assets' = assets \cup {RowOf(u)'}
        /\ \A e \in assets : ~(e.case = upload[u].case /\ e.content = upload[u].content)
    BY <1>f DEF Inserts, CommitEvidence, InsertEvidence, InsertConflicts, Ids, RowOf, Id
  <1>4. IssuedRows' = IssuedRows \cup {RowOf(u)'}
    <2>1. Id(u) # u /\ Id(u)' = u
      BY <1>n, RepositoryAssumption DEF Inserts, Id
    <2> QED  BY <1>f, <2>1, IssuedChange
  <1>5. ~Disturbed => upload[u].content \in StoredContents
    <2>1. upload[u].content \in Content
      BY DEF TypeOK, UploadTypeOK, UploadRecord
    <2> QED  BY <1>n, <2>1 DEF StoreInv, Preserved, StoredContents
  <1>6. RowOf(u)' = [id |-> u, case |-> Brings[u].case, content |-> Brings[u].content]
    BY <1>f DEF RowOf, Id, Inserts, Brings
  <1>7. Brings[u].case = upload[u].case /\ Brings[u].content = upload[u].content
    BY DEF Brings
  <1> QED
    BY <1>f, <1>1, <1>2, <1>3, <1>4, <1>5, <1>6, <1>7
    DEF Registry!Register, Registry!Waiting, Registry!Same,
        StoredContents, IssuedRows, Brings, Reply

LEMMA AcceptStep ==
    ASSUME RegistryInv, [Next]_vars, NEW u \in Upload, Receive(u) \/ UploadStep(u), Accepts(u)
    PROVE  Registry!Accept(u)
  <1> USE DEF RegistryInv, TableInv
  <1>o. UNCHANGED objects /\ KeepsAsset(u) /\ UNCHANGED assets
    BY DEF Accepts, SameEvidence
  <1>f. /\ Brings' = Brings /\ Reply' = [Reply EXCEPT ![u] = ReplyOf(u)']
        /\ UNCHANGED StoredContents
        /\ \A v \in Upload \ {u} : upload'[v] = upload[v]
    BY <1>o, OneUploadShows, UploadStepFrame DEF TypeOK
  <1>k. NamesOwnEvidence(u) /\ IdIsIssued(u)
    BY DEF KeysInv, IssuedInv
  <1>n. /\ upload[u].answer = "none" /\ Id(u) # NoAsset /\ Id(u) \in Upload
        /\ Id(u)' = Id(u)
    BY <1>k, <1>o
    DEF Accepts, NamesOwnEvidence, Id, KeepsAsset, TypeOK, UploadTypeOK, UploadRecord
  <1>1. Reply[u].kind = "none"
    BY <1>n, ReplyKinds DEF Accepts
  <1>2. UNCHANGED IssuedRows
    BY <1>f, <1>n, IssuedChange
  <1>3. PICK e : e = RowOf(Id(u))
    OBVIOUS
  <1>4. /\ e \in IssuedRows /\ e.id = Id(u)
        /\ e.case = Brings[u].case /\ e.content = Brings[u].content
    <2>1. Id(Id(u)) = Id(u)
      BY <1>k, <1>n DEF IdIsIssued
    <2>2. e \in IssuedRows
      BY <1>n, <1>3, <2>1 DEF IssuedRows
    <2>3. /\ upload[Id(u)].case = upload[u].case
          /\ upload[Id(u)].content = upload[u].content
      BY <1>k, <1>n DEF NamesOwnEvidence, Id
    <2> QED  BY <1>3, <2>1, <2>2, <2>3 DEF RowOf, Brings
  <1>5. ~Disturbed => e \in assets /\ e.content \in StoredContents
    <2>1. ASSUME ~Disturbed PROVE RowOf(u) \in assets /\ Stored(upload[u].content)
      BY <2>1 DEF StoreInv, Preserved, Accepts
    <2>2. e = RowOf(u)
      BY <1>3, <1>k, <1>n DEF RowOf, NamesOwnEvidence, Id, IdIsIssued
    <2>3. upload[u].content \in Content
      BY DEF TypeOK, UploadTypeOK, UploadRecord
    <2> QED  BY <2>1, <2>2, <2>3 DEF StoredContents, RowOf
  <1>6. Reply' = [Reply EXCEPT ![u] =
                     [kind |-> IF e.id = u THEN "created" ELSE "reused", id |-> e.id]]
    <2>1. upload[u].reused <=> Id(u) # u
      BY <1>k, <1>n DEF NamesOwnEvidence, IdIsIssued, Id
    <2>2. /\ upload'[u].answer = IF e.id = u THEN "created" ELSE "reused"
          /\ upload'[u].pc = "done"
      BY <1>4, <2>1 DEF Accepts
    <2>3. ReplyOf(u)' = [kind |-> IF e.id = u THEN "created" ELSE "reused", id |-> e.id]
      BY <1>4, <1>n, <2>2 DEF ReplyOf, UploadAt, Accepted
    <2> QED  BY <1>f, <2>3
  <1> QED
    BY <1>o, <1>f, <1>1, <1>2, <1>4, <1>5, <1>6
    DEF Registry!Accept, Registry!Waiting, Registry!Same, Registry!Tell,
        StoredContents, IssuedRows, Brings, Reply

LEMMA RefuseStep ==
    ASSUME RegistryInv, [Next]_vars, NEW u \in Upload, Receive(u) \/ UploadStep(u), TurnsAway(u)
    PROVE  Registry!Refuse(u)
  <1> USE DEF RegistryInv, TableInv
  <1>f. /\ Brings' = Brings /\ Reply' = [Reply EXCEPT ![u] = ReplyOf(u)']
        /\ UNCHANGED StoredContents
        /\ \A v \in Upload \ {u} : upload'[v] = upload[v]
    BY OneUploadShows, UploadStepFrame DEF TypeOK, TurnsAway
  <1>1. upload[u].answer = "none" /\ Id(u)' = Id(u) /\ UNCHANGED assets
    BY DEF TurnsAway, KeysInv, NamesOwnEvidence, PreCommit, PastPut, SameEvidence, KeepsAsset, Id
  <1>2. Reply[u].kind = "none"
    BY <1>1, ReplyKinds DEF TurnsAway, PreCommit
  <1>3. UNCHANGED IssuedRows
    BY <1>f, <1>1, IssuedChange
  <1>4. Reply' = [Reply EXCEPT ![u] = [kind |-> "refused", id |-> NoAsset]]
    <2>1. ReplyOf(u)' = [kind |-> "refused", id |-> NoAsset]
      BY DEF TurnsAway, ReplyOf, UploadAt, Accepted
    <2> QED  BY <1>f, <2>1
  <1> QED
    BY <1>f, <1>1, <1>2, <1>3, <1>4
    DEF Registry!Refuse, Registry!Waiting, Registry!Tell, StoredContents, IssuedRows, Brings, Reply

LEMMA RetractStep ==
    ASSUME RegistryInv, [Next]_vars, NEW u \in Upload, Receive(u) \/ UploadStep(u), GivesUp(u)
    PROVE  Registry!Retract(u)
  <1> USE DEF RegistryInv, TableInv
  <1>o. UNCHANGED objects /\ KeepsAsset(u)
    BY DEF GivesUp
  <1>f. /\ Brings' = Brings /\ Reply' = [Reply EXCEPT ![u] = ReplyOf(u)']
        /\ UNCHANGED StoredContents
        /\ \A v \in Upload \ {u} : upload'[v] = upload[v]
    BY <1>o, OneUploadShows, UploadStepFrame DEF TypeOK
  <1>k. NamesOwnEvidence(u)
    BY DEF KeysInv
  <1>1. /\ upload[u].answer = "none" /\ Id(u)' = Id(u)
        /\ Id(u) \in Upload /\ Disturbed
    BY <1>k, <1>o
    DEF GivesUp, NamesOwnEvidence, Doubtful, KeepsAsset, Id, StoreInv, Preserved,
        TypeOK, UploadTypeOK, UploadRecord
  <1>2. Reply[u].kind = "none"
    BY <1>1, ReplyKinds DEF GivesUp
  <1>3. UNCHANGED IssuedRows
    BY <1>f, <1>1, IssuedChange
  <1>4. Reply' = [Reply EXCEPT ![u] = [kind |-> "retracting", id |-> NoAsset]]
    <2>1. ReplyOf(u)' = [kind |-> "retracting", id |-> NoAsset]
      BY <1>1 DEF GivesUp, ReplyOf, UploadAt, Accepted
    <2> QED  BY <1>f, <2>1
  <1>5. \/ UNCHANGED assets
        \/ \E e \in assets : /\ e.case = Brings[u].case /\ e.content = Brings[u].content
                             /\ assets' = assets \ {e}
    <2>1. CASE Compensate(u)
      <3>1. assets' = {r \in assets : r.id # Id(u)}
        BY <2>1 DEF Compensate, DeleteEvidence, Id
      <3>2. CASE \A r \in assets : r.id # Id(u)
        BY <3>1, <3>2
      <3>3. ASSUME NEW e \in assets, e.id = Id(u)
              PROVE  \E r \in assets : /\ r.case = Brings[u].case /\ r.content = Brings[u].content
                                       /\ assets' = assets \ {r}
        <4>1. e.case = upload[u].case /\ e.content = upload[u].content
          BY <3>3, <1>k, <1>1, RepositoryAssumption DEF KeysInv, RowsMatch, NamesOwnEvidence, Id
        <4>2. \A r \in assets : r.id = Id(u) => r = e
          BY <3>3, IntegrityParts DEF OneAssociation
        <4>3. assets' = assets \ {e}
          BY <3>1, <3>3, <4>2
        <4> QED  BY <4>1, <4>3 DEF Brings
      <3> QED  BY <3>2, <3>3
    <2>2. CASE SameEvidence
      BY <2>2 DEF SameEvidence
    <2> QED  BY <2>1, <2>2 DEF GivesUp
  <1> QED
    BY <1>f, <1>1, <1>2, <1>3, <1>4, <1>5
    DEF Registry!Retract, Registry!Waiting, Registry!Tell, Registry!Same,
        StoredContents, IssuedRows, Brings, Reply

LEMMA AdmitStep ==
    ASSUME RegistryInv, [Next]_vars, NEW u \in Upload, Receive(u) \/ UploadStep(u), Admits(u)
    PROVE  Registry!Admit(u)
  <1> USE DEF RegistryInv, TableInv
  <1>f. /\ Brings' = Brings /\ Reply' = [Reply EXCEPT ![u] = ReplyOf(u)']
        /\ UNCHANGED StoredContents
        /\ \A v \in Upload \ {u} : upload'[v] = upload[v]
    BY OneUploadShows, UploadStepFrame DEF TypeOK, Admits
  <1>1. upload[u].answer = "none" /\ Id(u)' = Id(u) /\ UNCHANGED assets
    BY DEF Admits, KeysInv, NamesOwnEvidence, SameEvidence, KeepsAsset, Id
  <1>2. Reply[u].kind = "retracting"
    BY <1>1, ReplyKinds DEF Admits
  <1>3. UNCHANGED IssuedRows
    BY <1>f, <1>1, IssuedChange
  <1>4. Reply' = [Reply EXCEPT ![u] = [kind |-> "inconsistent", id |-> NoAsset]]
    <2>1. ReplyOf(u)' = [kind |-> "inconsistent", id |-> NoAsset]
      BY DEF Admits, ReplyOf, UploadAt, Accepted
    <2> QED  BY <1>f, <2>1
  <1> QED
    BY <1>f, <1>1, <1>2, <1>3, <1>4
    DEF Registry!Admit, Registry!Retracting, Registry!Tell, StoredContents, IssuedRows, Brings,
        Reply

\* The other steps of an upload add what it stored, or show nothing.
LEMMA StoreStep ==
    ASSUME RegistryInv, [Next]_vars, NEW u \in Upload, Receive(u) \/ UploadStep(u),
           Advances(u) \/ Reuses(u) \/ Doubts(u)
    PROVE  (\E c \in Content : Registry!Store(c)) \/ RegistryUnchanged
  <1> USE DEF RegistryInv, TableInv
  <1>f. /\ Brings' = Brings /\ Reply' = [Reply EXCEPT ![u] = ReplyOf(u)']
        /\ StoredContents' \in {StoredContents, StoredContents \cup {upload[u].content}}
        /\ \A v \in Upload \ {u} : upload'[v] = upload[v]
    BY OneUploadShows, UploadStepFrame DEF TypeOK
  <1>1. /\ UNCHANGED assets
        /\ upload[u].answer = "none" /\ upload'[u].answer = "none"
        /\ upload[u].pc # "retracted" /\ upload'[u].pc # "retracted"
    BY DEF Advances, Reuses, Doubts, SameEvidence, KeysInv, NamesOwnEvidence,
           PreCommit, PastPut, Doubtful
  <1>2. Reply' = Reply
    <2>1. ReplyOf(u)' = ReplyOf(u)
      BY <1>1 DEF ReplyOf, UploadAt, Accepted
    <2> QED  BY <1>f, <2>1 DEF Reply
  <1>3. UNCHANGED IssuedRows
    <2>1. CASE KeepsAsset(u)
      BY <1>f, <2>1, IssuedChange DEF KeepsAsset, Id
    <2>2. CASE Reuses(u)
      <3>1. Id(u) = NoAsset /\ upload[u].pc \in PreCommit
        BY <2>2 DEF Reuses, KeysInv, NamesOwnEvidence, PreCommit, PastPut, Id
      <3>2. PICK r \in assets : r.id = upload'[u].asset
        BY <2>2 DEF Reuses, Ids
      <3>3. r.id # u
        BY <3>1, <3>2, RepositoryAssumption DEF KeysInv, RowsMatch, Id
      <3> QED  BY <1>f, <3>1, <3>2, <3>3, RepositoryAssumption, IssuedChange DEF Id
    <2> QED  BY <2>1, <2>2 DEF Advances, Doubts
  <1>4. CASE UNCHANGED StoredContents
    BY <1>f, <1>1, <1>2, <1>3, <1>4 DEF RegistryUnchanged
  <1>5. CASE StoredContents' = StoredContents \cup {upload[u].content}
    <2>1. PICK c \in Content : c = upload[u].content
      BY DEF TypeOK, UploadTypeOK, UploadRecord
    <2>2. Registry!Store(c)
      BY <1>f, <1>1, <1>2, <1>3, <1>5, <2>1
      DEF Registry!Store, StoredContents, IssuedRows, Brings, Reply
    <2> QED  BY <2>2
  <1> QED  BY <1>f, <1>4, <1>5

LEMMA RegistryCrash ==
    ASSUME RegistryInv, [Next]_vars, Crash
    PROVE  \E S \in SUBSET Upload : Registry!Abandon(S)
  <1> USE DEF RegistryInv, TableInv, TypeOK
  <1> DEFINE S == {u \in Upload : UploadInFlight(u)}
  <1>1. /\ UNCHANGED <<objects, assets>>
        /\ \A u \in Upload : /\ upload'[u].asset = upload[u].asset
                             /\ upload'[u].case = upload[u].case
                             /\ upload'[u].content = upload[u].content
        /\ \A u \in Upload \ S : upload'[u] = upload[u]
        /\ \A u \in S : upload'[u].answer = "died" /\ upload'[u].pc = "done"
    BY DEF Crash, tables, UploadTypeOK, UploadRecord
  <1>2. UNCHANGED <<StoredContents, IssuedRows, Brings>>
    BY <1>1 DEF StoredContents, Stored, IssuedRows, RowOf, Id, Brings
  <1>3. \A u \in S : Reply[u].kind \in {"none", "retracting"}
    <2>1. ASSUME NEW u \in S PROVE Reply[u].kind \in {"none", "retracting"}
      <3>1. upload[u].answer = "none"
        BY DEF UploadInFlight, KeysInv, NamesOwnEvidence
      <3>2. CASE upload[u].pc = "retracted"
        BY <3>1, <3>2, ReplyKinds
      <3>3. CASE upload[u].pc # "retracted"
        BY <3>1, <3>3, ReplyKinds
      <3> QED  BY <3>2, <3>3
    <2> QED  BY <2>1
  <1>4. Reply' = [u \in Upload |-> IF u \in S THEN [kind |-> "refused", id |-> NoAsset]
                                   ELSE Reply[u]]
    <2>1. \A u \in Upload \ S : ReplyOf(u)' = ReplyOf(u)
      BY <1>1 DEF ReplyOf, UploadAt, Id
    <2>2. \A u \in S : ReplyOf(u)' = [kind |-> "refused", id |-> NoAsset]
      BY <1>1 DEF ReplyOf, UploadAt, Accepted
    <2> QED  BY <2>1, <2>2 DEF Reply
  <1>5. Registry!Abandon(S)
    BY <1>1, <1>2, <1>3, <1>4
    DEF Registry!Abandon, Registry!Waiting, Registry!Retracting, StoredContents, IssuedRows,
        Brings, Reply
  <1>6. S \in SUBSET Upload
    OBVIOUS
  <1> HIDE DEF S
  <1> QED  BY <1>5, <1>6

\* Whatever the interleaving of uploads, whatever fails or dies, and however somebody
\* disturbs the store, uploads behave like atomic registrations that answer truthfully.
THEOREM UploadsRefineRegistry == Spec => ImplementsEvidenceRegistry
  <1>1. Init => Registry!Init
    <2> SUFFICES ASSUME Init PROVE Registry!Init
      OBVIOUS
    <2>1. TypeOK /\ assets = {} /\ StoredContents = {}
      BY InitTypeOK DEF Init, RepositoryInit, StoredContents, Stored
    <2>2. \A u \in Upload : /\ upload[u].answer = "none" /\ upload[u].asset = NoAsset
                            /\ upload[u].pc = "idle"
      BY DEF Init, UploadInit
    <2>3. Reply = [u \in Upload |-> [kind |-> "none", id |-> NoAsset]]
      BY <2>2, ReplyKinds DEF Reply
    <2>4. Brings \in [Upload -> [case: Case, content: Content]]
      BY <2>1 DEF Brings, TypeOK, UploadTypeOK, UploadRecord
    <2>5. IssuedRows = {}
      BY <2>2, RepositoryAssumption DEF IssuedRows, Id
    <2> QED
      BY <2>1, <2>3, <2>4, <2>5
      DEF Registry!Init, StoredContents, IssuedRows, Brings, Reply
  <1>2. RegistryInv /\ [Next]_vars => [Registry!Next]_(Registry!vars)
    <2> SUFFICES ASSUME RegistryInv, [Next]_vars PROVE Registry!Next \/ RegistryUnchanged
      BY DEF Registry!vars, RegistryUnchanged, StoredContents, IssuedRows, Brings, Reply
    <2> USE DEF RegistryInv, TableInv
    <2>1. ASSUME NEW u \in Upload, Receive(u) \/ UploadStep(u)
          PROVE  Registry!Next \/ RegistryUnchanged
      <3>1. \/ Registry!Register(u) \/ Registry!Accept(u) \/ Registry!Refuse(u)
            \/ Registry!Retract(u) \/ Registry!Admit(u)
            \/ (\E c \in Content : Registry!Store(c))
            \/ RegistryUnchanged
        BY <2>1, UploadStepCases, RegisterStep, AcceptStep, RefuseStep, RetractStep, AdmitStep,
           StoreStep
      <3> QED  BY <3>1 DEF Registry!Next
    <2>2. ASSUME UNCHANGED <<objects, assets, upload>> PROVE RegistryUnchanged
      BY <2>2
      DEF RegistryUnchanged, StoredContents, Stored, IssuedRows, RowOf, Id, Brings, Reply, ReplyOf,
          UploadAt
    <2>3. ASSUME NEW a \in Analysis, Request(a) \/ AnalysisStep(a), UNCHANGED upload
          PROVE  RegistryUnchanged
      BY <2>2, <2>3, AnalysisStepFrame DEF TypeOK
    <2>4. ASSUME NEW c \in Content, LoseObject(c) PROVE Registry!Spoil(c)
      <3>1. StoredContents' = StoredContents \ {c}
        BY <2>4 DEF LoseObject, StoredContents, Stored, TypeOK, RepositoryTypeOK
      <3>2. Disturbed /\ UNCHANGED <<assets, IssuedRows, Brings, Reply>>
        BY <2>4
        DEF LoseObject, Disturbed, tables, requests, IssuedRows, RowOf, Id, Brings, Reply, ReplyOf,
            UploadAt
      <3> QED
        BY <3>1, <3>2 DEF Registry!Spoil, StoredContents, IssuedRows, Brings, Reply
    <2>5. CASE Crash
      BY <2>5, RegistryCrash DEF Registry!Next
    <2>6. CASE \E c \in Content : LoseObject(c)
      BY <2>4, <2>6 DEF Registry!Next
    <2> QED
      BY <2>1, <2>2, <2>3, <2>5, <2>6
      DEF Next, CreateCase, ListObjects, ReportOrphans, Idle, vars, tables, requests
  <1>3. Spec => []RegistryInv
    BY StoreInvariant, IssuedInvariant, PTL DEF RegistryInv
  <1> QED
    BY <1>1, <1>2, <1>3, PTL DEF Spec, ImplementsEvidenceRegistry, Registry!Spec

-----------------------------------------------------------------------------
(* Requests get on.                                                        *)

\* Where a request is says how many steps are left to it, but for the file in hand.
UploadDistance(u) ==
    /\ upload[u].pc = "idle" => UploadLeft(u) = 12
    /\ upload[u].pc = "lookup" => UploadLeft(u) = 11
    /\ upload[u].pc = "putting" => UploadLeft(u) = 10
    /\ upload[u].pc = "reading" => UploadLeft(u) = 9
    /\ upload[u].pc = "finding" => UploadLeft(u) = 8
    /\ upload[u].pc = "blob" => UploadLeft(u) = 7
    /\ upload[u].pc = "committing" => UploadLeft(u) = 6
    /\ upload[u].pc = "fallback" => UploadLeft(u) = 5
    /\ upload[u].pc = "checking" => UploadLeft(u) = 4
    /\ upload[u].pc = "compensating" => UploadLeft(u) = 3
    /\ upload[u].pc = "deleting" => UploadLeft(u) = 2
    /\ upload[u].pc = "retracted" => UploadLeft(u) = 1
    /\ upload[u].pc = "done" => UploadLeft(u) = 0
    /\ UploadLeft(u) \in Nat

AnalysisDistance(a) ==
    /\ analysis[a].pc = "idle" => AnalysisLeft(a) = 14
    /\ analysis[a].pc = "context" => AnalysisLeft(a) = 13
    /\ analysis[a].pc = "claiming" => AnalysisLeft(a) = 12
    /\ analysis[a].pc = "verifying" => AnalysisLeft(a) = 11
    /\ analysis[a].pc = "engine" => AnalysisLeft(a) = 10
    /\ analysis[a].pc = "tool" => AnalysisLeft(a) = 9 - Begun(a, "tool")
    /\ analysis[a].pc = "json" => AnalysisLeft(a) = 7 - Begun(a, "json")
    /\ analysis[a].pc = "html" => AnalysisLeft(a) = 5 - Begun(a, "html")
    /\ analysis[a].pc = "finalizing" => AnalysisLeft(a) = 3
    /\ analysis[a].pc \in {"refusing", "failing"} => AnalysisLeft(a) = 2
    /\ analysis[a].pc \in {"conflict"} \cup Response => AnalysisLeft(a) = 1
    /\ analysis[a].pc = "done" => AnalysisLeft(a) = 0
    /\ \A f \in ResultFile : Begun(a, f) \in {0, 1}
    /\ AnalysisLeft(a) \in Nat

LEMMA UploadDistances == \A u \in Upload : UploadDistance(u)
  <1> SUFFICES ASSUME NEW u \in Upload PROVE UploadDistance(u)
    OBVIOUS
  <1> DEFINE Early == {"idle", "lookup", "putting", "reading", "finding", "blob"}
  <1>1. CASE upload[u].pc \in Early
    BY <1>1 DEF UploadDistance, UploadLeft
  <1>2. CASE upload[u].pc \notin Early
    BY <1>2 DEF UploadDistance, UploadLeft
  <1> QED  BY <1>1, <1>2

LEMMA UploadDistancesNext == (\A u \in Upload : UploadDistance(u))'
  BY UploadDistances, PTL

LEMMA AnalysisDistances == \A a \in Analysis : AnalysisDistance(a)
  <1> SUFFICES ASSUME NEW a \in Analysis PROVE AnalysisDistance(a)
    OBVIOUS
  <1>1. \A f : Begun(a, f) \in {0, 1}
    BY DEF Begun
  <1>2. CASE analysis[a].pc \in ResultFile
    BY <1>1, <1>2 DEF AnalysisDistance, AnalysisLeft, ResultFile, Response
  <1>3. CASE analysis[a].pc \notin ResultFile
    BY <1>1, <1>3 DEF AnalysisDistance, AnalysisLeft, ResultFile, Response
  <1> QED  BY <1>2, <1>3

LEMMA AnalysisDistancesNext == (\A a \in Analysis : AnalysisDistance(a))'
  BY AnalysisDistances, PTL

\* A step of an upload leads to a later position.
LEMMA UploadAdvances ==
    ASSUME TypeOK, NEW u \in Upload, Receive(u) \/ UploadStep(u)
    PROVE  UploadLeft(u)' \in Nat /\ UploadLeft(u)' < UploadLeft(u)
  <1> DEFINE Down(from, to) == upload[u].pc = from /\ upload'[u].pc = to
  <1>a. /\ UploadDistance(u)
        /\ UploadDistance(u)'
    BY UploadDistances, UploadDistancesNext
  <1> USE DEF TypeOK, UploadAt
  <1>1. CASE Receive(u)
    <2>1. Down("idle", "lookup")
      BY <1>1, UploadGoToEffect DEF Receive
    <2> QED  BY <1>a, <2>1 DEF UploadDistance
  <1>2. CASE LookupCase(u)
    <2>1. Down("lookup", "putting") \/ Down("lookup", "done")
      BY <1>2, UploadGoToEffect, UploadEndEffect DEF LookupCase
    <2> QED  BY <1>a, <2>1 DEF UploadDistance
  <1>3. CASE PutObject(u) \/ PutFails(u)
    <2>1. Down("putting", "reading") \/ Down("putting", "done") \/ Down("reading", "done")
      BY <1>3, UploadGoToEffect, UploadEndEffect DEF PutObject, PutFails
    <2> QED  BY <1>a, <2>1 DEF UploadDistance
  <1>4. CASE ReadCase(u) \/ ReadBlob(u) \/ FindCompensated(u)
    <2>1. Down("reading", "finding") \/ Down("blob", "committing")
          \/ Down("compensating", "deleting")
      BY <1>4 DEF ReadCase, ReadBlob, FindCompensated, UploadTypeOK, UploadRecord
    <2> QED  BY <1>a, <2>1 DEF UploadDistance
  <1>5. CASE FindAssociation(u) \/ Fallback(u)
    <2>1. Down("finding", "checking") \/ Down("finding", "blob")
          \/ Down("fallback", "checking") \/ Down("fallback", "done")
      <3>1. CASE \E id \in Ids(upload[u].case, upload[u].content) : Reuse(u, id)
        BY <1>5, <3>1, ReuseEffect DEF FindAssociation, Fallback
      <3>2. CASE ~\E id \in Ids(upload[u].case, upload[u].content) : Reuse(u, id)
        BY <1>5, <3>2, UploadGoToEffect, UploadEndEffect DEF FindAssociation, Fallback
      <3> QED  BY <3>1, <3>2
    <2> QED  BY <1>a, <2>1 DEF UploadDistance
  <1>6. CASE CommitEvidence(u) \/ CommitConflict(u)
    <2>1. Down("committing", "checking") \/ Down("committing", "fallback")
      <3>1. CASE CommitEvidence(u)
        BY <3>1 DEF CommitEvidence, UploadTypeOK, UploadRecord
      <3>2. CASE CommitConflict(u)
        BY <3>2, UploadGoToEffect DEF CommitConflict
      <3> QED  BY <1>6, <3>1, <3>2
    <2> QED  BY <1>a, <2>1 DEF UploadDistance
  <1>7. CASE CheckObject(u)
    <2>1. Down("checking", "done") \/ Down("checking", "compensating")
      BY <1>7, UploadGoToEffect, UploadEndEffect DEF CheckObject
    <2> QED  BY <1>a, <2>1 DEF UploadDistance
  <1>8. CASE Compensate(u) \/ CompensationRefused(u) \/ ReportInconsistent(u)
    <2>1. Down("deleting", "retracted") \/ Down("retracted", "done")
      BY <1>8, UploadGivesUpEffect, UploadEndEffect
      DEF Compensate, CompensationRefused, ReportInconsistent
    <2> QED  BY <1>a, <2>1 DEF UploadDistance
  <1>9. CASE UploadDbFails(u)
    <2>1. \/ /\ upload'[u].pc = "done"
             /\ upload[u].pc \in {"lookup", "reading", "finding", "blob", "committing",
                                  "fallback"}
          \/ /\ upload'[u].pc = "retracted"
             /\ upload[u].pc \in {"compensating", "deleting"}
      BY <1>9, UploadEndEffect, UploadGivesUpEffect DEF UploadDbFails
    <2> QED  BY <1>a, <2>1 DEF UploadDistance
  <1> QED
    BY <1>1, <1>2, <1>3, <1>4, <1>5, <1>6, <1>7, <1>8, <1>9 DEF UploadStep, UploadWorks

\* So does one of an analysis, or it begins the file that its position is about.
LEMMA AnalysisAdvances ==
    ASSUME TypeOK, NEW a \in Analysis, Request(a) \/ AnalysisStep(a)
    PROVE  AnalysisLeft(a)' \in Nat /\ AnalysisLeft(a)' < AnalysisLeft(a)
  <1> DEFINE Down(from, to) == analysis[a].pc = from /\ analysis'[a].pc = to
  <1>a. /\ AnalysisDistance(a)
        /\ AnalysisDistance(a)'
    BY AnalysisDistances, AnalysisDistancesNext
  <1>b. "tool" \in ResultFile /\ "json" \in ResultFile /\ "html" \in ResultFile
    BY DEF ResultFile
  <1> USE DEF TypeOK, AnalysisAt
  <1>1. CASE Request(a)
    <2>1. Down("idle", "context")
      BY <1>1, AnalysisGoToEffect DEF Request
    <2> QED  BY <1>a, <2>1 DEF AnalysisDistance
  <1>2. CASE LoadContext(a)
    <2>1. Down("context", "done") \/ Down("context", "claiming")
      BY <1>2, AnalysisEndEffect DEF LoadContext, AnalysisTypeOK, AnalysisRecord
    <2> QED  BY <1>a, <2>1 DEF AnalysisDistance
  <1>3. CASE ClaimEvidence(a) \/ ClaimConflict(a) \/ ExplainConflict(a)
    <2>1. Down("claiming", "verifying") \/ Down("claiming", "conflict")
          \/ Down("conflict", "done")
      BY <1>3, AnalysisGoToEffect, AnalysisEndEffect
      DEF ClaimEvidence, ClaimConflict, ExplainConflict
    <2> QED  BY <1>a, <2>1 DEF AnalysisDistance
  <1>4. CASE Verify(a) \/ VerifyFails(a)
    <2>1. Down("verifying", "engine") \/ Down("verifying", "refusing")
      BY <1>4, AnalysisGoToEffect DEF Verify, VerifyFails
    <2> QED  BY <1>a, <2>1 DEF AnalysisDistance
  <1>5. CASE Refuse(a) \/ RecordFailure(a) \/ Finish(a) \/ Respond(a)
    <2>1. \/ /\ analysis[a].pc \in {"refusing", "failing", "finalizing"}
             /\ analysis'[a].pc \in Response
          \/ analysis[a].pc \in Response /\ analysis'[a].pc = "done"
      BY <1>5, AnalysisSettlesEffect, AnalysisEndEffect
      DEF Refuse, RecordFailure, Finish, Respond, Response
    <2> QED  BY <1>a, <2>1 DEF AnalysisDistance
  <1>6. CASE Analyze(a)
    <2>1. Down("engine", "tool") \/ Down("engine", "json")
      BY <1>6 DEF Analyze, AnalysisTypeOK, AnalysisRecord
    <2> QED  BY <1>a, <1>b, <2>1 DEF AnalysisDistance
  <1>7. CASE CreateResult(a)
    <2>1. PICK f \in ResultFile : f = analysis[a].pc
      BY <1>7 DEF CreateResult
    <2>2. analysis'[a].pc = f /\ results[a][f] = "absent" /\ results'[a][f] = "partial"
      BY <1>7, <2>1 DEF CreateResult, AnalysisTypeOK
    <2>3. Begun(a, f) = 0
      BY <2>2 DEF Begun
    <2>4. Begun(a, f)' = 1
      BY <2>2 DEF Begun
    <2>5. f \in {"tool", "json", "html"}
      BY DEF ResultFile
    <2> QED  BY <1>a, <2>1, <2>2, <2>3, <2>4, <2>5 DEF AnalysisDistance
  <1>8. CASE SealResult(a)
    <2>1. PICK f \in ResultFile : f = analysis[a].pc
      BY <1>8 DEF SealResult
    <2>2. results[a][f] = "partial" /\ analysis'[a].pc = AfterFile[f]
      BY <1>8, <2>1, AnalysisGoToEffect DEF SealResult
    <2>3. Begun(a, f) = 1
      BY <2>2 DEF Begun
    <2>4. CASE f = "tool"
      <3>1. Down("tool", "json") /\ Begun(a, "tool") = 1
        BY <2>1, <2>2, <2>3, <2>4 DEF AfterFile
      <3> QED  BY <1>a, <1>b, <3>1 DEF AnalysisDistance
    <2>5. CASE f = "json"
      <3>1. Down("json", "html") /\ Begun(a, "json") = 1
        BY <2>1, <2>2, <2>3, <2>5 DEF AfterFile
      <3> QED  BY <1>a, <1>b, <3>1 DEF AnalysisDistance
    <2>6. CASE f = "html"
      <3>1. Down("html", "finalizing") /\ Begun(a, "html") = 1
        BY <2>1, <2>2, <2>3, <2>6 DEF AfterFile
      <3> QED  BY <1>a, <3>1 DEF AnalysisDistance
    <2> QED  BY <2>4, <2>5, <2>6 DEF ResultFile
  <1>9. CASE AnalysisRaises(a)
    <2>1. /\ analysis'[a].pc = "failing"
          /\ analysis[a].pc \in {"engine", "tool", "json", "html", "finalizing"}
      BY <1>9, AnalysisGoToEffect DEF AnalysisRaises, ResultFile
    <2> QED  BY <1>a, <1>b, <2>1 DEF AnalysisDistance
  <1>10. CASE AnalysisDbFails(a)
    <2>1. \/ /\ analysis'[a].pc = "done"
             /\ analysis[a].pc \in {"context", "claiming", "conflict", "refusing"}
          \/ analysis[a].pc = "failing" /\ analysis'[a].pc \in Response
      BY <1>10, AnalysisEndEffect, AnalysisSettlesEffect DEF AnalysisDbFails, Response
    <2> QED  BY <1>a, <2>1 DEF AnalysisDistance
  <1> QED
    BY <1>1, <1>2, <1>3, <1>4, <1>5, <1>6, <1>7, <1>8, <1>9, <1>10
    DEF AnalysisStep, AnalysisWorks

\* A request whose own record and files are left alone stays where it is; a crash
\* leaves none of it.
LEMMA OthersDoNotDelay ==
    ASSUME TypeOK, [Next]_vars
    PROVE  /\ \A u \in Upload : UploadLeft(u)' \in 0..UploadLeft(u)
           /\ \A a \in Analysis : AnalysisLeft(a)' \in 0..AnalysisLeft(a)
  <1>a. /\ \A u \in Upload : UploadDistance(u)
        /\ (\A u \in Upload : UploadDistance(u))'
        /\ \A a \in Analysis : AnalysisDistance(a)
        /\ (\A a \in Analysis : AnalysisDistance(a))'
    BY UploadDistances, UploadDistancesNext, AnalysisDistances, AnalysisDistancesNext
  <1>u. ASSUME NEW u \in Upload, upload'[u] = upload[u] \/ upload'[u].pc = "done"
        PROVE  UploadLeft(u)' \in 0..UploadLeft(u)
    <2>1. UploadLeft(u) \in Nat /\ (upload'[u].pc = "done" => UploadLeft(u)' = 0)
      BY <1>a DEF UploadDistance
    <2>2. upload'[u] = upload[u] => UploadLeft(u)' = UploadLeft(u)
      BY DEF UploadLeft
    <2> QED  BY <1>u, <2>1, <2>2
  <1>v. ASSUME NEW a \in Analysis,
               (analysis'[a] = analysis[a] /\ results'[a] = results[a])
                  \/ analysis'[a].pc = "done"
        PROVE  AnalysisLeft(a)' \in 0..AnalysisLeft(a)
    <2>1. AnalysisLeft(a) \in Nat /\ (analysis'[a].pc = "done" => AnalysisLeft(a)' = 0)
      BY <1>a DEF AnalysisDistance
    <2>2. analysis'[a] = analysis[a] /\ results'[a] = results[a]
             => AnalysisLeft(a)' = AnalysisLeft(a)
      BY DEF AnalysisLeft, Begun
    <2> QED  BY <1>v, <2>1, <2>2
  <1>1. ASSUME NEW v \in Upload, Receive(v) \/ UploadStep(v),
               UNCHANGED <<analysis, results, reconcile>>
        PROVE  /\ \A u \in Upload : UploadLeft(u)' \in 0..UploadLeft(u)
               /\ \A a \in Analysis : AnalysisLeft(a)' \in 0..AnalysisLeft(a)
    <2>1. UploadLeft(v)' \in 0..UploadLeft(v)
      BY <1>1, <1>a, UploadAdvances DEF UploadDistance
    <2>2. \A u \in Upload \ {v} : upload'[u] = upload[u]
      BY <1>1, UploadStepFrame DEF TypeOK
    <2> QED  BY <1>1, <1>u, <1>v, <2>1, <2>2
  <1>2. ASSUME NEW b \in Analysis, Request(b) \/ AnalysisStep(b),
               UNCHANGED <<upload, reconcile>>
        PROVE  /\ \A u \in Upload : UploadLeft(u)' \in 0..UploadLeft(u)
               /\ \A a \in Analysis : AnalysisLeft(a)' \in 0..AnalysisLeft(a)
    <2>1. AnalysisLeft(b)' \in 0..AnalysisLeft(b)
      BY <1>2, <1>a, AnalysisAdvances DEF AnalysisDistance
    <2>2. \A a \in Analysis \ {b} : analysis'[a] = analysis[a] /\ results'[a] = results[a]
      BY <1>2, AnalysisStepFrame DEF TypeOK
    <2> QED  BY <1>2, <1>u, <1>v, <2>1, <2>2
  <1>3. CASE Crash
    <2>1. \A u \in Upload : upload'[u] = upload[u] \/ upload'[u].pc = "done"
      BY <1>3 DEF Crash, TypeOK, UploadTypeOK, UploadRecord
    <2>2. \A a \in Analysis : (analysis'[a] = analysis[a] /\ results'[a] = results[a])
                                 \/ analysis'[a].pc = "done"
      BY <1>3 DEF Crash, TypeOK, AnalysisTypeOK, AnalysisRecord
    <2> QED  BY <1>u, <1>v, <2>1, <2>2
  <1>4. CASE UNCHANGED <<upload, analysis, results>>
    BY <1>4, <1>u, <1>v
  <1> QED
    BY <1>1, <1>2, <1>3, <1>4
    DEF Next, CreateCase, ListObjects, ReportOrphans, LoseObject, Idle, vars, requests

\* Every request gets nearer to its answer with each of its own steps and is thrown
\* back by none.
THEOREM NoneGoesBack == Spec => RequestsAdvance
  <1> DEFINE Forward ==
        /\ \A u \in Upload :
              /\ UploadLeft(u)' \in 0..UploadLeft(u)
              /\ Receive(u) \/ UploadStep(u) => UploadLeft(u)' < UploadLeft(u)
        /\ \A a \in Analysis :
              /\ AnalysisLeft(a)' \in 0..AnalysisLeft(a)
              /\ Request(a) \/ AnalysisStep(a) => AnalysisLeft(a)' < AnalysisLeft(a)
  <1>1. TypeOK /\ [Next]_vars => [Forward]_vars
    BY UploadAdvances, AnalysisAdvances, OthersDoNotDelay
  <1> QED  BY <1>1, InitTypeOK, StepTypeOK, PTL DEF Spec, RequestsAdvance

\* The files that a request has not come to yet are not there: their directory is named
\* for the run, so nobody else creates them.
FilesAhead(a) ==
    /\ analysis[a].pc \in Unclaimed \cup {"verifying", "engine", "tool"} =>
           results[a]["json"] = "absent" /\ results[a]["html"] = "absent"
    /\ analysis[a].pc \in Unclaimed \cup {"verifying", "engine"} => results[a]["tool"] = "absent"
    /\ analysis[a].pc = "json" => results[a]["html"] = "absent"
    /\ analysis[a].pc \in ResultFile => results[a][analysis[a].pc] # "sealed"

LEMMA OwnFilesAhead ==
    ASSUME TypeOK, NEW a \in Analysis, FilesAhead(a), Request(a) \/ AnalysisStep(a)
    PROVE  FilesAhead(a)'
  <1> USE DEF TypeOK, AnalysisAt
  <1>1. CASE Request(a) \/ ClaimEvidence(a) \/ ClaimConflict(a) \/ ExplainConflict(a)
             \/ Verify(a) \/ VerifyFails(a) \/ AnalysisRaises(a) \/ AnalysisDbFails(a)
             \/ Refuse(a) \/ Finish(a) \/ RecordFailure(a) \/ Respond(a)
    <2>1. results' = results
      BY <1>1 DEF Request, ClaimEvidence, ClaimConflict, ExplainConflict, Verify, VerifyFails,
                  AnalysisRaises, AnalysisDbFails, Refuse, Finish, RecordFailure, Respond
    <2>2. \/ analysis'[a].pc \in {"done", "failing", "refusing"} \cup Response
          \/ /\ analysis[a].pc \in Unclaimed \cup {"verifying"}
             /\ analysis'[a].pc \in Unclaimed \cup {"verifying", "engine"}
      BY <1>1, AnalysisGoToEffect, AnalysisEndEffect, AnalysisSettlesEffect
      DEF Request, ClaimEvidence, ClaimConflict, ExplainConflict, Verify, VerifyFails,
          AnalysisRaises, AnalysisDbFails, Refuse, Finish, RecordFailure, Respond,
          Response, Unclaimed
    <2> QED  BY <2>1, <2>2 DEF FilesAhead, Unclaimed, ResultFile, Response
  <1>2. CASE LoadContext(a)
    <2>1. /\ results' = results /\ analysis[a].pc = "context"
          /\ analysis'[a].pc \in {"claiming", "done"}
      BY <1>2, AnalysisEndEffect DEF LoadContext, AnalysisTypeOK, AnalysisRecord
    <2> QED  BY <2>1 DEF FilesAhead, Unclaimed, ResultFile
  <1>3. CASE Analyze(a)
    <2>1. /\ results' = results /\ analysis[a].pc = "engine"
          /\ analysis'[a].pc \in {"tool", "json"}
      BY <1>3 DEF Analyze, AnalysisTypeOK, AnalysisRecord
    <2> QED  BY <2>1 DEF FilesAhead, Unclaimed, ResultFile
  <1>4. CASE CreateResult(a)
    <2>1. PICK f \in ResultFile : f = analysis[a].pc
      BY <1>4 DEF CreateResult
    <2>2. /\ analysis'[a].pc = f /\ results'[a][f] = "partial"
          /\ \A g \in ResultFile \ {f} : results'[a][g] = results[a][g]
      BY <1>4, <2>1 DEF CreateResult, AnalysisTypeOK
    <2> QED  BY <2>1, <2>2 DEF FilesAhead, Unclaimed, ResultFile
  <1>5. CASE SealResult(a)
    <2>1. PICK f \in ResultFile : f = analysis[a].pc
      BY <1>5 DEF SealResult
    <2>2. /\ analysis'[a].pc = AfterFile[f]
          /\ \A g \in ResultFile \ {f} : results'[a][g] = results[a][g]
      BY <1>5, <2>1, AnalysisGoToEffect DEF SealResult, AnalysisTypeOK
    <2>3. \/ f = "tool" /\ analysis'[a].pc = "json"
          \/ f = "json" /\ analysis'[a].pc = "html"
          \/ f = "html" /\ analysis'[a].pc = "finalizing"
      BY <2>2 DEF AfterFile, ResultFile
    <2> QED  BY <2>1, <2>2, <2>3 DEF FilesAhead, Unclaimed, ResultFile
  <1> QED  BY <1>1, <1>2, <1>3, <1>4, <1>5 DEF AnalysisStep, AnalysisWorks

LEMMA StepFilesAhead ==
    ASSUME TypeOK, \A a \in Analysis : FilesAhead(a), [Next]_vars
    PROVE  (\A a \in Analysis : FilesAhead(a))'
  <1> SUFFICES ASSUME NEW a \in Analysis PROVE FilesAhead(a)'
    OBVIOUS
  <1>1. ASSUME analysis'[a] = analysis[a], results'[a] = results[a] PROVE FilesAhead(a)'
    BY <1>1 DEF FilesAhead
  <1>2. ASSUME NEW b \in Analysis, Request(b) \/ AnalysisStep(b) PROVE FilesAhead(a)'
    <2>1. CASE a = b
      BY <1>2, <2>1, OwnFilesAhead
    <2>2. CASE a # b
      BY <1>1, <1>2, <2>2, AnalysisStepFrame DEF TypeOK
    <2> QED  BY <2>1, <2>2
  <1>3. CASE Crash
    <2>1. (analysis'[a] = analysis[a] /\ results'[a] = results[a]) \/ analysis'[a].pc = "done"
      BY <1>3 DEF Crash, TypeOK, AnalysisTypeOK, AnalysisRecord
    <2> QED  BY <1>1, <2>1 DEF FilesAhead, Unclaimed, ResultFile
  <1>4. CASE UNCHANGED <<analysis, results>>
    BY <1>1, <1>4
  <1> QED
    BY <1>2, <1>3, <1>4
    DEF Next, CreateCase, ListObjects, ReportOrphans, LoseObject, Idle, vars, requests

\* No request is stopped by what another one, or a crash, has left: the errors "already
\* terminal" and "already exists" are not raised.
THEOREM NothingTwice == Spec => []NothingDoneTwice
  <1>1. Init => \A a \in Analysis : FilesAhead(a)
    BY DEF Init, AnalysisInit, FilesAhead, ResultFile, Unclaimed
  <1>2. Spec => []\A a \in Analysis : FilesAhead(a)
    BY <1>1, InitTypeOK, StepTypeOK, StepFilesAhead, PTL DEF Spec
  <1>3. RunsInv /\ (\A a \in Analysis : FilesAhead(a)) => NothingDoneTwice
    BY DEF RunsInv, RunInv, ClaimFollowsPosition, Claimed, FilesAhead, NothingDoneTwice
  <1> QED  BY <1>2, <1>3, RunsInvariant, PTL

-----------------------------------------------------------------------------
(* The put of an upload as one step (ApiOverStore) *)

Phases == {"idle", "pending", "added", "observed"} \cup Store!Final

\* A call is about the bytes of its upload, and begins when the upload gets to it.
OverInv ==
    /\ TypeOK
    /\ put \in [Upload -> [content : Content, phase : Phases]]
    /\ \A u \in Upload :
          /\ put[u].content = upload[u].content
          /\ upload[u].pc \in {"idle", "lookup"} => put[u].phase = "idle"

\* Steps that concern no upload look the same to ForensicApi.
LEMMA SameAnalysisStep ==
    ASSUME NEW a \in Analysis
    PROVE  Request(a) \/ AnalysisStep(a) => Api!Request(a) \/ Api!AnalysisStep(a)
  <1>1. Request(a) => Api!Request(a)
    BY DEF Request, AnalysisAt, AnalysisGoTo, tables,
           Api!Request, Api!AnalysisAt, Api!AnalysisGoTo, Api!tables
  <1> USE DEF AnalysisAt, AnalysisGoTo, AnalysisEnd, AnalysisSettles, tables, ResultFile,
              Succeeded, Api!AnalysisAt, Api!AnalysisGoTo, Api!AnalysisEnd,
              Api!AnalysisSettles, Api!tables, Api!ResultFile, Api!Succeeded
  <1>2. LoadContext(a) => Api!LoadContext(a)
    BY DEF LoadContext, Api!LoadContext
  <1>3. ClaimEvidence(a) => Api!ClaimEvidence(a)
    BY DEF ClaimEvidence, Api!ClaimEvidence, InsertRun, Api!InsertRun, RunConflicts,
           Api!RunConflicts, CaseOf, Api!CaseOf, Active, Api!Active
  <1>4. ClaimConflict(a) => Api!ClaimConflict(a)
    BY DEF ClaimConflict, Api!ClaimConflict, RunConflicts,
           Api!RunConflicts, CaseOf, Api!CaseOf, Active, Api!Active
  <1>5. ExplainConflict(a) => Api!ExplainConflict(a)
    BY DEF ExplainConflict, Api!ExplainConflict, Active, Api!Active
  <1>6. Verify(a) => Api!Verify(a)
    BY DEF Verify, Api!Verify
  <1>7. VerifyFails(a) => Api!VerifyFails(a)
    BY DEF VerifyFails, Api!VerifyFails
  <1>8. Refuse(a) => Api!Refuse(a)
    BY DEF Refuse, Api!Refuse, FinalizeRun, Api!FinalizeRun
  <1>9. Analyze(a) => Api!Analyze(a)
    BY DEF Analyze, Api!Analyze
  <1>10. CreateResult(a) => Api!CreateResult(a)
    BY DEF CreateResult, Api!CreateResult
  <1>11. SealResult(a) => Api!SealResult(a)
    BY DEF SealResult, Api!SealResult, AfterFile, Api!AfterFile
  <1>12. AnalysisRaises(a) => Api!AnalysisRaises(a)
    BY DEF AnalysisRaises, Api!AnalysisRaises
  <1>13. Finish(a) => Api!Finish(a)
    BY DEF Finish, Api!Finish, FinalizeRun, Api!FinalizeRun
  <1>14. RecordFailure(a) => Api!RecordFailure(a)
    BY DEF RecordFailure, Api!RecordFailure, FinalizeRun, Api!FinalizeRun
  <1>15. AnalysisDbFails(a) => Api!AnalysisDbFails(a)
    BY DEF AnalysisDbFails, Api!AnalysisDbFails
  <1>16. Respond(a) => Api!Respond(a)
    BY DEF Respond, Api!Respond, Response, Api!Response
  <1> QED
    BY <1>1, <1>2, <1>3, <1>4, <1>5, <1>6, <1>7, <1>8, <1>9, <1>10, <1>11, <1>12, <1>13, <1>14,
       <1>15, <1>16
    DEF AnalysisStep, AnalysisWorks, Api!AnalysisStep, Api!AnalysisWorks

\* An upload that is not in its call is shown as it is.
LEMMA ShownOutside ==
    ASSUME NEW u \in Upload, upload[u].pc # "putting"
    PROVE  Shown[u] = upload[u]
  BY DEF Shown, Stores, InCall, UploadAt

\* A step of one upload, outside of its call, is shown as a step of that upload.
LEMMA ShownStep ==
    ASSUME OverInv, NEW u \in Upload, UNCHANGED put,
           upload[u].pc # "putting",
           upload'[u].pc # "putting" \/ upload[u].pc = "lookup",
           upload' \in [Upload -> UploadRecord],
           \A v \in Upload \ {u} : upload'[v] = upload[v]
    PROVE  /\ Shown[u] = upload[u] /\ Shown'[u] = upload'[u]
           /\ Shown' = [Shown EXCEPT ![u] = upload'[u]]
  <1>1. Shown[u] = upload[u]
    BY ShownOutside
  <1>2. Stores(u)' = FALSE
    <2>1. CASE upload'[u].pc # "putting"
      BY <2>1 DEF Stores, InCall, UploadAt
    <2>2. CASE upload[u].pc = "lookup"
      <3>1. put'[u].phase = "idle"
        BY <2>2 DEF OverInv
      <3> QED  BY <3>1 DEF Stores
    <2> QED  BY <2>1, <2>2
  <1>3. Shown'[u] = upload'[u]
    BY <1>2 DEF Shown
  <1>4. \A v \in Upload \ {u} : Shown'[v] = Shown[v]
    BY DEF Shown, Stores, InCall, UploadAt
  <1> QED  BY <1>1, <1>3, <1>4 DEF Shown

\* What a step does to its own record it does to what is shown of it.
LEMMA ShownGoTo ==
    ASSUME NEW u \in Upload, NEW pc, UploadTypeOK, UploadGoTo(u, pc),
           Shown[u] = upload[u], Shown' = [Shown EXCEPT ![u] = upload'[u]]
    PROVE  Api!UploadGoTo(u, pc)
  <1>1. upload'[u] = [upload[u] EXCEPT !.pc = pc]
    BY DEF UploadTypeOK, UploadGoTo
  <1> QED  BY <1>1 DEF Api!UploadGoTo, Shown

LEMMA ShownEnd ==
    ASSUME NEW u \in Upload, NEW answer, UploadTypeOK, UploadEnd(u, answer),
           Shown[u] = upload[u], Shown' = [Shown EXCEPT ![u] = upload'[u]]
    PROVE  Api!UploadEnd(u, answer)
  <1>1. upload'[u] = [upload[u] EXCEPT !.pc = "done", !.answer = answer, !.sawStatus = "unknown",
                                       !.sawBlob = FALSE, !.sawCases = {}]
    BY DEF UploadTypeOK, UploadEnd
  <1> QED  BY <1>1 DEF Api!UploadEnd, Shown

LEMMA ShownGivesUp ==
    ASSUME NEW u \in Upload, UploadTypeOK, UploadGivesUp(u),
           Shown[u] = upload[u], Shown' = [Shown EXCEPT ![u] = upload'[u]]
    PROVE  Api!UploadGivesUp(u)
  <1>1. upload'[u] = [upload[u] EXCEPT !.pc = "retracted", !.sawCases = {}]
    BY DEF UploadTypeOK, UploadGivesUp
  <1> QED  BY <1>1 DEF Api!UploadGivesUp, Shown

LEMMA ShownReuse ==
    ASSUME NEW u \in Upload, NEW id, UploadTypeOK, Reuse(u, id),
           Shown[u] = upload[u], Shown' = [Shown EXCEPT ![u] = upload'[u]]
    PROVE  Api!Reuse(u, id)
  <1>1. upload'[u] = [upload[u] EXCEPT !.pc = "checking", !.asset = id, !.reused = TRUE,
                                       !.sawStatus = "unknown", !.sawBlob = FALSE]
    BY DEF UploadTypeOK, Reuse
  <1> QED  BY <1>1 DEF Api!Reuse, Shown

\* Where an upload outside of its call comes from and goes to.
LEMMA OwnStepMoves ==
    ASSUME TypeOK, NEW u \in Upload, OwnStep(u)
    PROVE  /\ Receive(u) \/ UploadStep(u)
           /\ upload[u].pc # "putting"
           /\ upload'[u].pc # "putting" \/ upload[u].pc = "lookup"
           /\ upload'[u].pc \in {"idle", "lookup"} => upload[u].pc = "idle"
  <1> USE DEF TypeOK, UploadAt
  <1>1. Receive(u) \/ UploadStep(u)
    BY DEF OwnStep, UploadStep, UploadWorks
  <1>2. CASE Receive(u) \/ LookupCase(u) \/ CommitConflict(u) \/ CheckObject(u)
             \/ CompensationRefused(u) \/ UploadDbFails(u) \/ Compensate(u)
             \/ ReportInconsistent(u)
    BY <1>1, <1>2, UploadGoToEffect, UploadEndEffect, UploadGivesUpEffect
    DEF Receive, LookupCase, CommitConflict, CheckObject, CompensationRefused,
        ReportInconsistent, UploadDbFails, Compensate
  <1>3. CASE ReadCase(u) \/ ReadBlob(u) \/ FindCompensated(u)
    BY <1>1, <1>3 DEF ReadCase, ReadBlob, FindCompensated, UploadTypeOK, UploadRecord
  <1>4. CASE FindAssociation(u) \/ Fallback(u)
    <2>1. upload[u].pc \in {"finding", "fallback"}
      BY <1>4 DEF FindAssociation, Fallback
    <2>2. \/ \E id \in Ids(upload[u].case, upload[u].content) : Reuse(u, id)
          \/ UploadGoTo(u, "blob") \/ UploadEnd(u, "database_unavailable")
      BY <1>4 DEF FindAssociation, Fallback
    <2>3. upload'[u].pc \in {"checking", "blob", "done"}
      <3>1. CASE \E id \in Ids(upload[u].case, upload[u].content) : Reuse(u, id)
        <4>1. PICK id \in Ids(upload[u].case, upload[u].content) : Reuse(u, id)
          BY <3>1
        <4> QED  BY <4>1, ReuseEffect
      <3>2. CASE UploadGoTo(u, "blob")
        BY <3>2, UploadGoToEffect
      <3>3. CASE UploadEnd(u, "database_unavailable")
        BY <3>3, UploadEndEffect
      <3> QED  BY <2>2, <3>1, <3>2, <3>3
    <2> QED  BY <1>1, <2>1, <2>3
  <1>5. CASE CommitEvidence(u)
    BY <1>1, <1>5 DEF CommitEvidence, UploadTypeOK, UploadRecord
  <1> QED  BY <1>1, <1>2, <1>3, <1>4, <1>5 DEF OwnStep

\* Outside of its call an upload does what it does in ForensicApi.
LEMMA SameOwnStep ==
    ASSUME OverInv, NEW u \in Upload, OwnStep(u), UNCHANGED put
    PROVE  Api!Receive(u) \/ Api!UploadStep(u)
  <1>t. TypeOK /\ UploadTypeOK /\ upload' \in [Upload -> UploadRecord]
    BY OwnStepMoves, UploadStepType DEF OverInv, TypeOK, UploadTypeOK
  <1>s. Shown[u] = upload[u] /\ Shown' = [Shown EXCEPT ![u] = upload'[u]]
    BY <1>t, OwnStepMoves, UploadStepFrame, ShownStep
  <1>g. ASSUME NEW pc, UploadGoTo(u, pc) PROVE Api!UploadGoTo(u, pc)
    BY <1>t, <1>s, <1>g, ShownGoTo
  <1>e. ASSUME NEW answer, UploadEnd(u, answer) PROVE Api!UploadEnd(u, answer)
    BY <1>t, <1>s, <1>e, ShownEnd
  <1>r. ASSUME NEW id, Reuse(u, id) PROVE Api!Reuse(u, id)
    BY <1>t, <1>s, <1>r, ShownReuse
  <1>u. UploadGivesUp(u) => Api!UploadGivesUp(u)
    BY <1>t, <1>s, ShownGivesUp
  <1> USE DEF UploadAt, Api!UploadAt, tables, Api!tables
  <1>1. Receive(u) => Api!Receive(u)
    BY <1>s, <1>g DEF Receive, Api!Receive
  <1>2. LookupCase(u) => Api!LookupCase(u)
    BY <1>s, <1>g, <1>e DEF LookupCase, Api!LookupCase
  <1>3. ReadCase(u) => Api!ReadCase(u)
    <2> SUFFICES ASSUME ReadCase(u) PROVE Api!ReadCase(u)
      OBVIOUS
    <2>1. upload'[u] = [upload[u] EXCEPT !.pc = "finding",
                                         !.sawStatus = caseStatus[upload[u].case]]
      BY <1>t DEF ReadCase, UploadTypeOK
    <2>2. Shown' = [Shown EXCEPT ![u] = [@ EXCEPT !.pc = "finding",
                                              !.sawStatus = caseStatus[Shown[u].case]]]
      BY <1>s, <2>1
    <2> QED  BY <1>s, <2>2 DEF ReadCase, Api!ReadCase
  <1>4. FindAssociation(u) => Api!FindAssociation(u)
    BY <1>s, <1>g, <1>r DEF FindAssociation, Api!FindAssociation, Ids, Api!Ids
  <1>5. ReadBlob(u) => Api!ReadBlob(u)
    <2> SUFFICES ASSUME ReadBlob(u) PROVE Api!ReadBlob(u)
      OBVIOUS
    <2>1. upload'[u] = [upload[u] EXCEPT !.pc = "committing",
                                         !.sawBlob = upload[u].content \in blobs]
      BY <1>t DEF ReadBlob, UploadTypeOK
    <2>2. Shown' = [Shown EXCEPT ![u] = [@ EXCEPT !.pc = "committing",
                                              !.sawBlob = Shown[u].content \in blobs]]
      BY <1>s, <2>1
    <2> QED  BY <1>s, <2>2 DEF ReadBlob, Api!ReadBlob
  <1>6. CommitEvidence(u) => Api!CommitEvidence(u)
    <2> SUFFICES ASSUME CommitEvidence(u) PROVE Api!CommitEvidence(u)
      OBVIOUS
    <2>1. upload'[u] = [upload[u] EXCEPT !.pc = "checking", !.asset = u,
                                         !.sawStatus = "unknown", !.sawBlob = FALSE]
      BY <1>t DEF CommitEvidence, UploadTypeOK
    <2>2. Api!InsertEvidence(u, Shown[u].case, Shown[u].content, Shown[u].sawStatus,
                             Shown[u].sawBlob)
      BY <1>s DEF CommitEvidence, InsertEvidence, Api!InsertEvidence, InsertConflicts,
                  Api!InsertConflicts, Ids, Api!Ids
    <2> QED  BY <1>s, <2>1, <2>2 DEF CommitEvidence, Api!CommitEvidence, Shown
  <1>7. CommitConflict(u) => Api!CommitConflict(u)
    BY <1>s, <1>g DEF CommitConflict, Api!CommitConflict, InsertConflicts, Api!InsertConflicts,
                      Ids, Api!Ids
  <1>8. Fallback(u) => Api!Fallback(u)
    BY <1>s, <1>e, <1>r DEF Fallback, Api!Fallback, Ids, Api!Ids
  <1>9. CheckObject(u) => Api!CheckObject(u)
    BY <1>s, <1>g, <1>e DEF CheckObject, Api!CheckObject, Contained, Api!Contained
  <1>10. FindCompensated(u) => Api!FindCompensated(u)
    <2> SUFFICES ASSUME FindCompensated(u) PROVE Api!FindCompensated(u)
      OBVIOUS
    <2>1. upload'[u] = [upload[u] EXCEPT !.pc = "deleting",
                                         !.sawCases = CaseOf(upload[u].asset)]
      BY <1>t DEF FindCompensated, UploadTypeOK
    <2>2. Shown' = [Shown EXCEPT ![u] = [@ EXCEPT !.pc = "deleting",
                                              !.sawCases = CaseOf(Shown[u].asset)]]
      BY <1>s, <2>1
    <2> QED  BY <1>s, <2>2 DEF FindCompensated, Api!FindCompensated, CaseOf, Api!CaseOf
  <1>11. Compensate(u) => Api!Compensate(u)
    BY <1>s, <1>u DEF Compensate, Api!Compensate, DeleteEvidence, Api!DeleteEvidence, Restricted,
                      Api!Restricted, HasEvidence, Api!HasEvidence
  <1>12. CompensationRefused(u) => Api!CompensationRefused(u)
    BY <1>s, <1>u DEF CompensationRefused, Api!CompensationRefused, Restricted, Api!Restricted
  <1>13. UploadDbFails(u) => Api!UploadDbFails(u)
    BY <1>s, <1>e, <1>u DEF UploadDbFails, Api!UploadDbFails
  <1>14. ReportInconsistent(u) => Api!ReportInconsistent(u)
    BY <1>s, <1>e DEF ReportInconsistent, Api!ReportInconsistent
  <1> QED
    BY <1>1, <1>2, <1>3, <1>4, <1>5, <1>6, <1>7, <1>8, <1>9, <1>10, <1>11, <1>12, <1>13, <1>14
    DEF OwnStep, Api!UploadStep, Api!UploadWorks

\* The step that links or finds the object is the put of ForensicApi, and those before
\* and after it are none, but for the one that raises.
LEMMA SamePutStep ==
    ASSUME OverInv, NEW u \in Upload, PutStep(u)
    PROVE  \/ UNCHANGED <<objects, others, Shown>>
           \/ Api!UploadStep(u) /\ UNCHANGED <<analysis, results, reconcile>>
  <1>t. /\ upload[u].pc = "putting" /\ UploadTypeOK /\ upload \in [Upload -> UploadRecord]
        /\ \A v \in Upload : put[v] \in [content : Content, phase : Phases]
    <2>1. upload[u].pc = "putting"
      BY DEF PutStep, PutBegins, PutLinks, PutFinds, PutReturns, PutRaises, InCall, UploadAt
    <2> QED  BY <2>1 DEF OverInv, TypeOK, UploadTypeOK
  <1>v. ASSUME NEW v \in Upload \ {u} PROVE Shown'[v] = Shown[v]
    <2>1. put'[v] = put[v] /\ upload'[v] = upload[v]
      BY <1>t, UploadGoToEffect, UploadEndEffect
      DEF OverInv, PutStep, PutBegins, PutLinks, PutFinds, PutReturns, PutRaises, Store!Begin,
          Store!Move, vars
    <2> QED  BY <2>1 DEF Shown, Stores, InCall, UploadAt
  <1>s. Shown' = [Shown EXCEPT ![u] = Shown'[u]]
    BY <1>v DEF Shown
  <1>r. [upload[u] EXCEPT !.pc = "reading"].pc = "reading"
    BY <1>t DEF UploadTypeOK, UploadRecord
  <1> USE DEF InCall, UploadAt, Stores
  <1>1. CASE PutBegins(u)
    <2>1. UNCHANGED <<objects, others, upload>> /\ put'[u].phase = "pending"
          /\ put[u].phase = "idle"
      BY <1>1, <1>t DEF PutBegins, Store!Begin, Store!Move, vars, others, OverInv
    <2>2. Shown'[u] = Shown[u]
      BY <2>1 DEF Shown
    <2> QED  BY <1>s, <2>1, <2>2 DEF Shown
  <1>2. CASE PutLinks(u) \/ PutFinds(u)
    <2>1. /\ UNCHANGED <<upload, others>> /\ put[u].phase = "pending"
          /\ put'[u].phase \in {"added", "observed"}
      BY <1>2, <1>t DEF PutLinks, PutFinds, Store!Move, vars, others, OverInv
    <2>2. Shown[u] = upload[u] /\ Shown'[u] = [upload[u] EXCEPT !.pc = "reading"]
      BY <1>t, <2>1 DEF Shown
    <2>3. Api!UploadGoTo(u, "reading")
      BY <1>s, <2>2 DEF Api!UploadGoTo
    <2>4. Api!PutObject(u)
      BY <1>2, <1>t, <2>1, <2>2, <2>3
      DEF PutLinks, PutFinds, Api!PutObject, Api!UploadAt, Api!tables, others, tables, vars
    <2> QED  BY <2>1, <2>4 DEF Api!UploadStep, Api!UploadWorks, others
  <1>3. CASE PutReturns(u)
    <2>1. /\ UNCHANGED <<objects, others>> /\ put[u].phase \in {"added", "observed"}
          /\ upload'[u] = [upload[u] EXCEPT !.pc = "reading"]
      BY <1>3, <1>t DEF PutReturns, Store!Move, UploadGoTo, UploadTypeOK
    <2>2. Shown'[u] = Shown[u]
      BY <1>r, <1>t, <2>1 DEF Shown
    <2> QED  BY <1>s, <2>1, <2>2 DEF Shown
  <1>4. CASE PutRaises(u)
    <2>1. UNCHANGED <<objects, others>>
      BY <1>4 DEF PutRaises
    <2>2. ASSUME NEW answer, UploadEnd(u, answer) PROVE Api!UploadEnd(u, answer)
      <3>1. upload'[u] = [upload[u] EXCEPT !.pc = "done", !.answer = answer,
                !.sawStatus = "unknown", !.sawBlob = FALSE, !.sawCases = {}]
        BY <1>t, <2>2 DEF UploadEnd, UploadTypeOK
      <3>2. upload'[u].pc = "done"
        BY <1>t, <2>2, UploadEndEffect
      <3>3. Shown'[u] = upload'[u]
        BY <3>2 DEF Shown
      <3>4. Shown'[u] = [Shown[u] EXCEPT !.pc = "done", !.answer = answer,
                !.sawStatus = "unknown", !.sawBlob = FALSE, !.sawCases = {}]
        BY <3>1, <3>3, <1>t DEF Shown, UploadTypeOK, UploadRecord
      <3> QED  BY <1>s, <3>4 DEF Api!UploadEnd
    <2>3. CASE put[u].phase = "pending"
      <3>1. Shown[u] = upload[u]
        BY <2>3 DEF Shown
      <3>2. \/ "put" \in Faults /\ UploadEnd(u, "rejected")
            \/ Faults \cap {"put", "loss"} # {} /\ UploadEnd(u, "storage_unavailable")
        BY <1>4, <2>3 DEF PutRaises, Store!Move
      <3>3. Api!PutFails(u)
        BY <1>t, <2>1, <2>2, <3>1, <3>2
        DEF Api!PutFails, Api!UploadAt, Api!tables, others, tables
      <3> QED  BY <2>1, <3>3 DEF Api!UploadStep, others
    <2>4. CASE put[u].phase # "pending"
      <3>1. /\ put[u].phase \in {"added", "observed"} /\ "put" \in Faults
            /\ UploadEnd(u, "storage_unavailable")
        BY <1>4, <2>4 DEF PutRaises, Store!Move
      <3>2. Shown[u].pc = "reading"
        BY <1>r, <1>t, <3>1 DEF Shown
      <3>3. Api!PutFails(u)
        BY <2>1, <2>2, <3>1, <3>2 DEF Api!PutFails, Api!UploadAt, Api!tables, others, tables
      <3> QED  BY <2>1, <3>3 DEF Api!UploadStep, others
    <2> QED  BY <2>3, <2>4
  <1> QED  BY <1>1, <1>2, <1>3, <1>4 DEF PutStep

LEMMA InitOverInv == OverInit => OverInv
  <1> SUFFICES ASSUME OverInit PROVE OverInv
    OBVIOUS
  <1>1. TypeOK /\ put = [u \in Upload |-> [content |-> upload[u].content, phase |-> "idle"]]
    BY InitTypeOK DEF OverInit
  <1>2. \A u \in Upload : upload[u].content \in Content
    BY <1>1 DEF TypeOK, UploadTypeOK, UploadRecord
  <1> QED  BY <1>1, <1>2 DEF OverInv, Phases

\* What one call changes of the calls.
LEMMA PutMoves ==
    ASSUME OverInv, NEW u \in Upload, PutStep(u)
    PROVE  /\ upload[u].pc = "putting"
           /\ put' \in [Upload -> [content : Content, phase : Phases]]
           /\ \A v \in Upload : put'[v].content = put[v].content
           /\ \A v \in Upload \ {u} : put'[v] = put[v]
  <1>1. /\ upload[u].pc = "putting"
        /\ \E from \in Phases, to \in Phases : Store!Move(u, from, to)
    BY DEF PutStep, PutBegins, PutLinks, PutFinds, PutReturns, PutRaises, InCall, UploadAt,
           Store!Begin, Phases, Store!Final
  <1>2. PICK from \in Phases, to \in Phases : Store!Move(u, from, to)
    BY <1>1
  <1> QED  BY <1>1, <1>2 DEF OverInv, Store!Move

\* and what it changes of the uploads.
LEMMA PutKeepsType ==
    ASSUME OverInv, NEW u \in Upload, PutStep(u)
    PROVE  /\ TypeOK'
           /\ \A v \in Upload : upload'[v].content = upload[v].content
           /\ \A v \in Upload \ {u} : upload'[v] = upload[v]
           /\ upload'[u].pc \notin {"idle", "lookup"}
  <1>t. TypeOK /\ UploadTypeOK /\ upload[u].pc = "putting" /\ upload[u].content \in Content
    BY PutMoves DEF OverInv, TypeOK, UploadTypeOK, UploadRecord
  <1>1. CASE UNCHANGED vars
    BY <1>1, <1>t, StepTypeOK DEF vars
  <1> USE DEF OverInv, TypeOK
  <1>2. CASE PutLinks(u)
    <2>1. UNCHANGED <<upload, others>> /\ objects' \in [Content -> ObjectState]
      BY <1>2, <1>t DEF PutLinks, RepositoryTypeOK, ObjectState
    <2> QED
      BY <1>t, <2>1 DEF others, tables, RepositoryTypeOK, UploadTypeOK, AnalysisTypeOK
  <1>3. CASE PutReturns(u)
    <2>1. UNCHANGED <<objects, others>> /\ UploadGoTo(u, "reading")
      BY <1>3 DEF PutReturns
    <2>2. UploadTypeOK'
      BY <1>t, <2>1, UploadGoToType DEF UploadPC
    <2> QED
      BY <1>t, <2>1, <2>2, UploadGoToEffect DEF others, tables, RepositoryTypeOK, AnalysisTypeOK
  <1>4. CASE PutRaises(u)
    <2>1. /\ UNCHANGED <<objects, others>>
          /\ UploadEnd(u, "rejected") \/ UploadEnd(u, "storage_unavailable")
      BY <1>4 DEF PutRaises
    <2>2. UploadTypeOK'
      BY <1>t, <2>1, UploadEndType DEF UploadAnswer
    <2> QED
      BY <1>t, <2>1, <2>2, UploadEndEffect DEF others, tables, RepositoryTypeOK, AnalysisTypeOK
  <1> QED
    BY <1>1, <1>2, <1>3, <1>4 DEF PutStep, PutBegins, PutFinds

LEMMA StepOverInv == OverInv /\ [OverNext]_overVars => OverInv'
  <1> SUFFICES ASSUME OverInv, [OverNext]_overVars PROVE OverInv'
    OBVIOUS
  <1>t. TypeOK /\ UploadTypeOK
    BY DEF OverInv, TypeOK
  <1>1. ASSUME NEW u \in Upload, PutStep(u) PROVE OverInv'
    BY <1>1, PutMoves, PutKeepsType DEF OverInv
  <1>2. ASSUME NEW u \in Upload, OwnStep(u), UNCHANGED <<analysis, results, reconcile, put>>
        PROVE  OverInv'
    <2>1. Next
      BY <1>2, <1>t, OwnStepMoves DEF Next
    <2>2. TypeOK'
      BY <1>t, <2>1, StepTypeOK
    <2>3. /\ upload'[u].content = upload[u].content
          /\ \A v \in Upload \ {u} : upload'[v] = upload[v]
          /\ upload'[u].pc \in {"idle", "lookup"} => upload[u].pc = "idle"
      BY <1>2, <1>t, OwnStepMoves, UploadStepFrame
    <2> QED  BY <1>2, <2>2, <2>3 DEF OverInv
  <1>3. ASSUME UNCHANGED <<upload, put>>, [Next]_vars PROVE OverInv'
    BY <1>t, <1>3, StepTypeOK DEF OverInv
  <1>4. ASSUME Crash, Store!Abandon PROVE OverInv'
    <2>1. TypeOK'
      BY <1>t, <1>4, StepTypeOK DEF Next
    <2>2. ASSUME NEW u \in Upload
          PROVE  /\ upload'[u].content = upload[u].content
                 /\ upload'[u].pc \in {"idle", "lookup"} => upload[u].pc = "idle"
                 /\ put'[u] \in [content : Content, phase : Phases]
                 /\ put'[u].content = put[u].content
                 /\ put[u].phase = "idle" => put'[u].phase = "idle"
      <3>1. /\ upload[u] \in UploadRecord /\ put[u] \in [content : Content, phase : Phases]
            /\ upload'[u] = IF UploadInFlight(u)
                            THEN [upload[u] EXCEPT !.pc = "done", !.answer = "died",
                                    !.sawStatus = "unknown", !.sawBlob = FALSE, !.sawCases = {}]
                            ELSE upload[u]
            /\ put'[u] = IF put[u].phase \in Store!Final \cup {"idle"} THEN put[u]
                         ELSE [put[u] EXCEPT !.phase = "refused"]
        BY <1>4, <1>t DEF Crash, Store!Abandon, OverInv, UploadTypeOK
      <3>2. CASE UploadInFlight(u)
        BY <3>1, <3>2 DEF UploadRecord, Phases, Store!Final
      <3>3. CASE ~UploadInFlight(u)
        BY <3>1, <3>3 DEF UploadRecord, Phases, Store!Final, UploadInFlight
      <3> QED  BY <3>2, <3>3
    <2>3. put' \in [Upload -> [content : Content, phase : Phases]]
      BY <1>4, <2>2 DEF Store!Abandon
    <2> QED  BY <2>1, <2>2, <2>3 DEF OverInv
  <1>5. CASE UNCHANGED overVars
    BY <1>3, <1>5 DEF overVars, vars
  <1>6. CASE OverNext
    <2>1. CASE \/ \E k \in Case : CreateCase(k) /\ UNCHANGED <<requests, put>>
               \/ \E a \in Analysis : /\ Request(a) \/ AnalysisStep(a)
                                      /\ UNCHANGED <<upload, reconcile, put>>
               \/ \E r \in Reconciler : (ListObjects(r) \/ ReportOrphans(r)) /\ UNCHANGED put
               \/ \E c \in Content : LoseObject(c) /\ UNCHANGED put
               \/ Idle /\ UNCHANGED put
      <3>1. Next /\ UNCHANGED <<upload, put>>
        BY <2>1 DEF Next, requests, ListObjects, ReportOrphans, LoseObject, Idle, vars
      <3> QED  BY <1>3, <3>1
    <2> QED  BY <1>1, <1>2, <1>4, <1>6, <2>1 DEF OverNext
  <1> QED  BY <1>5, <1>6

LEMMA OverInvariant == OverSpec => []OverInv
  BY InitOverInv, StepOverInv, PTL DEF OverSpec

\* The promise of the store is all that ingest needs of it, and all it relies on.
LEMMA PutStepKeepsPromise ==
    ASSUME OverInv, NEW u \in Upload, PutStep(u)
    PROVE  [Store!Next]_(Store!vars)
  <1>t. put[u].content = upload[u].content /\ upload[u].content \in Content
    BY DEF OverInv, TypeOK, UploadTypeOK, UploadRecord
  <1>1. CASE PutBegins(u)
    BY <1>1 DEF PutBegins, Store!Next
  <1>2. CASE PutLinks(u)
    <2>1. Store!Add(u)
      BY <1>2, <1>t DEF PutLinks, Store!Add, OverInv, TypeOK, RepositoryTypeOK, ObjectState
    <2> QED  BY <2>1 DEF Store!Next
  <1>3. CASE PutFinds(u)
    <2>1. Store!Observe(u)
      BY <1>3, <1>t DEF PutFinds, Store!Observe, vars
    <2> QED  BY <2>1 DEF Store!Next
  <1>4. CASE PutReturns(u)
    <2>1. Store!Answer(u)
      BY <1>4 DEF PutReturns, Store!Answer
    <2> QED  BY <2>1 DEF Store!Next
  <1>5. CASE PutRaises(u)
    <2>1. Store!Refuse(u)
      BY <1>5 DEF PutRaises, Store!Refuse
    <2> QED  BY <2>1 DEF Store!Next
  <1> QED  BY <1>1, <1>2, <1>3, <1>4, <1>5 DEF PutStep

LEMMA OwnStepKeepsObjects ==
    ASSUME NEW u \in Upload, OwnStep(u)
    PROVE  UNCHANGED objects
  BY DEF OwnStep, Receive, LookupCase, ReadCase, FindAssociation, ReadBlob, CommitEvidence,
         CommitConflict, Fallback, CheckObject, FindCompensated, Compensate, CompensationRefused,
         ReportInconsistent, UploadDbFails

\* What the calls of put_stream and their surroundings do to the store is what the
\* abstract store promises (EvidenceStore implements it): ingest uses no other calls.
THEOREM PutsKeepPromise == OverSpec => PutsKeepThePromise
  <1>1. OverInit => Store!Init
    <2> SUFFICES ASSUME OverInit PROVE Store!Init
      OBVIOUS
    <2>1. OverInv /\ objects = [c \in Content |-> "absent"]
      BY InitOverInv DEF OverInit, Init, RepositoryInit
    <2>2. \A u \in Upload : upload[u].content \in Content
      BY <2>1 DEF OverInv, TypeOK, UploadTypeOK, UploadRecord
    <2> QED  BY <2>1, <2>2 DEF OverInit, Store!Init
  <1>2. OverInv /\ [OverNext]_overVars => [Store!Next]_(Store!vars)
    <2> SUFFICES ASSUME OverInv, [OverNext]_overVars PROVE [Store!Next]_(Store!vars)
      OBVIOUS
    <2>1. CASE \E u \in Upload : PutStep(u)
      BY <2>1, PutStepKeepsPromise
    <2>2. ASSUME UNCHANGED <<objects, put>> PROVE [Store!Next]_(Store!vars)
      BY <2>2 DEF Store!vars
    <2>3. CASE \E u \in Upload : OwnStep(u) /\ UNCHANGED <<analysis, results, reconcile, put>>
      BY <2>2, <2>3, OwnStepKeepsObjects
    <2>4. CASE \E a \in Analysis : /\ Request(a) \/ AnalysisStep(a)
                                   /\ UNCHANGED <<upload, reconcile, put>>
      BY <2>2, <2>4, AnalysisStepFrame DEF OverInv, TypeOK
    <2>5. CASE \/ \E k \in Case : CreateCase(k) /\ UNCHANGED <<requests, put>>
               \/ \E r \in Reconciler : (ListObjects(r) \/ ReportOrphans(r)) /\ UNCHANGED put
               \/ Idle /\ UNCHANGED put
               \/ UNCHANGED overVars
      BY <2>2, <2>5 DEF CreateCase, ListObjects, ReportOrphans, Idle, vars, overVars
    <2>6. CASE \E c \in Content : LoseObject(c) /\ UNCHANGED put
      <3>1. PICK c \in Content : LoseObject(c) /\ UNCHANGED put
        BY <2>6
      <3>2. PICK s \in {"absent", "altered", "resized"} : objects' = [objects EXCEPT ![c] = s]
        BY <3>1 DEF LoseObject
      <3>3. objects \in [Content -> ObjectState] /\ objects[c] # "absent"
        BY <3>1 DEF LoseObject, OverInv, TypeOK, RepositoryTypeOK
      <3>4. Store!Disturb(c)
        <4>1. CASE s = "absent"
          BY <3>1, <3>2, <3>3, <4>1 DEF Store!Disturb
        <4>2. CASE s \in {"altered", "resized"}
          BY <3>1, <3>2, <3>3, <4>2 DEF Store!Disturb
        <4> QED  BY <4>1, <4>2
      <3> QED  BY <3>4 DEF Store!Next
    <2>7. CASE Crash /\ Store!Abandon
      BY <2>7 DEF Store!Next
    <2> QED  BY <2>1, <2>3, <2>4, <2>5, <2>6, <2>7 DEF OverNext
  <1> QED  BY <1>1, <1>2, OverInvariant, PTL DEF OverSpec, PutsKeepThePromise, Store!Spec

\* A crash looks the same whether or not a call was in progress.
LEMMA SameCrash ==
    ASSUME OverInv, Crash
    PROVE  Api!Crash
  <1>t. upload \in [Upload -> UploadRecord] /\ Shown \in [Upload -> UploadRecord]
    BY DEF OverInv, TypeOK, UploadTypeOK, Shown, UploadRecord, UploadPC
  <1>1. ASSUME NEW u \in Upload
        PROVE  /\ UploadInFlight(u) <=> Api!UploadInFlight(u)
               /\ Shown'[u] = IF UploadInFlight(u)
                              THEN [Shown[u] EXCEPT !.pc = "done", !.answer = "died",
                                      !.sawStatus = "unknown", !.sawBlob = FALSE,
                                      !.sawCases = {}]
                              ELSE Shown[u]
    <2>1. UploadInFlight(u) <=> Api!UploadInFlight(u)
      BY <1>t DEF UploadInFlight, Api!UploadInFlight, Shown, Stores, InCall, UploadAt, UploadRecord
    <2>2. CASE UploadInFlight(u)
      <3>1. upload'[u] = [upload[u] EXCEPT !.pc = "done", !.answer = "died",
                            !.sawStatus = "unknown", !.sawBlob = FALSE, !.sawCases = {}]
        BY <2>2 DEF Crash
      <3>2. upload'[u].pc = "done"
        BY <1>t, <3>1 DEF UploadRecord
      <3>3. Shown'[u] = upload'[u]
        BY <3>2 DEF Shown, Stores, InCall, UploadAt
      <3>4. [Shown[u] EXCEPT !.pc = "done", !.answer = "died", !.sawStatus = "unknown",
                             !.sawBlob = FALSE, !.sawCases = {}] = upload'[u]
        BY <1>t, <3>1 DEF Shown, UploadRecord
      <3> QED  BY <2>1, <2>2, <3>3, <3>4
    <2>3. CASE ~UploadInFlight(u)
      <3>1. upload'[u] = upload[u] /\ upload[u].pc # "putting"
        BY <2>3 DEF Crash, UploadInFlight
      <3>2. Shown[u] = upload[u] /\ Shown'[u] = upload'[u]
        BY <3>1 DEF Shown, Stores, InCall, UploadAt
      <3> QED  BY <2>1, <2>3, <3>1, <3>2
    <2> QED  BY <2>2, <2>3
  <1>2. Shown' = [u \in Upload |-> Shown'[u]]
    BY DEF Shown
  <1> QED
    BY <1>1, <1>2 DEF Crash, Api!Crash, Api!UploadInFlight, AnalysisInFlight, Api!AnalysisInFlight, tables, Api!tables

\* ForensicApi takes put_stream for one step: whatever other requests, a reconciliation,
\* a crash or the environment do between the begin, the link and the return of a call,
\* the API behaves as if the call had been that step.
THEOREM PutsAreOneStep == OverSpec => PutIsOneStep
  <1>1. OverInit => Api!Init
    <2> SUFFICES ASSUME OverInit PROVE Api!Init
      OBVIOUS
    <2>1. \A u \in Upload : put[u].phase = "idle"
      BY DEF OverInit
    <2>2. upload \in [Upload -> UploadRecord]
      BY InitOverInv DEF OverInv, TypeOK, UploadTypeOK
    <2>3. Shown = upload
      BY <2>1, <2>2 DEF Shown, Stores
    <2>4. RepositoryInit => Api!RepositoryInit
      BY DEF RepositoryInit, Api!RepositoryInit
    <2>5. AnalysisInit => Api!AnalysisInit
      BY DEF AnalysisInit, Api!AnalysisInit, ResultFile, Api!ResultFile
    <2>6. UploadInit => Api!UploadInit
      BY <2>3 DEF UploadInit, Api!UploadInit
    <2> QED
      BY <2>4, <2>5, <2>6 DEF OverInit, Init, Api!Init
  <1>2. OverInv /\ [OverNext]_overVars => [Api!Next]_(Api!vars)
    <2> SUFFICES ASSUME OverInv, [OverNext]_overVars PROVE [Api!Next]_(Api!vars)
      OBVIOUS
    <2>t. UNCHANGED <<upload, put>> => UNCHANGED Shown
      BY DEF Shown, Stores, InCall, UploadAt
    <2>1. CASE \E u \in Upload : PutStep(u)
      BY <2>1, SamePutStep DEF Api!Next, Api!vars, Api!tables, others, tables
    <2>2. CASE \E u \in Upload : OwnStep(u) /\ UNCHANGED <<analysis, results, reconcile, put>>
      BY <2>2, SameOwnStep DEF Api!Next
    <2>3. CASE \E a \in Analysis : /\ Request(a) \/ AnalysisStep(a)
                                   /\ UNCHANGED <<upload, reconcile, put>>
      BY <2>3, <2>t, SameAnalysisStep DEF Api!Next
    <2>4. CASE \E k \in Case : CreateCase(k) /\ UNCHANGED <<requests, put>>
      BY <2>4, <2>t DEF CreateCase, Api!CreateCase, requests, Api!requests, Api!Next
    <2>5. CASE \E r \in Reconciler : (ListObjects(r) \/ ReportOrphans(r)) /\ UNCHANGED put
      BY <2>5, <2>t DEF ListObjects, Api!ListObjects, ReportOrphans, Api!ReportOrphans, Api!Next,
                        tables, Api!tables
    <2>6. CASE \E c \in Content : LoseObject(c) /\ UNCHANGED put
      BY <2>6, <2>t DEF LoseObject, Api!LoseObject, tables, Api!tables, requests, Api!requests,
                        Api!Next
    <2>7. CASE Crash /\ Store!Abandon
      BY <2>7, SameCrash DEF Api!Next
    <2>8. CASE (Idle /\ UNCHANGED put) \/ UNCHANGED overVars
      BY <2>8, <2>t DEF Idle, overVars, vars, tables, Api!vars, Api!tables
    <2> QED  BY <2>1, <2>2, <2>3, <2>4, <2>5, <2>6, <2>7, <2>8 DEF OverNext
  <1> QED  BY <1>1, <1>2, OverInvariant, PTL DEF OverSpec, PutIsOneStep, Api!Spec
=============================================================================
