----------------------------- MODULE Repository -----------------------------
(***************************************************************************)
(* What all requests of the API share: the SQLite tables behind the class  *)
(* Repository, and the evidence objects they point to.                     *)
(*                                                                         *)
(* Requests run on a pool of threads, each with a session of its own.  The *)
(* SQLite driver opens a transaction at the first INSERT, UPDATE or DELETE *)
(* only, so a SELECT that precedes it sees whatever is committed at that   *)
(* moment and may be stale when the session writes.  From the first write  *)
(* to the commit the session holds the write lock.  A repository method is *)
(* therefore one step per early SELECT and one step for all it writes; the *)
(* operators below are those writing steps.                                *)
(***************************************************************************)
EXTENDS Naturals, FiniteSets

CONSTANTS
    Case,       \* case identifiers
    Content,    \* byte strings, one evidence object and one blob row for each
    Upload,     \* requests that upload evidence; a new row takes its id from one
    Analysis,   \* requests that start a structural analysis, and their runs
    NoAsset,    \* no evidence row
    Faults      \* what may fail in this instance

FaultKinds == {"db", "put", "stat", "loss", "engine", "result", "crash"}

ASSUME RepositoryAssumption ==
    /\ NoAsset \notin Upload
    /\ Faults \subseteq FaultKinds

VARIABLES
    objects,      \* the evidence store, as CreateOnlyStore promises it
    caseStatus,   \* table cases
    assets,       \* table evidence_assets
    blobs,        \* table evidence_blobs
    runs,         \* table structural_analysis_runs
    reports       \* table structural_reports: the runs that have one

tables == <<caseStatus, assets, blobs, runs, reports>>

ObjectState == {"absent", "intact", "altered", "resized"}
CaseStatus == {"unknown", "CREATED", "SEALED", "ANALYZED"}
RunStatus == {"none", "RUNNING", "COMPLETED", "PARTIAL", "FAILED", "REFUSED"}
Succeeded == {"COMPLETED", "PARTIAL"}
Asset == [id: Upload, case: Case, content: Content]
Run == [asset: Upload \cup {NoAsset}, status: RunStatus]

RepositoryTypeOK ==
    /\ objects \in [Content -> ObjectState]
    /\ caseStatus \in [Case -> CaseStatus]
    /\ assets \subseteq Asset
    /\ blobs \subseteq Content
    /\ runs \in [Analysis -> Run]
    /\ reports \subseteq Analysis

RepositoryInit ==
    /\ objects = [c \in Content |-> "absent"]
    /\ caseStatus = [k \in Case |-> "unknown"]
    /\ assets = {}
    /\ blobs = {}
    /\ runs = [a \in Analysis |-> [asset |-> NoAsset, status |-> "none"]]
    /\ reports = {}

-----------------------------------------------------------------------------
(* Queries *)

Ids(k, c) == {a.id : a \in {b \in assets : b.case = k /\ b.content = c}}
CaseOf(id) == {a.case : a \in {b \in assets : b.id = id}}
HasEvidence(rows, k) == \E a \in rows : a.case = k
Active(id) == \E a \in Analysis : runs[a] = [asset |-> id, status |-> "RUNNING"]

-----------------------------------------------------------------------------
(* Transactions *)

CreateCase(k) ==
    /\ caseStatus[k] = "unknown"
    /\ caseStatus' = [caseStatus EXCEPT ![k] = "CREATED"]
    /\ UNCHANGED <<objects, assets, blobs, runs, reports>>

\* record_evidence, from its first INSERT to the commit.  sawBlob tells whether
\* its SELECT found the blob row.  Primary key, foreign key, uq_evidence_case_blob.
InsertConflicts(k, c, sawBlob) ==
    \/ sawBlob # (c \in blobs)
    \/ Ids(k, c) # {}

\* Mutant of InsertEvidence: the new blob row is not part of the transaction.
InsertAssociationOnly(id, k, c, sawStatus, sawBlob) ==
    /\ ~InsertConflicts(k, c, sawBlob)
    /\ assets' = assets \cup {[id |-> id, case |-> k, content |-> c]}
    /\ caseStatus' = [caseStatus EXCEPT ![k] = "SEALED"]
    /\ UNCHANGED <<blobs, runs, reports>>

\* Mutant of InsertEvidence: the case is sealed only beside a new blob row.
InsertSealsNewBlob(id, k, c, sawStatus, sawBlob) ==
    /\ ~InsertConflicts(k, c, sawBlob)
    /\ assets' = assets \cup {[id |-> id, case |-> k, content |-> c]}
    /\ blobs' = blobs \cup {c}
    /\ caseStatus' = IF sawBlob THEN caseStatus ELSE [caseStatus EXCEPT ![k] = "SEALED"]
    /\ UNCHANGED <<runs, reports>>

\* The UPDATE writes the status only when it differs from the loaded one.
InsertEvidence(id, k, c, sawStatus, sawBlob) ==
    /\ ~InsertConflicts(k, c, sawBlob)
    /\ assets' = assets \cup {[id |-> id, case |-> k, content |-> c]}
    /\ blobs' = blobs \cup {c}
    /\ caseStatus' = IF sawStatus = "SEALED" THEN caseStatus
                     ELSE [caseStatus EXCEPT ![k] = "SEALED"]
    /\ UNCHANGED <<runs, reports>>

\* Mutant of Restricted: the foreign key of the runs does not restrict.
RestrictedNever(id) == FALSE

\* ON DELETE RESTRICT: structural_analysis_runs.evidence_id
Restricted(id) == \E a \in Analysis : runs[a].asset = id

\* compensate_missing_object, from its DELETE to the commit; sawCases is the
\* case its SELECT found the association in, or empty
DeleteEvidence(id, c, sawCases) ==
    LET kept == {a \in assets : a.id # id} IN
    /\ ~Restricted(id)
    /\ assets' = kept
    /\ blobs' = IF \E a \in kept : a.content = c THEN blobs ELSE blobs \ {c}
    /\ caseStatus' = [k \in Case |->
                        IF k \in sawCases /\ ~HasEvidence(kept, k)
                        THEN "CREATED" ELSE caseStatus[k]]
    /\ UNCHANGED <<runs, reports>>

\* Mutant of RunConflicts: no partial unique index on active runs.
RunConflictsOnKey(id) == CaseOf(id) = {}

\* create_structural_run.  Foreign key, uq_structural_active_evidence_profile.
RunConflicts(id) ==
    \/ CaseOf(id) = {}
    \/ Active(id)

\* Mutant of InsertRun: an earlier failed run of the evidence is reopened.
InsertReopens(a, id) ==
    /\ ~RunConflicts(id)
    /\ runs' = [b \in Analysis |->
                  IF b = a THEN [asset |-> id, status |-> "RUNNING"]
                  ELSE IF runs[b] = [asset |-> id, status |-> "FAILED"]
                  THEN [runs[b] EXCEPT !.status = "none"] ELSE runs[b]]
    /\ UNCHANGED <<caseStatus, assets, blobs, reports>>

InsertRun(a, id) ==
    /\ ~RunConflicts(id)
    /\ runs' = [runs EXCEPT ![a] = [asset |-> id, status |-> "RUNNING"]]
    /\ UNCHANGED <<caseStatus, assets, blobs, reports>>

\* finalize_structural_run: terminal state, results, report and case status
FinalizeRun(a, k, status) ==
    /\ runs[a].status = "RUNNING"
    /\ runs' = [runs EXCEPT ![a].status = status]
    /\ IF status \in Succeeded
       THEN /\ reports' = reports \cup {a}
            /\ caseStatus' = [caseStatus EXCEPT ![k] = "ANALYZED"]
       ELSE UNCHANGED <<reports, caseStatus>>
    /\ UNCHANGED <<assets, blobs>>
=============================================================================
