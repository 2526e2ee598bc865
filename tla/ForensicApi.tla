----------------------------- MODULE ForensicApi -----------------------------
(***************************************************************************)
(* The API process: upload and analysis requests on their threads, the     *)
(* tables and the two file stores they share, a reconciliation run beside  *)
(* them, and an environment that loses objects and kills the process.      *)
(***************************************************************************)
EXTENDS EvidenceIntake, StructuralAnalysis

CONSTANT Reconciler   \* runs of forensic_api.reconcile

VARIABLE reconcile

vars == <<objects, tables, upload, analysis, results, reconcile>>
requests == <<upload, analysis, results, reconcile>>

ReconcileRecord ==
    [pc: {"idle", "listing", "done"}, listed: SUBSET Content,
     reported: SUBSET Content]

TypeOK ==
    /\ RepositoryTypeOK
    /\ UploadTypeOK
    /\ AnalysisTypeOK
    /\ reconcile \in [Reconciler -> ReconcileRecord]

Init ==
    /\ RepositoryInit
    /\ UploadInit
    /\ AnalysisInit
    /\ reconcile = [r \in Reconciler |->
                        [pc |-> "idle", listed |-> {}, reported |-> {}]]

-----------------------------------------------------------------------------
(* reconcile: a separate process that lists the store, then asks the        *)
(* database; it deletes nothing                                             *)

ListObjects(r) ==
    /\ reconcile[r].pc = "idle"
    /\ reconcile' = [reconcile EXCEPT ![r].pc = "listing",
            ![r].listed = {c \in Content : objects[c] # "absent"}]
    /\ UNCHANGED <<objects, tables, upload, analysis, results>>

ReportOrphans(r) ==
    /\ reconcile[r].pc = "listing"
    /\ reconcile' = [reconcile EXCEPT ![r] =
            [pc |-> "done", listed |-> {}, reported |-> @.listed \ blobs]]
    /\ UNCHANGED <<objects, tables, upload, analysis, results>>

-----------------------------------------------------------------------------
(* The environment *)

\* someone with file-system privileges alters, resizes or removes an object
LoseObject(c) ==
    /\ "loss" \in Faults
    /\ objects[c] # "absent"
    /\ \E s \in {"absent", "altered", "resized"} : objects' = [objects EXCEPT ![c] = s]
    /\ UNCHANGED <<tables, requests>>

UploadInFlight(u) == upload[u].pc \notin {"idle", "done"}
AnalysisInFlight(a) == analysis[a].pc \notin {"idle", "done"}

\* the process dies between two steps: requests in flight are never answered,
\* an open transaction is rolled back, files and committed rows stay
Crash ==
    /\ "crash" \in Faults
    /\ \/ \E u \in Upload : UploadInFlight(u)
       \/ \E a \in Analysis : AnalysisInFlight(a)
    /\ upload' = [u \in Upload |->
            IF UploadInFlight(u)
            THEN [upload[u] EXCEPT !.pc = "done", !.answer = "died",
                    !.sawStatus = "unknown", !.sawBlob = FALSE, !.sawCases = {}]
            ELSE upload[u]]
    /\ analysis' = [a \in Analysis |->
            IF AnalysisInFlight(a)
            THEN [analysis[a] EXCEPT !.pc = "done", !.answer = "died",
                    !.contents = {}, !.verdict = "none"]
            ELSE analysis[a]]
    /\ UNCHANGED <<objects, tables, results, reconcile>>

Idle ==
    /\ \A u \in Upload : upload[u].pc = "done"
    /\ \A a \in Analysis : analysis[a].pc = "done"
    /\ \A r \in Reconciler : reconcile[r].pc = "done"
    /\ UNCHANGED vars

Next ==
    \/ \E k \in Case : CreateCase(k) /\ UNCHANGED requests
    \/ \E u \in Upload : /\ Receive(u) \/ UploadStep(u)
                         /\ UNCHANGED <<analysis, results, reconcile>>
    \/ \E a \in Analysis : /\ Request(a) \/ AnalysisStep(a)
                           /\ UNCHANGED <<upload, reconcile>>
    \/ \E r \in Reconciler : ListObjects(r) \/ ReportOrphans(r)
    \/ \E c \in Content : LoseObject(c)
    \/ Crash
    \/ Idle

Spec == Init /\ [][Next]_vars

\* the thread of a request that has been received keeps running; it cannot count on
\* a failure to get it any further
FairSpec ==
    /\ Spec
    /\ \A u \in Upload :
        WF_vars(UploadWorks(u) /\ UNCHANGED <<analysis, results, reconcile>>)
    /\ \A a \in Analysis : WF_vars(AnalysisWorks(a) /\ UNCHANGED <<upload, reconcile>>)

-----------------------------------------------------------------------------
(* Safety *)

Disturbed == Faults \cap {"loss", "stat"} # {}
Id(u) == upload[u].asset
RowOf(u) == [id |-> Id(u), case |-> upload[u].case, content |-> upload[u].content]
Stored(c) == objects[c] = "intact"

\* Concurrent sessions, their stale reads and compensations never break the
\* keys: one association per case and content, a blob row exactly while an
\* association needs it, and no run without its evidence row.
ReferentialIntegrity ==
    /\ \A a, b \in assets : a.id = b.id \/ (a.case = b.case /\ a.content = b.content) => a = b
    /\ blobs = {a.content : a \in assets}
    /\ \A a \in Analysis : runs[a].status # "none" =>
           \E r \in assets : r.id = runs[a].asset /\ r.case = analysis[a].case

\* "The database never intentionally points to an absent object": while nobody
\* disturbs the store, every association's object is there and intact, whatever
\* fails or dies in between (storage first, metadata second).
MetadataHasObject ==
    ~Disturbed => \A a \in assets : Stored(a.content)

\* A 2xx answer is worth its word: while nobody disturbs the store, the answered
\* association is committed for that case and content and its object is intact,
\* and it stays so whatever the other requests do afterwards.
AcceptedIsPreserved ==
    ~Disturbed => \A u \in Upload : upload[u].answer \in Accepted =>
        RowOf(u) \in assets /\ Stored(upload[u].content)

\* Repeated or concurrent uploads of the same bytes to one case are answered with
\* one evidence id, and exactly one request is told that it created it, unless
\* the creator died before it could answer.
DuplicatesShareAssociation ==
    ~Disturbed => \A u, v \in Upload :
        /\ upload[u].answer \in Accepted /\ upload[v].answer \in Accepted
        /\ upload[u].case = upload[v].case /\ upload[u].content = upload[v].content
        => /\ Id(u) = Id(v)
           /\ upload[u].answer = "created" /\ upload[v].answer = "created" => u = v

\* An object without a blob row is always the trace of an upload that is still
\* running, was refused after it stored the bytes, or died: nothing else leaves
\* an orphan for `make reconcile` to find.
PutDone(u) ==
    \/ upload[u].pc \in {"reading", "finding", "blob", "committing", "fallback",
                         "checking", "compensating", "deleting", "retracted"}
    \/ upload[u].answer \in {"storage_unavailable", "database_unavailable",
                             "consistency_failure", "died"}
OrphansAreExplained ==
    \A c \in Content \ blobs : objects[c] # "absent" =>
        \E u \in Upload : upload[u].content = c /\ PutDone(u)

\* Without an environment fault no request is told that the database is
\* unavailable: races between requests are resolved, not reported as outages.
NoSpuriousOutage ==
    Faults = {} => \A u \in Upload : upload[u].answer # "database_unavailable"

AnswersInconsistent(u) ==
    UploadAt(u, "retracted") \/ upload[u].answer = "consistency_failure"

\* When an upload is answered with a consistency failure, the association that
\* it was going to report is gone for good, unless an analysis claimed the evidence
\* first: its foreign key refuses the compensation, and ingest answers all the same.
\* A database that fails has the same effect.
CompensatesUnlessClaimed ==
    "db" \notin Faults => \A u \in Upload : AnswersInconsistent(u) =>
        \A a \in assets : a.id = Id(u) => Restricted(Id(u))

\* The case status follows the evidence: a case is CREATED exactly while it has
\* no evidence, and ANALYZED only if one of its analyses has a report.
CaseStatusTracksEvidence ==
    ~Disturbed => \A k \in Case :
        /\ caseStatus[k] \in {"unknown", "CREATED"} <=> ~HasEvidence(assets, k)
        /\ caseStatus[k] = "ANALYZED" => \E a \in reports : analysis[a].case = k

\* An uploaded case is SEALED: no case with evidence reads CREATED.
EvidenceSealsCase ==
    \A a \in assets : caseStatus[a.case] # "CREATED"

\* A RUNNING row always has a request that will end it, unless that request died or
\* the database failed it: every path out of start() finalizes the run.
RunningIsOwned ==
    \A a \in Analysis : runs[a].status = "RUNNING" =>
        \/ AnalysisInFlight(a)
        \/ analysis[a].answer = "died"
        \/ "db" \in Faults /\ analysis[a].answer \in {"failed", "database_unavailable"}

\* A report row is visible only when both its files are complete and read-only,
\* and only for a run that succeeded; a crash or failure between the writes
\* leaves unreferenced files, never a report that cannot be read.
ReportsHaveFiles ==
    \A a \in reports :
        /\ runs[a].status \in Succeeded
        /\ results[a]["json"] = "sealed" /\ results[a]["html"] = "sealed"

\* What the client was told agrees with what the run's row says; a request that
\* failed before its claim left no row, and only a database failure can leave a
\* row RUNNING behind an answer.  The commit comes before the answer: a run that ended
\* was reported as it ended, or its client waits still, or the process died between the
\* two and a settled run stays that nobody was told of.
AnswersMatchRuns ==
    \A a \in Analysis :
        LET answer == analysis[a].answer  status == runs[a].status IN
        /\ answer = "analyzed" => status \in Succeeded
        /\ answer = "integrity_failure" => status = "REFUSED"
        /\ answer = "failed" => status = "FAILED" \/ (status = "RUNNING" /\ "db" \in Faults)
        /\ answer \in {"evidence_not_found", "active"} => status = "none"
        /\ answer = "database_unavailable" /\ status # "none"
               => status = "RUNNING" /\ "db" \in Faults
        /\ status \in Succeeded => answer \in {"analyzed", "none", "died"}
        /\ status = "REFUSED" => answer \in {"integrity_failure", "none", "died"}
        /\ status = "FAILED" => answer \in {"failed", "none", "died"}

\* create_structural_run asks which constraint its INSERT met after the fact.  A client
\* is told that an analysis is active only if another request had claimed the evidence;
\* the 503 that stands for every other conflict, while the database works, means that
\* the evidence was withdrawn since it was read or that the other run has ended since.
ConflictsAreExplained ==
    \A a \in Analysis :
        LET id == analysis[a].asset
            others == {b \in Analysis \ {a} : runs[b].asset = id} IN
        /\ analysis[a].answer = "active" => others # {}
        /\ analysis[a].answer = "database_unavailable" /\ "db" \notin Faults =>
               CaseOf(id) = {} \/ \E b \in others : runs[b].status # "RUNNING"

\* Once a run is terminal its row never changes again, and a row with evidence
\* to point to is never taken away or pointed elsewhere.
TerminalRunsFinal ==
    [][\A a \in Analysis :
        /\ runs[a].status \notin {"none", "RUNNING"} => runs'[a] = runs[a]
        /\ runs[a].status = "RUNNING" => runs'[a].asset = runs[a].asset]_vars

\* Reconciliation never reports an object whose upload was accepted before the
\* report was computed, although uploads run beside it: the store is listed before
\* the database is read, so an object stored in between is not mistaken for an
\* orphan (an undisturbed store is assumed).
ReconcileSparesAccepted ==
    [][~Disturbed => \A r \in Reconciler :
        \A c \in reconcile'[r].reported \ reconcile[r].reported :
            \A u \in Upload :
                ~(upload[u].content = c /\ upload[u].answer \in Accepted)]_vars

\* finalize_structural_run, put_bytes: a request that is about to commit its terminal
\* state finds its run RUNNING, and one that stores a file finds none that is complete.
\* Neither another request nor a failure or a crash leads to "already terminal" or
\* "already exists", and the guards of FinalizeRun and CreateResult hold nobody up.
NothingDoneTwice ==
    \A a \in Analysis :
        /\ analysis[a].pc \in {"refusing", "finalizing", "failing"} =>
               runs[a].status = "RUNNING"
        /\ analysis[a].pc \in ResultFile => results[a][analysis[a].pc] # "sealed"

\* How many steps are left to a request at most, by where it is.
UploadLeft(u) ==
    LET pc == upload[u].pc IN
    IF pc = "idle" THEN 12 ELSE IF pc = "lookup" THEN 11 ELSE IF pc = "putting" THEN 10
    ELSE IF pc = "reading" THEN 9 ELSE IF pc = "finding" THEN 8 ELSE IF pc = "blob" THEN 7
    ELSE IF pc = "committing" THEN 6 ELSE IF pc = "fallback" THEN 5
    ELSE IF pc = "checking" THEN 4 ELSE IF pc = "compensating" THEN 3
    ELSE IF pc = "deleting" THEN 2 ELSE IF pc = "retracted" THEN 1 ELSE 0
Begun(a, f) == IF results[a][f] = "absent" THEN 0 ELSE 1
AnalysisLeft(a) ==
    LET pc == analysis[a].pc IN
    IF pc = "idle" THEN 14 ELSE IF pc = "context" THEN 13 ELSE IF pc = "claiming" THEN 12
    ELSE IF pc = "verifying" THEN 11 ELSE IF pc = "engine" THEN 10
    ELSE IF pc = "tool" THEN 9 - Begun(a, pc) ELSE IF pc = "json" THEN 7 - Begun(a, pc)
    ELSE IF pc = "html" THEN 5 - Begun(a, pc) ELSE IF pc = "finalizing" THEN 3
    ELSE IF pc \in {"refusing", "failing"} THEN 2
    ELSE IF pc \in {"conflict"} \cup Response THEN 1 ELSE 0

\* ingest, start: no handler retries and none goes back.  Every step of a request brings
\* its own answer nearer, failures included, and no step of another request, of a
\* reconciliation or of the environment puts it further away.
RequestsAdvance ==
    [][/\ \A u \in Upload :
              /\ UploadLeft(u)' \in 0..UploadLeft(u)
              /\ Receive(u) \/ UploadStep(u) => UploadLeft(u)' < UploadLeft(u)
       /\ \A a \in Analysis :
              /\ AnalysisLeft(a)' \in 0..AnalysisLeft(a)
              /\ Request(a) \/ AnalysisStep(a) => AnalysisLeft(a)' < AnalysisLeft(a)]_vars

-----------------------------------------------------------------------------
(* The analyses as their clients see them: see AnalysisClaims *)

\* a run counts as a success only when its report can be read
ClaimOf(a) ==
    IF runs[a].status = "none" THEN "none"
    ELSE IF runs[a].status = "RUNNING" THEN "active"
    ELSE IF runs[a].status = "REFUSED" THEN "refused"
    ELSE IF runs[a].status = "FAILED" THEN "failed"
    ELSE IF a \in reports /\ results[a]["json"] = "sealed" /\ results[a]["html"] = "sealed"
    THEN "succeeded" ELSE "unreadable"

\* a failure that could not be recorded leaves the client without an outcome
AnswerOf(a) ==
    LET answer == analysis[a].answer IN
    IF answer = "none" THEN "none"
    ELSE IF answer = "analyzed" THEN "succeeded"
    ELSE IF answer = "integrity_failure" THEN "refused"
    ELSE IF answer = "evidence_not_found" THEN "no_evidence"
    ELSE IF answer = "active" THEN "busy"
    ELSE IF answer = "failed" /\ runs[a].status = "FAILED" THEN "failed"
    ELSE "lost"

Claims == INSTANCE AnalysisClaims WITH
    Evidence <- [id: Upload, case: Case],
    evidence <- {[id |-> r.id, case |-> r.case] : r \in assets},
    ask <- [a \in Analysis |-> [id |-> analysis[a].asset, case |-> analysis[a].case]],
    claim <- [a \in Analysis |-> ClaimOf(a)],
    answer <- [a \in Analysis |-> AnswerOf(a)]

\* The requests that analyse one evidence asset, each with stale reads, a claim, a
\* verification, tools, files and a final commit of its own, behave like atomic claims
\* of it: at most one active, each settled once, with a readable report behind every
\* success, and told as it was settled if it is told at all; and no evidence withdrawn
\* from under a claim.
ImplementsAnalysisClaims == Claims!Spec

-----------------------------------------------------------------------------
(* The uploads as their clients see them: see EvidenceRegistry *)

ReplyOf(u) ==
    LET answer == upload[u].answer IN
    [kind |-> IF UploadAt(u, "retracted") THEN "retracting"
              ELSE IF answer \in Accepted \cup {"none"} THEN answer
              ELSE IF answer = "consistency_failure" THEN "inconsistent" ELSE "refused",
     id |-> IF answer \in Accepted THEN Id(u) ELSE NoAsset]

Registry == INSTANCE EvidenceRegistry WITH
    NoId <- NoAsset,
    Trusted <- ~Disturbed,
    stored <- {c \in Content : Stored(c)},
    registry <- assets,
    issued <- {RowOf(u) : u \in {v \in Upload : Id(v) = v}},
    request <- [u \in Upload |-> [case |-> upload[u].case, content |-> upload[u].content]],
    answer <- [u \in Upload |-> ReplyOf(u)]

\* Concurrent uploads, with their stale reads, conflicting inserts, checks and
\* compensations, behave like atomic registrations of one entry for each case and
\* content: an accepted upload names the entry it, or another upload, registered, and
\* while the store is undisturbed that entry and its content are there for good.
ImplementsEvidenceRegistry == Registry!Spec

-----------------------------------------------------------------------------
(* Liveness, under FairSpec *)

\* Every request that was received is answered, or dies with its process.
RequestsAnswered ==
    /\ \A u \in Upload : upload[u].pc # "idle" ~> upload[u].pc = "done"
    /\ \A a \in Analysis : analysis[a].pc # "idle" ~> analysis[a].pc = "done"

=============================================================================
