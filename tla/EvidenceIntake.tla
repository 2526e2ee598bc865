--------------------------- MODULE EvidenceIntake ---------------------------
(***************************************************************************)
(* EvidenceIntakeService.ingest: put the bytes into the evidence store,    *)
(* then commit the metadata, then look at the object once more, and take   *)
(* the metadata back when it is not there.  Store and database share no    *)
(* transaction; everything between two of these steps may interleave with  *)
(* other requests.                                                         *)
(***************************************************************************)
EXTENDS Repository

VARIABLE upload   \* the locals of each upload request

UploadPC == {"idle", "lookup", "putting", "reading", "finding", "blob",
             "committing", "fallback", "checking", "compensating", "deleting",
             "retracted", "done"}
UploadAnswer == {"none", "created", "reused", "case_not_found", "rejected",
                 "storage_unavailable", "database_unavailable",
                 "consistency_failure", "died"}
Accepted == {"created", "reused"}

UploadRecord ==
    [pc: UploadPC, case: Case, content: Content, answer: UploadAnswer,
     asset: Upload \cup {NoAsset},   \* the association this request answers for
     reused: BOOLEAN,                \* it existed already
     sawStatus: CaseStatus,          \* the case status its session loaded
     sawBlob: BOOLEAN,               \* whether its session found the blob row
     sawCases: SUBSET Case]          \* where compensation found the association

UploadTypeOK == upload \in [Upload -> UploadRecord]

UploadInit ==
    \E f \in [Upload -> Case \X Content] :
        upload = [u \in Upload |->
            [pc |-> "idle", case |-> f[u][1], content |-> f[u][2],
             answer |-> "none", asset |-> NoAsset, reused |-> FALSE,
             sawStatus |-> "unknown", sawBlob |-> FALSE, sawCases |-> {}]]

-----------------------------------------------------------------------------
(* Control flow of one request *)

UploadAt(u, pc) == upload[u].pc = pc
UploadGoTo(u, pc) == upload' = [upload EXCEPT ![u].pc = pc]

\* a request's locals are gone once it is answered; its row id is in the answer
UploadEnd(u, answer) ==
    upload' = [upload EXCEPT ![u] =
        [@ EXCEPT !.pc = "done", !.answer = answer, !.sawStatus = "unknown",
                  !.sawBlob = FALSE, !.sawCases = {}]]
\* the compensation is over, done or not; what is left is to say so
UploadGivesUp(u) ==
    upload' = [upload EXCEPT ![u] = [@ EXCEPT !.pc = "retracted", !.sawCases = {}]]

Receive(u) ==
    /\ UploadAt(u, "idle")
    /\ UploadGoTo(u, "lookup")
    /\ UNCHANGED <<objects, tables>>

\* repository.get_case, and the checks of the filename and declared type
LookupCase(u) ==
    /\ UploadAt(u, "lookup")
    /\ \/ /\ caseStatus[upload[u].case] = "unknown"
          /\ UploadEnd(u, "case_not_found")
       \/ /\ caseStatus[upload[u].case] # "unknown"
          /\ UploadGoTo(u, "putting")
    /\ UNCHANGED <<objects, tables>>

\* storage.put_stream, where it links or finds the object: see ApiOverStore
PutObject(u) ==
    LET c == upload[u].content IN
    /\ UploadAt(u, "putting")
    /\ \/ /\ objects[c] = "absent"
          /\ objects' = [objects EXCEPT ![c] = "intact"]
          /\ UploadGoTo(u, "reading")
       \/ /\ objects[c] = "intact"
          /\ UploadGoTo(u, "reading")
          /\ UNCHANGED objects
       \/ /\ objects[c] \in {"altered", "resized"}
          /\ UploadEnd(u, "storage_unavailable")
          /\ UNCHANGED objects
    /\ UNCHANGED tables

\* Mutant of PutFails: a storage error is logged and the request goes on.
PutFailsSilently(u) ==
    /\ UploadAt(u, "putting") /\ "put" \in Faults
    /\ UploadGoTo(u, "reading")
    /\ UNCHANGED <<objects, tables>>

\* put_stream raises before it linked or found the object (the one it found may be
\* lost before it is verified), or after that, when it cannot remove its staging file
PutFails(u) ==
    /\ \/ UploadAt(u, "putting") /\ "put" \in Faults /\ UploadEnd(u, "rejected")
       \/ /\ UploadAt(u, "putting") /\ Faults \cap {"put", "loss"} # {}
          /\ UploadEnd(u, "storage_unavailable")
       \/ /\ UploadAt(u, "reading") /\ "put" \in Faults
          /\ UploadEnd(u, "storage_unavailable")
    /\ UNCHANGED <<objects, tables>>

\* record_evidence: the SELECT of the case
ReadCase(u) ==
    /\ UploadAt(u, "reading")
    /\ upload' = [upload EXCEPT ![u].pc = "finding",
                                ![u].sawStatus = caseStatus[upload[u].case]]
    /\ UNCHANGED <<objects, tables>>

\* Mutant of Reuse: the reused association is reported as a new one.
ReuseAsNew(u, id) ==
    upload' = [upload EXCEPT ![u] =
        [@ EXCEPT !.pc = "checking", !.asset = id,
                  !.sawStatus = "unknown", !.sawBlob = FALSE]]

Reuse(u, id) ==
    upload' = [upload EXCEPT ![u] =
        [@ EXCEPT !.pc = "checking", !.asset = id, !.reused = TRUE,
                  !.sawStatus = "unknown", !.sawBlob = FALSE]]

\* record_evidence: _find_case_blob
FindAssociation(u) ==
    LET ids == Ids(upload[u].case, upload[u].content) IN
    /\ UploadAt(u, "finding")
    /\ \/ \E id \in ids : Reuse(u, id)
       \/ ids = {} /\ UploadGoTo(u, "blob")
    /\ UNCHANGED <<objects, tables>>

\* record_evidence: the SELECT of the blob row
ReadBlob(u) ==
    /\ UploadAt(u, "blob")
    /\ upload' = [upload EXCEPT ![u].pc = "committing",
                                ![u].sawBlob = upload[u].content \in blobs]
    /\ UNCHANGED <<objects, tables>>

CommitEvidence(u) ==
    /\ UploadAt(u, "committing")
    /\ InsertEvidence(u, upload[u].case, upload[u].content,
                      upload[u].sawStatus, upload[u].sawBlob)
    /\ upload' = [upload EXCEPT ![u] =
        [@ EXCEPT !.pc = "checking", !.asset = u,
                  !.sawStatus = "unknown", !.sawBlob = FALSE]]
    /\ UNCHANGED objects

\* Mutant of CommitConflict: the INSERT is tried again.
CommitConflictRetried(u) ==
    /\ UploadAt(u, "committing")
    /\ InsertConflicts(upload[u].case, upload[u].content, upload[u].sawBlob)
    /\ UNCHANGED <<objects, tables, upload>>

CommitConflict(u) ==
    /\ UploadAt(u, "committing")
    /\ InsertConflicts(upload[u].case, upload[u].content, upload[u].sawBlob)
    /\ UploadGoTo(u, "fallback")
    /\ UNCHANGED <<objects, tables>>

\* Mutant of Fallback: without a row the request assumes its own was inserted.
FallbackAssumesInsert(u) ==
    LET ids == Ids(upload[u].case, upload[u].content) IN
    /\ UploadAt(u, "fallback")
    /\ \/ \E id \in ids : Reuse(u, id)
       \/ ids = {} /\ Reuse(u, u)
    /\ UNCHANGED <<objects, tables>>

\* the handler of IntegrityError asks once more and re-raises if there is no row
Fallback(u) ==
    LET ids == Ids(upload[u].case, upload[u].content) IN
    /\ UploadAt(u, "fallback")
    /\ \/ \E id \in ids : Reuse(u, id)
       \/ ids = {} /\ UploadEnd(u, "database_unavailable")
    /\ UNCHANGED <<objects, tables>>

\* storage.contains(sha256, expected_size): type and size, not the bytes
Contained(c) == objects[c] \in {"intact", "altered"}

\* Mutant of CheckObject: the error is answered before the metadata is removed.
CheckObjectAnswersFirst(u) ==
    /\ UploadAt(u, "checking")
    /\ IF Contained(upload[u].content)
       THEN UploadEnd(u, IF upload[u].reused THEN "reused" ELSE "created")
       ELSE UploadEnd(u, "consistency_failure")
    /\ UNCHANGED <<objects, tables>>

CheckObject(u) ==
    /\ UploadAt(u, "checking")
    /\ \/ /\ Contained(upload[u].content)
          /\ UploadEnd(u, IF upload[u].reused THEN "reused" ELSE "created")
       \/ /\ ~Contained(upload[u].content) \/ "stat" \in Faults
          /\ UploadGoTo(u, "compensating")
    /\ UNCHANGED <<objects, tables>>

\* compensate_missing_object: its SELECT of the association
FindCompensated(u) ==
    /\ UploadAt(u, "compensating")
    /\ upload' = [upload EXCEPT ![u].pc = "deleting",
                                ![u].sawCases = CaseOf(upload[u].asset)]
    /\ UNCHANGED <<objects, tables>>

Compensate(u) ==
    /\ UploadAt(u, "deleting")
    /\ DeleteEvidence(upload[u].asset, upload[u].content, upload[u].sawCases)
    /\ UploadGivesUp(u)
    /\ UNCHANGED objects

\* a row that a run refers to cannot be deleted; the IntegrityError is logged
CompensationRefused(u) ==
    /\ UploadAt(u, "deleting")
    /\ Restricted(upload[u].asset)
    /\ UploadGivesUp(u)
    /\ UNCHANGED <<objects, tables>>

\* the compensation is logged, done or not, and EVIDENCE_CONSISTENCY_FAILURE raised
ReportInconsistent(u) ==
    /\ UploadAt(u, "retracted")
    /\ UploadEnd(u, "consistency_failure")
    /\ UNCHANGED <<objects, tables>>

\* any other SQLAlchemyError: a failed compensation is only logged
UploadDbFails(u) ==
    /\ "db" \in Faults
    /\ \/ /\ upload[u].pc \in {"lookup", "reading", "finding", "blob",
                               "committing", "fallback"}
          /\ UploadEnd(u, "database_unavailable")
       \/ /\ upload[u].pc \in {"compensating", "deleting"}
          /\ UploadGivesUp(u)
    /\ UNCHANGED <<objects, tables>>

\* what a request does while nothing fails under it
UploadWorks(u) ==
    \/ LookupCase(u) \/ PutObject(u) \/ ReadCase(u) \/ FindAssociation(u)
    \/ ReadBlob(u) \/ CommitEvidence(u) \/ CommitConflict(u) \/ Fallback(u)
    \/ CheckObject(u) \/ FindCompensated(u) \/ Compensate(u) \/ CompensationRefused(u)
    \/ ReportInconsistent(u)

UploadStep(u) == UploadWorks(u) \/ PutFails(u) \/ UploadDbFails(u)
=============================================================================
