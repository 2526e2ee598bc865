------------------------- MODULE StructuralAnalysis -------------------------
(***************************************************************************)
(* StructuralAnalysisService.start: claim the evidence with a RUNNING row, *)
(* re-hash the object, run the engine, store its outputs and the report as *)
(* create-once result files, commit the terminal state together with the   *)
(* report row, and only then answer.  Every exit after the claim has to    *)
(* end the run itself: nothing else ever touches a RUNNING row.            *)
(***************************************************************************)
EXTENDS Repository

VARIABLES
    analysis,   \* the locals of each analysis request
    results     \* LocalResultStorage: the files of each run

AnalysisPC == {"idle", "context", "claiming", "conflict", "verifying",
               "refusing", "engine", "tool", "json", "html", "finalizing",
               "failing", "analyzed", "integrity_failure", "failed", "done"}
AnalysisAnswer == {"none", "analyzed", "evidence_not_found", "active",
                   "integrity_failure", "failed", "database_unavailable", "died"}
Response == {"analyzed", "integrity_failure", "failed"}   \* about to be answered so
ResultFile == {"tool", "json", "html"}   \* raw tool output, the two reports
FileState == {"absent", "partial", "sealed"}

AnalysisRecord ==
    [pc: AnalysisPC, case: Case, asset: Upload, answer: AnalysisAnswer,
     contents: SUBSET Content,    \* of the evidence row its session loaded
     verdict: Succeeded \cup {"none"}]   \* what the engine returned

AnalysisTypeOK ==
    /\ analysis \in [Analysis -> AnalysisRecord]
    /\ results \in [Analysis -> [ResultFile -> FileState]]

AnalysisInit ==
    /\ \E f \in [Analysis -> Case \X Upload] :
        analysis = [a \in Analysis |->
            [pc |-> "idle", case |-> f[a][1], asset |-> f[a][2],
             answer |-> "none", contents |-> {}, verdict |-> "none"]]
    /\ results = [a \in Analysis |-> [f \in ResultFile |-> "absent"]]

-----------------------------------------------------------------------------
(* Control flow of one request *)

AnalysisAt(a, pc) == analysis[a].pc = pc
AnalysisGoTo(a, pc) == analysis' = [analysis EXCEPT ![a].pc = pc]
AnalysisEnd(a, answer) ==
    analysis' = [analysis EXCEPT ![a] =
        [@ EXCEPT !.pc = "done", !.answer = answer,
                  !.contents = {}, !.verdict = "none"]]
\* its work is over, whatever came of it; what is left is to say so
AnalysisSettles(a, response) ==
    analysis' = [analysis EXCEPT ![a] =
        [@ EXCEPT !.pc = response, !.contents = {}, !.verdict = "none"]]

Request(a) ==
    /\ AnalysisAt(a, "idle")
    /\ AnalysisGoTo(a, "context")
    /\ UNCHANGED <<objects, tables, results>>

\* _context: the evidence row of this case, with its blob
LoadContext(a) ==
    LET rows == {r \in assets : r.id = analysis[a].asset /\ r.case = analysis[a].case} IN
    /\ AnalysisAt(a, "context")
    /\ \/ rows = {} /\ AnalysisEnd(a, "evidence_not_found")
       \/ /\ rows # {}
          /\ analysis' = [analysis EXCEPT ![a].pc = "claiming",
                              ![a].contents = {r.content : r \in rows}]
    /\ UNCHANGED <<objects, tables, results>>

ClaimEvidence(a) ==
    /\ AnalysisAt(a, "claiming")
    /\ InsertRun(a, analysis[a].asset)
    /\ AnalysisGoTo(a, "verifying")
    /\ UNCHANGED <<objects, results>>

ClaimConflict(a) ==
    /\ AnalysisAt(a, "claiming")
    /\ RunConflicts(analysis[a].asset)
    /\ AnalysisGoTo(a, "conflict")
    /\ UNCHANGED <<objects, tables, results>>

\* Mutant of ExplainConflict: every IntegrityError is re-raised.
ExplainConflictReraises(a) ==
    /\ AnalysisAt(a, "conflict")
    /\ AnalysisEnd(a, "database_unavailable")
    /\ UNCHANGED <<objects, tables, results>>

\* the handler of IntegrityError asks whether a run is still active; if not it
\* re-raises, which the service reports as an unavailable database
ExplainConflict(a) ==
    /\ AnalysisAt(a, "conflict")
    /\ AnalysisEnd(a, IF Active(analysis[a].asset) THEN "active"
                      ELSE "database_unavailable")
    /\ UNCHANGED <<objects, tables, results>>

\* IntegrityVerifier.verify: existence, size and both digests
Verify(a) ==
    /\ AnalysisAt(a, "verifying")
    /\ \/ /\ \A c \in analysis[a].contents : objects[c] = "intact"
          /\ AnalysisGoTo(a, "engine")
       \/ /\ \E c \in analysis[a].contents : objects[c] # "intact"
          /\ AnalysisGoTo(a, "refusing")
    /\ UNCHANGED <<objects, tables, results>>

\* Mutant of VerifyFails: the OSError escapes from start() after the claim.
VerifyEscapes(a) ==
    /\ AnalysisAt(a, "verifying") /\ "stat" \in Faults
    /\ AnalysisEnd(a, "failed")
    /\ UNCHANGED <<objects, tables, results>>

\* an OSError while the object is read counts as a missing object
VerifyFails(a) ==
    /\ AnalysisAt(a, "verifying") /\ "stat" \in Faults
    /\ AnalysisGoTo(a, "refusing")
    /\ UNCHANGED <<objects, tables, results>>

Refuse(a) ==
    /\ AnalysisAt(a, "refusing")
    /\ FinalizeRun(a, analysis[a].case, "REFUSED")
    /\ AnalysisSettles(a, "integrity_failure")
    /\ UNCHANGED <<objects, results>>

\* engine.analyze: a failed or unavailable tool makes the run PARTIAL
Analyze(a) ==
    /\ AnalysisAt(a, "engine")
    /\ \E verdict \in Succeeded, next \in {"tool", "json"} :
          analysis' = [analysis EXCEPT ![a].pc = next, ![a].verdict = verdict]
    /\ UNCHANGED <<objects, tables, results>>

\* put_bytes: exclusive create, then write, fsync and remove the write bits
CreateResult(a) ==
    LET f == analysis[a].pc IN
    /\ f \in ResultFile
    /\ results[a][f] = "absent"
    /\ results' = [results EXCEPT ![a][f] = "partial"]
    /\ UNCHANGED <<objects, tables, analysis>>

\* Mutant of AfterFile: the run is committed before the HTML report is stored.
AfterFileWithoutHtml == [tool |-> "json", json |-> "finalizing", html |-> "finalizing"]

AfterFile == [tool |-> "json", json |-> "html", html |-> "finalizing"]

SealResult(a) ==
    LET f == analysis[a].pc IN
    /\ f \in ResultFile
    /\ results[a][f] = "partial"
    /\ results' = [results EXCEPT ![a][f] = "sealed"]
    /\ AnalysisGoTo(a, AfterFile[f])
    /\ UNCHANGED <<objects, tables>>

\* the engine, the result storage or the report renderer raises
AnalysisRaises(a) ==
    /\ \/ AnalysisAt(a, "engine") /\ "engine" \in Faults
       \/ analysis[a].pc \in ResultFile /\ "result" \in Faults
       \/ AnalysisAt(a, "finalizing") /\ "db" \in Faults
    /\ AnalysisGoTo(a, "failing")
    /\ UNCHANGED <<objects, tables, results>>

Finish(a) ==
    /\ AnalysisAt(a, "finalizing")
    /\ FinalizeRun(a, analysis[a].case, analysis[a].verdict)
    /\ AnalysisSettles(a, "analyzed")
    /\ UNCHANGED <<objects, results>>

\* Mutant of RecordFailure: the failure keeps the verdict of the engine.
RecordFailureAsVerdict(a) ==
    /\ AnalysisAt(a, "failing")
    /\ FinalizeRun(a, analysis[a].case,
                   IF analysis[a].verdict = "none" THEN "FAILED" ELSE analysis[a].verdict)
    /\ AnalysisSettles(a, "failed")
    /\ UNCHANGED <<objects, results>>

\* _record_internal_failure
RecordFailure(a) ==
    /\ AnalysisAt(a, "failing")
    /\ FinalizeRun(a, analysis[a].case, "FAILED")
    /\ AnalysisSettles(a, "failed")
    /\ UNCHANGED <<objects, results>>

\* the client is answered after the commit, by which time the process may be gone
Respond(a) ==
    /\ analysis[a].pc \in Response
    /\ AnalysisEnd(a, analysis[a].pc)
    /\ UNCHANGED <<objects, tables, results>>

\* SQLAlchemyError: reported, except by _record_internal_failure, which returns
AnalysisDbFails(a) ==
    /\ "db" \in Faults
    /\ \/ /\ analysis[a].pc \in {"context", "claiming", "conflict", "refusing"}
          /\ AnalysisEnd(a, "database_unavailable")
       \/ AnalysisAt(a, "failing") /\ AnalysisSettles(a, "failed")
    /\ UNCHANGED <<objects, tables, results>>

\* what a request does while nothing fails under it
AnalysisWorks(a) ==
    \/ LoadContext(a) \/ ClaimEvidence(a) \/ ClaimConflict(a) \/ ExplainConflict(a)
    \/ Verify(a) \/ Refuse(a) \/ Analyze(a) \/ CreateResult(a) \/ SealResult(a)
    \/ Finish(a) \/ RecordFailure(a) \/ Respond(a)

AnalysisStep(a) ==
    AnalysisWorks(a) \/ VerifyFails(a) \/ AnalysisRaises(a) \/ AnalysisDbFails(a)
=============================================================================
