---------------------------- MODULE ApiOverStore ----------------------------
(***************************************************************************)
(* The API beside a store that keeps the promise of CreateOnlyStore and no *)
(* more: an upload's put_stream is a call that begins, links or finds its  *)
(* object, and returns or raises, each a step of its own between those of  *)
(* all other requests.  ForensicApi takes the call for one step, where it  *)
(* links or finds the object; here that is a refinement to be shown.       *)
(***************************************************************************)
EXTENDS ForensicApi

VARIABLE put   \* the calls of put_stream, one for each upload

overVars == <<vars, put>>
others == <<tables, analysis, results, reconcile>>

\* To the callers of the store an object of the right size is no better than another.
Store == INSTANCE CreateOnlyStore WITH
    Put <- Upload,
    store <- [c \in Content |->
                IF objects[c] \in {"altered", "resized"} THEN "damaged" ELSE objects[c]]

OverInit ==
    /\ Init
    /\ put = [u \in Upload |-> [content |-> upload[u].content, phase |-> "idle"]]

InCall(u) == UploadAt(u, "putting")

PutBegins(u) ==
    /\ InCall(u)
    /\ UNCHANGED vars
    /\ Store!Begin(u)

\* os.link
PutLinks(u) ==
    LET c == upload[u].content IN
    /\ InCall(u)
    /\ objects[c] = "absent" /\ objects' = [objects EXCEPT ![c] = "intact"]
    /\ Store!Move(u, "pending", "added")
    /\ UNCHANGED <<upload, others>>

\* _verify_existing
PutFinds(u) ==
    /\ InCall(u)
    /\ objects[upload[u].content] = "intact"
    /\ Store!Move(u, "pending", "observed")
    /\ UNCHANGED vars

\* the staging file is removed and ingest goes on to its metadata
PutReturns(u) ==
    /\ InCall(u)
    /\ Store!Move(u, "added", "created") \/ Store!Move(u, "observed", "deduplicated")
    /\ UploadGoTo(u, "reading")
    /\ UNCHANGED <<objects, others>>

\* the stream or the disk is no good, the object that was there is lost or damaged, or
\* the staging file stays
PutRaises(u) ==
    /\ InCall(u)
    /\ \/ /\ Store!Move(u, "pending", "refused")
          /\ \/ "put" \in Faults /\ UploadEnd(u, "rejected")
             \/ /\ Faults \cap {"put", "loss"} # {}
                /\ UploadEnd(u, "storage_unavailable")
       \/ /\ Store!Move(u, "added", "refused") \/ Store!Move(u, "observed", "refused")
          /\ "put" \in Faults
          /\ UploadEnd(u, "storage_unavailable")
    /\ UNCHANGED <<objects, others>>

PutStep(u) == PutBegins(u) \/ PutLinks(u) \/ PutFinds(u) \/ PutReturns(u) \/ PutRaises(u)

\* the steps of an upload before and after its call of the store
OwnStep(u) ==
    \/ Receive(u) \/ LookupCase(u) \/ ReadCase(u) \/ FindAssociation(u)
    \/ ReadBlob(u) \/ CommitEvidence(u) \/ CommitConflict(u) \/ Fallback(u)
    \/ CheckObject(u) \/ FindCompensated(u) \/ Compensate(u) \/ CompensationRefused(u)
    \/ ReportInconsistent(u)
    \/ UploadDbFails(u)

OverNext ==
    \/ \E u \in Upload : PutStep(u)
    \/ \E u \in Upload : OwnStep(u) /\ UNCHANGED <<analysis, results, reconcile, put>>
    \/ \E k \in Case : CreateCase(k) /\ UNCHANGED <<requests, put>>
    \/ \E a \in Analysis : /\ Request(a) \/ AnalysisStep(a)
                           /\ UNCHANGED <<upload, reconcile, put>>
    \/ \E r \in Reconciler : (ListObjects(r) \/ ReportOrphans(r)) /\ UNCHANGED put
    \/ \E c \in Content : LoseObject(c) /\ UNCHANGED put
    \/ Crash /\ Store!Abandon
    \/ Idle /\ UNCHANGED put

OverSpec == OverInit /\ [][OverNext]_overVars

-----------------------------------------------------------------------------
\* To the other requests an upload has stored its bytes once they are linked or found.
Stores(u) == InCall(u) /\ put[u].phase \in {"added", "observed"}

Shown == [u \in Upload |->
            IF Stores(u) THEN [upload[u] EXCEPT !.pc = "reading"] ELSE upload[u]]

Api == INSTANCE ForensicApi WITH upload <- Shown

\* ingest calls put_stream as the store's callers may, and whatever comes between the
\* steps of that call, the requests behave as if it were the one step of ForensicApi:
\* what is shown of the API holds with every store that keeps its promise.
PutsKeepThePromise == Store!Spec
PutIsOneStep == Api!Spec
=============================================================================
