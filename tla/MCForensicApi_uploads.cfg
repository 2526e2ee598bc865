\* Two concurrent uploads to two cases and an analysis beside a reconciliation, under fair scheduling; the database, put_stream and the process may fail.
CONSTANTS
    Case = {k1, k2}
    Content = {c1}
    Upload = {u1, u2}
    Analysis = {a1}
    Reconciler = {r1}
    NoAsset = NoAsset
    Faults = {"db", "put", "crash"}
SPECIFICATION FairSpec
INVARIANTS MetadataHasObject AcceptedIsPreserved OrphansAreExplained CaseStatusTracksEvidence AnswersMatchRuns ReportsHaveFiles
PROPERTIES ImplementsEvidenceRegistry ReconcileSparesAccepted RequestsAnswered
