\* Every tool succeeds, fails or is missing, with documents that agree or do not.
SPECIFICATION Spec
CONSTANTS
    absent = absent  wild = wild
    Absent = absent
    Wild = wild
    Evidence <- MCEvidence
    Documents <- MCDocuments
    Length = 9
    Tolerance = 1
    Faults = {"missing", "start", "failed", "unkillable",
              "invalid", "unwritable", "unreadable"}
INVARIANTS
    VerdictIsTrue
    SummaryIsSourced
    MismatchesAreObserved
