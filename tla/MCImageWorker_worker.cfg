\* Every release and request, with a cache that changes and every fault.
SPECIFICATION FairSpec
CONSTANTS
    j1 = j1
    j2 = j2
    pinned = pinned
    other = other
    Jobs <- MCJobs
    Requests <- MCRequests
    Configs <- MCConfigs
    Contents <- MCContents
    PinnedHash = pinned
    MaxInputBytes = 3
    ChunkBytes = 2
    MaxRedirects = 1
    Faults = {"swap", "gpu", "disk", "network", "unlink"}
INVARIANTS
    EvidenceNamesTheModel
    ResultsAreOfTheInput
    LateBytesBounded
    KeptIsReady
PROPERTY
    JobsAnswered
\* A process that has answered every job waits for ever.
CHECK_DEADLOCK FALSE
