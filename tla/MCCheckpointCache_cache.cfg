\* Every small header, and caches that change between any two looks.
SPECIFICATION Spec
CONSTANTS
    none = none
    any = any
    Contents <- MCContents
    Missing = none
    MaxHeaderBytes = 16
    Disks <- MCDisks
    Later <- MCLater
    Requests <- MCRequests
    Unpinned = any
    Faults = {"host", "io"}
INVARIANTS
    AcceptedTilesData
    RefusedForAReason
    RecordIsOfOneFile
