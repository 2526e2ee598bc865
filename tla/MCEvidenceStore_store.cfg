\* Two uploads of any contents, every failure of the file system, crashes, and
\* somebody who removes, alters, resizes or replaces objects.
CONSTANTS
    empty = empty  photo = photo  large = large  unknown = unknown
    Writer = {w1, w2}
    Content = {empty, photo, large, unknown}
    Supported = {empty, photo, large}
    Size <- MCSize
    MaxUploadBytes = 3
    UploadChunkBytes = 2
    Faults = {"read", "write", "promote", "unlink", "crash", "tamper"}
SPECIFICATION FairSpec
PROPERTIES OnlyWholeAdded ImplementsCreateOnlyStore PutTerminates
