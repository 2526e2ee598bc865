\* The output limit, for tools that leave no child behind or do.
SPECIFICATION Spec
CONSTANTS
    PipeCapacity = 3
    ReadSize = 1
    MaxOutput = 1
    MaxWritten = 4
INVARIANT
    SuccessWithinLimit
