\* Every habit of a tool, pipes of three bytes, one byte for each read.
SPECIFICATION FairSpec
CONSTANTS
    PipeCapacity = 3
    ReadSize = 1
    MaxOutput = 1
    MaxWritten = 4
INVARIANTS
    DeadOnReturn
    CaptureBounded
    SuccessReadsAll
    OutcomeIsTrue
PROPERTY
    CallReturns
