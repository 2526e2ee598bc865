\* Two remaining jobs, every fault, deadlines at and off the poll interval.
SPECIFICATION Spec
CONSTANTS
    Proposals <- MCProposals
    BudgetRecords <- MCBudgets
    Approvals <- MCApprovals
    Baseline = 5
    MaximumPaidJobs = 7
    LastSubmission = 8
    ExecutionSeconds = 1
    IdleSeconds = 1
    ObservedWorkers = 2
    MaximumSpend = 20
    Balance = 19
    Incurred = 1
    PollInterval = 2
    MaximumDeadline = 3
    Faults = {"network", "leak", "contract"}
INVARIANTS
    PaidJobsAuthorized
    SpendWithinCap
    NothingLeftRunning
    LockMeansQuiet
PROPERTIES
    ImplementsPrepaidJobs
