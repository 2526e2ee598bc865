\* One preflight on every host, with a host, children and an output path that fail.
SPECIFICATION Spec
CONSTANTS
    unset = unset
    Hosts <- MCHosts
    Later <- MCLater
    Environments <- MCEnvironments
    Unset = unset
    MaxNodes = 4
    Faults = {"host", "child", "bytes", "maps", "output", "write", "print"}
INVARIANTS DiagnosisNamesCause
PROPERTIES ReportIsCreated
