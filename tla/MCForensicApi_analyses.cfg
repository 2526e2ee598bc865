\* Two analyses beside two uploads of one case; objects, the engine and result files fail, the database and the process do not.
CONSTANTS
    Case = {k1}
    Content = {c1}
    Upload = {u1, u2}
    Analysis = {a1, a2}
    Reconciler = {}
    NoAsset = NoAsset
    Faults = {"put", "stat", "loss", "engine", "result"}
SPECIFICATION Spec
SYMMETRY Symmetry
INVARIANTS ReferentialIntegrity CompensatesUnlessClaimed RunningIsOwned ConflictsAreExplained
PROPERTIES ImplementsAnalysisClaims
