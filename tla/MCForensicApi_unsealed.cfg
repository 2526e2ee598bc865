\* A compensation resets the case between the stale read and the write of another upload.
CONSTANTS
    Case = {k1}
    Content = {c1, c2}
    Upload = {u1, u2, u3}
    Analysis = {}
    Reconciler = {}
    NoAsset = NoAsset
    Faults = {"loss"}
SPECIFICATION Spec
SYMMETRY Symmetry
INVARIANTS EvidenceSealsCase
