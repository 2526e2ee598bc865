\* Two uploads of the same new content to two cases.
CONSTANTS
    Case = {k1, k2}
    Content = {c1}
    Upload = {u1, u2}
    Analysis = {}
    Reconciler = {}
    NoAsset = NoAsset
    Faults = {}
SPECIFICATION Spec
SYMMETRY Symmetry
INVARIANTS NoSpuriousOutage
