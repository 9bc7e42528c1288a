CONSTANTS
    Documents = {d1, d2}
    Keys = {k1, k2, k3, k4}
    Requests = {p, q, r}
    MaxVersions = 3
    NoDocument = NoDocument
    NoKey = NoKey
SPECIFICATION Spec
SYMMETRY Symmetry
INVARIANTS Inductive VersionKeepsObject CurrentIsLatest OrphansExplained
PROPERTY ImplementsVersionLog
\* identifiers and version numbers run out
CHECK_DEADLOCK FALSE
