SPECIFICATION Spec
CONSTANTS
    t1 = t1
    t2 = t2
    t3 = t3
    None = None
    Closed = Closed
    Same = Same
    Tasks = {t1, t2, t3}
    Kinds = {"rewrite", "regenerate", "refresh", "deliver", "discard"}
    MaxUploads = 4
    MaxVersions = 2
    Failures = TRUE
SYMMETRY Symmetry
CHECK_DEADLOCK FALSE
INVARIANTS
    DanglingHasCause
    NoWeakEvidence
PROPERTIES
    KeptUntilReleased
