SPECIFICATION Spec
CONSTANTS
    m1 = m1
    m2 = m2
    origin = origin
    Runs = {m1, m2}
    Origin = origin
    HasOrigin = FALSE
    Requests = {"rewrite","review","pictures","web"}
    Modes = {"auto","snapshot"}
    Failures = TRUE
    Sweeps = TRUE
    MaxJobs = 2
    MaxReviews = 2
    MaxCalls = 2
    MaxVersion = 4
SYMMETRY Symmetry
CHECK_DEADLOCK FALSE
INVARIANTS
    TypeOK
    WritersExclude
    
VIEW Essential
