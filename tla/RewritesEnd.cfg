SPECIFICATION FairSpec
CONSTANTS
    m1 = m1
    m2 = m2
    origin = origin
    Runs = {m1, m2}
    Origin = origin
    HasOrigin = FALSE
    Requests = {"rewrite","review"}
    Modes = {"auto"}
    Failures = TRUE
    Sweeps = TRUE
    MaxJobs = 1
    MaxReviews = 4
    MaxCalls = 1
    MaxVersion = 5
CHECK_DEADLOCK FALSE
PROPERTIES
    NeverLocked
