SPECIFICATION FairSpec
CONSTANTS
    m1 = m1
    m2 = m2
    origin = origin
    Runs = {m1, m2}
    Origin = origin
    HasOrigin = TRUE
    Requests = {"rewrite","pictures","web"}
    Modes = {"auto","snapshot"}
    Failures = FALSE
    Sweeps = FALSE
    MaxJobs = 2
    MaxReviews = 1
    MaxCalls = 1
    MaxVersion = 4
CHECK_DEADLOCK FALSE
PROPERTIES
    WrittenIsReported
