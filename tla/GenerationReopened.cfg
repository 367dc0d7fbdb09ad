SPECIFICATION FairSpec
CONSTANTS
    p1 = p1
    p2 = p2
    Pictures = {p1, p2}
    MaxAttempts = 2
    TextLimit = 1
    PictureLimit = 1
    Grace = 1
    AutoReview = TRUE
    Rewrites = TRUE
    Prompt = FALSE
    Failures = TRUE
INVARIANTS
    TypeOK
    FinalizedOnce
    ClosedByTheLast
    ReviewsWhatIsDone
PROPERTIES
    RunEnds
