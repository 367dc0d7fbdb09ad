SPECIFICATION FairSpec
CONSTANTS
    a1 = a1
    a2 = a2
    g1 = g1
    g2 = g2
    f1 = f1
    x1 = x1
    h1 = h1
    h2 = h2
    h3 = h3
    NoItem = NoItem
    Agents = {a1, a2}
    Items = {g1, g2, f1}
    Hashes = {h1, h2, h3}
    KindOf <- Kind
    HashOf <- Hash
    Tools = {"github", "rss"}
    Commands <- Lists
    Failures = TRUE
    Cancels = TRUE
CHECK_DEADLOCK FALSE
INVARIANTS
    OneLiveDraftPerItem
    ReportIsComplete
    EveryItemAccounted
PROPERTIES
    RunRowCloses
