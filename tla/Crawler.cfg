SPECIFICATION FairSpec
CONSTANTS
    home = home
    about = about
    news = news
    blog = blog
    URLs = {home, about, news, blog}
    Seeds = {home, blog}
    Workers = {w1, w2}
    Stoppers = {s1, s2}
    MaxPages = 3
    MaxDepth = 1
    Priorities <- MCPriorities
    Links <- MCLinks
    BloomBits <- MCBloomBits
    MaxCallbacks = 1
    NoItem = NoItem
INVARIANTS
    TypeOK
    CountersExact
    ExactlyOnce
    NoLostWakeup
    RefusesOnlyForCause
    DepthProvenance
    ReportsAgree
    JoinedMeansDrained
PROPERTIES
    QuietAfterJoin
    ImplementsContract
CHECK_DEADLOCK FALSE
