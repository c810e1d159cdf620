SPECIFICATION FairSpec
CONSTANTS
    host = host
    httpHost = httpHost
    httpsHost = httpsHost
    u1 = u1
    u2 = u2
    u3 = u3
    u4 = u4
    u5 = u5
    Workers = {w1, w2}
    Urls = {u1, u2, u3, u4, u5}
    DomainOf <- OneHost
    OriginOf <- TwoOrigins
    Policy <- ForbidsBoth
    RobotsUrls = {u2}
    Obey = TRUE
    Delay = 2
    NoUrl = NoUrl
    OurUA <- UA
    Alphabet <- SomeLetters
    FileOf <- TwoFiles
    PathOf <- SomePaths
    Files <- FourLines
    Paths <- ThreePaths
INVARIANTS
    TypeOK
    RobotsExact
    RobotsFollowed
    LoadsBounded
PROPERTIES
    EveryPageEnds
    PerWorkerGap
CHECK_DEADLOCK FALSE
