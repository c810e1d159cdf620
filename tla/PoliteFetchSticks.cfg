SPECIFICATION Spec
CONSTANTS
    host = host
    httpHost = httpHost
    httpsHost = httpsHost
    u1 = u1
    u2 = u2
    u3 = u3
    u4 = u4
    u5 = u5
    Workers = {w1, w2}
    Urls = {u1, u2, u3}
    DomainOf <- OneHost
    OriginOf <- OneOrigin
    Policy <- ForbidsAll
    RobotsUrls = {}
    Obey = TRUE
    Delay = 2
    NoUrl = NoUrl
    OurUA <- UA
    Alphabet <- SomeLetters
    FileOf <- OneFile
    PathOf <- SomePaths
    Files <- FourLines
    Paths <- ThreePaths
INVARIANTS
    PolicySticks
CHECK_DEADLOCK FALSE
