SPECIFICATION Spec
CONSTANTS
    home = home
    about = about
    news = news
    blog = blog
    URLs = {home, about, news, blog}
    Seeds = {home, news}
    Workers = {w1, w2}
    Stoppers = {s1}
    MaxPages = 3
    MaxDepth = 2
    Priorities <- DefaultPriority
    Links <- MCLinks
    BloomBits <- MCBloomBits
    MaxCallbacks = 0
    NoItem = NoItem
PROPERTIES
    SingleDuplicateCostsNothing
CHECK_DEADLOCK FALSE
