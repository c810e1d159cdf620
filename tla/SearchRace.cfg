SPECIFICATION SSpec
CONSTANTS
    u1 = u1
    u2 = u2
    u3 = u3
    t1 = t1
    t2 = t2
    short = short
    long = long
    blank = blank
    Urls = {u1, u2}
    Terms = {t1, t2}
    Versions = {short, long, blank}
    Title <- SomeTitles
    Text <- SomeTexts
    Corpora <- SomeCorpora
    Spelling <- SomeSpelling
    TitleBytes <- SomeTitleBytes
    TextBytes <- SomeTextBytes
    Queries <- SomeQueries
    Texts <- EdgeTexts
    CodePoints <- EdgeCodePoints
    MaxWrites = 2
    MaxLoads = 1
    Searchers = {s1}
    MaxSearches = 1
    NoTerm = NoTerm
    NoId = NoId
    Numbers <- SomeNumbers
    Rounded <- SixDigits
    MaxQueryLength = 1
INVARIANTS
    NeverUndefined
CHECK_DEADLOCK FALSE
