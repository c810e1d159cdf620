SPECIFICATION SSpec
CONSTANTS
    u1 = u1
    u2 = u2
    u3 = u3
    t1 = t1
    t2 = t2
    short = short
    long = long
    blank = blank
    Urls = {u1, u2, u3}
    Terms = {t1, t2}
    Versions = {short, long, blank}
    Title <- SomeTitles
    Text <- SomeTexts
    Corpora <- SomeCorpora
    Spelling <- SomeSpelling
    TitleBytes <- SomeTitleBytes
    TextBytes <- SomeTextBytes
    Queries <- SomeQueries
    Texts <- EdgeTexts
    CodePoints <- EdgeCodePoints
    MaxWrites = 3
    MaxLoads = 2
    Searchers = {s1}
    MaxSearches = 1
    NoTerm = NoTerm
    NoId = NoId
    Numbers <- SomeNumbers
    Rounded <- SixDigits
    MaxQueryLength = 1
INVARIANTS
    STypeOK
    IndexExact
    QuietSearchExact
    ResultsWereScored
    FoundAsTyped
    TokenizerSound
    GatewayAnswers
PROPERTIES
    ImplementsCorpus
CHECK_DEADLOCK FALSE
