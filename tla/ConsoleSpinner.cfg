SPECIFICATION CFairSpec
CONSTANTS
    Docs = {d1, d2}
    Demo = {d1}
    Passwords = {p1}
    NoPassword = NoPassword
    MaxCount = 2
    MaxSaves = 0
    NoJob = NoJob
    NoResult = NoResult
    Pages = {d2}
    WorkerCount = 1
    LogCapacity = 1
    NoCount = NoCount
PROPERTIES
    StartupEnds
CHECK_DEADLOCK FALSE
