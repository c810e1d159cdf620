SPECIFICATION CSpec
CONSTANTS
    Docs = {d1, d2, d3}
    Demo = {d1}
    Passwords = {p1, p2}
    NoPassword = NoPassword
    MaxCount = 2
    MaxSaves = 2
    NoJob = NoJob
    NoResult = NoResult
    Pages = {d2, d3}
    WorkerCount = 1
    LogCapacity = 1
    NoCount = NoCount
INVARIANTS
    CTypeOK
    SavedIsLoadable
PROPERTIES
    DashboardCovers
    LoadsAreWhole
    ServedIsWhole
CHECK_DEADLOCK FALSE
SYMMETRY PasswordSymmetry
