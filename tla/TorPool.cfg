SPECIFICATION Spec
CONSTANTS
    Endpoints <- BothProxies
    Config <- TwoProxies
    Threads = {t1, t2}
    Cooldown = 1
    RotateInterval = 2
    OnionRetries = 1
    None = None
    MaxTime = 2
    MaxFetches = 1
    MaxChanges = 1
    Wrap = 16
    Given <- RotateEvery2
    CommandLines <- ShortLines
INVARIANTS
    TypeOK
    OnionOnlyThroughProxy
    LoadBalanced
    ConfigAsGiven
PROPERTIES
    FailedStaysOut
    ClocksMonotone
CHECK_DEADLOCK FALSE
