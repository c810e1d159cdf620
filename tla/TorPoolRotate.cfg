SPECIFICATION Spec
CONSTANTS
    Endpoints <- BothProxies
    Config <- TwoProxies
    Threads = {t1, t2}
    Cooldown = 1
    RotateInterval = 1
    OnionRetries = 1
    None = None
    MaxTime = 2
    MaxFetches = 1
    MaxChanges = 0
    Wrap = 16
    Given <- RotateEvery1
    CommandLines <- ShortLines
PROPERTIES
    RotationReprobes
CHECK_DEADLOCK FALSE
