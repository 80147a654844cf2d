SPECIFICATION Spec
CONSTANTS
    t1 = t1
    t2 = t2
    t3 = t3
    Tasks <- MCTasks
    Proc <- MCProc
    Hosts = {"h"}
    Elsewhere = "other"
    Host <- MCHost
    Ttl = 2
    Capacity = 1
    DefaultDelay = 1
    CrawlDelay = 2
    BucketTtl = 2
    Skew <- MCSkew
    MaxLag = 1
    Waiting = {t3}
    Budget = 1
    NoValue = NoValue
SYMMETRY Symmetric
INVARIANTS
    CapsHold
    RobotsFresh
PROPERTY TokensSpaced
