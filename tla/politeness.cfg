SPECIFICATION Spec
CONSTANTS
    Tasks = {"t1", "t2", "t3", "t4"}
    Hosts <- MCHosts
    Limit = 3
    PerHost = 2
    Delay <- MCDelay
    Retries = 1
INVARIANTS
    TypeOK
    PermitsConserved
    BucketExclusive
PROPERTIES
    GrantsSpaced
    EveryTaskServed
