SPECIFICATION Spec
CONSTANTS
    Workers = {w1, w2}
    Urls <- MCUrls
    Seeds <- MCSeeds
    Links <- MCLinks
    Text <- MCText
    NotHtml = NotHtml
    Width = 4
    BandCount = 2
    Threshold = 1
    Hash <- MCHash
    BloomSize = 8
    BloomHashes = 2
    Validators = {"s"}
    Partitions = {"p0", "p1"}
    PartitionFor <- MCPartitionFor
    RetryPart = "retry"
    MaxDepth = 1
    MaxRetries = 1
    BatchSize = 3
    MaxFaults = 2
    MaxRebalances = 1
INVARIANTS
    TypeOK
    CommittedIsHandled
    ChildEnqueuedOnce
    DlqAfterAllRetries
    NoUrlLost
PROPERTY FleetDrains
