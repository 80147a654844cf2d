SPECIFICATION Spec
CONSTANTS
    Workers = {w1, w2, w3}
    Urls <- MCUrls
    Seeds <- MCSeeds
    Links <- MCLinksRedirect
    Canon <- MCCanon
    Domain <- MCDomain
    TooLong <- MCTooLong
    AllowedDomains = NoList
    NoList = NoList
    SameDomainOnly = TRUE
    Text <- MCText
    NotHtml = NotHtml
    NoItem = NoItem
    Conditional = TRUE
    Width = 6
    BandCount = 3
    Threshold = 1
    Names <- MCNames
    Paths <- MCPaths
    Queries = {"utm", "id"}
    Web = {"http"}
    Skipped = {"mailto"}
    Lower <- MCLower
    Encoded <- MCEncoded
    Quoted <- MCQuoted
    Cleaned <- MCCleaned
    Refused = {}
    Joined <- MCJoined
    Registered <- MCRegistered
    Empty = Empty
    NoUrl = NoUrl
    MaxDepth = 2
    MaxPages = 3
INVARIANTS
    TypeOK
    Accounting
    JoinIsSound
    EachUrlOnce
    OvershootBound
    StatsTruthful
    DepthHasProvenance
    FinishedIsClosed
    OneBodyPerContent
PROPERTIES
    CrawlQuiesces
    ImplementsWorkPool
