SPECIFICATION Spec
CONSTANTS
    Urls <- MCUrls
    Handlers = {h1, h2}
    Serves <- MCServes
    Class <- MCClass
    NotHtml = 0
    Links <- MCLinks
    Validated = {"a"}
    NoValue = NoValue
    Limit = 2
    MaxFaults = 1
INVARIANTS
    TypeOK
    BodyAvailable
    DegreesWithinEdges
PROPERTY EventuallyFresh
