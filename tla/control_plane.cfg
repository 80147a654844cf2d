SPECIFICATION Spec
CONSTANTS
    Crawls = {c1, c2}
    Requests = {r1, r2}
    Stoppable = {c1}
    Posted = {c1}
INVARIANTS
    TypeOK
    StatusEarned
PROPERTIES
    AnswerIsFinal
    CrawlSettles
