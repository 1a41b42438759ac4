SPECIFICATION Spec
CONSTANTS
    r1 = r1
    r2 = r2
    r3 = r3
    r4 = r4
    w1 = w1
    w2 = w2
    w3 = w3
    m = m
    None = None
    Requests = {r1, r2, r3, r4}
    Workers = {w1, w2, w3}
    WorkerOf <- RedeployWorkerOf
    MatchupOf <- OneMatchup
    MayBeUnknown = {r1}
    VersionOf <- RedeployVersionOf
    CacheEnabled <- RedeployCacheEnabled
    MaxPolls = 2
    Faults = {"redis", "render", "crash"}
INVARIANTS
    TypeOK
    NoLeakedLock
    CachedImageIsComposed
PROPERTIES
    ImplementsService
    AnsweredIsNotComposedAgain
