SPECIFICATION FairSpec
CONSTANTS
    r1 = r1
    r2 = r2
    r3 = r3
    r4 = r4
    w1 = w1
    w2 = w2
    w3 = w3
    m = m
    None = None
    Requests = {r1, r2, r3}
    Workers = {w1, w2}
    WorkerOf <- CrowdWorkerOf
    MatchupOf <- OneMatchup
    MayBeUnknown = {}
    VersionOf <- OneVersion
    CacheEnabled <- CacheOn
    MaxPolls = 1
    Faults = {"redis", "crash", "ttl", "evict"}
INVARIANTS
    HolderKeepsLock
    OneHolder
PROPERTIES
    EverySurvivorIsAnswered
