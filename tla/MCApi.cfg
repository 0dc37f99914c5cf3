SPECIFICATION FairSpec
CONSTANTS
    alice = alice
    r1 = r1
    r2 = r2
    w1 = w1
    w2 = w2
    Users = {alice}
    Limit = 2
    Requests = {r1, r2}
    Workers = {w1, w2}
    Routes = {"payment", "address", "list"}
    Works = {"confirm", "scan"}
    PoolSize = 2
    MaxRetries = 2
INVARIANTS
    IInv
    DecrementFindsEntry
    BurstIsBounded
    StuckOnlyByNesting
PROPERTIES
    LimitLifts
    TasksEnd
