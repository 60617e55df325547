SPECIFICATION FairSpec
CONSTANTS
    r1 = r1  r2 = r2
    p = p  b1 = b1  b2 = b2
    x = x  y = y  big = big
    j1 = j1  j2 = j2
    Roofs = {r1, r2}
    Ids = {1, 2, 3}
    Contents = {x, y, big}
    TooBig = {big}
    AsIs = {x}
    Prefixes = {p}
    Buckets = {b1, b2}
    Configs <- MCConfigs
    Requests <- MCRequests
    Jobs = {j1, j2}
    None = None
    NoSize = NoSize
    Failed = Failed
    MaxRestarts = 1
    MaxLost = 1
CHECK_DEADLOCK FALSE
INVARIANTS TypeOK PulledIsOwn AnswerIsComplete
PROPERTIES JobEnds ImplementsRegistry
