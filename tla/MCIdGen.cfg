SPECIFICATION Spec
CONSTANTS
    s1 = s1  s2 = s2
    Sessions = {s1, s2}
    SeqMod = 3
    ShardMod = 2
    ShardId = 1
    Epoch = 1
    Second = 2
    Lag = 1
    MaxMillis = 3
    MaxDraws = 4
SYMMETRY MCSymmetry
INVARIANTS TypeOK UniqueIds RepeatNeedsLap SplitInverts
