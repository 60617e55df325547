SPECIFICATION FairSpec
CONSTANTS
    a = a  b = b
    c1 = c1  c2 = c2  c3 = c3
    Ids = {1, 2, 3, 4}
    Tags = {a, b}
    Calls = {c1, c2, c3}
    Op <- MCOp
    Target <- MCTarget
    List <- MCList
    Uploaded <- MCUploaded
    Walks <- MCWalks
    MaxLimit = 3
    MaxLoad = 3
    WalkLoad = 3
    MaxOutages = 1
    MaxPools = 2
CHECK_DEADLOCK FALSE
INVARIANTS TypeOK TagLostOnlyToRacer ExportMisses ExportAdds AnswerAgrees
PROPERTY ExportEnds
