SPECIFICATION FairSpec
CONSTANTS
    q1 = q1  q2 = q2  q3 = q3
    c100 = c100  w60 = w60
    Requests = {q1, q2}
    Sizes = {c100, w60}
    Orig = Orig
    Bad = Bad
    Nobody = Nobody
    Faults = {"engine", "disk", "lock", "crash"}
PROPERTY GetAnswered
