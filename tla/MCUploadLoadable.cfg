SPECIFICATION Spec
CONSTANTS
    r1 = r1  r2 = r2
    i1 = i1  i2 = i2  i3 = i3
    u1 = u1  u2 = u2  u3 = u3
    raw = raw  jpg = jpg  tiny = tiny
    Roofs = {r1, r2}
    Ids = {i1, i2}
    Contents = {raw, jpg, tiny}
    Uploads = {u1, u2}
    Authors = {u1, u2}
    Recode <- MCRecode
    NoRoof = NoRoof
    NoId = NoId
    Faults = {}
PROPERTY StoredIsLoadable
