SPECIFICATION Spec
CONSTANTS
    r1 = r1  r2 = r2
    i1 = i1  i2 = i2  i3 = i3
    u1 = u1  u2 = u2  u3 = u3
    raw = raw  jpg = jpg  tiny = tiny
    Roofs = {r1, r2}
    Ids = {i1, i2, i3}
    Contents = {raw, jpg, tiny}
    Uploads = {u1, u2, u3}
    Authors = {u1, u2, u3}
    Recode <- MCRecode
    NoRoof = NoRoof
    NoId = NoId
    Faults = {"lookup", "tx", "commit", "nextId", "save", "push", "crash", "wrongRoof"}
SYMMETRY MCSymmetry
INVARIANTS
    TypeOK HashRowsSound AnsweredWithOwnBytes BlobBacked PreparedRecoverable
    DeletedIsGone AuthorUploadedIt LostOnlyToTwin ListedIsStored
    BrowsableIffMapped IInv
PROPERTY ImplementsRegistry
