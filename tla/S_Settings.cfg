SPECIFICATION Spec
CONSTANTS
    Chats = {c1, c2}
    Tasks = {t1, t2}
    Default = "delete"
    Targets = {g1}
    Everywhere = Everywhere
    None = None
    Unknown = Unknown
    MayCrash = TRUE
    RedisMayFail = TRUE
INVARIANT TypeOK
INVARIANT PromiseStands
INVARIANT ReadWasInForce
SYMMETRY Symmetry
