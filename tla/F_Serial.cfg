SPECIFICATION Spec
CONSTANTS
    Handlers = {h1}
    Contents = {x, y}
    MaxPosts = 7
    Threshold = 2
    MaxTracked = 3
    Window = 2
    WarningTTL = 3
    Grace = 2
    None = None
    Calm = TRUE
    MayCrash = FALSE
    TelegramMayFail = TRUE
    RedisMayFail = FALSE
INVARIANT MarkIsDelivered
PROPERTY SeriesIsNoticed
PROPERTY KickIsWarned
PROPERTY KickAfterGrace
SYMMETRY Symmetry
