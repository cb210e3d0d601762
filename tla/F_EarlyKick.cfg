SPECIFICATION Spec
CONSTANTS
    Handlers = {h1, h2}
    Contents = {x, y}
    MaxPosts = 4
    Threshold = 2
    MaxTracked = 3
    Window = 2
    WarningTTL = 3
    Grace = 2
    None = None
    Calm = TRUE
    MayCrash = FALSE
    TelegramMayFail = FALSE
    RedisMayFail = FALSE
PROPERTY KickAfterGrace
SYMMETRY Symmetry
