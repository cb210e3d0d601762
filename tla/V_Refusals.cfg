SPECIFICATION Spec
CONSTANTS
    Handlers = {h1, h2}
    Timers = {t1, t2}
    Messages = {m1, m2}
    NoTimer = NoTimer
    NoRecord = NoRecord
    NoChallenge = NoChallenge
    Timeout = 3
    Grace = 1
    MaxUpdates = 1
    Entrances = {"request", "join", "admin"}
    Calm = TRUE
    MayCrash = TRUE
    TelegramMayFail = TRUE
    RedisMayFail = FALSE
INVARIANT PendingIsWatched
INVARIANT TimerIsTimely
SYMMETRY Symmetry
