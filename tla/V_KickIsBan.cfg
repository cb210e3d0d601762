SPECIFICATION Spec
CONSTANTS
    Handlers = {h1, h2}
    Timers = {t1, t2}
    Messages = {m1, m2}
    NoTimer = NoTimer
    NoRecord = NoRecord
    NoChallenge = NoChallenge
    Timeout = 2
    Grace = 1
    MaxUpdates = 1
    Entrances = {"join"}
    Calm = TRUE
    MayCrash = FALSE
    TelegramMayFail = FALSE
    RedisMayFail = FALSE
INVARIANT RemovalIsNotABan
