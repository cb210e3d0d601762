SPECIFICATION FairSpec
CONSTANTS
    Handlers = {h1, h2}
    Timers = {t1, t2}
    Messages = {m1, m2}
    NoTimer = NoTimer
    NoRecord = NoRecord
    NoChallenge = NoChallenge
    Timeout = 3
    Grace = 1
    MaxUpdates = 2
    Entrances = {"request", "join", "admin"}
    Calm = TRUE
    MayCrash = FALSE
    TelegramMayFail = FALSE
    RedisMayFail = FALSE
INVARIANT UnverifiedIsWatched
INVARIANT NothingLeftBehind
PROPERTY NoEarlyRemoval
PROPERTY RequestIsResolved
PROPERTY MutedIsResolved
