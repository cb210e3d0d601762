SPECIFICATION Spec
CONSTANTS
    Handlers = {h1, h2}
    Timers = {t1, t2}
    Messages = {m1, m2}
    NoTimer = NoTimer
    NoRecord = NoRecord
    NoChallenge = NoChallenge
    Timeout = 1
    Grace = 1
    MaxUpdates = 1
    Entrances = {"join"}
    Calm = FALSE
    MayCrash = TRUE
    TelegramMayFail = FALSE
    RedisMayFail = TRUE
INVARIANT TypeOK
INVARIANT MarkerIsEarned
INVARIANT RegistryTracksLiveTimer
SYMMETRY Symmetry
