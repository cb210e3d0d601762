SPECIFICATION FairSpec
CONSTANTS
    Messages = {m1, m2}
    Delay = 2
    Grace = 2
    MayCrash = TRUE
    TelegramMayFail = TRUE
    RedisMayFail = TRUE
INVARIANT TypeOK
INVARIANT RecordHasTask
PROPERTY JobsAreDurable
PROPERTY JobIsCarriedOut
PROPERTY WarningIsTried
