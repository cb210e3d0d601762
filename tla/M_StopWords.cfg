SPECIFICATION FairSpec
CONSTANTS
    Handlers = {h1, h2}
    Texts = {x}
    MaxPosts = 2
    MarkTTL = 2
    CacheTTL = 1
    None = None
    Faults = {"telegram", "redis", "llm", "restart"}
INVARIANT TypeOK
INVARIANT MarkIsDelivered
INVARIANT KickIsNotABan
PROPERTY KickIsRepeat
PROPERTY KickIsWarned
PROPERTY PostIsJudged
PROPERTY SpamIsAnswered
