CONSTANTS
    p1 = p1
    p2 = p2
    p3 = p3
    Caller = {p1, p2, p3}
    Accounts = 2
    Rings <- MCRings
    ResealBatch = 2
    ClaimsTTL = 1
    SyncInterval = 1
    MaxTokens = 5
    TokenTime = 3
    Work <- LongLived
    Key = {"access", "storage", "other"}
    BoolKey = {"access"}
    LimitKey = {"storage"}
    MaxKeys = 2
    MaxInt = 3
    Default <- MCDefault
    Puller = {"run", "boot"}
    Run = "run"
    MaxChanges = 2
    Feed <- MCFeed
    Interval = 1
    SlowDownStep = 1
    ExpiresIn = 4
    LastBeat = 7
    MaxSlow = 2
    ApiKey = {"metered"}
    DailyQuota <- MCQuota
    Holder = {"h1", "h2", "h3"}
    LastDay = 1
    MaxServed = 4
    Kid = {"k1", "k2"}
    FirstKid = "k1"
    Lookup = {"v1", "v2"}
    CacheTTL = 3
    Gap = 2
    LastMoment = 4
    Member = {"ann", "bob", "cid"}
    NoMember = "nobody"
    Role = {"", "viewer", "admin", "owner"}
    Listed <- MCListed
SPECIFICATION TokensAlone
INVARIANT RevokedInTime
CHECK_DEADLOCK FALSE
