SPECIFICATION DiscordSpec
CONSTANTS
    None = None
    c1 = c1
    c2 = c2
    Emotes = TRUE
    Ids <- Images
    RequestCap = 2
    CacheCap = 2
    MaxGeneration = 3
    MaxTokens = 3
    Faults = {3}
    Players = {1, 2, 3}
    PlayerStates <- PlayerModes
    CandidateLimit = 2
    MediaCapacity = 1
    MediaBudgets <- Clicks
    Items = {"i1"}
    MarketCapacity = 2
    MarketBudgets <- MarketUses
    Day = 4
    Night = 2
    VallisLoop = 3
    VallisCold = 2
    ZarimanHalf = 2
    DayLength = 4
    Minute = 2
    Offset = 1
    PollInterval = 3
    BackoffInitial = 1
    BackoffMax = 2
    ForceMin = 2
    Ttl = 2
    PhaseSteps = 4
    Invasions = {1, 2}
    Lag = 1
    MaxTime = 9
    WorldBudgets <- WorldUses
INVARIANTS
    DisablingClearsChannel
CHECK_DEADLOCK FALSE
