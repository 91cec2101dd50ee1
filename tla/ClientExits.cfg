CONSTANTS
    Keys = {agent, root, bank, bank2}
    Wallets = {agent}
    Agent = agent
    Officials = {root}
    Vaults = {bank, bank2}
    InitialLamports <- MCLamports
    InitialReserves <- MCReserves
    SystemRent = 1
    ConfigRent = 0
    AgentRent = 0
    TokenRent = 1
    VenueRent = 0
    MaxClock = 0
    SECONDS_PER_DAY = 1
    Amounts = {0, 2}
    BuySizes = {2}
    FeeArgs = {1}
    ShareArgs = {0}
    LimitArgs = {6}
    CapArgs = {4}
    MAX_FEE_BPS = 1
    BPS_DENOMINATOR = 2
    U16_MAX = 31
    U64_MAX = 31
    TradeBps = 1
    DailyBps = 2
    ReserveLamports = 2
    BPS = 4
    Runs = {c1, c2}
    Skews = {0}
    LongLived = FALSE
    MaxBuys = 1
    MaxTroubles = 2
    NoVault = NoVault
    NoTrade = NoTrade
    Unread = Unread
    NoConfig = NoConfig
    NoAgent = NoAgent
    NoKey = NoKey
    NoAccount = NoAccount
    NoEvent = NoEvent
SPECIFICATION MCFairClientSpec
PROPERTY ExitsLand
CHECK_DEADLOCK FALSE
