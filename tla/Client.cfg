CONSTANTS
    Keys = {agent, root, bank}
    Wallets = {agent}
    Agent = agent
    Officials = {root}
    Vaults = {bank}
    InitialLamports <- MCLamports
    InitialReserves <- MCStocked
    SystemRent = 1
    ConfigRent = 0
    AgentRent = 0
    TokenRent = 3
    VenueRent = 0
    MaxClock = 1
    SECONDS_PER_DAY = 1
    Amounts = {4, 6}
    BuySizes = {4, 6}
    FeeArgs = {1}
    ShareArgs = {0}
    LimitArgs = {6, 12}
    CapArgs = {6}
    MAX_FEE_BPS = 1
    BPS_DENOMINATOR = 4
    U16_MAX = 31
    U64_MAX = 31
    TradeBps = 2
    DailyBps = 3
    ReserveLamports = 2
    BPS = 4
    Runs = {c1, c2}
    Skews = {0}
    LongLived = FALSE
    MaxBuys = 2
    MaxTroubles = 1
    NoVault = NoVault
    NoTrade = NoTrade
    Unread = Unread
    NoConfig = NoConfig
    NoAgent = NoAgent
    NoKey = NoKey
    NoAccount = NoAccount
    NoEvent = NoEvent
SPECIFICATION MCClientSpec
INVARIANTS
    ClientTypeOK
    FreshBuyFits
    NothingLeftWrapped
    OverrunBounded
PROPERTIES
    ImplementsOwnDay
CHECK_DEADLOCK FALSE
VIEW MCView
SYMMETRY MCSymmetry
