CONSTANTS
    Keys = {w1, root, bank}
    Wallets = {w1}
    Officials = {root}
    Vaults = {bank}
    InitialLamports <- MCLamports
    InitialReserves <- MCReserves
    SystemRent = 1
    ConfigRent = 0
    AgentRent = 0
    TokenRent = 1
    VenueRent = 0
    MaxClock = 5
    SECONDS_PER_DAY = 2
    Amounts = {1}
    FeeArgs = {0}
    ShareArgs = {0}
    LimitArgs = {1}
    CapArgs = {1}
    MAX_FEE_BPS = 1
    BPS_DENOMINATOR = 2
    U16_MAX = 3
    U64_MAX = 7
    NoConfig = NoConfig
    NoAgent = NoAgent
    NoKey = NoKey
    NoAccount = NoAccount
    NoEvent = NoEvent
SPECIFICATION WindowSpec
INVARIANT RollingWindow
