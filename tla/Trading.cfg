CONSTANTS
    Keys = {w1, root, bank}
    Wallets = {w1}
    Officials = {root}
    Vaults = {bank}
    InitialLamports <- MCLamports
    InitialReserves <- MCReserves
    SystemRent = 1
    ConfigRent = 0
    AgentRent = 0
    TokenRent = 1
    VenueRent = 1
    MaxClock = 1
    SECONDS_PER_DAY = 1
    Amounts = {0, 1, 2}
    FeeArgs = {1}
    ShareArgs = {0}
    LimitArgs = {1, 3}
    CapArgs = {2}
    MAX_FEE_BPS = 1
    BPS_DENOMINATOR = 2
    U16_MAX = 3
    U64_MAX = 3
    NoConfig = NoConfig
    NoAgent = NoAgent
    NoKey = NoKey
    NoAccount = NoAccount
    NoEvent = NoEvent
SPECIFICATION TradingSpec
INVARIANTS
    TradingTypeOK
    BudgetOnRecord
PROPERTIES
    ImplementsAllowance
    TradeSettles
    LossBounded
