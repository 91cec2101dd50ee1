CONSTANTS
    Keys = {w1, root, bank, spare}
    Wallets = {w1}
    Officials = {root}
    Vaults = {bank, spare}
    CLERK = w1
    VAULT = bank
    CAP = 2
    Small = 1
    Tenth = 2
    InitialLamports <- MCLamports
    InitialReserves <- MCReserves
    SystemRent = 1
    ConfigRent = 1
    AgentRent = 0
    TokenRent = 1
    VenueRent = 0
    VaultRent = 1
    Revenue = {3}
    MaxEarned = 3
    MaxPayees = 1
    MaxClock = 1
    SECONDS_PER_DAY = 1
    Amounts = {2}
    FeeArgs = {1, 2}
    ShareArgs = {0, 1, 3}
    LimitArgs = {3}
    CapArgs = {2, 3}
    MAX_FEE_BPS = 1
    BPS_DENOMINATOR = 2
    U16_MAX = 3
    U64_MAX = 7
    NoConfig = NoConfig
    NoAgent = NoAgent
    NoKey = NoKey
    NoAccount = NoAccount
    NoEvent = NoEvent
    NoPayout = NoPayout
SPECIFICATION RouterSpec
INVARIANTS
    EveryLamport
    DrillVerdict
    ErrorsAgree
PROPERTIES
    RevenueStays
