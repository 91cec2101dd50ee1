CONSTANTS
    Keys = {w1, w2, root, bank}
    Wallets = {w1, w2}
    Officials = {root}
    Vaults = {bank}
    InitialLamports <- MCLamports
    SystemRent = 2
    ConfigRent = 1
    AgentRent = 1
    TokenRent = 1
    VaultRent = 2
    Revenue = {2, 5}
    MaxEarned = 7
    MaxPayees = 3
    MaxClock = 1
    SECONDS_PER_DAY = 1
    FeeArgs = {0}
    ShareArgs = {0, 1, 3}
    LimitArgs = {0}
    CapArgs = {1}
    MAX_FEE_BPS = 1
    BPS_DENOMINATOR = 4
    U16_MAX = 7
    U64_MAX = 7
    NoConfig = NoConfig
    NoAgent = NoAgent
    NoKey = NoKey
    NoAccount = NoAccount
    NoPayout = NoPayout
SPECIFICATION RewardsSpec
INVARIANTS
    RewardsTypeOK
    NothingLost
    PayoutReachable
PROPERTIES
    PayoutIsFixed
    VaultKeepsReserve
SYMMETRY MCSymmetry
