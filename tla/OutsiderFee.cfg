CONSTANTS
    Keys = {w1, w2, root, heir, bank}
    Wallets = {w1, w2}
    Officials = {root, heir}
    Vaults = {bank}
    InitialLamports <- MCLamports
    SystemRent = 1
    TokenRent = 1
    NoAccount = NoAccount
    ConfigRent = 1
    AgentRent = 1
    MaxClock = 1
    SECONDS_PER_DAY = 2
    FeeArgs = {0, 300, 301}
    ShareArgs = {0, 6000, 10001}
    LimitArgs = {3, 5}
    CapArgs = {0, 4}
    MAX_FEE_BPS = 300
    BPS_DENOMINATOR = 10000
    U16_MAX = 65535
    U64_MAX = 100000
    NoConfig = NoConfig
    NoAgent = NoAgent
    NoKey = NoKey
SPECIFICATION RegistrySpec
PROPERTIES
    OutsidersFollowConfigFee
SYMMETRY MCSymmetry
