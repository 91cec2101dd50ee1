CONSTANTS
    Keys = {clerk, other, root, heir, bank}
    Wallets = {clerk, other}
    Officials = {root, heir}
    Vaults = {bank}
    Operators = {o1, o2}
    Shells = {o1, o2}
    o1 = o1
    KeyOf <- MCKeyOf
    FUNDER = root
    RIVAL = heir
    CLERK = clerk
    OUTSIDER = other
    VAULT = bank
    FEE_BPS = 1
    MAX_PER_TRADE = 1
    DEFAULT_DAILY = 3
    CLERK_DAILY = 5
    CLERK_REWARD_BPS = 2
    CLERK_FEE_BPS = 0
    NewFees = {2}
    MaxOthers = 2
    ASKED = 4
    LOWER = 2
    STAGE = 3
    MaxTroubles = 2
    InitialLamports <- MCLamports
    SystemRent = 1
    ConfigRent = 2
    AgentRent = 1
    TokenRent = 1
    VaultRent = 3
    Revenue = {2, 3}
    MaxEarned = 5
    MaxPayees = 1
    MaxClock = 1
    SECONDS_PER_DAY = 1
    FeeArgs = {0, 3}
    ShareArgs = {0, 3}
    LimitArgs = {0, 5}
    CapArgs = {0, 1}
    MAX_FEE_BPS = 2
    BPS_DENOMINATOR = 4
    U16_MAX = 7
    U64_MAX = 7
    Idle = Idle
    NoConfig = NoConfig
    NoAgent = NoAgent
    NoKey = NoKey
    NoAccount = NoAccount
    NoPayout = NoPayout
    NoReport = NoReport
    NotRunning = NotRunning
SPECIFICATION ScriptsSpec
INVARIANTS
    ScriptsTypeOK
    SharesAddUp
    FeesCapped
    PathMoneyStaysOurs
    QuietReport
    FreshRunPasses
    QuietRunDeploys
PROPERTIES
    AuthorityDecides
    RegistrationIsForever
    
    SetupRunEnds
