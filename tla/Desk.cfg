CONSTANTS
    Parties = {agent, stranger}
    Agent = agent
    Stranger = stranger
    coin = coin
    person = person
    Mints = {coin}
    NonMints = {person}
    Units = 2
    MIN_SOL = 2
    MaxSolPerTrade = 3
    Replies <- MCReplies
    Commands <- MCCommands
    DefaultSol = 4
    ChainCap = 4
    Bid = 1
    Mistakes <- MCMistakes
    MaxNative = 7
    Rent = 1
    NotJson = NotJson
    NotObject = NotObject
    Refused = Refused
    NoAccount = NoAccount
    Nothing = Nothing
    InitialBase = 24
    InitialQuote = 20
    MaxBase = 30
    MaxQuote = 45
    Steps = {1, 5}
    Spends = {1, 4, 9, 20}
    Slippages = {0, 1, 5, 9}
    BPS = 10
    VirtualQuote = 2
    VenueFee = 1
    NoOrder = NoOrder
    SlotFees = {0, 1, 2, 9, 10}
    MaxSlots = 5
    Percentiles <- MCPercentiles
    FALLBACK_MICROLAMPORTS = 2
    MAX_MICROLAMPORTS = 9
SPECIFICATION DeskSpec
INVARIANTS
    IntentsAreBuildable
    GateKnowsTheBuilder
    SetupSuffices
    RoomToMove
    AsksForItsWorth
    EstimateIsPercentile
PROPERTIES
    SignedIsTheTrade
