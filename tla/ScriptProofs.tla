------------------------------ MODULE ScriptProofs ------------------------------
(***************************************************************************)
(* The operator scripts, for any number of shells and operators, any       *)
(* number of deaths and lost transactions, and any keys, rates and         *)
(* amounts.  Each script gets the invariant that says what a run may rely  *)
(* on from one await to the next.                                          *)
(***************************************************************************)
EXTENDS ScriptsMC, RewardsProofs

-------------------------------------------------------------------------------
(***************************************************************************)
(* scripts/init-mainnet.js.                                                *)
(***************************************************************************)

\* Config before the clerk has its share.
ConfigAtFirst == [AgreedConfig EXCEPT !.total_reward_bps = 0]

Rent(needed, amount) == IF needed THEN amount ELSE 0

\* What the funder has paid for so far.
FunderPaid ==
    Rent(config # NoConfig, ConfigRent) + Rent(vaultOpen, VaultRent)
        + Rent(Registered(CLERK), AgentRent)

\* The accounts that are open are open as agreed, and paid for once.
AsAgreed ==
    /\ lamports \in [Keys -> Nat] /\ clock = 0
    /\ agents \in [Wallets -> AgentAuth \cup {NoAgent}]
    /\ vault \in Nat /\ vaultOpen \in BOOLEAN
    /\ config = NoConfig => ~ vaultOpen /\ ~ Registered(CLERK)
    /\ config # NoConfig =>
          config = IF Registered(CLERK) THEN AgreedConfig ELSE ConfigAtFirst
    /\ Registered(CLERK) => agents[CLERK] = AgreedClerk
    /\ vaultOpen => vault >= VaultRent
    /\ lamports[FUNDER] >= InitialLamports[FUNDER] - FunderPaid

\* A run is past a step only if the account of the step is there; it may be
\* another run that opened it.
BehindIt ==
    \A h \in Shells, j, k \in Steps :
        at[h] \in {<<"look", k>>, <<"send", k>>} /\ j < k => Exists(j)

QuietInv ==
    quiet =>
        /\ AsAgreed
        /\ at \in [Shells -> Awaits]
        /\ BehindIt
        /\ reported # NoReport => \A k \in Steps : Exists(k)

\* Nothing that was opened is closed.
Grows ==
    /\ config # NoConfig => config' # NoConfig
    /\ vaultOpen => vaultOpen'
    /\ Registered(CLERK) => Registered(CLERK)'
    /\ vault' >= vault

LEMMA StepsAre == Steps = {1, 2, 3}
BY DEF Steps

LEMMA ExistsIs ==
  vaultOpen \in BOOLEAN =>
    /\ Exists(1) <=> config # NoConfig
    /\ Exists(2) <=> vaultOpen \/ vault > 0
    /\ Exists(3) <=> Registered(CLERK)
<1> SUFFICES ASSUME vaultOpen \in BOOLEAN
             PROVE  /\ Exists(1) <=> config # NoConfig
                    /\ Exists(2) <=> vaultOpen \/ vault > 0
                    /\ Exists(3) <=> Registered(CLERK)
  OBVIOUS
<1>1. Opened(1) <=> config # NoConfig
  BY DEF Opened
<1>2. Opened(2) <=> vaultOpen
  BY DEF Opened
<1>3. Opened(3) <=> Registered(CLERK)
  BY DEF Opened
<1>4. Exists(1) <=> Opened(1)
  BY DEF Exists
<1>5. Exists(2) <=> Opened(2) \/ (vault > 0 /\ ~ vaultOpen)
  BY DEF Exists, VaultTaken
<1>6. Exists(3) <=> Opened(3)
  BY DEF Exists
<1> QED
  BY <1>1, <1>2, <1>3, <1>4, <1>5, <1>6

LEMMA ExistsStays ==
  ASSUME AsAgreed, AsAgreed', Grows, NEW k \in Steps, Exists(k)
  PROVE  Exists(k)'
<1>1. /\ vaultOpen \in BOOLEAN /\ vaultOpen' \in BOOLEAN
      /\ vault \in Nat /\ vault' \in Nat
  BY DEF AsAgreed
<1>2. /\ config # NoConfig => config' # NoConfig
      /\ vaultOpen => vaultOpen'
      /\ Registered(CLERK) => Registered(CLERK)'
      /\ vault' >= vault
  BY DEF Grows
<1>3. CASE k = 1
  BY <1>2, <1>3 DEF Exists, Opened
<1>4. CASE k = 2
  <2>1. vaultOpen \/ vault > 0
    BY <1>1, <1>4, ExistsIs
  <2>2. vaultOpen' \/ vault' > 0
    BY <1>1, <1>2, <2>1
  <2>3. Exists(2)' <=> vaultOpen' \/ (vault' > 0 /\ ~ vaultOpen')
    BY DEF Exists, Opened, VaultTaken
  <2> QED
    BY <1>4, <2>2, <2>3
<1>5. CASE k = 3
  <2>1. Registered(CLERK)
    BY <1>1, <1>5, ExistsIs
  <2>2. Exists(3)' <=> Registered(CLERK)'
    BY DEF Exists, Opened
  <2> QED
    BY <1>2, <1>5, <2>1, <2>2
<1> QED
  BY <1>3, <1>4, <1>5, StepsAre

LEMMA AgreedKeys ==
  /\ FUNDER \in Officials /\ FUNDER \in Keys
  /\ CLERK \in Wallets /\ CLERK \in Keys
  /\ VAULT \in Vaults /\ VAULT \in Keys
  /\ RIVAL \in Keys /\ RIVAL # FUNDER
BY OperationsAssumption, RouterAssumption, DeployAssumption

LEMMA FirstTerms ==
  /\ ConfigAtFirst \in Config
  /\ ConfigAtFirst = [authority |-> FUNDER, treasury |-> VAULT, fee_vault |-> VAULT,
                      fee_bps |-> FEE_BPS, max_lamports_per_trade |-> MAX_PER_TRADE,
                      default_daily_limit |-> DEFAULT_DAILY,
                      total_reward_bps |-> 0, paused |-> FALSE]
  /\ [ConfigAtFirst EXCEPT !.total_reward_bps = CLERK_REWARD_BPS] = AgreedConfig
<1> DEFINE c == AgreedConfig
           d == ConfigAtFirst
<1>1. c \in Config /\ 0 \in U64
  BY OperationsAssumption, RouterAssumption DEF U64
<1>2. /\ c.authority = FUNDER /\ c.treasury = VAULT /\ c.fee_vault = VAULT
      /\ c.fee_bps = FEE_BPS /\ c.max_lamports_per_trade = MAX_PER_TRADE
      /\ c.default_daily_limit = DEFAULT_DAILY
      /\ c.total_reward_bps = CLERK_REWARD_BPS /\ c.paused = FALSE
  BY DEF AgreedConfig
<1>3. d = [c EXCEPT !.total_reward_bps = 0]
  BY DEF ConfigAtFirst
<1> HIDE DEF c, d
<1>4. d \in Config
  BY <1>1, <1>3 DEF Config
<1>5. [d EXCEPT !.total_reward_bps = CLERK_REWARD_BPS] = c
  BY <1>1, <1>2, <1>3 DEF Config
<1>6. d = [authority |-> FUNDER, treasury |-> VAULT, fee_vault |-> VAULT,
           fee_bps |-> FEE_BPS, max_lamports_per_trade |-> MAX_PER_TRADE,
           default_daily_limit |-> DEFAULT_DAILY,
           total_reward_bps |-> 0, paused |-> FALSE]
  BY <1>1, <1>2, <1>3, <1>4 DEF Config
<1> QED
  BY <1>4, <1>5, <1>6 DEF c, d

\* The first step, by the funder.
LEMMA InitializeAgrees ==
  ASSUME AsAgreed, Initialize(FUNDER, VAULT, VAULT, AgreedArgs), UNCHANGED vaultVars
  PROVE  AsAgreed' /\ Grows /\ config' # NoConfig
<1>1. /\ config = NoConfig /\ ~ Registered(CLERK) /\ ~ vaultOpen
      /\ agents' = agents /\ clock' = clock
      /\ vaultOpen' = vaultOpen /\ vault' = vault
      /\ Commit(Debit(lamports, FUNDER, ConfigRent))
  BY DEF AsAgreed, Initialize, InitializeAccounts, vaultVars
<1>2. config' = ConfigAtFirst
  <2>1. /\ AgreedArgs.fee_bps = FEE_BPS
        /\ AgreedArgs.max_lamports_per_trade = MAX_PER_TRADE
        /\ AgreedArgs.default_daily_limit = DEFAULT_DAILY
    BY DEF AgreedArgs
  <2>2. config' = [authority |-> FUNDER, treasury |-> VAULT, fee_vault |-> VAULT,
                   fee_bps |-> FEE_BPS, max_lamports_per_trade |-> MAX_PER_TRADE,
                   default_daily_limit |-> DEFAULT_DAILY,
                   total_reward_bps |-> 0, paused |-> FALSE]
    BY <2>1 DEF Initialize
  <2>3. ConfigAtFirst = [authority |-> FUNDER, treasury |-> VAULT, fee_vault |-> VAULT,
                   fee_bps |-> FEE_BPS, max_lamports_per_trade |-> MAX_PER_TRADE,
                   default_daily_limit |-> DEFAULT_DAILY,
                   total_reward_bps |-> 0, paused |-> FALSE]
    BY FirstTerms
  <2> QED
    BY <2>2, <2>3
<1>3. config' # NoConfig
  <2>1. ConfigAtFirst \in Config
    <3>1. AgreedConfig \in Config /\ 0 \in U64
      BY OperationsAssumption, RouterAssumption DEF U64
    <3> QED
      BY <3>1 DEF ConfigAtFirst, Config
  <2> QED
    BY <1>2, <2>1, SentinelAssumption
<1>4. lamports \in [Keys -> Nat] /\ ConfigRent \in Nat
  BY RegistryAssumption DEF AsAgreed
<1>5. /\ lamports' \in [Keys -> Nat]
      /\ lamports'[FUNDER] = lamports[FUNDER] - ConfigRent
  BY <1>1, <1>4, AgreedKeys DEF Commit, Debit
<1>6. /\ FunderPaid = 0 /\ FunderPaid' = ConfigRent
  BY <1>1, <1>3, RegistryAssumption DEF FunderPaid, Rent, Registered
<1>7. lamports'[FUNDER] >= InitialLamports[FUNDER] - FunderPaid'
  BY <1>4, <1>5, <1>6, AgreedKeys, ChainAssumption DEF AsAgreed
<1> QED
  BY <1>1, <1>2, <1>3, <1>5, <1>7 DEF AsAgreed, Grows, Registered

\* The second: whatever lamports the address held, the funder adds at most the rent.
LEMMA VaultAgrees ==
  ASSUME AsAgreed, InitCreatorVault(FUNDER)
  PROVE  AsAgreed' /\ Grows /\ vaultOpen'
<1> DEFINE missing == IF vault < VaultRent THEN VaultRent - vault ELSE 0
<1>1. /\ config # NoConfig /\ ~ vaultOpen /\ vaultOpen' = TRUE
      /\ config' = config /\ agents' = agents /\ clock' = clock
      /\ vault' = vault + missing
      /\ Commit(Debit(lamports, FUNDER, missing))
  BY DEF InitCreatorVault, InitCreatorVaultAccounts, HasOneAuthority
<1>2. /\ vault \in Nat /\ VaultRent \in Nat /\ lamports \in [Keys -> Nat]
      /\ ConfigRent \in Nat /\ AgentRent \in Nat
  BY RewardsAssumption, RegistryAssumption DEF AsAgreed
<1>3. missing \in 0 .. VaultRent /\ vault + missing >= VaultRent
  BY <1>2
<1> HIDE DEF missing
<1>4. /\ lamports' \in [Keys -> Nat]
      /\ lamports'[FUNDER] = lamports[FUNDER] - missing
  BY <1>1, <1>2, <1>3, AgreedKeys DEF Commit, Debit
<1>5. FunderPaid \in Nat /\ FunderPaid' = FunderPaid + VaultRent
  BY <1>1, <1>2 DEF FunderPaid, Rent, Registered
<1>6. lamports'[FUNDER] >= InitialLamports[FUNDER] - FunderPaid'
  <2>1. lamports[FUNDER] >= InitialLamports[FUNDER] - FunderPaid
    BY DEF AsAgreed
  <2>2. lamports[FUNDER] \in Nat /\ InitialLamports[FUNDER] \in Nat
    BY <1>2, AgreedKeys, ChainAssumption
  <2> QED
    BY <1>2, <1>3, <1>4, <1>5, <2>1, <2>2
<1>7. /\ vault' \in Nat /\ vaultOpen' \in BOOLEAN /\ vault' >= vault
      /\ vault' >= VaultRent
  BY <1>1, <1>2, <1>3
<1> QED
  BY <1>1, <1>4, <1>6, <1>7 DEF AsAgreed, Grows, Registered

\* The third: on the day of the deployment the clerk's record is as agreed.
LEMMA ClerkAgrees ==
  ASSUME AsAgreed, UNCHANGED vaultVars,
         RegisterAgent(FUNDER, CLERK, CLERK_DAILY, CLERK_REWARD_BPS, CLERK_FEE_BPS)
  PROVE  AsAgreed' /\ Grows /\ Registered(CLERK)'
<1>1. /\ config # NoConfig /\ ~ Registered(CLERK) /\ agents[CLERK] = NoAgent
      /\ clock' = clock /\ vaultOpen' = vaultOpen /\ vault' = vault
      /\ Commit(Debit(lamports, FUNDER, AgentRent))
      /\ AddShares(0, CLERK_REWARD_BPS)
  BY DEF RegisterAgent, RegisterAgentAccounts, InitAgentAuth, HasOneAuthority,
         Registered, vaultVars
<1>2. CurrentDay = 0
  BY RouterAssumption DEF AsAgreed, CurrentDay
<1>3. agents' = [agents EXCEPT ![CLERK] = AgreedClerk]
  BY <1>2 DEF RegisterAgent, AgreedClerk
<1>4. /\ agents' \in [Wallets -> AgentAuth \cup {NoAgent}]
      /\ agents'[CLERK] = AgreedClerk /\ AgreedClerk # NoAgent
  BY <1>3, AgreedKeys, OperationsAssumption, SentinelAssumption DEF AsAgreed
<1>5. config = ConfigAtFirst
  BY <1>1 DEF AsAgreed
<1>6. config' = AgreedConfig
  <2>1. config' = [ConfigAtFirst EXCEPT !.total_reward_bps = (0 - 0) + CLERK_REWARD_BPS]
    BY <1>1, <1>5, FirstTerms DEF AddShares
  <2>2. CLERK_REWARD_BPS \in Nat
    BY OperationsAssumption, RouterAssumption DEF AgreedClerk, AgentAuth, U16
  <2>3. (0 - 0) + CLERK_REWARD_BPS = CLERK_REWARD_BPS
    BY <2>2
  <2> QED
    BY <2>1, <2>3, FirstTerms
<1>7. config' # NoConfig
  BY <1>6, OperationsAssumption, SentinelAssumption
<1>8. /\ lamports \in [Keys -> Nat] /\ VaultRent \in Nat
      /\ ConfigRent \in Nat /\ AgentRent \in Nat
  BY RewardsAssumption, RegistryAssumption DEF AsAgreed
<1>9. /\ lamports' \in [Keys -> Nat]
      /\ lamports'[FUNDER] = lamports[FUNDER] - AgentRent
  BY <1>1, <1>8, AgreedKeys DEF Commit, Debit
<1>10. FunderPaid \in Nat /\ FunderPaid' = FunderPaid + AgentRent
  BY <1>1, <1>4, <1>7, <1>8 DEF FunderPaid, Rent, Registered
<1>11. lamports'[FUNDER] >= InitialLamports[FUNDER] - FunderPaid'
  <2>1. lamports[FUNDER] >= InitialLamports[FUNDER] - FunderPaid
    BY DEF AsAgreed
  <2>2. lamports[FUNDER] \in Nat /\ InitialLamports[FUNDER] \in Nat
    BY <1>8, AgreedKeys, ChainAssumption
  <2> QED
    BY <1>8, <1>9, <1>10, <2>1, <2>2
<1>12. Registered(CLERK)' /\ vault' >= vault
  BY <1>1, <1>4 DEF Registered, AsAgreed
<1> QED
  BY <1>1, <1>4, <1>6, <1>7, <1>9, <1>11, <1>12 DEF AsAgreed, Grows

LEMMA SetUpAgrees ==
  ASSUME AsAgreed, NEW k \in Steps, SetUp(k)
  PROVE  AsAgreed' /\ Grows /\ Exists(k)'
<1>1. CASE k = 1
  <2>1. Initialize(FUNDER, VAULT, VAULT, AgreedArgs) /\ UNCHANGED vaultVars
    BY <1>1 DEF SetUp
  <2>2. AsAgreed' /\ Grows /\ config' # NoConfig
    BY <2>1, InitializeAgrees
  <2> QED
    BY <1>1, <2>2 DEF Exists, Opened
<1>2. CASE k = 2
  <2>1. InitCreatorVault(FUNDER)
    BY <1>2 DEF SetUp
  <2>2. AsAgreed' /\ Grows /\ vaultOpen'
    BY <2>1, VaultAgrees
  <2> QED
    BY <1>2, <2>2 DEF Exists, Opened
<1>3. CASE k = 3
  <2>1. /\ RegisterAgent(FUNDER, CLERK, CLERK_DAILY, CLERK_REWARD_BPS, CLERK_FEE_BPS)
        /\ UNCHANGED vaultVars
    BY <1>3 DEF SetUp
  <2>2. AsAgreed' /\ Grows /\ Registered(CLERK)'
    BY <2>1, ClerkAgrees
  <2> QED
    BY <1>3, <2>2 DEF Exists, Opened
<1> QED
  BY <1>1, <1>2, <1>3, StepsAre

LEMMA RevenueAgrees ==
  ASSUME AsAgreed, NEW amount \in Revenue,
         CollectCurveFee(amount) \/ CollectAmmFee(RIVAL, amount)
  PROVE  AsAgreed' /\ Grows
<1>1. /\ config' = config /\ agents' = agents /\ clock' = clock
      /\ vaultOpen' = vaultOpen
      /\ \/ lamports' = lamports
         \/ Commit(Debit(lamports, RIVAL, TokenRent))
  BY DEF CollectCurveFee, CollectAmmFee, chainVars
<1>2. amount \in Nat /\ TokenRent \in Nat
  BY RevenueType, ChainAssumption
<1>3. vault' \in Nat /\ vault' >= vault
  BY <1>2 DEF AsAgreed, CollectCurveFee, CollectAmmFee
<1>4. lamports' \in [Keys -> Nat] /\ lamports'[FUNDER] = lamports[FUNDER]
  BY <1>1, <1>2, AgreedKeys DEF AsAgreed, Commit, Debit
<1>5. FunderPaid' = FunderPaid
  BY <1>1 DEF FunderPaid, Registered
<1>6. vaultOpen' => vault' >= VaultRent
  BY <1>1, <1>3, RewardsAssumption DEF AsAgreed
<1> QED
  BY <1>1, <1>3, <1>4, <1>5, <1>6 DEF AsAgreed, Grows, Registered

LEMMA UnchangedAgrees ==
  ASSUME AsAgreed, UNCHANGED rewardsVars
  PROVE  AsAgreed' /\ Grows
<1>1. /\ config' = config /\ agents' = agents /\ clock' = clock
      /\ lamports' = lamports /\ vaultOpen' = vaultOpen /\ vault' = vault
  BY DEF rewardsVars, registryVars, vaultVars
<1>2. FunderPaid' = FunderPaid
  BY <1>1 DEF FunderPaid, Registered
<1> QED
  BY <1>1, <1>2 DEF AsAgreed, Grows, Registered

\* A run that goes on to an await has the accounts of the steps behind it.
LEMMA RunGoesOn ==
  ASSUME AsAgreed, AsAgreed', Grows, BehindIt, at \in [Shells -> Awaits],
         NEW h \in Shells, NEW await \in Awaits, Reaches(h, await),
         \A j, k \in Steps :
             await \in {<<"look", k>>, <<"send", k>>} /\ j < k => Exists(j)'
  PROVE  at' \in [Shells -> Awaits] /\ BehindIt'
<1>1. at' = [at EXCEPT ![h] = await]
  BY DEF Reaches
<1>2. at' \in [Shells -> Awaits]
  BY <1>1
<1>3. ASSUME NEW g \in Shells, NEW j \in Steps, NEW k \in Steps,
             at'[g] \in {<<"look", k>>, <<"send", k>>}, j < k
      PROVE  Exists(j)'
  <2>1. CASE g = h
    BY <1>1, <1>3, <2>1
  <2>2. CASE g # h
    <3>1. at[g] \in {<<"look", k>>, <<"send", k>>}
      BY <1>1, <1>3, <2>2
    <3>2. Exists(j)
      BY <1>3, <3>1 DEF BehindIt
    <3> QED
      BY <3>2, ExistsStays
  <2> QED
    BY <2>1, <2>2
<1> QED
  BY <1>2, <1>3 DEF BehindIt

\* The end of step k of a run: its account is there, and so are those before.
LEMMA StepDone ==
  ASSUME AsAgreed, AsAgreed', Grows, BehindIt, at \in [Shells -> Awaits],
         NEW h \in Shells, NEW k \in Steps, at[h] \in {<<"look", k>>, <<"send", k>>},
         Exists(k)', Proceeds(h, k)
  PROVE  /\ at' \in [Shells -> Awaits] /\ BehindIt'
         /\ reported' # NoReport => \A j \in Steps : Exists(j)'
<1>1. ASSUME NEW j \in Steps, j <= k
      PROVE  Exists(j)'
  <2>1. CASE j = k
    BY <2>1
  <2>2. CASE j < k
    <3>1. Exists(j)
      BY <2>2 DEF BehindIt
    <3> QED
      BY <3>1, ExistsStays
  <2> QED
    BY <1>1, <2>1, <2>2 DEF Steps
<1>2. CASE k = 3
  <2>1. \A j \in Steps : Exists(j)'
    BY <1>1, <1>2 DEF Steps
  <2>2. Reaches(h, Off) /\ Off \in Awaits
    BY <1>2 DEF Proceeds, Awaits
  <2> QED
    BY <2>1, <2>2, RunGoesOn
<1>3. CASE k # 3
  <2> DEFINE next == <<"look", k + 1>>
  <2>1. k + 1 \in Steps
    BY <1>3 DEF Steps
  <2>2. Reaches(h, next) /\ reported' = NoReport
    BY <1>3 DEF Proceeds
  <2>3. next \in Awaits
    BY <2>1 DEF Awaits
  <2>4. ASSUME NEW j \in Steps, NEW i \in Steps,
               next \in {<<"look", i>>, <<"send", i>>}, j < i
        PROVE  Exists(j)'
    <3>1. i = k + 1
      BY <2>4
    <3>2. j <= k
      BY <2>4, <3>1 DEF Steps
    <3> QED
      BY <1>1, <3>2
  <2> HIDE DEF next
  <2>5. at' \in [Shells -> Awaits] /\ BehindIt'
    BY <2>2, <2>3, <2>4, RunGoesOn
  <2> QED
    BY <2>2, <2>5
<1> QED
  BY <1>2, <1>3

\* A run that dies, is refused or begins again relies on nothing.
LEMMA RunEnds ==
  ASSUME AsAgreed, AsAgreed', Grows, BehindIt, at \in [Shells -> Awaits],
         NEW h \in Shells, NEW await \in {Off, <<"look", 1>>}, Reaches(h, await)
  PROVE  at' \in [Shells -> Awaits] /\ BehindIt'
<1>1. await \in Awaits
  BY DEF Awaits, Steps
<1>2. ASSUME NEW j \in Steps, NEW k \in Steps,
             await \in {<<"look", k>>, <<"send", k>>}, j < k
      PROVE  FALSE
  <2>1. k = 1
    BY <1>2 DEF Off
  <2> QED
    BY <1>2, <2>1 DEF Steps
<1> QED
  BY <1>1, <1>2, RunGoesOn

LEMMA RunStep ==
  ASSUME AsAgreed, BehindIt, at \in [Shells -> Awaits], NEW h \in Shells,
         SetupStep(h) \/ Dies(h)
  PROVE  /\ AsAgreed' /\ at' \in [Shells -> Awaits] /\ BehindIt'
         /\ reported' # NoReport => \A k \in Steps : Exists(k)'
<1>1. CASE Begin(h)
  <2>1. UNCHANGED rewardsVars /\ Reaches(h, <<"look", 1>>) /\ reported' = NoReport
    BY <1>1 DEF Begin
  <2>2. AsAgreed' /\ Grows
    BY <2>1, UnchangedAgrees
  <2> QED
    BY <2>1, <2>2, RunEnds
<1>2. ASSUME NEW k \in Steps, Look(h, k)
      PROVE  /\ AsAgreed' /\ at' \in [Shells -> Awaits] /\ BehindIt'
             /\ reported' # NoReport => \A j \in Steps : Exists(j)'
  <2>1. at[h] = <<"look", k>> /\ UNCHANGED rewardsVars
    BY <1>2 DEF Look
  <2>2. AsAgreed' /\ Grows
    BY <2>1, UnchangedAgrees
  <2>3. CASE Exists(k)
    <3>1. Proceeds(h, k) /\ Exists(k)'
      BY <1>2, <2>2, <2>3, ExistsStays DEF Look
    <3> QED
      BY <2>1, <2>2, <3>1, StepDone
  <2>4. CASE ~ Exists(k)
    <3> DEFINE next == <<"send", k>>
    <3>1. Reaches(h, next) /\ reported' = NoReport
      BY <1>2, <2>4 DEF Look
    <3>2. next \in Awaits
      BY DEF Awaits
    <3>3. ASSUME NEW j \in Steps, NEW i \in Steps,
                 next \in {<<"look", i>>, <<"send", i>>}, j < i
          PROVE  Exists(j)'
      <4>1. i = k
        BY <3>3
      <4>2. Exists(j)
        BY <2>1, <3>3, <4>1 DEF BehindIt
      <4> QED
        BY <2>2, <4>2, ExistsStays
    <3> HIDE DEF next
    <3>4. at' \in [Shells -> Awaits] /\ BehindIt'
      BY <2>2, <3>1, <3>2, <3>3, RunGoesOn
    <3> QED
      BY <2>2, <3>1, <3>4
  <2> QED
    BY <2>3, <2>4
<1>3. ASSUME NEW k \in Steps, Send(h, k)
      PROVE  /\ AsAgreed' /\ at' \in [Shells -> Awaits] /\ BehindIt'
             /\ reported' # NoReport => \A j \in Steps : Exists(j)'
  <2>1. at[h] = <<"send", k>> /\ SetUp(k) /\ Proceeds(h, k)
    BY <1>3 DEF Send
  <2>2. AsAgreed' /\ Grows /\ Exists(k)'
    BY <2>1, SetUpAgrees
  <2> QED
    BY <2>1, <2>2, StepDone
<1>4. ASSUME Stops(h)
      PROVE  /\ AsAgreed' /\ at' \in [Shells -> Awaits] /\ BehindIt'
             /\ reported' = NoReport
  <2>1. UNCHANGED rewardsVars /\ Reaches(h, Off) /\ reported' = NoReport
    BY <1>4 DEF Stops
  <2>2. AsAgreed' /\ Grows
    BY <2>1, UnchangedAgrees
  <2> QED
    BY <2>1, <2>2, RunEnds
<1>5. ASSUME NEW k \in Steps, Refused(h, k)
      PROVE  Stops(h)
  BY <1>5 DEF Refused
<1>6. ASSUME NEW k \in Steps, SetUp(k), Reaches(h, Off), reported' = NoReport
      PROVE  /\ AsAgreed' /\ at' \in [Shells -> Awaits] /\ BehindIt'
  <2>1. AsAgreed' /\ Grows
    BY <1>6, SetUpAgrees
  <2> QED
    BY <1>6, <2>1, RunEnds
<1>7. CASE Dies(h)
  <2>1. \/ Stops(h)
        \/ \E k \in Steps : SetUp(k) /\ Reaches(h, Off) /\ reported' = NoReport
    BY <1>7 DEF Dies
  <2> QED
    BY <1>4, <1>6, <2>1
<1> QED
  BY <1>1, <1>2, <1>3, <1>4, <1>5, <1>7 DEF SetupStep

LEMMA NextQuietInv ==
  ASSUME QuietInv, [DeployNext]_deployVars
  PROVE  QuietInv'
<1>1. ASSUME NEW h \in Shells, SetupStep(h) \/ Dies(h)
      PROVE  QuietInv'
  <2>1. quiet' = quiet
    BY <1>1 DEF SetupStep, Begin, Look, Send, Refused, Dies, Stops
  <2>2. CASE quiet
    <3>1. AsAgreed /\ BehindIt /\ at \in [Shells -> Awaits]
      BY <2>2 DEF QuietInv
    <3> QED
      BY <1>1, <3>1, RunStep DEF QuietInv
  <2>3. CASE ~ quiet
    BY <2>1, <2>3 DEF QuietInv
  <2> QED
    BY <2>2, <2>3
<1>2. CASE OthersInterfere
  BY <1>2 DEF OthersInterfere, QuietInv
<1>3. CASE EarlyRevenue
  <2>1. PICK amount \in Revenue :
            CollectCurveFee(amount) \/ CollectAmmFee(RIVAL, amount)
    BY <1>3 DEF EarlyRevenue
  <2>2. reported' = NoReport /\ at' = at /\ quiet' = quiet
    BY <1>3 DEF EarlyRevenue
  <2>3. ASSUME quiet
        PROVE  AsAgreed' /\ Grows /\ BehindIt'
    <3>1. AsAgreed /\ BehindIt
      BY <2>3 DEF QuietInv
    <3>2. AsAgreed' /\ Grows
      BY <2>1, <3>1, RevenueAgrees
    <3> QED
      BY <2>2, <3>1, <3>2, ExistsStays DEF BehindIt
  <2> QED
    BY <2>2, <2>3 DEF QuietInv
<1>4. CASE UNCHANGED deployVars
  <2>1. /\ UNCHANGED rewardsVars
        /\ at' = at /\ quiet' = quiet /\ reported' = reported
    BY <1>4 DEF deployVars, setupVars
  <2>2. ASSUME quiet
        PROVE  /\ AsAgreed' /\ BehindIt'
               /\ reported # NoReport => \A k \in Steps : Exists(k)'
    <3>1. /\ AsAgreed /\ BehindIt
          /\ reported # NoReport => \A k \in Steps : Exists(k)
      BY <2>2 DEF QuietInv
    <3>2. AsAgreed' /\ Grows
      BY <2>1, <3>1, UnchangedAgrees
    <3> QED
      BY <2>1, <3>1, <3>2, ExistsStays DEF BehindIt
  <2> QED
    BY <2>1, <2>2 DEF QuietInv
<1> QED
  BY <1>1, <1>2, <1>3, <1>4 DEF DeployNext

LEMMA InitQuietInv == DeployInit => QuietInv
<1> SUFFICES ASSUME DeployInit
             PROVE  QuietInv
  OBVIOUS
<1>1. /\ lamports = InitialLamports /\ clock = 0 /\ config = NoConfig
      /\ agents = [w \in Wallets |-> NoAgent]
      /\ vaultOpen = FALSE /\ vault = 0
      /\ at = [h \in Shells |-> Off] /\ reported = NoReport
  BY DEF DeployInit, RewardsInit, RegistryInit, ChainInit, SetupIdle
<1>2. ~ Registered(CLERK)
  BY <1>1, AgreedKeys DEF Registered
<1>3. FunderPaid = 0
  BY <1>1, <1>2 DEF FunderPaid, Rent
<1>4. InitialLamports \in [Keys -> Nat] /\ InitialLamports[FUNDER] \in Nat
  BY ChainAssumption, AgreedKeys
<1>5. AsAgreed
  <2>1. agents \in [Wallets -> AgentAuth \cup {NoAgent}]
    BY <1>1
  <2>2. lamports[FUNDER] >= InitialLamports[FUNDER] - FunderPaid
    BY <1>1, <1>3, <1>4
  <2>3. vault \in Nat /\ vaultOpen \in BOOLEAN /\ lamports \in [Keys -> Nat]
    BY <1>1, <1>4
  <2> QED
    BY <1>1, <1>2, <2>1, <2>2, <2>3 DEF AsAgreed
<1>6. BehindIt
  BY <1>1 DEF BehindIt, Off
<1> QED
  BY <1>1, <1>5, <1>6 DEF QuietInv, Awaits

LEMMA QuietInvDeploys == QuietInv => QuietRunDeploys
<1> SUFFICES ASSUME AsAgreed, \A k \in Steps : Exists(k)
             PROVE  /\ config = AgreedConfig /\ agents[CLERK] = AgreedClerk
                    /\ VaultTaken \/ (vaultOpen /\ vault >= VaultRent)
                    /\ lamports[FUNDER] >=
                          InitialLamports[FUNDER] - ConfigRent - AgentRent - VaultRent
  BY DEF QuietInv, QuietRunDeploys
<1>1. vaultOpen \in BOOLEAN
  BY DEF AsAgreed
<1>2. config # NoConfig /\ Registered(CLERK) /\ (vaultOpen \/ vault > 0)
  BY <1>1, ExistsIs, StepsAre
<1>3. FunderPaid <= ConfigRent + VaultRent + AgentRent /\ FunderPaid \in Nat
  BY <1>2, RegistryAssumption, RewardsAssumption DEF FunderPaid, Rent
<1>4. lamports[FUNDER] >=
          InitialLamports[FUNDER] - ConfigRent - AgentRent - VaultRent
  <2>1. lamports[FUNDER] \in Nat /\ InitialLamports[FUNDER] \in Nat
    BY AgreedKeys, ChainAssumption DEF AsAgreed
  <2>2. lamports[FUNDER] >= InitialLamports[FUNDER] - FunderPaid
    BY DEF AsAgreed
  <2> QED
    BY <1>3, <2>1, <2>2, RegistryAssumption, RewardsAssumption
<1> QED
  BY <1>1, <1>2, <1>4 DEF AsAgreed, VaultTaken

\* "Idempotent by inspection" (init-mainnet.js:2): in any number of shells, after
\* any number of deaths and of transactions that were lost or landed late, a run
\* that ends leaves the router as agreed, and the funder has paid for it once.
THEOREM QuietRunsDeploy == DeploySpec => []QuietRunDeploys
<1>1. QuietInv /\ [DeployNext]_deployVars => QuietInv'
  BY NextQuietInv
<1> QED
  BY <1>1, QuietInvDeploys, InitQuietInv, PTL DEF DeploySpec

-------------------------------------------------------------------------------
(***************************************************************************)
(* scripts/outsider-mainnet.js.                                            *)
(***************************************************************************)

TrialAwaits == {"look", "register", "inspect", "total", "lower", "confirm"}

TrialRecord ==
    [at : TrialAwaits, configFee : U16, defaultDaily : U64,
     totalRewardBefore : U64, failed : SUBSET Labels,
     fresh : BOOLEAN, alone : BOOLEAN]

\* What self_register gives to a wallet that asks for ASKED.
Given == IF config.default_daily_limit \in 1 .. ASKED
         THEN config.default_daily_limit ELSE ASKED

\* The record of a wallet that this run registered, and what the checks made of it.
AsGiven ==
    /\ Own \in AgentAuth
    /\ Own.reward_bps = 0 /\ Own.fee_bps = config.fee_bps
    /\ Own.enabled /\ ~ Own.authority_managed
    /\ Own.daily_limit = IF trial.at = "confirm" THEN LOWER ELSE Given
    /\ trial.at # "inspect" /\ config.default_daily_limit \in 1 .. ASKED =>
          trial.failed = {}

\* What a run that nobody has interfered with may rely on.
AloneInv ==
    /\ config \in Config
    /\ trial.configFee = config.fee_bps
    /\ trial.defaultDaily = config.default_daily_limit
    /\ trial.totalRewardBefore = config.total_reward_bps
    /\ trial.fresh => trial.at \notin {"look", "register"} /\ AsGiven

VerdictInv == verdict # NotRunning => verdict.failed \subseteq Labels

TrialInv ==
    /\ RegistryTypeOK
    /\ trial # NotRunning => trial \in TrialRecord
    /\ trial # NotRunning /\ trial.alone => AloneInv
    /\ VerdictInv
    /\ FreshRunPasses

LEMMA FailingWithin ==
  ASSUME NEW checks, DOMAIN checks \subseteq Labels
  PROVE  Failing(checks) \subseteq Labels
BY DEF Failing

LEMMA AgentChecks ==
  ASSUME NEW a \in BOOLEAN, NEW b \in BOOLEAN, NEW c \in BOOLEAN,
         NEW d \in BOOLEAN, NEW e \in BOOLEAN
  PROVE  LET checks == [limit |-> a, reward |-> b, fee |-> c, enabled |-> d,
                        managed |-> e]
         IN  /\ Failing(checks) \subseteq Labels
             /\ a /\ b /\ c /\ d /\ e => Failing(checks) = {}
<1> DEFINE checks == [limit |-> a, reward |-> b, fee |-> c, enabled |-> d,
                      managed |-> e]
<1>1. DOMAIN checks = {"limit", "reward", "fee", "enabled", "managed"}
  OBVIOUS
<1>2. /\ checks["limit"] = a /\ checks["reward"] = b /\ checks["fee"] = c
      /\ checks["enabled"] = d /\ checks["managed"] = e
  OBVIOUS
<1> HIDE DEF checks
<1>3. Failing(checks) \subseteq Labels
  BY <1>1, FailingWithin DEF Labels
<1>4. a /\ b /\ c /\ d /\ e => Failing(checks) = {}
  BY <1>1, <1>2 DEF Failing
<1> QED
  BY <1>3, <1>4 DEF checks

LEMMA TotalCheck ==
  ASSUME NEW a \in BOOLEAN
  PROVE  /\ Failing([total |-> a]) \subseteq Labels
         /\ a => Failing([total |-> a]) = {}
BY FailingWithin DEF Failing, Labels

LEMMA LoweredCheck ==
  ASSUME NEW a \in BOOLEAN
  PROVE  /\ Failing([lowered |-> a]) \subseteq Labels
         /\ a => Failing([lowered |-> a]) = {}
BY FailingWithin DEF Failing, Labels

LEMMA TrialKeys == OUTSIDER \in Wallets /\ ASKED \in U64 /\ LOWER \in U64
BY TrialAssumption

LEMMA ReadConfigTrial ==
  ASSUME TrialInv, ReadConfig
  PROVE  TrialInv'
<1>1. /\ UNCHANGED registryVars /\ config # NoConfig /\ verdict' = NotRunning
      /\ trial' = [at |-> "look", configFee |-> config.fee_bps,
                   defaultDaily |-> config.default_daily_limit,
                   totalRewardBefore |-> config.total_reward_bps,
                   failed |-> {}, fresh |-> FALSE, alone |-> TRUE]
  BY DEF ReadConfig
<1>2. RegistryTypeOK' /\ config' = config
  BY <1>1 DEF TrialInv, RegistryTypeOK, ChainTypeOK, registryVars
<1>3. config \in Config
  BY <1>1 DEF TrialInv, RegistryTypeOK
<1>4. trial' \in TrialRecord
  BY <1>1, <1>3 DEF TrialRecord, TrialAwaits, Config
<1>5. AloneInv'
  BY <1>1, <1>2, <1>3 DEF AloneInv
<1> QED
  BY <1>1, <1>2, <1>4, <1>5 DEF TrialInv, VerdictInv, FreshRunPasses

\* A step of the script that leaves the accounts alone and only moves on.
LEMMA LookUpTrial ==
  ASSUME TrialInv, LookUp
  PROVE  TrialInv'
<1>1. /\ UNCHANGED registryVars /\ UNCHANGED verdict /\ trial # NotRunning
      /\ trial.at = "look" /\ trial \in TrialRecord
      /\ trial' = [trial EXCEPT !.at = IF Registered(OUTSIDER) THEN "inspect"
                                                               ELSE "register"]
  BY DEF LookUp, TrialAt, TrialInv
<1>2. RegistryTypeOK' /\ config' = config /\ agents' = agents
  BY <1>1 DEF TrialInv, RegistryTypeOK, ChainTypeOK, registryVars
<1>3. trial' \in TrialRecord
  BY <1>1 DEF TrialRecord, TrialAwaits
<1>4. /\ trial'.configFee = trial.configFee /\ trial'.defaultDaily = trial.defaultDaily
      /\ trial'.totalRewardBefore = trial.totalRewardBefore
      /\ trial'.fresh = trial.fresh /\ trial'.alone = trial.alone
  BY <1>1 DEF TrialRecord
<1>5. trial'.alone => AloneInv'
  BY <1>1, <1>2, <1>4 DEF AloneInv, TrialInv
<1> QED
  BY <1>1, <1>2, <1>3, <1>5 DEF TrialInv, VerdictInv, FreshRunPasses

\* The account is created under the ceiling, at the configured fee, without a share.
LEMMA RegisterGives ==
  ASSUME RegistryTypeOK, SelfRegister(OUTSIDER, ASKED)
  PROVE  /\ config \in Config /\ config' = config
         /\ LET a == agents'[OUTSIDER]
            IN  /\ a \in AgentAuth /\ a.reward_bps = 0 /\ a.fee_bps = config.fee_bps
                /\ a.enabled /\ ~ a.authority_managed /\ a.daily_limit = Given
<1>1. config \in Config /\ config' = config
  BY DEF RegistryTypeOK, SelfRegister, SelfRegisterAccounts
<1> DEFINE cap == config.default_daily_limit
           limit == IF cap > 0 /\ cap < ASKED THEN cap ELSE ASKED
           a == [daily_limit |-> limit, spent_today |-> 0,
                 day |-> CurrentDay, reward_bps |-> 0,
                 fee_bps |-> config.fee_bps, enabled |-> TRUE,
                 authority_managed |-> FALSE]
<1>2. agents' = [agents EXCEPT ![OUTSIDER] = a]
  BY DEF SelfRegister
<1>3. cap \in Nat /\ ASKED \in Nat
  BY <1>1, TrialKeys, RouterAssumption DEF Config, U64
<1>4. limit = Given
  BY <1>3 DEF Given
<1>5. agents'[OUTSIDER] = a
  BY <1>2, TrialKeys DEF RegistryTypeOK
<1>6. a \in AgentAuth
  <2>1. CurrentDay \in Nat /\ 0 \in U64 /\ 0 \in U16
    BY CurrentDayType, RouterAssumption DEF RegistryTypeOK, ChainTypeOK, U64, U16
  <2>2. cap \in U64 /\ ASKED \in U64 /\ config.fee_bps \in U16
    BY <1>1, TrialKeys DEF Config
  <2>3. limit \in U64
    BY <2>2
  <2> HIDE DEF limit
  <2> QED
    BY <2>1, <2>2, <2>3 DEF AgentAuth
<1> QED
  BY <1>1, <1>4, <1>5, <1>6

LEMMA RegisterTrial ==
  ASSUME TrialInv, Register
  PROVE  TrialInv'
<1>1. /\ SelfRegister(OUTSIDER, ASKED) /\ UNCHANGED verdict /\ trial # NotRunning
      /\ trial.at = "register" /\ trial \in TrialRecord
      /\ trial' = [trial EXCEPT !.at = "inspect", !.fresh = TRUE]
  BY DEF Register, TrialAt, TrialInv
<1>2. RegistryTypeOK'
  BY <1>1, TrialKeys, SelfRegisterType DEF TrialInv
<1>3. trial' \in TrialRecord /\ trial'.at = "inspect"
  BY <1>1 DEF TrialRecord, TrialAwaits
<1>4. /\ trial'.configFee = trial.configFee /\ trial'.defaultDaily = trial.defaultDaily
      /\ trial'.totalRewardBefore = trial.totalRewardBefore
      /\ trial'.failed = trial.failed /\ trial'.alone = trial.alone
  BY <1>1 DEF TrialRecord
<1>5. trial.alone => AloneInv'
  <2>1. /\ config \in Config /\ config' = config
        /\ agents'[OUTSIDER] \in AgentAuth
        /\ agents'[OUTSIDER].reward_bps = 0
        /\ agents'[OUTSIDER].fee_bps = config.fee_bps
        /\ agents'[OUTSIDER].enabled /\ ~ agents'[OUTSIDER].authority_managed
        /\ agents'[OUTSIDER].daily_limit = Given
    BY <1>1, RegisterGives DEF TrialInv
  <2>2. AsGiven'
    BY <1>3, <2>1 DEF AsGiven, Own, Given
  <2> QED
    BY <1>1, <1>3, <1>4, <2>1, <2>2 DEF AloneInv, TrialInv
<1> QED
  BY <1>1, <1>2, <1>3, <1>4, <1>5 DEF TrialInv, VerdictInv, FreshRunPasses

\* The checks of the record find what self_register gave, unless others acted.
LEMMA InspectTrial ==
  ASSUME TrialInv, InspectAgent
  PROVE  TrialInv'
<1> DEFINE a == Own.daily_limit = trial.defaultDaily
           b == Own.reward_bps = 0
           c == Own.fee_bps = trial.configFee
           d == Own.enabled
           e == ~ Own.authority_managed
           found == Failing([limit |-> a, reward |-> b, fee |-> c, enabled |-> d,
                             managed |-> e])
<1>1. /\ UNCHANGED registryVars /\ UNCHANGED verdict /\ trial # NotRunning
      /\ trial.at = "inspect" /\ trial \in TrialRecord
      /\ trial' = [trial EXCEPT !.at = "total", !.failed = found]
  BY DEF InspectAgent, TrialAt, TrialInv
<1>2. RegistryTypeOK' /\ config' = config /\ agents' = agents
  BY <1>1 DEF TrialInv, RegistryTypeOK, ChainTypeOK, registryVars
<1>3. found \subseteq Labels
  <2> DEFINE checks == [limit |-> a, reward |-> b, fee |-> c, enabled |-> d,
                        managed |-> e]
  <2>1. DOMAIN checks = {"limit", "reward", "fee", "enabled", "managed"}
    <3> HIDE DEF a, b, c, d, e
    <3> QED
      OBVIOUS
  <2> HIDE DEF checks
  <2>2. Failing(checks) \subseteq Labels
    BY <2>1, FailingWithin DEF Labels
  <2> QED
    BY <2>2 DEF checks
<1>4. ASSUME Own \in AgentAuth, a, b, c, d, e PROVE found = {}
  <2>1. a \in BOOLEAN /\ b \in BOOLEAN /\ c \in BOOLEAN /\ e \in BOOLEAN
    OBVIOUS
  <2>2. d \in BOOLEAN
    BY <1>4 DEF AgentAuth
  <2> HIDE DEF a, b, c, d, e
  <2> QED
    BY <1>4, <2>1, <2>2, AgentChecks
<1> HIDE DEF found
<1>5. trial' \in TrialRecord /\ trial'.at = "total" /\ trial'.failed = found
  BY <1>1, <1>3 DEF TrialRecord, TrialAwaits
<1>6. /\ trial'.configFee = trial.configFee /\ trial'.defaultDaily = trial.defaultDaily
      /\ trial'.totalRewardBefore = trial.totalRewardBefore
      /\ trial'.fresh = trial.fresh /\ trial'.alone = trial.alone
  BY <1>1 DEF TrialRecord
<1>7. ASSUME trial.alone, trial.fresh PROVE AsGiven'
  <2>1. AloneInv /\ AsGiven
    BY <1>1, <1>7 DEF TrialInv, AloneInv
  <2>2. config.default_daily_limit \in 1 .. ASKED => found = {}
    BY <1>1, <1>4, <2>1 DEF AloneInv, AsGiven, Given
  <2> QED
    BY <1>1, <1>2, <1>5, <2>1, <2>2 DEF AsGiven, Own, Given
<1>8. trial'.alone => AloneInv'
  BY <1>1, <1>2, <1>5, <1>6, <1>7 DEF AloneInv, TrialInv
<1> QED
  BY <1>1, <1>2, <1>5, <1>8 DEF TrialInv, VerdictInv, FreshRunPasses

LEMMA TotalTrial ==
  ASSUME TrialInv, InspectTotal
  PROVE  TrialInv'
<1> DEFINE a == config.total_reward_bps = trial.totalRewardBefore
           found == Failing([total |-> a])
<1>1. /\ UNCHANGED registryVars /\ UNCHANGED verdict /\ trial # NotRunning
      /\ trial.at = "total" /\ trial \in TrialRecord
      /\ trial' = [trial EXCEPT !.at = "lower", !.failed = trial.failed \cup found]
  BY DEF InspectTotal, TrialAt, TrialInv
<1>2. RegistryTypeOK' /\ config' = config /\ agents' = agents
  BY <1>1 DEF TrialInv, RegistryTypeOK, ChainTypeOK, registryVars
<1>3. found \subseteq Labels /\ (a => found = {})
  <2>1. a \in BOOLEAN
    OBVIOUS
  <2> HIDE DEF a
  <2> QED
    BY <2>1, TotalCheck
<1> HIDE DEF found
<1>4. trial.failed \in SUBSET Labels
  BY <1>1 DEF TrialRecord
<1>5. /\ trial' \in TrialRecord /\ trial'.at = "lower"
      /\ trial'.failed = trial.failed \cup found
  <2> DEFINE both == trial.failed \cup found
  <2>1. both \in SUBSET Labels
    BY <1>3, <1>4
  <2>2. trial' = [trial EXCEPT !.at = "lower", !.failed = both]
    BY <1>1
  <2> HIDE DEF both
  <2>3. trial' \in TrialRecord /\ trial'.at = "lower" /\ trial'.failed = both
    BY <1>1, <2>1, <2>2 DEF TrialRecord, TrialAwaits
  <2> QED
    BY <2>3 DEF both
<1>6. /\ trial'.configFee = trial.configFee /\ trial'.defaultDaily = trial.defaultDaily
      /\ trial'.totalRewardBefore = trial.totalRewardBefore
      /\ trial'.fresh = trial.fresh /\ trial'.alone = trial.alone
  BY <1>1 DEF TrialRecord
<1>7. ASSUME trial.alone, trial.fresh PROVE AsGiven'
  <2>1. AloneInv /\ AsGiven
    BY <1>1, <1>7 DEF TrialInv, AloneInv
  <2>2. found = {}
    BY <1>3, <2>1 DEF AloneInv
  <2> QED
    BY <1>1, <1>2, <1>5, <2>1, <2>2 DEF AsGiven, Own, Given
<1>8. trial'.alone => AloneInv'
  BY <1>1, <1>2, <1>5, <1>6, <1>7 DEF AloneInv, TrialInv
<1> QED
  BY <1>1, <1>2, <1>5, <1>8 DEF TrialInv, VerdictInv, FreshRunPasses

\* Who registered itself may set its own limit, and nothing else of its record moves.
LEMMA LowerTrial ==
  ASSUME TrialInv, Lower
  PROVE  TrialInv'
<1>1. /\ SetOwnLimit(OUTSIDER, LOWER) /\ UNCHANGED verdict /\ trial # NotRunning
      /\ trial.at = "lower" /\ trial \in TrialRecord
      /\ trial' = [trial EXCEPT !.at = "confirm"]
  BY DEF Lower, TrialAt, TrialInv
<1>2. RegistryTypeOK'
  BY <1>1, TrialKeys, SetOwnLimitType DEF TrialInv
<1>3. trial' \in TrialRecord /\ trial'.at = "confirm"
  BY <1>1 DEF TrialRecord, TrialAwaits
<1>4. /\ trial'.configFee = trial.configFee /\ trial'.defaultDaily = trial.defaultDaily
      /\ trial'.totalRewardBefore = trial.totalRewardBefore
      /\ trial'.fresh = trial.fresh
      /\ trial'.failed = trial.failed /\ trial'.alone = trial.alone
  BY <1>1 DEF TrialRecord
<1>5. /\ config' = config
      /\ agents' = [agents EXCEPT ![OUTSIDER].daily_limit = LOWER]
      /\ agents \in [Wallets -> AgentAuth \cup {NoAgent}]
  BY <1>1 DEF SetOwnLimit, TrialInv, RegistryTypeOK
<1>6. agents'[OUTSIDER] = [agents[OUTSIDER] EXCEPT !.daily_limit = LOWER]
  BY <1>5, TrialKeys
<1>7. ASSUME trial.alone, trial.fresh PROVE AsGiven'
  <2>1. AloneInv /\ AsGiven
    BY <1>1, <1>7 DEF TrialInv, AloneInv
  <2> DEFINE a == agents[OUTSIDER]
             b == agents'[OUTSIDER]
  <2>2. a \in AgentAuth /\ b = [a EXCEPT !.daily_limit = LOWER]
    BY <1>6, <2>1 DEF AsGiven, Own
  <2>3. /\ a.reward_bps = 0 /\ a.fee_bps = config.fee_bps
        /\ a.enabled /\ ~ a.authority_managed
    BY <2>1 DEF AsGiven, Own
  <2> HIDE DEF a, b
  <2>4. /\ b \in AgentAuth /\ b.reward_bps = 0 /\ b.fee_bps = config.fee_bps
        /\ b.enabled /\ ~ b.authority_managed /\ b.daily_limit = LOWER
    BY <2>2, <2>3, TrialKeys DEF AgentAuth
  <2> QED
    BY <1>1, <1>3, <1>4, <1>5, <2>1, <2>4 DEF AsGiven, Own, Given, b
<1>8. trial'.alone => AloneInv'
  BY <1>1, <1>3, <1>4, <1>5, <1>7 DEF AloneInv, TrialInv
<1> QED
  BY <1>1, <1>2, <1>3, <1>8 DEF TrialInv, VerdictInv, FreshRunPasses

LEMMA ConfirmTrial ==
  ASSUME TrialInv, Confirm
  PROVE  TrialInv'
<1> DEFINE a == Own.daily_limit = LOWER
           found == Failing([lowered |-> a])
<1>1. /\ UNCHANGED registryVars /\ trial # NotRunning /\ trial' = NotRunning
      /\ trial.at = "confirm" /\ trial \in TrialRecord
      /\ verdict' = [failed |-> trial.failed \cup found,
                     clamps |-> trial.defaultDaily \in 1 .. ASKED,
                     fresh |-> trial.fresh, alone |-> trial.alone]
  BY DEF Confirm, TrialAt, TrialInv
<1>2. RegistryTypeOK'
  BY <1>1 DEF TrialInv, RegistryTypeOK, ChainTypeOK, registryVars
<1>3. found \subseteq Labels /\ (a => found = {})
  <2>1. a \in BOOLEAN
    OBVIOUS
  <2> HIDE DEF a
  <2> QED
    BY <2>1, LoweredCheck
<1> HIDE DEF found
<1>4. trial.failed \in SUBSET Labels
  BY <1>1 DEF TrialRecord
<1>5. /\ verdict'.failed = trial.failed \cup found
      /\ verdict'.clamps <=> trial.defaultDaily \in 1 .. ASKED
      /\ verdict'.fresh = trial.fresh /\ verdict'.alone = trial.alone
  BY <1>1
<1>6. VerdictInv'
  BY <1>3, <1>4, <1>5 DEF VerdictInv
<1>7. FreshRunPasses'
  <2> SUFFICES ASSUME trial.fresh, trial.alone, trial.defaultDaily \in 1 .. ASKED
               PROVE  trial.failed \cup found = {}
    BY <1>5 DEF FreshRunPasses
  <2>1. AloneInv /\ AsGiven
    BY <1>1 DEF TrialInv, AloneInv
  <2> QED
    BY <1>1, <1>3, <2>1 DEF AloneInv, AsGiven
<1> QED
  BY <1>1, <1>2, <1>6, <1>7 DEF TrialInv

LEMMA TrialStopsTrial ==
  ASSUME TrialInv, TrialStops
  PROVE  TrialInv'
BY DEF TrialStops, TrialInv, RegistryTypeOK, ChainTypeOK, registryVars,
       VerdictInv, FreshRunPasses

\* Whoever interferes ends what the run may rely on.
LEMMA MeddlingTrial ==
  ASSUME TrialInv, OthersMeddle
  PROVE  TrialInv'
<1>1. RegistryTypeOK
  BY DEF TrialInv
<1>2. RegistryTypeOK'
  <2>1. /\ OUTSIDER \in Wallets /\ LimitArgs \subseteq U64 /\ ShareArgs \subseteq U16
        /\ FeeArgs \subseteq U16
    BY TrialKeys, RouterAssumption
  <2>2. CASE \E s \in Officials, t, v \in Vaults, args \in ConfigArgs :
                UpdateConfig(s, t, v, args)
    BY <1>1, <2>2, ArgsAreAny, UpdateConfigType
  <2>3. CASE \E s \in Officials, on \in BOOLEAN : SetPaused(s, on)
    BY <1>1, <2>3, SetPausedType
  <2>4. CASE \E s \in Officials, limit \in LimitArgs, share \in ShareArgs,
                fee \in FeeArgs :
                \/ RegisterAgent(s, OUTSIDER, limit, share, fee)
                \/ \E e \in BOOLEAN : SetAgent(s, OUTSIDER, e, limit, share, fee)
    <3>1. PICK s \in Officials, limit \in U64, share \in U16, fee \in U16 :
                \/ RegisterAgent(s, OUTSIDER, limit, share, fee)
                \/ \E e \in BOOLEAN : SetAgent(s, OUTSIDER, e, limit, share, fee)
      BY <2>1, <2>4
    <3> QED
      BY <1>1, <2>1, <3>1, RegisterAgentType, SetAgentType
  <2>5. CASE \E limit \in LimitArgs :
                SelfRegister(OUTSIDER, limit) \/ SetOwnLimit(OUTSIDER, limit)
    <3>1. PICK limit \in U64 :
                SelfRegister(OUTSIDER, limit) \/ SetOwnLimit(OUTSIDER, limit)
      BY <2>1, <2>5
    <3> QED
      BY <1>1, <2>1, <3>1, SelfRegisterType, SetOwnLimitType
  <2> QED
    BY <2>2, <2>3, <2>4, <2>5 DEF OthersMeddle
<1>3. /\ verdict' = verdict
      /\ trial' = IF trial = NotRunning THEN trial ELSE [trial EXCEPT !.alone = FALSE]
  BY DEF OthersMeddle
<1>4. trial' # NotRunning => trial' \in TrialRecord /\ ~ trial'.alone
  BY <1>3 DEF TrialInv, TrialRecord
<1> QED
  BY <1>2, <1>3, <1>4 DEF TrialInv, VerdictInv, FreshRunPasses

LEMMA TrialInvInit == TrialInit => TrialInv
<1> SUFFICES ASSUME TrialInit PROVE TrialInv
  OBVIOUS
<1>1. trial = NotRunning /\ verdict = NotRunning
  BY DEF TrialInit, TrialIdle
<1>2. RegistryTypeOK
  BY ChainAssumption, OperationsAssumption
     DEF TrialInit, Deployed, ChainInit, RegistryTypeOK, ChainTypeOK
<1> QED
  BY <1>1, <1>2 DEF TrialInv, VerdictInv, FreshRunPasses

LEMMA TrialInvNext ==
  ASSUME TrialInv, [TrialNext]_outsiderVars
  PROVE  TrialInv'
<1>1. CASE TrialStep
  BY <1>1, ReadConfigTrial, LookUpTrial, RegisterTrial, InspectTrial, TotalTrial,
     LowerTrial, ConfirmTrial, TrialStopsTrial DEF TrialStep
<1>2. CASE OthersMeddle
  BY <1>2, MeddlingTrial
<1>3. CASE UNCHANGED outsiderVars
  <2>1. /\ UNCHANGED registryVars /\ config' = config /\ agents' = agents
        /\ trial' = trial /\ verdict' = verdict
    BY <1>3 DEF outsiderVars, registryVars
  <2>2. RegistryTypeOK'
    BY <2>1 DEF TrialInv, RegistryTypeOK, ChainTypeOK, registryVars
  <2>3. AloneInv => AloneInv'
    BY <2>1 DEF AloneInv, AsGiven, Own, Given
  <2> QED
    BY <2>1, <2>2, <2>3 DEF TrialInv, VerdictInv, FreshRunPasses
<1> QED
  BY <1>1, <1>2, <1>3 DEF TrialNext

LEMMA TrialInvTypes == TrialInv => TrialTypeOK
BY DEF TrialInv, TrialTypeOK, TrialRecord, TrialAwaits, VerdictInv

\* In any order of the script's calls and of what the authority and the wallet itself
\* do meanwhile, what a run of outsider-mainnet.js holds has its types
\* (outsider-mainnet.js:32).
THEOREM TrialTypeCorrect == TrialSpec => []TrialTypeOK
<1>1. TrialInit => TrialInv
  BY TrialInvInit
<1>2. TrialInv /\ [TrialNext]_outsiderVars => TrialInv'
  BY TrialInvNext
<1> QED
  BY <1>1, <1>2, TrialInvTypes, PTL DEF TrialSpec

\* For every ceiling and every limit asked for: a wallet that registers in a run
\* nobody interferes with, under a ceiling above zero that is no more than it asks
\* for, passes every check of outsider-mainnet.js:54.  A check that fails then means
\* that somebody interfered, or that the program changed.
THEOREM FreshRunsPass == TrialSpec => []FreshRunPasses
<1>1. TrialInit => TrialInv
  BY TrialInvInit
<1>2. TrialInv /\ [TrialNext]_outsiderVars => TrialInv'
  BY TrialInvNext
<1>3. TrialInv => FreshRunPasses
  BY DEF TrialInv
<1> QED
  BY <1>1, <1>2, <1>3, PTL DEF TrialSpec

-------------------------------------------------------------------------------
(***************************************************************************)
(* scripts/admin-mainnet.js.                                               *)
(***************************************************************************)

\* What a command holds of config is what was there when it was read, although some
\* of it may have been written since.
HoldsConfig(terms, since, c) ==
    /\ DOMAIN since \subseteq ConfigTerms
    /\ terms \in [maxPerTrade : U64, defaultDaily : U64]
    /\ terms.maxPerTrade = AsRead(since, c, "max_lamports_per_trade")
    /\ terms.defaultDaily = AsRead(since, c, "default_daily_limit")

HoldsClerk(terms, since, a) ==
    /\ DOMAIN since \subseteq AgentTerms
    /\ terms \in [enabled : BOOLEAN, agentDaily : U64, agentRewardBps : U16]
    /\ terms.enabled = AsRead(since, a, "enabled")
    /\ terms.agentDaily = AsRead(since, a, "daily_limit")
    /\ terms.agentRewardBps = AsRead(since, a, "reward_bps")

HeldFor(command, c) ==
    command # Idle =>
        /\ command = [terms |-> command.terms, since |-> command.since]
        /\ HoldsConfig(command.terms, command.since, c)

ProperFor(tx, c, a) ==
    /\ tx = [key |-> tx.key, cmd |-> tx.cmd, arg |-> tx.arg, terms |-> tx.terms,
             since |-> tx.since]
    /\ tx.key \in Officials
    /\ \/ tx.cmd = "fee" /\ tx.arg \in U16 /\ HoldsConfig(tx.terms, tx.since, c)
       \/ tx.cmd = "agent-fee" /\ tx.arg \in U16 /\ HoldsClerk(tx.terms, tx.since, a)
       \/ tx.cmd = "pause" /\ tx.arg \in BOOLEAN
       \/ tx.cmd = "rotate-noop" /\ tx.arg = tx.key

AccountsKept == RegistryTypeOK /\ Registered(CLERK)

\* What a shell holds, and what is on its way.
ShellsKept ==
    /\ shell = [o \in Operators |-> shell[o]]
    /\ \A o \in Operators : HeldFor(shell[o], config)
    /\ \A tx \in sent : ProperFor(tx, config, agents[CLERK])
    /\ others \in 0 .. MaxOthers

AdminInv == AccountsKept /\ ShellsKept

\* The history says, of each field, what it was.
LEMMA SinceTells ==
  ASSUME NEW since, NEW T, NEW old, NEW new, NEW f \in T
  PROVE  AsRead(Since(since, T, old, new), new, f) = AsRead(since, old, f)
<1> DEFINE D == DOMAIN since \cup {g \in T : new[g] # old[g]}
<1>1. Since(since, T, old, new)
        = [g \in D |-> IF g \in DOMAIN since THEN since[g] ELSE old[g]]
  BY DEF Since
<1>2. CASE f \in D
  BY <1>1, <1>2 DEF AsRead
<1>3. CASE f \notin D
  BY <1>1, <1>3 DEF AsRead
<1> QED
  BY <1>2, <1>3

LEMMA SinceOnlyOf ==
  ASSUME NEW since, NEW T, NEW old, NEW new, DOMAIN since \subseteq T
  PROVE  DOMAIN Since(since, T, old, new) \subseteq T
BY DEF Since

LEMMA HoldsConfigStays ==
  ASSUME NEW terms, NEW since, NEW old, NEW new, HoldsConfig(terms, since, old)
  PROVE  HoldsConfig(terms, Since(since, ConfigTerms, old, new), new)
<1>1. \A f \in ConfigTerms :
         AsRead(Since(since, ConfigTerms, old, new), new, f) = AsRead(since, old, f)
  BY SinceTells
<1>2. DOMAIN Since(since, ConfigTerms, old, new) \subseteq ConfigTerms
  BY SinceOnlyOf DEF HoldsConfig
<1>3. /\ "max_lamports_per_trade" \in ConfigTerms
      /\ "default_daily_limit" \in ConfigTerms
  BY DEF ConfigTerms
<1> QED
  BY <1>1, <1>2, <1>3 DEF HoldsConfig

LEMMA HoldsClerkStays ==
  ASSUME NEW terms, NEW since, NEW old, NEW new, HoldsClerk(terms, since, old)
  PROVE  HoldsClerk(terms, Since(since, AgentTerms, old, new), new)
<1>1. \A f \in AgentTerms :
         AsRead(Since(since, AgentTerms, old, new), new, f) = AsRead(since, old, f)
  BY SinceTells
<1>2. DOMAIN Since(since, AgentTerms, old, new) \subseteq AgentTerms
  BY SinceOnlyOf DEF HoldsClerk
<1>3. "enabled" \in AgentTerms /\ "daily_limit" \in AgentTerms
      /\ "reward_bps" \in AgentTerms
  BY DEF AgentTerms
<1> QED
  BY <1>1, <1>2, <1>3 DEF HoldsClerk

\* Whatever is written meanwhile, a command holds what it read, and a transaction
\* carries it.
LEMMA HeldStays ==
  ASSUME NEW command, HeldFor(command, config)
  PROVE  HeldFor(Aged(command), config')
<1>1. CASE command = Idle
  BY <1>1 DEF Aged, HeldFor
<1>2. CASE command # Idle
  <2> DEFINE since == Since(command.since, ConfigTerms, config, config')
  <2>1. /\ command = [terms |-> command.terms, since |-> command.since]
        /\ HoldsConfig(command.terms, command.since, config)
    BY <1>2 DEF HeldFor
  <2>2. HoldsConfig(command.terms, since, config')
    BY <2>1, HoldsConfigStays
  <2>3. Aged(command) = [command EXCEPT !.since = since]
    BY <1>2 DEF Aged
  <2> HIDE DEF since
  <2>4. Aged(command) = [terms |-> command.terms, since |-> since]
    BY <2>1, <2>3
  <2> QED
    BY <2>2, <2>4 DEF HeldFor
<1> QED
  BY <1>1, <1>2

LEMMA ProperStays ==
  ASSUME NEW tx, ProperFor(tx, config, agents[CLERK])
  PROVE  ProperFor(Overtaken(tx), config', agents'[CLERK])
<1> DEFINE since == CASE tx.cmd = "fee" ->
                            Since(tx.since, ConfigTerms, config, config')
                      [] tx.cmd = "agent-fee" ->
                            Since(tx.since, AgentTerms, agents[CLERK], agents'[CLERK])
                      [] OTHER -> tx.since
           out == [key |-> tx.key, cmd |-> tx.cmd, arg |-> tx.arg, terms |-> tx.terms,
                   since |-> since]
<1>1. /\ tx = [key |-> tx.key, cmd |-> tx.cmd, arg |-> tx.arg, terms |-> tx.terms,
               since |-> tx.since]
      /\ tx.key \in Officials
  BY DEF ProperFor
<1>2. Overtaken(tx) = [tx EXCEPT !.since = since]
  BY DEF Overtaken
<1>3. CASE tx.cmd = "fee"
  <2>1. since = Since(tx.since, ConfigTerms, config, config')
    BY <1>3
  <2>2. tx.arg \in U16 /\ HoldsConfig(tx.terms, tx.since, config)
    BY <1>3 DEF ProperFor
  <2>3. HoldsConfig(tx.terms, since, config')
    BY <2>1, <2>2, HoldsConfigStays
  <2> HIDE DEF since
  <2>4. Overtaken(tx) = out
    BY <1>1, <1>2
  <2> QED
    BY <1>1, <1>3, <2>2, <2>3, <2>4 DEF ProperFor
<1>4. CASE tx.cmd = "agent-fee"
  <2>1. since = Since(tx.since, AgentTerms, agents[CLERK], agents'[CLERK])
    BY <1>4
  <2>2. tx.arg \in U16 /\ HoldsClerk(tx.terms, tx.since, agents[CLERK])
    BY <1>4 DEF ProperFor
  <2>3. HoldsClerk(tx.terms, since, agents'[CLERK])
    BY <2>1, <2>2, HoldsClerkStays
  <2> HIDE DEF since
  <2>4. Overtaken(tx) = out
    BY <1>1, <1>2
  <2> QED
    BY <1>1, <1>4, <2>2, <2>3, <2>4 DEF ProperFor
<1>5. CASE tx.cmd \notin {"fee", "agent-fee"}
  <2>1. \/ tx.cmd = "pause" /\ tx.arg \in BOOLEAN
        \/ tx.cmd = "rotate-noop" /\ tx.arg = tx.key
    BY <1>5 DEF ProperFor
  <2> HIDE DEF since
  <2>2. Overtaken(tx) = out
    BY <1>1, <1>2
  <2> QED
    BY <1>1, <2>1, <2>2 DEF ProperFor
<1> QED
  BY <1>3, <1>4, <1>5

LEMMA OvertakesKeep ==
  ASSUME ShellsKept, others' \in 0 .. MaxOthers, NEW txs \in SUBSET sent, Overtakes(txs)
  PROVE  ShellsKept'
<1>1. /\ shell' = [o \in Operators |-> Aged(shell[o])]
      /\ sent' = {Overtaken(tx) : tx \in txs}
  BY DEF Overtakes
<1>2. shell' = [o \in Operators |-> shell'[o]]
  BY <1>1
<1>3. \A o \in Operators : HeldFor(shell'[o], config')
  BY <1>1, HeldStays DEF ShellsKept
<1>4. \A tx \in sent' : ProperFor(tx, config', agents'[CLERK])
  BY <1>1, ProperStays DEF ShellsKept
<1> QED
  BY <1>2, <1>3, <1>4 DEF ShellsKept

\* Nobody writes, and what is held and sent is held and sent as it should be.
LEMMA NobodyWrites ==
  ASSUME AdminInv, UNCHANGED <<registryVars, others>>,
         shell' = [o \in Operators |-> shell'[o]],
         \A o \in Operators : HeldFor(shell'[o], config),
         \A tx \in sent' : ProperFor(tx, config, agents[CLERK])
  PROVE  AdminInv'
<1>1. UNCHANGED registryVars /\ config' = config /\ agents' = agents /\ others' = others
  BY DEF registryVars
<1>2. RegistryTypeOK' /\ Registered(CLERK)'
  BY <1>1 DEF AdminInv, AccountsKept, RegistryTypeOK, ChainTypeOK, registryVars,
              Registered
<1> QED
  BY <1>1, <1>2 DEF AdminInv, AccountsKept, ShellsKept

\* `fee`: of config, what was written since it was read is as it was read again.
LEMMA FeeLands ==
  ASSUME RegistryTypeOK, NEW tx, HoldsConfig(tx.terms, tx.since, config),
         UpdateConfig(tx.key, VAULT, VAULT,
                       [fee_bps |-> tx.arg,
                        max_lamports_per_trade |-> tx.terms.maxPerTrade,
                        default_daily_limit |-> tx.terms.defaultDaily])
  PROVE  FeeOnly(tx)
<1> DEFINE was(f) == AsRead(tx.since, config, f)
           kept(f) == IF f = "fee_bps" THEN tx.arg
                      ELSE IF f \in {"treasury", "fee_vault"} THEN VAULT
                      ELSE was(f)
           now == [config EXCEPT
                     !.treasury = VAULT, !.fee_vault = VAULT, !.fee_bps = tx.arg,
                     !.max_lamports_per_trade = was("max_lamports_per_trade"),
                     !.default_daily_limit = was("default_daily_limit")]
<1>1. config \in Config /\ agents' = agents
  BY DEF RegistryTypeOK, UpdateConfig, HasOneAuthority
<1>2. config' = now
  BY DEF UpdateConfig, HoldsConfig
<1>3. DOMAIN config = {"authority", "treasury", "fee_vault", "fee_bps",
                       "max_lamports_per_trade", "default_daily_limit",
                       "total_reward_bps", "paused"}
  BY <1>1 DEF Config
<1>4. \A f \in DOMAIN config \ ConfigTerms : was(f) = config[f]
  BY DEF AsRead, HoldsConfig
<1> HIDE DEF was
<1>5. \A f \in DOMAIN config : now[f] = kept(f)
  <2> SUFFICES ASSUME NEW f \in DOMAIN config PROVE now[f] = kept(f)
    OBVIOUS
  <2>1. CASE f \in ConfigTerms
    BY <1>1, <1>3, <2>1 DEF ConfigTerms, Config
  <2>2. CASE f \notin ConfigTerms
    <3>1. was(f) = config[f]
      BY <1>4, <2>2
    <3> QED
      BY <1>1, <1>3, <2>2, <3>1 DEF ConfigTerms, Config
  <2> QED
    BY <2>1, <2>2
<1>6. now = [f \in DOMAIN config |-> now[f]]
  BY <1>1 DEF Config
<1> HIDE DEF now, kept
<1>7. now = [f \in DOMAIN config |-> kept(f)]
  BY <1>5, <1>6
<1> QED
  BY <1>1, <1>2, <1>7 DEF FeeOnly, kept, was

\* `agent-fee`: likewise of the clerk's record, and the total follows its share.
LEMMA AgentFeeLands ==
  ASSUME RegistryTypeOK, NEW tx, HoldsClerk(tx.terms, tx.since, agents[CLERK]),
         SetAgent(tx.key, CLERK, tx.terms.enabled, tx.terms.agentDaily,
                  tx.terms.agentRewardBps, tx.arg)
  PROVE  AgentFeeOnly(tx)
<1> DEFINE a == agents[CLERK]
           was(f) == AsRead(tx.since, a, f)
           kept(f) == IF f = "fee_bps" THEN tx.arg ELSE was(f)
           now == [a EXCEPT !.enabled = was("enabled"),
                            !.daily_limit = was("daily_limit"),
                            !.reward_bps = was("reward_bps"), !.fee_bps = tx.arg]
<1>1. /\ a \in AgentAuth /\ CLERK \in Wallets
      /\ agents \in [Wallets -> AgentAuth \cup {NoAgent}]
  BY AgreedKeys DEF RegistryTypeOK, SetAgent, Registered
<1>2. /\ tx.terms.enabled = was("enabled") /\ tx.terms.agentDaily = was("daily_limit")
      /\ tx.terms.agentRewardBps = was("reward_bps")
  BY DEF HoldsClerk
<1>3. DOMAIN a = {"daily_limit", "spent_today", "day", "reward_bps", "fee_bps",
                  "enabled", "authority_managed"}
  BY <1>1 DEF AgentAuth
<1>4. \A f \in DOMAIN a \ AgentTerms : was(f) = a[f]
  BY DEF AsRead, HoldsClerk
<1> HIDE DEF was
<1>5. agents' = [agents EXCEPT ![CLERK] = now]
  BY <1>1, <1>2 DEF SetAgent
<1>6. /\ agents'[CLERK] = now
      /\ now.reward_bps = was("reward_bps")
  BY <1>1, <1>3, <1>5
<1>7. config' = [config EXCEPT !.total_reward_bps =
                    (@ - a.reward_bps) + agents'[CLERK].reward_bps]
  BY <1>2, <1>6 DEF SetAgent, AddShares
<1> HIDE DEF a
<1>8. \A f \in DOMAIN a : now[f] = kept(f)
  <2> SUFFICES ASSUME NEW f \in DOMAIN a PROVE now[f] = kept(f)
    OBVIOUS
  <2>1. CASE f \in AgentTerms
    BY <1>1, <1>3, <2>1 DEF AgentTerms, AgentAuth
  <2>2. CASE f \notin AgentTerms
    <3>1. was(f) = a[f]
      BY <1>4, <2>2
    <3> QED
      BY <1>1, <1>3, <2>2, <3>1 DEF AgentTerms, AgentAuth
  <2> QED
    BY <2>1, <2>2
<1>9. now = [f \in DOMAIN a |-> now[f]]
  BY <1>1 DEF AgentAuth
<1> HIDE DEF now, kept
<1>10. now = [f \in DOMAIN a |-> kept(f)]
  BY <1>8, <1>9
<1> QED
  BY <1>5, <1>7, <1>10 DEF AgentFeeOnly, kept, was, a

\* What landing may change: see OneFieldEach.
NamedFieldOnly(tx) ==
    CASE tx.cmd = "fee" -> FeeOnly(tx)
      [] tx.cmd = "agent-fee" -> AgentFeeOnly(tx)
      [] tx.cmd = "pause" ->
            agents' = agents /\ config' = [config EXCEPT !.paused = tx.arg]
      [] tx.cmd = "rotate-noop" -> UNCHANGED <<config, agents>>

LEMMA LandsOnNamed ==
  ASSUME AdminInv, NEW tx \in sent, Land(tx)
  PROVE  NamedFieldOnly(tx)
<1>1. ProperFor(tx, config, agents[CLERK]) /\ Executes(tx) /\ RegistryTypeOK
  BY DEF AdminInv, AccountsKept, ShellsKept, Land
<1>2. CASE tx.cmd = "fee"
  <2>1. /\ HoldsConfig(tx.terms, tx.since, config)
        /\ UpdateConfig(tx.key, VAULT, VAULT,
                       [fee_bps |-> tx.arg,
                        max_lamports_per_trade |-> tx.terms.maxPerTrade,
                        default_daily_limit |-> tx.terms.defaultDaily])
    BY <1>1, <1>2 DEF ProperFor, Executes
  <2>2. FeeOnly(tx)
    BY <1>1, <2>1, FeeLands
  <2> QED
    BY <1>2, <2>2 DEF NamedFieldOnly
<1>3. CASE tx.cmd = "agent-fee"
  <2>1. /\ HoldsClerk(tx.terms, tx.since, agents[CLERK])
        /\ SetAgent(tx.key, CLERK, tx.terms.enabled, tx.terms.agentDaily,
                    tx.terms.agentRewardBps, tx.arg)
    BY <1>1, <1>3 DEF ProperFor, Executes
  <2>2. AgentFeeOnly(tx)
    BY <1>1, <2>1, AgentFeeLands
  <2> QED
    BY <1>3, <2>2 DEF NamedFieldOnly
<1>4. CASE tx.cmd = "pause"
  <2>1. SetPaused(tx.key, tx.arg)
    BY <1>1, <1>4 DEF ProperFor, Executes
  <2> QED
    BY <1>4, <2>1 DEF NamedFieldOnly, SetPaused
<1>5. CASE tx.cmd = "rotate-noop"
  <2>1. tx.arg = tx.key /\ SetAuthority(tx.key, tx.key)
    BY <1>1, <1>5 DEF ProperFor, Executes
  <2>2. /\ agents' = agents /\ config \in Config /\ tx.key = config.authority
        /\ config' = [config EXCEPT !.authority = tx.key]
    BY <1>1, <2>1 DEF SetAuthority, HasOneAuthority, RegistryTypeOK
  <2>3. config' = config
    BY <2>2 DEF Config
  <2> QED
    BY <1>5, <2>2, <2>3 DEF NamedFieldOnly
<1> QED
  BY <1>1, <1>2, <1>3, <1>4, <1>5 DEF ProperFor

\* Neither config nor any agent is written to.
Rests == config' = config /\ agents' = agents

\* The clerk trades.
ClerkTrades ==
    Registered(CLERK) /\ \E amount \in LimitArgs \ {0} : ClerkSpends(amount)

LEMMA LandingInstructs ==
  ASSUME AdminInv, NEW tx \in sent, Land(tx)
  PROVE  Instruction
<1>1. ProperFor(tx, config, agents[CLERK]) /\ Executes(tx) /\ tx.key \in Officials
  BY DEF AdminInv, ShellsKept, Land, ProperFor
<1>2. VAULT \in Vaults /\ CLERK \in Wallets
  BY AgreedKeys
<1>3. CASE tx.cmd = "fee"
  <2> DEFINE args == [fee_bps |-> tx.arg,
                      max_lamports_per_trade |-> tx.terms.maxPerTrade,
                      default_daily_limit |-> tx.terms.defaultDaily]
  <2>1. /\ tx.arg \in U16 /\ tx.terms \in [maxPerTrade : U64, defaultDaily : U64]
        /\ UpdateConfig(tx.key, VAULT, VAULT, args)
    BY <1>1, <1>3 DEF ProperFor, HoldsConfig, Executes
  <2>2. args \in AnyArgs
    BY <2>1 DEF AnyArgs
  <2> HIDE DEF args
  <2> QED
    BY <1>1, <1>2, <2>1, <2>2 DEF Instruction
<1>4. CASE tx.cmd = "agent-fee"
  <2>1. /\ tx.arg \in U16 /\ tx.terms.enabled \in BOOLEAN
        /\ tx.terms.agentDaily \in U64 /\ tx.terms.agentRewardBps \in U16
        /\ SetAgent(tx.key, CLERK, tx.terms.enabled, tx.terms.agentDaily,
                    tx.terms.agentRewardBps, tx.arg)
    BY <1>1, <1>4 DEF ProperFor, HoldsClerk, Executes
  <2> QED
    BY <1>1, <1>2, <2>1 DEF Instruction
<1>5. CASE tx.cmd = "pause"
  BY <1>1, <1>5 DEF ProperFor, Executes, Instruction
<1>6. CASE tx.cmd = "rotate-noop"
  BY <1>1, <1>6 DEF ProperFor, Executes, Instruction
<1> QED
  BY <1>1, <1>3, <1>4, <1>5, <1>6 DEF ProperFor

LEMMA TermsAre ==
  /\ FEE_BPS \in U16 /\ MAX_PER_TRADE \in U64 /\ DEFAULT_DAILY \in U64
  /\ CLERK_DAILY \in U64 /\ CLERK_REWARD_BPS \in U16 /\ CLERK_REWARD_BPS \in Nat
<1>1. /\ FEE_BPS = AgreedConfig.fee_bps
      /\ MAX_PER_TRADE = AgreedConfig.max_lamports_per_trade
      /\ DEFAULT_DAILY = AgreedConfig.default_daily_limit
      /\ CLERK_DAILY = AgreedClerk.daily_limit
      /\ CLERK_REWARD_BPS = AgreedClerk.reward_bps
  BY DEF AgreedConfig, AgreedClerk
<1>2. AgreedConfig \in Config /\ AgreedClerk \in AgentAuth
  BY OperationsAssumption
<1> QED
  BY <1>1, <1>2, RouterAssumption DEF Config, AgentAuth, U16

\* What others do is an instruction too, unless the clerk trades or only time passes.
LEMMA OthersMove ==
  ASSUME AdminInv, OthersGoOn
  PROVE  Instruction \/ ClerkTrades \/ TimePasses
<1>1. /\ DEFAULT_DAILY \in U64 /\ FEE_BPS \in U16 /\ CLERK \in Wallets
      /\ LimitArgs \subseteq U64 /\ ShareArgs \subseteq U16 /\ FeeArgs \subseteq U16
  BY TermsAre, AgreedKeys, RouterAssumption
<1>2. CASE OthersRewrite
  <2>1. PICK s \in Officials :
           \/ \E t, v \in Vaults, args \in AnyArgs : UpdateConfig(s, t, v, args)
           \/ \E on \in BOOLEAN, limit \in U64, share \in U16, fee \in U16 :
                 SetAgent(s, CLERK, on, limit, share, fee)
    BY <1>1, <1>2, ArgsAreAny DEF OthersRewrite
  <2> QED
    BY <1>1, <2>1 DEF Instruction
<1>3. ASSUME NEW s \in Officials, NEW w \in Wallets \ {CLERK}, NEW share \in ShareArgs,
             RegisterAgent(s, w, DEFAULT_DAILY, share, FEE_BPS)
      PROVE  Instruction
  <2>1. share \in U16 /\ w \in Wallets
    BY <1>1
  <2> QED
    BY <1>1, <1>3, <2>1 DEF Instruction
<1>4. ASSUME NEW s \in Officials, NEW new \in Officials, SetAuthority(s, new)
      PROVE  Instruction
  BY <1>4 DEF Instruction
<1> QED
  BY <1>2, <1>3, <1>4 DEF OthersGoOn, ClerkTrades, AdminInv, AccountsKept

\* A buy is charged to the clerk's record, and nothing else of it is written.
LEMMA ClerkSpendsType ==
  ASSUME RegistryTypeOK, agents[CLERK] \in AgentAuth,
         NEW amount \in LimitArgs \ {0}, ClerkSpends(amount)
  PROVE  /\ RegistryTypeOK' /\ config' = config
         /\ agents'[CLERK] \in AgentAuth
         /\ agents'[CLERK].daily_limit = agents[CLERK].daily_limit
         /\ agents'[CLERK].reward_bps = agents[CLERK].reward_bps
         /\ agents'[CLERK].fee_bps = agents[CLERK].fee_bps
         /\ agents'[CLERK].enabled = agents[CLERK].enabled
         /\ agents'[CLERK].authority_managed = agents[CLERK].authority_managed
         /\ \A w \in Wallets \ {CLERK} : agents'[w] = agents[w]
<1> DEFINE a == agents[CLERK]
           spent == (IF a.day = CurrentDay THEN a.spent_today ELSE 0) + amount
           b == [a EXCEPT !.day = CurrentDay, !.spent_today = spent]
<1>1. /\ a \in AgentAuth /\ CLERK \in Wallets /\ CLERK \in Keys
      /\ agents \in [Wallets -> AgentAuth \cup {NoAgent}]
  BY AgreedKeys DEF RegistryTypeOK
<1>2. /\ spent <= a.daily_limit
      /\ agents' = [agents EXCEPT ![CLERK].day = CurrentDay,
                                  ![CLERK].spent_today = spent]
      /\ signer' = CLERK /\ config' = config /\ UNCHANGED chainVars
  BY DEF ClerkSpends
<1>3. CurrentDay \in Nat /\ amount \in Nat
  BY CurrentDayType, RouterAssumption DEF RegistryTypeOK, ChainTypeOK, U64
<1>4. spent \in U64
  <2>1. a.spent_today \in Nat /\ a.daily_limit \in U64
    BY <1>1, RouterAssumption DEF AgentAuth, U64
  <2>2. spent \in Nat
    BY <1>3, <2>1
  <2> HIDE DEF spent
  <2> QED
    BY <1>2, <2>1, <2>2, RouterAssumption DEF U64
<1> HIDE DEF spent
<1>5. agents' = [agents EXCEPT ![CLERK] = b]
  BY <1>1, <1>2
<1>6. /\ b \in AgentAuth /\ b.daily_limit = a.daily_limit
      /\ b.reward_bps = a.reward_bps /\ b.enabled = a.enabled /\ b.fee_bps = a.fee_bps
      /\ b.authority_managed = a.authority_managed
  <2> HIDE DEF a
  <2> QED
    BY <1>1, <1>3, <1>4 DEF AgentAuth
<1> HIDE DEF b
<1>7. /\ agents'[CLERK] = b /\ \A w \in Wallets \ {CLERK} : agents'[w] = agents[w]
      /\ agents' \in [Wallets -> AgentAuth \cup {NoAgent}]
  BY <1>1, <1>5, <1>6
<1>8. RegistryTypeOK'
  BY <1>1, <1>2, <1>7 DEF RegistryTypeOK, ChainTypeOK, chainVars
<1> QED
  BY <1>2, <1>6, <1>7, <1>8

LEMMA WritesKeep ==
  ASSUME AccountsKept, Instruction \/ ClerkTrades \/ TimePasses
  PROVE  AccountsKept'
<1>1. RegistryTypeOK /\ Registered(CLERK) /\ CLERK \in Wallets
  BY AgreedKeys DEF AccountsKept
<1>2. CASE Instruction
  BY <1>1, <1>2, InstructionType, RegistrationStays DEF AccountsKept
<1>3. CASE ClerkTrades
  <2>1. agents[CLERK] \in AgentAuth
    BY <1>1 DEF RegistryTypeOK, Registered
  <2>2. RegistryTypeOK' /\ agents'[CLERK] \in AgentAuth
    BY <1>1, <1>3, <2>1, ClerkSpendsType DEF ClerkTrades
  <2> QED
    BY <2>2, SentinelAssumption DEF AccountsKept, Registered
<1>4. CASE TimePasses
  <2>1. RegistryTypeOK' /\ agents' = agents
    BY <1>1, <1>4, TimePassesType DEF TimePasses
  <2> QED
    BY <1>1, <2>1 DEF AccountsKept, Registered
<1> QED
  BY <1>2, <1>3, <1>4

LEMMA LandKeeps ==
  ASSUME AdminInv, NEW tx \in sent, Land(tx)
  PROVE  AdminInv'
<1>1. AccountsKept'
  BY LandingInstructs, WritesKeep DEF AdminInv
<1>2. ShellsKept'
  <2>1. /\ sent \ {tx} \in SUBSET sent /\ Overtakes(sent \ {tx})
        /\ others' = others /\ ShellsKept
    BY DEF Land, AdminInv
  <2>2. others' \in 0 .. MaxOthers
    BY <2>1 DEF ShellsKept
  <2> QED
    BY <2>1, <2>2, OvertakesKeep
<1> QED
  BY <1>1, <1>2 DEF AdminInv

LEMMA OthersKeep ==
  ASSUME AdminInv, OthersGoOn
  PROVE  AdminInv'
<1>1. AccountsKept'
  BY OthersMove, WritesKeep DEF AdminInv
<1>2. ShellsKept'
  <2>1. sent \in SUBSET sent /\ Overtakes(sent) /\ ShellsKept
    BY DEF OthersGoOn, AdminInv
  <2>2. others' \in 0 .. MaxOthers
    BY ScriptAssumption DEF OthersGoOn, AdminInv, ShellsKept
  <2> QED
    BY <2>1, <2>2, OvertakesKeep
<1> QED
  BY <1>1, <1>2 DEF AdminInv

\* A command posts a proper transaction, and its shell holds what it held or nothing.
LEMMA PostKeeps ==
  ASSUME AdminInv, NEW o \in Operators, NEW tx, ProperFor(tx, config, agents[CLERK]),
         Post(tx), shell' = shell \/ shell' = [shell EXCEPT ![o] = Idle]
  PROVE  AdminInv'
<1>1. /\ sent' = sent \cup {tx} /\ UNCHANGED <<registryVars, others>>
      /\ shell = [p \in Operators |-> shell[p]]
      /\ \A p \in Operators : HeldFor(shell[p], config)
      /\ \A other \in sent : ProperFor(other, config, agents[CLERK])
  BY DEF Post, AdminInv, ShellsKept
<1>2. shell' = [p \in Operators |-> shell'[p]]
  BY <1>1
<1>3. \A p \in Operators : shell'[p] = shell[p] \/ shell'[p] = Idle
  BY <1>1
<1>4. \A p \in Operators : HeldFor(shell'[p], config)
  BY <1>1, <1>3 DEF HeldFor
<1>5. \A other \in sent' : ProperFor(other, config, agents[CLERK])
  BY <1>1
<1> QED
  BY <1>1, <1>2, <1>4, <1>5, NobodyWrites

\* Read just now, nothing was written since.
LEMMA ReadNow ==
  ASSUME AdminInv
  PROVE  /\ config # NoConfig => HoldsConfig(ConfigRead(config), <<>>, config)
         /\ HoldsClerk(AgentRead(agents[CLERK]), <<>>, agents[CLERK])
<1>1. DOMAIN <<>> = {}
  OBVIOUS
<1>2. agents[CLERK] \in AgentAuth /\ (config # NoConfig => config \in Config)
  BY AgreedKeys DEF AdminInv, AccountsKept, RegistryTypeOK, Registered
<1>3. config # NoConfig => HoldsConfig(ConfigRead(config), <<>>, config)
  BY <1>1, <1>2 DEF HoldsConfig, ConfigRead, AsRead, Config
<1>4. HoldsClerk(AgentRead(agents[CLERK]), <<>>, agents[CLERK])
  BY <1>1, <1>2 DEF HoldsClerk, AgentRead, AsRead, AgentAuth
<1> QED
  BY <1>3, <1>4

LEMMA StartKeeps ==
  ASSUME AdminInv, NEW o \in Operators, Start(o)
  PROVE  AdminInv'
<1> DEFINE command == [terms |-> ConfigRead(config), since |-> <<>>]
<1>1. /\ shell' = [shell EXCEPT ![o] = command] /\ config # NoConfig
      /\ UNCHANGED <<registryVars, others>> /\ sent' = sent
      /\ shell = [p \in Operators |-> shell[p]]
      /\ \A p \in Operators : HeldFor(shell[p], config)
      /\ \A other \in sent : ProperFor(other, config, agents[CLERK])
  BY DEF Start, AdminInv, ShellsKept
<1>2. HeldFor(command, config)
  BY <1>1, ReadNow DEF HeldFor
<1> HIDE DEF command
<1>3. shell' = [p \in Operators |-> shell'[p]]
  BY <1>1
<1>4. \A p \in Operators : shell'[p] = IF p = o THEN command ELSE shell[p]
  BY <1>1
<1>5. \A p \in Operators : HeldFor(shell'[p], config)
  BY <1>1, <1>2, <1>4
<1> QED
  BY <1>1, <1>3, <1>5, NobodyWrites

LEMMA CommandsKeep ==
  ASSUME AdminInv, NEW o \in Operators,
         \/ Start(o)
         \/ \E arg \in NewFees : SendFee(o, arg) \/ SendAgentFee(o, arg)
         \/ \E on \in BOOLEAN : SendPause(o, on)
         \/ SendRotateNoop(o)
  PROVE  AdminInv'
<1>1. KeyOf[o] \in Officials /\ NewFees \subseteq U16 /\ HeldFor(shell[o], config)
  BY ScriptAssumption DEF AdminInv, ShellsKept
<1>2. ASSUME NEW arg \in NewFees, SendFee(o, arg) PROVE AdminInv'
  <2> DEFINE tx == Transaction(o, "fee", arg, shell[o].terms, shell[o].since)
  <2>1. /\ Post(tx) /\ shell' = [shell EXCEPT ![o] = Idle]
        /\ HoldsConfig(shell[o].terms, shell[o].since, config)
    BY <1>1, <1>2 DEF SendFee, HeldFor
  <2>2. ProperFor(tx, config, agents[CLERK])
    BY <1>1, <2>1 DEF ProperFor, Transaction
  <2> HIDE DEF tx
  <2> QED
    BY <2>1, <2>2, PostKeeps
<1>3. ASSUME NEW arg \in NewFees, SendAgentFee(o, arg) PROVE AdminInv'
  <2> DEFINE tx == Transaction(o, "agent-fee", arg, AgentRead(agents[CLERK]), <<>>)
  <2>1. Post(tx) /\ shell' = [shell EXCEPT ![o] = Idle]
    BY <1>3 DEF SendAgentFee
  <2>2. ProperFor(tx, config, agents[CLERK])
    BY <1>1, ReadNow DEF ProperFor, Transaction
  <2> HIDE DEF tx
  <2> QED
    BY <2>1, <2>2, PostKeeps
<1>4. ASSUME NEW on \in BOOLEAN, SendPause(o, on) PROVE AdminInv'
  <2> DEFINE tx == Transaction(o, "pause", on, Idle, <<>>)
  <2>1. Post(tx) /\ shell' = shell
    BY <1>4 DEF SendPause
  <2>2. ProperFor(tx, config, agents[CLERK])
    BY <1>1 DEF ProperFor, Transaction
  <2> HIDE DEF tx
  <2> QED
    BY <2>1, <2>2, PostKeeps
<1>5. CASE SendRotateNoop(o)
  <2> DEFINE tx == Transaction(o, "rotate-noop", KeyOf[o], Idle, <<>>)
  <2>1. Post(tx) /\ shell' = shell
    BY <1>5 DEF SendRotateNoop
  <2>2. ProperFor(tx, config, agents[CLERK])
    BY <1>1 DEF ProperFor, Transaction
  <2> HIDE DEF tx
  <2> QED
    BY <2>1, <2>2, PostKeeps
<1> QED
  BY <1>2, <1>3, <1>4, <1>5, StartKeeps

LEMMA AdminIdles ==
  ASSUME AdminInv, UNCHANGED <<registryVars, shell, others>>, sent' \subseteq sent
  PROVE  AdminInv'
<1>1. /\ shell' = [p \in Operators |-> shell'[p]]
      /\ \A p \in Operators : HeldFor(shell'[p], config)
      /\ \A other \in sent' : ProperFor(other, config, agents[CLERK])
  BY DEF AdminInv, ShellsKept
<1> QED
  BY <1>1, NobodyWrites

LEMMA AdminInvInit == ScriptInit => AdminInv
<1> SUFFICES ASSUME ScriptInit PROVE AdminInv
  OBVIOUS
<1>1. /\ config = AgreedConfig /\ AgreedConfig \in Config
      /\ agents = [w \in Wallets |-> IF w = CLERK THEN AgreedClerk ELSE NoAgent]
      /\ AgreedClerk \in AgentAuth /\ CLERK \in Wallets
  BY OperationsAssumption DEF ScriptInit, Deployed
<1>2. RegistryTypeOK
  BY <1>1, ChainAssumption
     DEF ScriptInit, Deployed, ChainInit, RegistryTypeOK, ChainTypeOK
<1>3. Registered(CLERK)
  BY <1>1, SentinelAssumption DEF Registered
<1>4. ShellsKept
  BY ScriptAssumption DEF ShellsKept, ScriptInit, ShellsIdle, HeldFor
<1> QED
  BY <1>2, <1>3, <1>4 DEF AdminInv, AccountsKept

LEMMA AdminInvNext ==
  ASSUME AdminInv, [ScriptNext]_adminVars
  PROVE  AdminInv'
<1>1. CASE \E o \in Operators :
              \/ Start(o)
              \/ \E arg \in NewFees : SendFee(o, arg) \/ SendAgentFee(o, arg)
              \/ \E on \in BOOLEAN : SendPause(o, on)
              \/ SendRotateNoop(o)
  BY <1>1, CommandsKeep
<1>2. ASSUME NEW tx \in sent, Land(tx) PROVE AdminInv'
  BY <1>2, LandKeeps
<1>3. ASSUME NEW tx \in sent, Drop(tx) PROVE AdminInv'
  <2>1. UNCHANGED <<registryVars, shell, others>> /\ sent' \subseteq sent
    BY <1>3 DEF Drop
  <2> QED
    BY <2>1, AdminIdles
<1>4. CASE OthersGoOn
  BY <1>4, OthersKeep
<1>5. CASE UNCHANGED adminVars
  <2>1. UNCHANGED <<registryVars, shell, others>> /\ sent' \subseteq sent
    BY <1>5 DEF adminVars, shellVars
  <2> QED
    BY <2>1, AdminIdles
<1> QED
  BY <1>1, <1>2, <1>3, <1>4, <1>5 DEF ScriptNext, ScriptStep

\* For any number of operators and shells, any number of transactions on their way, and
\* whatever other sessions of the authority write meanwhile: what admin-mainnet.js sent
\* changes the field its command names (admin-mainnet.js:7), leaves alone what nobody
\* has written since the command read it, and puts back what somebody has.
THEOREM OneFieldEachTime == ScriptSpec => OneFieldEach
<1>1. AdminInv /\ [ScriptNext]_adminVars =>
        [\A tx \in sent : Land(tx) =>
          CASE tx.cmd = "fee" -> FeeOnly(tx)
            [] tx.cmd = "agent-fee" -> AgentFeeOnly(tx)
            [] tx.cmd = "pause" ->
                  agents' = agents /\ config' = [config EXCEPT !.paused = tx.arg]
            [] tx.cmd = "rotate-noop" -> UNCHANGED <<config, agents>>]_adminVars
  BY LandsOnNamed DEF NamedFieldOnly
<1>2. ScriptInit => AdminInv
  BY AdminInvInit
<1>3. AdminInv /\ [ScriptNext]_adminVars => AdminInv'
  BY AdminInvNext
<1> QED
  BY <1>1, <1>2, <1>3, PTL DEF ScriptSpec, OneFieldEach

LEMMA AdminInvTypes == AdminInv => ScriptTypeOK
BY DEF AdminInv, AccountsKept, ShellsKept, ScriptTypeOK, ProperFor, HeldFor, HoldsConfig

\* Whatever else is sent meanwhile, a shell holds terms of a config account or nothing
\* (admin-mainnet.js:37).
THEOREM AdminTypeCorrect == ScriptSpec => []ScriptTypeOK
<1>1. ScriptInit => AdminInv
  BY AdminInvInit
<1>2. AdminInv /\ [ScriptNext]_adminVars => AdminInv'
  BY AdminInvNext
<1> QED
  BY <1>1, <1>2, AdminInvTypes, PTL DEF ScriptSpec

-------------------------------------------------------------------------------
(***************************************************************************)
(* scripts/creator-path-mainnet.js.                                        *)
(***************************************************************************)

ClerkOnly == [w \in Wallets |-> IF w = CLERK THEN AgreedClerk ELSE NoAgent]

PathRecord ==
    [at : {"stage", "unwrap", "read", "distribute", "report"},
     treasury : Nat, vault : Nat, alone : BOOLEAN]

\* What has left the vault since the run read it.
Moved == path.vault - vault

\* What a run that nobody has interfered with may rely on.
AlonePath ==
    /\ path.at # "report" => lamports[VAULT] = path.treasury
    /\ path.at = "distribute" => vault = path.vault
    /\ path.at = "report" =>
          lamports[VAULT] - path.treasury = Moved - BpsOf(Moved, CLERK_REWARD_BPS)

\* Nothing the script or the others do touches config or agents.
PathAccounts ==
    /\ VaultInv
    /\ config = AgreedConfig /\ agents = ClerkOnly /\ vaultOpen

RunsKept ==
    /\ path # NotRunning => path \in PathRecord
    /\ path # NotRunning /\ path.alone => AlonePath
    /\ report # NotRunning =>
          report \in [distributed : Int, toTreasury : Int, alone : BOOLEAN]

PathInv ==
    /\ PathAccounts /\ rents \in Nat /\ MoneyStaysOurs
    /\ RunsKept /\ QuietReport

LEMMA OurKeys ==
  /\ CLERK \in Wallets /\ CLERK \in Keys /\ VAULT \in Keys /\ CLERK # VAULT
  /\ CLERK \notin Officials /\ VAULT \notin Officials
  /\ AgreedClerk # NoAgent /\ AgreedClerk.reward_bps = CLERK_REWARD_BPS
  /\ CLERK_REWARD_BPS \in Nat /\ AgreedConfig # NoConfig /\ AgreedConfig \in Config
  /\ AgreedConfig.treasury = VAULT
<1>1. AgreedClerk.reward_bps = CLERK_REWARD_BPS /\ AgreedConfig.treasury = VAULT
  BY DEF AgreedClerk, AgreedConfig
<1>2. AgreedClerk # NoAgent /\ AgreedConfig # NoConfig
  BY OperationsAssumption, SentinelAssumption
<1> QED
  BY <1>1, <1>2, AgreedKeys, TermsAre, PathAssumption, OperationsAssumption

\* With the clerk's the only share, it gets that share and the treasury the rest.
LEMMA ClerksCut ==
  ASSUME PathAccounts
  PROVE  /\ Available \in Nat /\ Cut(CLERK) \in Nat
         /\ Cut(CLERK) = BpsOf(Available, CLERK_REWARD_BPS)
         /\ Gain(CLERK) = Cut(CLERK)
         /\ Gain(VAULT) = Available - Cut(CLERK)
<1>1. /\ RewardsTypeOK /\ config = AgreedConfig /\ agents = ClerkOnly
  BY DEF PathAccounts, VaultInv
<1>2. /\ Registered(CLERK) /\ agents[CLERK].reward_bps = CLERK_REWARD_BPS
      /\ \A w \in Wallets \ {CLERK} : ~ Registered(w)
  BY <1>1, OurKeys DEF ClerkOnly, Registered
<1>3. /\ Entitled(CLERK) = Cut(CLERK) /\ Cut(CLERK) \in Nat
      /\ \A k \in Keys \ {CLERK} : Entitled(k) = 0
  <2>1. Cut(CLERK) \in Nat
    BY <1>1, <1>2, OurKeys, CutFacts
  <2> QED
    BY <1>2, <2>1, OurKeys DEF Entitled
<1>4. AllEntitled = Cut(CLERK)
  <2> DEFINE e == Entitlements
             T == {CLERK}
  <2>1. \A w \in Wallets : e[w] \in Int
    BY <1>1, EntitledFacts
  <2>2. \A w \in Wallets \ T : e[w] = 0
    BY <1>3, RouterAssumption DEF Entitlements
  <2>3. e[CLERK] = Cut(CLERK)
    BY <1>3, OurKeys DEF Entitlements
  <2>4. T \in SUBSET Wallets /\ IsFiniteSet(T) /\ CLERK \in T /\ T \ {CLERK} = {}
    BY OurKeys, WalletsFinite, FS_Subset
  <2> HIDE DEF e, T
  <2>5. Sum(e, Wallets) = Sum(e, T)
    BY <2>1, <2>2, <2>4, WalletsFinite, SumOfSupport
  <2>6. \A w \in T : e[w] \in Int
    BY <2>1, <2>4
  <2>7. Sum(e, T) = e[CLERK] + Sum(e, T \ {CLERK})
    BY <2>4, <2>6, SumSplit
  <2>8. Sum(e, {}) = 0
    BY FS_EmptySet, SumStep
  <2> QED
    BY <1>3, <2>3, <2>4, <2>5, <2>7, <2>8 DEF AllEntitled, e
<1>5. Available \in Nat
  BY <1>1, AvailableType
<1> QED
  BY <1>1, <1>2, <1>3, <1>4, <1>5, OurKeys DEF Gain, Cut

\* A step of the vault: ours is more by what was earned and what others paid.
OursGrow ==
    /\ PathAccounts' /\ rents' \in Nat
    /\ InTheSystem' = InTheSystem + (earned' - earned) + (rents' - rents)

LEMMA PathTypes ==
  ASSUME PathAccounts
  PROVE  /\ RewardsTypeOK /\ RegistryTypeOK /\ lamports \in [Keys -> Nat]
         /\ vault \in Nat /\ vaultWsol \in Nat \cup {NoAccount} /\ earned \in Nat
         /\ vaultOpen /\ vault >= VaultRent /\ TokenRent \in Nat /\ VaultRent \in Nat
         /\ NoAccount \notin Nat /\ lamports[CLERK] \in Nat /\ lamports[VAULT] \in Nat
<1>1. /\ RewardsTypeOK /\ RegistryTypeOK /\ lamports \in [Keys -> Nat]
      /\ vault \in Nat /\ vaultWsol \in Nat \cup {NoAccount} /\ earned \in Nat
      /\ vaultOpen /\ vault >= VaultRent
  BY RewardsAssumption DEF PathAccounts, VaultInv, VaultReserved, RewardsTypeOK,
                           RegistryTypeOK, ChainTypeOK
<1> QED
  BY <1>1, OurKeys, ChainAssumption, RewardsAssumption

LEMMA CurveOurs ==
  ASSUME PathAccounts, rents \in Nat, NEW amount \in Revenue, CollectCurveFee(amount),
         rents' = rents
  PROVE  OursGrow
<1>1. VaultInv' /\ config' = config /\ agents' = agents
  BY CollectCurveInv DEF PathAccounts
<1>2. /\ lamports' = lamports /\ vault' = vault + amount /\ vaultOpen' = vaultOpen
      /\ vaultWsol' = vaultWsol /\ earned' = earned + amount
  BY DEF CollectCurveFee, Collect, chainVars
<1>3. PathAccounts'
  BY <1>1, <1>2 DEF PathAccounts, ClerkOnly, AgreedConfig, AgreedClerk
<1> QED
  BY <1>2, <1>3, PathTypes, RevenueType DEF OursGrow, InTheSystem

LEMMA AmmOurs ==
  ASSUME PathAccounts, rents \in Nat, NEW amount \in Revenue, NEW payer \in Officials,
         CollectAmmFee(payer, amount),
         rents' = rents + (IF vaultWsol = NoAccount THEN TokenRent ELSE 0)
  PROVE  OursGrow
<1>1. VaultInv' /\ config' = config /\ agents' = agents
  BY CollectAmmInv DEF PathAccounts
<1>2. /\ vault' = vault /\ vaultOpen' = vaultOpen /\ earned' = earned + amount
      /\ amount \in Nat
  BY RevenueType DEF CollectAmmFee, Collect
<1>3. PathAccounts'
  BY <1>1, <1>2 DEF PathAccounts, ClerkOnly, AgreedConfig, AgreedClerk
<1>4. payer \in Keys /\ payer # CLERK /\ payer # VAULT
  BY OurKeys, RouterAssumption
<1>5. CASE vaultWsol = NoAccount
  <2>1. /\ lamports' = Debit(lamports, payer, TokenRent) /\ vaultWsol' = amount
        /\ rents' = rents + TokenRent
    BY <1>5 DEF CollectAmmFee, Commit
  <2>2. lamports'[CLERK] = lamports[CLERK] /\ lamports'[VAULT] = lamports[VAULT]
    BY <1>4, <2>1, PathTypes, OurKeys DEF Debit
  <2>3. vaultWsol' # NoAccount
    BY <1>2, <2>1, PathTypes
  <2> QED
    BY <1>2, <1>3, <1>5, <2>1, <2>2, <2>3, PathTypes DEF OursGrow, InTheSystem
<1>6. CASE vaultWsol # NoAccount
  <2>1. lamports' = lamports /\ vaultWsol' = vaultWsol + amount /\ rents' = rents
    BY <1>6 DEF CollectAmmFee
  <2>2. vaultWsol \in Nat /\ vaultWsol' \in Nat /\ vaultWsol' # NoAccount
    BY <1>2, <1>6, <2>1, PathTypes
  <2> QED
    BY <1>2, <1>3, <1>6, <2>1, <2>2, PathTypes DEF OursGrow, InTheSystem
<1> QED
  BY <1>5, <1>6

LEMMA UnwrapOurs ==
  ASSUME PathAccounts, rents \in Nat, UnwrapCreatorFees, rents' = rents
  PROVE  OursGrow /\ lamports' = lamports
<1>1. VaultInv' /\ config' = config /\ agents' = agents
  BY UnwrapCreatorFeesInv DEF PathAccounts
<1>2. /\ vault' = vault + vaultWsol + TokenRent /\ vaultOpen' = vaultOpen
      /\ earned' = earned /\ lamports' = lamports
      /\ vaultWsol # NoAccount /\ vaultWsol' = NoAccount
  BY DEF UnwrapCreatorFees, UnwrapAccounts, chainVars
<1>3. PathAccounts'
  BY <1>1, <1>2 DEF PathAccounts, ClerkOnly, AgreedConfig, AgreedClerk
<1> QED
  BY <1>2, <1>3, PathTypes DEF OursGrow, InTheSystem

\* A payout moves what is available to the clerk and the treasury, whoever asked.
LEMMA DistributeOurs ==
  ASSUME PathAccounts, rents \in Nat, NEW payees \in PayeeLists, NEW t \in Vaults,
         DistributeRewards(payees, t), rents' = rents
  PROVE  /\ OursGrow
         /\ vault = Available + VaultRent /\ vault' = VaultRent
         /\ lamports'[VAULT] = lamports[VAULT]
                                 + (Available - BpsOf(Available, CLERK_REWARD_BPS))
<1>1. VaultInv' /\ config' = config /\ agents' = agents
  BY DistributeInv DEF PathAccounts
<1>2. /\ lamports'[CLERK] = lamports[CLERK] + Gain(CLERK)
      /\ lamports'[VAULT] = lamports[VAULT] + Gain(VAULT)
      /\ vault' = VaultRent /\ vault = Available + VaultRent
  BY DistributeFacts, OurKeys DEF PathAccounts
<1>3. earned' = earned /\ vaultOpen' = vaultOpen /\ vaultWsol' = vaultWsol
  BY DEF DistributeRewards
<1>4. PathAccounts'
  BY <1>1, <1>3 DEF PathAccounts, ClerkOnly, AgreedConfig, AgreedClerk
<1>5. /\ Available \in Nat /\ Cut(CLERK) \in Nat
      /\ Cut(CLERK) = BpsOf(Available, CLERK_REWARD_BPS)
      /\ Gain(CLERK) = Cut(CLERK) /\ Gain(VAULT) = Available - Cut(CLERK)
  BY ClerksCut
<1>6. InTheSystem' = InTheSystem + (earned' - earned) + (rents' - rents)
  <2> DEFINE a == Available
             c == Cut(CLERK)
  <2>1. /\ lamports'[CLERK] = lamports[CLERK] + c
        /\ lamports'[VAULT] = lamports[VAULT] + (a - c)
        /\ a \in Nat /\ c \in Nat /\ vault = a + VaultRent
    BY <1>2, <1>5
  <2> HIDE DEF a, c
  <2> QED
    BY <1>2, <1>3, <2>1, PathTypes DEF InTheSystem
<1> QED
  BY <1>2, <1>4, <1>5, <1>6 DEF OursGrow

\* The script's own transfer.
LEMMA StageOurs ==
  ASSUME PathAccounts, rents \in Nat, Stage
  PROVE  OursGrow /\ lamports'[VAULT] = lamports[VAULT]
<1>1. /\ UNCHANGED <<clock, config, agents, vaultOpen, vault, earned, rents>>
      /\ signer' = CLERK /\ payout' = NoPayout
      /\ STAGE \in Nat
  BY PathAssumption DEF Stage
<1>2. /\ lamports \in [Keys -> Nat] /\ vault \in Nat
      /\ vaultWsol \in Nat \cup {NoAccount} /\ TokenRent \in Nat
      /\ CLERK \in Keys /\ VAULT \in Keys /\ CLERK # VAULT
      /\ lamports[CLERK] \in Nat /\ lamports[VAULT] \in Nat /\ NoAccount \notin Nat
      /\ earned \in Nat
  BY PathTypes, OurKeys
<1>3. /\ lamports' \in [Keys -> Nat] /\ lamports'[VAULT] = lamports[VAULT]
      /\ vaultWsol' \in Nat
      /\ IF vaultWsol = NoAccount
         THEN /\ lamports'[CLERK] = lamports[CLERK] - (TokenRent + STAGE)
              /\ vaultWsol' = STAGE
         ELSE /\ lamports'[CLERK] = lamports[CLERK] - STAGE
              /\ vaultWsol' = vaultWsol + STAGE
  <2>1. CASE vaultWsol = NoAccount
    <3>1. Commit(Debit(lamports, CLERK, TokenRent + STAGE)) /\ vaultWsol' = STAGE
      BY <2>1 DEF Stage
    <3> QED
      BY <1>1, <1>2, <2>1, <3>1 DEF Commit, Debit
  <2>2. CASE vaultWsol # NoAccount
    <3>1. Commit(Debit(lamports, CLERK, STAGE)) /\ vaultWsol' = vaultWsol + STAGE
      BY <2>2 DEF Stage
    <3> QED
      BY <1>1, <1>2, <2>2, <3>1 DEF Commit, Debit
  <2> QED
    BY <2>1, <2>2
<1>4. VaultInv'
  <2>1. VaultInv /\ signer' \in Keys \cup {NoKey}
    BY <1>1, <1>2 DEF PathAccounts
  <2>2. RegistryInv'
    BY <1>1, <1>3, <2>1, RegistryKept
  <2> QED
    BY <1>1, <1>3, <2>1, <2>2
       DEF VaultInv, RegistryInv, RewardsTypeOK, VaultReserved
<1>5. PathAccounts'
  BY <1>1, <1>4 DEF PathAccounts, ClerkOnly, AgreedConfig, AgreedClerk
<1>6. InTheSystem' = InTheSystem + (earned' - earned) + (rents' - rents)
  BY <1>1, <1>2, <1>3 DEF InTheSystem
<1> QED
  BY <1>1, <1>3, <1>5, <1>6 DEF OursGrow

LEMMA MoneyFollows ==
  ASSUME PathInv, OursGrow
  PROVE  PathAccounts' /\ rents' \in Nat /\ MoneyStaysOurs'
<1> DEFINE initial == InitialLamports[CLERK] + InitialLamports[VAULT] + VaultRent
           ours == InTheSystem
           later == InTheSystem'
<1>1. /\ PathAccounts' /\ rents' \in Nat /\ rents \in Nat
      /\ later = ours + (earned' - earned) + (rents' - rents)
      /\ ours = initial + earned + rents
  BY DEF OursGrow, PathInv, MoneyStaysOurs
<1>2. initial \in Nat
  <2>1. InitialLamports[CLERK] \in Nat /\ InitialLamports[VAULT] \in Nat
    BY OurKeys, ChainAssumption
  <2> QED
    BY <2>1, RewardsAssumption
<1>3. earned \in Int /\ earned' \in Int
  <2>1. earned' \in Int
    BY <1>1, RewardsAssumption DEF PathAccounts, VaultInv, RewardsTypeOK
  <2> QED
    BY <2>1, PathTypes DEF PathInv
<1> HIDE DEF initial, ours, later
<1>4. later = initial + earned' + rents'
  BY <1>1, <1>2, <1>3
<1> QED
  BY <1>1, <1>4 DEF MoneyStaysOurs, initial, later

\* A step that leaves the accounts alone.
LEMMA PathLooks ==
  ASSUME PathInv, UNCHANGED rewardsVars, rents' = rents
  PROVE  /\ PathAccounts' /\ rents' \in Nat /\ MoneyStaysOurs'
         /\ lamports' = lamports /\ vault' = vault
<1>1. /\ lamports' = lamports /\ clock' = clock /\ config' = config
      /\ agents' = agents /\ signer' = signer /\ vaultOpen' = vaultOpen
      /\ vault' = vault /\ vaultWsol' = vaultWsol /\ earned' = earned
      /\ payout' = payout
  BY DEF rewardsVars, registryVars, vaultVars
<1>2. VaultInv'
  <2>1. VaultInv
    BY DEF PathInv, PathAccounts
  <2>2. RegistryInv'
    BY <1>1, <2>1, RegistryInductive DEF VaultInv, registryVars
  <2> QED
    BY <1>1, <2>1, <2>2 DEF VaultInv, RegistryInv, RewardsTypeOK, VaultReserved
<1>3. PathAccounts'
  BY <1>1, <1>2 DEF PathInv, PathAccounts, ClerkOnly, AgreedConfig, AgreedClerk
<1>4. MoneyStaysOurs'
  <2>1. InTheSystem' = InTheSystem
    BY <1>1 DEF InTheSystem
  <2> QED
    BY <1>1, <2>1 DEF PathInv, MoneyStaysOurs
<1> QED
  BY <1>1, <1>3, <1>4 DEF PathInv

LEMMA ReadBeforePath ==
  ASSUME PathInv, ReadBefore
  PROVE  PathInv'
<1>1. /\ UNCHANGED rewardsVars /\ rents' = rents /\ report' = NotRunning
      /\ path' = [at |-> "stage", treasury |-> lamports[VAULT], vault |-> 0,
                  alone |-> TRUE]
  BY DEF ReadBefore
<1>2. /\ PathAccounts' /\ rents' \in Nat /\ MoneyStaysOurs'
      /\ lamports' = lamports /\ vault' = vault
  BY <1>1, PathLooks
<1>3. path' \in PathRecord
  BY <1>1, PathTypes DEF PathRecord, PathInv
<1>4. AlonePath'
  BY <1>1, <1>2 DEF AlonePath
<1> QED
  BY <1>1, <1>2, <1>3, <1>4 DEF PathInv, RunsKept, QuietReport

\* The fields of a run that goes on to another await.
LEMMA RunReaches ==
  ASSUME RunsKept, path # NotRunning,
         NEW step \in {"stage", "unwrap", "read", "distribute", "report"},
         PathReaches(step)
  PROVE  /\ path' \in PathRecord /\ path'.at = step
         /\ path'.treasury = path.treasury /\ path'.vault = path.vault
         /\ path'.alone = path.alone /\ path \in PathRecord
<1>1. path \in PathRecord /\ path' = [path EXCEPT !.at = step]
  BY DEF RunsKept, PathReaches
<1> QED
  BY <1>1 DEF PathRecord

LEMMA StagePath ==
  ASSUME PathInv, Stage
  PROVE  PathInv'
<1>1. /\ path # NotRunning /\ path.at = "stage" /\ PathReaches("unwrap")
      /\ report' = report
  BY DEF Stage, PathAt
<1>2. OursGrow /\ lamports'[VAULT] = lamports[VAULT]
  BY StageOurs DEF PathInv
<1>3. /\ path' \in PathRecord /\ path'.at = "unwrap"
      /\ path'.treasury = path.treasury /\ path'.alone = path.alone
  BY <1>1, RunReaches DEF PathInv
<1>4. path'.alone => AlonePath'
  BY <1>1, <1>2, <1>3 DEF AlonePath, PathInv, RunsKept
<1> QED
  BY <1>1, <1>2, <1>3, <1>4, MoneyFollows
     DEF PathInv, RunsKept, QuietReport, TreasuryPart

LEMMA UnwrapPath ==
  ASSUME PathInv, Unwrap
  PROVE  PathInv'
<1>1. /\ path # NotRunning /\ path.at = "unwrap" /\ PathReaches("read")
      /\ UnwrapCreatorFees /\ report' = report /\ rents' = rents
  BY DEF Unwrap, PathAt
<1>2. OursGrow /\ lamports' = lamports
  BY <1>1, UnwrapOurs DEF PathInv
<1>3. /\ path' \in PathRecord /\ path'.at = "read"
      /\ path'.treasury = path.treasury /\ path'.alone = path.alone
  BY <1>1, RunReaches DEF PathInv
<1>4. path'.alone => AlonePath'
  BY <1>1, <1>2, <1>3 DEF AlonePath, PathInv, RunsKept
<1> QED
  BY <1>1, <1>2, <1>3, <1>4, MoneyFollows
     DEF PathInv, RunsKept, QuietReport, TreasuryPart

LEMMA ReadUnwrappedPath ==
  ASSUME PathInv, ReadUnwrapped
  PROVE  PathInv'
<1>1. /\ path # NotRunning /\ path.at = "read" /\ path \in PathRecord
      /\ UNCHANGED rewardsVars /\ rents' = rents /\ report' = report
      /\ path' = [path EXCEPT !.at = "distribute", !.vault = vault]
  BY DEF ReadUnwrapped, PathAt, PathInv, RunsKept
<1>2. /\ PathAccounts' /\ rents' \in Nat /\ MoneyStaysOurs'
      /\ lamports' = lamports /\ vault' = vault
  BY <1>1, PathLooks
<1>3. vault \in Nat
  BY PathTypes DEF PathInv
<1>4. /\ path' \in PathRecord /\ path'.at = "distribute" /\ path'.vault = vault
      /\ path'.treasury = path.treasury /\ path'.alone = path.alone
  BY <1>1, <1>3 DEF PathRecord
<1>5. path'.alone => AlonePath'
  BY <1>1, <1>2, <1>4 DEF AlonePath, PathInv, RunsKept
<1> QED
  BY <1>1, <1>2, <1>4, <1>5 DEF PathInv, RunsKept, QuietReport, TreasuryPart

LEMMA OnlyClerkIsAList == OnlyClerk \in PayeeLists
<1>1. OnlyClerk \in [1 .. 1 -> Pairs]
  BY OurKeys DEF OnlyClerk, Pairs
<1>2. 1 \in 0 .. MaxPayees
  BY PathAssumption, RewardsAssumption
<1> QED
  BY <1>1, <1>2 DEF PayeeLists

\* What moved out of the vault is what was read, less the reserve.
LEMMA DistributePath ==
  ASSUME PathInv, Distribute
  PROVE  PathInv'
<1>1. /\ path # NotRunning /\ path.at = "distribute" /\ PathReaches("report")
      /\ DistributeRewards(OnlyClerk, VAULT)
      /\ report' = report /\ rents' = rents
  BY DEF Distribute, PathAt
<1>2. /\ OursGrow
      /\ vault = Available + VaultRent /\ vault' = VaultRent
      /\ lamports'[VAULT] = lamports[VAULT]
                              + (Available - BpsOf(Available, CLERK_REWARD_BPS))
  BY <1>1, OnlyClerkIsAList, AgreedKeys, DistributeOurs DEF PathInv
<1>3. /\ path' \in PathRecord /\ path'.at = "report" /\ path'.vault = path.vault
      /\ path'.treasury = path.treasury /\ path'.alone = path.alone
      /\ path \in PathRecord
  BY <1>1, RunReaches DEF PathInv
<1>4. ASSUME path.alone PROVE AlonePath'
  <2> DEFINE a == Available
             b == BpsOf(a, CLERK_REWARD_BPS)
  <2>1. path.vault = vault /\ path.treasury = lamports[VAULT]
    BY <1>1, <1>4 DEF PathInv, RunsKept, AlonePath
  <2>2. a \in Nat /\ b \in Nat /\ VaultRent \in Nat /\ lamports[VAULT] \in Nat
    BY ClerksCut, PathTypes DEF PathInv
  <2>3. vault = a + VaultRent /\ lamports'[VAULT] = lamports[VAULT] + (a - b)
    BY <1>2
  <2>4. Moved' = a
    <3> HIDE DEF a
    <3> QED
      BY <1>2, <1>3, <2>1, <2>2, <2>3 DEF Moved
  <2>5. lamports'[VAULT] - path'.treasury = Moved' - BpsOf(Moved', CLERK_REWARD_BPS)
    <3>1. BpsOf(Moved', CLERK_REWARD_BPS) = b
      BY <2>4
    <3> HIDE DEF a, b
    <3> QED
      BY <1>3, <2>1, <2>2, <2>3, <2>4, <3>1
  <2> QED
    BY <1>3, <2>5 DEF AlonePath, Moved, BpsOf
<1> QED
  BY <1>1, <1>2, <1>3, <1>4, MoneyFollows
     DEF PathInv, RunsKept, QuietReport, TreasuryPart

LEMMA ReadAfterPath ==
  ASSUME PathInv, ReadAfter
  PROVE  PathInv'
<1>1. /\ path # NotRunning /\ path.at = "report" /\ path \in PathRecord
      /\ path' = NotRunning /\ UNCHANGED rewardsVars /\ rents' = rents
      /\ report' = [distributed |-> path.vault - vault,
                    toTreasury |-> lamports[VAULT] - path.treasury,
                    alone |-> path.alone]
  BY DEF ReadAfter, PathAt, PathInv, RunsKept
<1>2. PathAccounts' /\ rents' \in Nat /\ MoneyStaysOurs'
  BY <1>1, PathLooks
<1>3. /\ path.vault \in Nat /\ path.treasury \in Nat /\ path.alone \in BOOLEAN
      /\ vault \in Nat /\ lamports[VAULT] \in Nat
  BY <1>1, PathTypes DEF PathRecord, PathInv
<1>4. /\ report'.distributed = Moved
      /\ report'.toTreasury = lamports[VAULT] - path.treasury
      /\ report'.alone = path.alone
  BY <1>1 DEF Moved
<1>5. report' \in [distributed : Int, toTreasury : Int, alone : BOOLEAN]
  BY <1>1, <1>3
<1>6. QuietReport'
  <2> SUFFICES ASSUME path.alone PROVE TreasuryPart'
    BY <1>4 DEF QuietReport
  <2>1. lamports[VAULT] - path.treasury = Moved - BpsOf(Moved, CLERK_REWARD_BPS)
    BY <1>1 DEF PathInv, RunsKept, AlonePath
  <2> QED
    BY <1>4, <2>1 DEF TreasuryPart, BpsOf
<1> QED
  BY <1>1, <1>2, <1>5, <1>6 DEF PathInv, RunsKept

LEMMA PathStopsPath ==
  ASSUME PathInv, PathStops
  PROVE  PathInv'
<1>1. path' = NotRunning /\ UNCHANGED rewardsVars /\ rents' = rents /\ report' = report
  BY DEF PathStops
<1>2. PathAccounts' /\ rents' \in Nat /\ MoneyStaysOurs'
  BY <1>1, PathLooks
<1> QED
  BY <1>1, <1>2 DEF PathInv, RunsKept, QuietReport, TreasuryPart

\* Whoever unwraps, distributes or collects: the money stays, the run is not alone.
LEMMA OthersPath ==
  ASSUME PathInv, Others
  PROVE  PathInv'
<1>1. /\ report' = report
      /\ path' = IF path = NotRunning THEN path ELSE [path EXCEPT !.alone = FALSE]
  BY DEF Others
<1>2. PathAccounts /\ rents \in Nat
  BY DEF PathInv
<1>3. OursGrow
  <2>1. CASE UnwrapCreatorFees /\ UNCHANGED rents
    BY <1>2, <2>1, UnwrapOurs
  <2>2. ASSUME NEW payees \in PayeeLists, NEW t \in Vaults,
               DistributeRewards(payees, t), UNCHANGED rents
        PROVE  OursGrow
    BY <1>2, <2>2, DistributeOurs
  <2>3. ASSUME NEW amount \in Revenue, CollectCurveFee(amount), UNCHANGED rents
        PROVE  OursGrow
    BY <1>2, <2>3, CurveOurs
  <2>4. ASSUME NEW amount \in Revenue, NEW payer \in Officials,
               CollectAmmFee(payer, amount),
               rents' = rents + (IF vaultWsol = NoAccount THEN TokenRent ELSE 0)
        PROVE  OursGrow
    BY <1>2, <2>4, AmmOurs
  <2> QED
    BY <2>1, <2>2, <2>3, <2>4 DEF Others, OthersRun, FeesArrive
<1>4. path' # NotRunning => path' \in PathRecord /\ ~ path'.alone
  BY <1>1 DEF PathInv, RunsKept, PathRecord
<1> QED
  BY <1>1, <1>3, <1>4, MoneyFollows DEF PathInv, RunsKept, QuietReport, TreasuryPart

LEMMA PathInvInit == DeployedWithVault /\ PathIdle => PathInv
<1> SUFFICES ASSUME DeployedWithVault, PathIdle PROVE PathInv
  OBVIOUS
<1>1. /\ lamports = InitialLamports /\ clock = 0 /\ config = AgreedConfig
      /\ agents = ClerkOnly /\ signer = NoKey
      /\ vaultOpen = TRUE /\ vault = VaultRent
      /\ vaultWsol = NoAccount /\ earned = 0 /\ payout = NoPayout
      /\ path = NotRunning /\ report = NotRunning /\ rents = 0
  BY DEF DeployedWithVault, Deployed, ChainInit, PathIdle, ClerkOnly
<1>2. /\ config \in Config /\ config # NoConfig /\ config.fee_bps = FEE_BPS
      /\ config.total_reward_bps = CLERK_REWARD_BPS
  BY <1>1, OurKeys DEF AgreedConfig
<1>3. /\ AgreedClerk \in AgentAuth /\ AgreedClerk.fee_bps = CLERK_FEE_BPS
      /\ \A w \in Wallets : Registered(w) <=> w = CLERK
      /\ agents[CLERK] = AgreedClerk
  BY <1>1, OurKeys, OperationsAssumption DEF ClerkOnly, Registered, AgreedClerk
<1>4. RegistryTypeOK
  BY <1>1, <1>2, <1>3, ChainAssumption DEF RegistryTypeOK, ChainTypeOK, ClerkOnly
<1>5. SharesAddUp
  <2> DEFINE s == Shares
             T == {CLERK}
  <2>1. \A w \in Wallets : s[w] = IF w = CLERK THEN CLERK_REWARD_BPS ELSE 0
    BY <1>3, OurKeys DEF Shares, ShareOf
  <2>2. T \in SUBSET Wallets /\ IsFiniteSet(T) /\ CLERK \in T /\ T \ {CLERK} = {}
    BY OurKeys, WalletsFinite, FS_Subset
  <2> HIDE DEF s
  <2>3. /\ \A w \in Wallets : s[w] \in Int
        /\ \A w \in Wallets \ T : s[w] = 0
        /\ \A w \in T : s[w] \in Int
    BY <2>1, OurKeys
  <2> HIDE DEF T
  <2>4. Sum(s, Wallets) = Sum(s, T)
    BY <2>2, <2>3, WalletsFinite, SumOfSupport
  <2>5. Sum(s, T) = s[CLERK] + Sum(s, T \ {CLERK})
    BY <2>2, <2>3, SumSplit
  <2>6. Sum(s, {}) = 0
    BY FS_EmptySet, SumStep
  <2>7. Sum(s, Wallets) = CLERK_REWARD_BPS
    BY <2>1, <2>2, <2>4, <2>5, <2>6, OurKeys
  <2> QED
    BY <1>2, <2>7, OperationsAssumption DEF SharesAddUp, Sum, s
<1>6. FeesCapped
  BY <1>2, <1>3, OperationsAssumption DEF FeesCapped
<1>7. PathAccounts
  BY <1>1, <1>2, <1>4, <1>5, <1>6, RewardsAssumption
     DEF PathAccounts, VaultInv, RegistryInv, RewardsTypeOK, VaultReserved
<1>8. MoneyStaysOurs
  BY <1>1, <1>7, PathTypes DEF MoneyStaysOurs, InTheSystem
<1> QED
  BY <1>1, <1>7, <1>8 DEF PathInv, RunsKept, QuietReport

LEMMA PathInvNext ==
  ASSUME PathInv, [PathNext]_pathVars
  PROVE  PathInv'
<1>1. CASE PathStep
  BY <1>1, ReadBeforePath, StagePath, UnwrapPath, ReadUnwrappedPath, DistributePath,
     ReadAfterPath, PathStopsPath DEF PathStep
<1>2. CASE Others
  BY <1>2, OthersPath
<1>3. CASE UNCHANGED pathVars
  <2>1. /\ UNCHANGED rewardsVars /\ path' = path /\ report' = report /\ rents' = rents
    BY <1>3 DEF pathVars, runVars
  <2>2. /\ PathAccounts' /\ rents' \in Nat /\ MoneyStaysOurs'
        /\ lamports' = lamports /\ vault' = vault
    BY <2>1, PathLooks
  <2>3. AlonePath => AlonePath'
    BY <2>1, <2>2 DEF AlonePath, Moved, BpsOf
  <2> QED
    BY <2>1, <2>2, <2>3 DEF PathInv, RunsKept, QuietReport, TreasuryPart
<1> QED
  BY <1>1, <1>2, <1>3 DEF PathNext

\* What the creator-path script remembers and the accounts it works on stay in step, from
\* the first balance it reads to what it prints (creator-path-mainnet.js:60-114).
THEOREM PathInvariant == PathSpec => []PathInv
<1>1. PathInit => PathInv
  BY PathInvInit DEF PathInit
<1>2. PathInv /\ [PathNext]_pathVars => PathInv'
  BY PathInvNext
<1> QED
  BY <1>1, <1>2, PTL DEF PathSpec

\* For every share, every stage and all revenue, and whoever unwraps and distributes in
\* between: "the money does not leave the system" (creator-path-mainnet.js:10).
THEOREM MoneyAlwaysStaysOurs == PathSpec => []MoneyStaysOurs
<1>1. PathInv => MoneyStaysOurs
  BY DEF PathInv
<1> QED
  BY <1>1, PathInvariant, PTL

\* A run that nobody interferes with prints what the treasury got, also over what an
\* earlier run left behind (creator-path-mainnet.js:114).
THEOREM QuietReportsAreRight == PathSpec => []QuietReport
<1>1. PathInv => QuietReport
  BY DEF PathInv
<1> QED
  BY <1>1, PathInvariant, PTL

-------------------------------------------------------------------------------
(***************************************************************************)
(* One script among the others, as the run has it.  The invariant of each  *)
(* holds where it is what is run; the rest stay as they began, and the     *)
(* accounts keep their types whichever is run.                             *)
(***************************************************************************)

\* The agreed terms need not be among those the authority tries out by hand.
LEMMA AgreedArgsAreAny ==
  /\ AgreedArgs \in AnyArgs
  /\ RIVAL \in Officials
  /\ CLERK_FEE_BPS \in U16 /\ FEE_BPS \in U16 /\ CLERK_DAILY \in U64
  /\ CLERK_REWARD_BPS \in U16
<1>1. /\ FEE_BPS = AgreedConfig.fee_bps
      /\ MAX_PER_TRADE = AgreedConfig.max_lamports_per_trade
      /\ DEFAULT_DAILY = AgreedConfig.default_daily_limit
      /\ CLERK_FEE_BPS = AgreedClerk.fee_bps /\ CLERK_DAILY = AgreedClerk.daily_limit
      /\ CLERK_REWARD_BPS = AgreedClerk.reward_bps
  BY DEF AgreedConfig, AgreedClerk
<1>2. AgreedConfig \in Config /\ AgreedClerk \in AgentAuth
  BY OperationsAssumption
<1>3. /\ FEE_BPS \in U16 /\ MAX_PER_TRADE \in U64 /\ DEFAULT_DAILY \in U64
      /\ CLERK_FEE_BPS \in U16 /\ CLERK_DAILY \in U64 /\ CLERK_REWARD_BPS \in U16
  BY <1>1, <1>2 DEF Config, AgentAuth
<1> QED
  BY <1>3, DeployAssumption DEF AgreedArgs, AnyArgs

LEMMA SetUpTypes ==
  ASSUME RewardsTypeOK, NEW k \in Steps, SetUp(k)
  PROVE  RewardsTypeOK'
<1>1. RegistryTypeOK
  BY DEF RewardsTypeOK
<1>2. CASE k = 1
  <2>1. /\ Initialize(FUNDER, VAULT, VAULT, AgreedArgs)
        /\ payout' = NoPayout /\ UNCHANGED vaultVars
    BY <1>2 DEF SetUp
  <2>2. RegistryTypeOK'
    BY <1>1, <2>1, AgreedKeys, AgreedArgsAreAny, InitializeType
  <2> QED
    BY <2>1, <2>2 DEF RewardsTypeOK, vaultVars
<1>3. CASE k = 2
  <2> DEFINE missing == IF vault < VaultRent THEN VaultRent - vault ELSE 0
  <2>1. /\ Commit(Debit(lamports, FUNDER, missing)) /\ vault' = vault + missing
        /\ vaultOpen' = TRUE /\ signer' = FUNDER /\ payout' = NoPayout
        /\ UNCHANGED <<clock, config, agents, vaultWsol, earned>>
    BY <1>3 DEF SetUp, InitCreatorVault, InitCreatorVaultAccounts, HasOneAuthority
  <2>2. missing \in Nat /\ vault \in Nat /\ lamports \in [Keys -> Nat]
    BY <1>1, RewardsAssumption DEF RewardsTypeOK, RegistryTypeOK, ChainTypeOK
  <2> HIDE DEF missing
  <2>3. lamports' \in [Keys -> Nat]
    <3>1. Debit(lamports, FUNDER, missing) \in [Keys -> Int]
      BY <2>2, AgreedKeys DEF Debit
    <3> QED
      BY <2>1, <3>1, CommitType
  <2>4. RegistryTypeOK'
    BY <1>1, <2>1, <2>3, AgreedKeys DEF RegistryTypeOK, ChainTypeOK
  <2>5. vault' \in Nat
    BY <2>1, <2>2
  <2> QED
    BY <2>1, <2>4, <2>5 DEF RewardsTypeOK
<1>4. CASE k = 3
  <2>1. /\ RegisterAgent(FUNDER, CLERK, CLERK_DAILY, CLERK_REWARD_BPS, CLERK_FEE_BPS)
        /\ payout' = NoPayout /\ UNCHANGED vaultVars
    BY <1>4 DEF SetUp
  <2>2. /\ CLERK_DAILY \in U64 /\ CLERK_REWARD_BPS \in U16 /\ CLERK_FEE_BPS \in U16
    BY OperationsAssumption DEF AgreedClerk, AgentAuth
  <2>3. RegistryTypeOK'
    BY <1>1, <2>1, <2>2, AgreedKeys, RegisterAgentType
  <2> QED
    BY <2>1, <2>3 DEF RewardsTypeOK, vaultVars
<1> QED
  BY <1>2, <1>3, <1>4, StepsAre

LEMMA OthersTypes ==
  ASSUME RewardsTypeOK, OthersInterfere
  PROVE  RewardsTypeOK'
<1>1. RegistryTypeOK /\ payout' = NoPayout /\ UNCHANGED vaultVars
  BY DEF RewardsTypeOK, OthersInterfere
<1>2. ASSUME NEW v \in Vaults, Initialize(RIVAL, v, v, AgreedArgs) PROVE RegistryTypeOK'
  BY <1>1, <1>2, AgreedArgsAreAny, InitializeType
<1>3. ASSUME NEW limit \in LimitArgs, SelfRegister(CLERK, limit) PROVE RegistryTypeOK'
  BY <1>1, <1>3, AgreedKeys, RouterAssumption, SelfRegisterType
<1>4. ASSUME NEW args \in ConfigArgs, UpdateConfig(FUNDER, VAULT, VAULT, args)
      PROVE  RegistryTypeOK'
  BY <1>1, <1>4, AgreedKeys, ArgsAreAny, UpdateConfigType
<1>5. RegistryTypeOK'
  BY <1>2, <1>3, <1>4 DEF OthersInterfere
<1> QED
  BY <1>1, <1>5 DEF RewardsTypeOK, vaultVars

LEMMA RevenueTypes ==
  ASSUME RewardsTypeOK, EarlyRevenue
  PROVE  RewardsTypeOK'
<1>1. PICK amount \in Revenue : CollectCurveFee(amount) \/ CollectAmmFee(RIVAL, amount)
  BY DEF EarlyRevenue
<1>2. /\ earned' = earned + amount /\ earned + amount <= MaxEarned
      /\ signer' = NoKey /\ payout' = NoPayout
      /\ UNCHANGED <<clock, config, agents, vaultOpen>>
  BY <1>1 DEF CollectCurveFee, CollectAmmFee, Collect, chainVars
<1>3. /\ amount \in Nat /\ vault \in Nat /\ earned \in 0 .. MaxEarned /\ MaxEarned \in Nat
      /\ vaultWsol \in Nat \cup {NoAccount} /\ TokenRent \in Nat
      /\ lamports \in [Keys -> Nat] /\ RegistryTypeOK
  BY RevenueType, ChainAssumption, RewardsAssumption
     DEF RewardsTypeOK, RegistryTypeOK, ChainTypeOK
<1>4. vault' \in Nat /\ vaultWsol' \in Nat \cup {NoAccount}
  BY <1>1, <1>3 DEF CollectCurveFee, CollectAmmFee
<1>5. lamports' \in [Keys -> Nat]
  <2>1. lamports' = lamports \/ Commit(Debit(lamports, RIVAL, TokenRent))
    BY <1>1 DEF CollectCurveFee, CollectAmmFee, chainVars
  <2>2. Debit(lamports, RIVAL, TokenRent) \in [Keys -> Int]
    BY <1>3, AgreedKeys DEF Debit
  <2> QED
    BY <1>3, <2>1, <2>2, CommitType
<1>6. RegistryTypeOK'
  BY <1>2, <1>3, <1>5 DEF RegistryTypeOK, ChainTypeOK
<1>7. earned' \in 0 .. MaxEarned
  BY <1>2, <1>3
<1> QED
  BY <1>2, <1>4, <1>6, <1>7 DEF RewardsTypeOK

\* Where the runs of init-mainnet.js are.
SetupTypeOK ==
    /\ at \in [Shells -> Awaits]
    /\ reported \in Shells \cup {NoReport}
    /\ quiet \in BOOLEAN /\ troubles \in 0 .. MaxTroubles

LEMMA AwaitsAre ==
  /\ Off \in Awaits
  /\ \A k \in Steps : <<"look", k>> \in Awaits /\ <<"send", k>> \in Awaits
  /\ 1 \in Steps /\ \A k \in Steps : k # 3 => k + 1 \in Steps
BY DEF Awaits, Steps

LEMMA ProceedsTypes ==
  ASSUME SetupTypeOK, NEW h \in Shells, NEW k \in Steps, Proceeds(h, k)
  PROVE  at' \in [Shells -> Awaits] /\ reported' \in Shells \cup {NoReport}
<1>1. CASE k = 3
  BY <1>1, AwaitsAre DEF Proceeds, Reaches, SetupTypeOK
<1>2. CASE k # 3
  <2>1. k + 1 \in Steps
    BY <1>2, AwaitsAre
  <2> QED
    BY <1>2, <2>1, AwaitsAre DEF Proceeds, Reaches, SetupTypeOK
<1> QED
  BY <1>1, <1>2

LEMMA StopsTypes ==
  ASSUME SetupTypeOK, NEW h \in Shells, Reaches(h, Off), reported' = NoReport
  PROVE  at' \in [Shells -> Awaits] /\ reported' \in Shells \cup {NoReport}
BY AwaitsAre DEF Reaches, SetupTypeOK

LEMMA RewardsTypesStay ==
  ASSUME RewardsTypeOK, UNCHANGED rewardsVars
  PROVE  RewardsTypeOK'
BY DEF rewardsVars, vaultVars, registryVars, RewardsTypeOK, RegistryTypeOK, ChainTypeOK

LEMMA SetupStepTypes ==
  ASSUME RewardsTypeOK, SetupTypeOK, NEW h \in Shells, SetupStep(h)
  PROVE  RewardsTypeOK' /\ SetupTypeOK'
<1>1. quiet' = quiet /\ troubles' = troubles
  BY DEF SetupStep, Begin, Look, Send, Refused, Stops
<1>2. CASE Begin(h)
  <2>1. /\ at' = [at EXCEPT ![h] = <<"look", 1>>] /\ reported' = NoReport
        /\ UNCHANGED rewardsVars
    BY <1>2 DEF Begin, Reaches
  <2>2. <<"look", 1>> \in Awaits
    BY AwaitsAre
  <2>3. at' \in [Shells -> Awaits]
    BY <2>1, <2>2 DEF SetupTypeOK
  <2> QED
    BY <1>1, <2>1, <2>3, RewardsTypesStay DEF SetupTypeOK
<1>3. ASSUME NEW k \in Steps, Look(h, k) PROVE RewardsTypeOK' /\ SetupTypeOK'
  <2>1. UNCHANGED rewardsVars
    BY <1>3 DEF Look
  <2>2. at' \in [Shells -> Awaits] /\ reported' \in Shells \cup {NoReport}
    <3>1. CASE Proceeds(h, k)
      BY <3>1, ProceedsTypes
    <3>2. CASE Reaches(h, <<"send", k>>) /\ reported' = NoReport
      BY <3>2, AwaitsAre DEF Reaches, SetupTypeOK
    <3> QED
      BY <1>3, <3>1, <3>2 DEF Look
  <2> QED
    BY <1>1, <2>1, <2>2, RewardsTypesStay DEF SetupTypeOK
<1>4. ASSUME NEW k \in Steps, Send(h, k) PROVE RewardsTypeOK' /\ SetupTypeOK'
  <2>1. SetUp(k) /\ Proceeds(h, k)
    BY <1>4 DEF Send
  <2>2. at' \in [Shells -> Awaits] /\ reported' \in Shells \cup {NoReport}
    BY <2>1, ProceedsTypes
  <2>3. RewardsTypeOK'
    BY <2>1, SetUpTypes
  <2> QED
    BY <1>1, <2>2, <2>3 DEF SetupTypeOK
<1>5. ASSUME NEW k \in Steps, Refused(h, k) PROVE RewardsTypeOK' /\ SetupTypeOK'
  <2>1. Reaches(h, Off) /\ reported' = NoReport /\ UNCHANGED rewardsVars
    BY <1>5 DEF Refused, Stops
  <2>2. at' \in [Shells -> Awaits] /\ reported' \in Shells \cup {NoReport}
    BY <2>1, StopsTypes
  <2> QED
    BY <1>1, <2>1, <2>2, RewardsTypesStay DEF SetupTypeOK
<1> QED
  BY <1>2, <1>3, <1>4, <1>5 DEF SetupStep

LEMMA DiesTypes ==
  ASSUME RewardsTypeOK, SetupTypeOK, NEW h \in Shells, Dies(h)
  PROVE  RewardsTypeOK' /\ SetupTypeOK'
<1>1. /\ troubles < MaxTroubles /\ troubles' = troubles + 1
      /\ Reaches(h, Off) /\ reported' = NoReport /\ quiet' = quiet
  BY DEF Dies, Stops
<1>2. troubles' \in 0 .. MaxTroubles
  BY <1>1, DeployAssumption DEF SetupTypeOK
<1>3. at' \in [Shells -> Awaits] /\ reported' \in Shells \cup {NoReport}
  BY <1>1, StopsTypes
<1>4. RewardsTypeOK'
  <2>1. CASE UNCHANGED rewardsVars
    BY <2>1, RewardsTypesStay
  <2>2. CASE \E k \in Steps : SetUp(k)
    BY <2>2, SetUpTypes
  <2> QED
    BY <2>1, <2>2 DEF Dies, Stops
<1> QED
  BY <1>1, <1>2, <1>3, <1>4 DEF SetupTypeOK

LEMMA DeployTypes ==
  ASSUME RewardsTypeOK, SetupTypeOK, DeployNext
  PROVE  RewardsTypeOK' /\ SetupTypeOK'
<1>1. ASSUME NEW h \in Shells, SetupStep(h) \/ Dies(h)
      PROVE  RewardsTypeOK' /\ SetupTypeOK'
  BY <1>1, SetupStepTypes, DiesTypes
<1>2. CASE OthersInterfere
  <2>1. at' = at /\ reported' = NoReport /\ quiet' = FALSE /\ troubles' = troubles
    BY <1>2 DEF OthersInterfere
  <2> QED
    BY <1>2, <2>1, OthersTypes DEF SetupTypeOK
<1>3. CASE EarlyRevenue
  <2>1. at' = at /\ reported' = NoReport /\ quiet' = quiet /\ troubles' = troubles
    BY <1>3 DEF EarlyRevenue
  <2> QED
    BY <1>3, <2>1, RevenueTypes DEF SetupTypeOK
<1> QED
  BY <1>1, <1>2, <1>3 DEF DeployNext

ScriptsInv ==
    /\ RewardsTypeOK /\ SetupTypeOK
    /\ IF script = "admin" THEN AdminInv ELSE ShellsIdle
    /\ IF script = "creator-path" THEN PathInv ELSE PathIdle
    /\ IF script = "outsider" THEN TrialInv ELSE TrialIdle
    /\ IF script = "init" THEN QuietInv ELSE SetupIdle

LEMMA ScriptsInvInit == ScriptsInit => ScriptsInv
<1> SUFFICES ASSUME ScriptsInit PROVE ScriptsInv
  OBVIOUS
<1>1. ShellsIdle /\ PathIdle /\ TrialIdle /\ SetupIdle
  BY DEF ScriptsInit
<1>2. SetupTypeOK
  BY <1>1, AwaitsAre, DeployAssumption DEF SetupIdle, SetupTypeOK
<1>3. CASE script \in {"init", "none"}
  <2>1. RewardsInit
    BY <1>3 DEF ScriptsInit
  <2>2. RewardsTypeOK
    <3>1. /\ RegistryInit /\ vaultOpen = FALSE /\ vault = 0 /\ vaultWsol = NoAccount
          /\ earned = 0 /\ payout = NoPayout
      BY <2>1 DEF RewardsInit
    <3>2. RegistryTypeOK
      BY <3>1, InitType
    <3>3. 0 \in 0 .. MaxEarned /\ VaultRent \in Nat
      BY RewardsAssumption
    <3> QED
      BY <3>1, <3>2, <3>3 DEF RewardsTypeOK
  <2>3. QuietInv
    BY <1>1, <2>1, InitQuietInv DEF DeployInit
  <2> QED
    BY <1>1, <1>2, <1>3, <2>2, <2>3 DEF ScriptsInv
<1>4. CASE script \notin {"init", "none"}
  <2>1. DeployedWithVault /\ Deployed
    BY <1>4 DEF ScriptsInit, DeployedWithVault
  <2>2. AdminInv /\ PathInv /\ TrialInv
    BY <1>1, <2>1, AdminInvInit, PathInvInit, TrialInvInit DEF ScriptInit, TrialInit
  <2>3. RewardsTypeOK
    BY <2>2, PathTypes DEF PathInv
  <2> QED
    BY <1>1, <1>2, <1>4, <2>2, <2>3 DEF ScriptsInv
<1> QED
  BY <1>3, <1>4

LEMMA IdlesStay ==
  /\ ShellsIdle /\ UNCHANGED shellVars => ShellsIdle'
  /\ PathIdle /\ UNCHANGED runVars => PathIdle'
  /\ TrialIdle /\ UNCHANGED trialVars => TrialIdle'
  /\ SetupIdle /\ UNCHANGED setupVars => SetupIdle'
  /\ SetupTypeOK /\ UNCHANGED setupVars => SetupTypeOK'
BY DEF ShellsIdle, PathIdle, TrialIdle, SetupIdle, SetupTypeOK,
       shellVars, runVars, trialVars, setupVars

\* Scripts that only reach the registry leave the vault alone.
LEMMA RegistrySideTypes ==
  ASSUME RewardsTypeOK, RegistryTypeOK', UNCHANGED vaultSide
  PROVE  RewardsTypeOK'
BY DEF RewardsTypeOK, vaultSide, vaultVars

LEMMA ScriptsInvNext ==
  ASSUME ScriptsInv, [ScriptsNext]_scriptsVars
  PROVE  ScriptsInv'
<1>1. RewardsTypeOK /\ RegistryTypeOK /\ SetupTypeOK
  BY DEF ScriptsInv, RewardsTypeOK
<1>2. CASE AdminRuns /\ UNCHANGED script
  <2>1. /\ script = "admin" /\ script' = "admin" /\ ScriptNext
        /\ UNCHANGED <<vaultSide, runVars, trialVars, setupVars>>
    BY <1>2 DEF AdminRuns
  <2>2. AdminInv /\ PathIdle /\ TrialIdle /\ SetupIdle
    BY <2>1 DEF ScriptsInv
  <2>3. AdminInv'
    BY <2>1, <2>2, AdminInvNext
  <2>4. RewardsTypeOK'
    BY <1>1, <2>1, <2>3, RegistrySideTypes DEF AdminInv, AccountsKept
  <2> QED
    BY <1>1, <2>1, <2>2, <2>3, <2>4, IdlesStay DEF ScriptsInv
<1>3. CASE PathRuns /\ UNCHANGED script
  <2>1. /\ script = "creator-path" /\ script' = "creator-path" /\ PathNext
        /\ UNCHANGED <<shellVars, trialVars, setupVars>>
    BY <1>3 DEF PathRuns
  <2>2. PathInv /\ ShellsIdle /\ TrialIdle /\ SetupIdle
    BY <2>1 DEF ScriptsInv
  <2>3. PathInv'
    BY <2>1, <2>2, PathInvNext
  <2>4. RewardsTypeOK'
    BY <2>3 DEF PathInv, PathAccounts, VaultInv
  <2> QED
    BY <1>1, <2>1, <2>2, <2>3, <2>4, IdlesStay DEF ScriptsInv
<1>4. CASE TrialRuns /\ UNCHANGED script
  <2>1. /\ script = "outsider" /\ script' = "outsider" /\ TrialNext
        /\ UNCHANGED <<vaultSide, runVars, shellVars, setupVars>>
    BY <1>4 DEF TrialRuns
  <2>2. TrialInv /\ ShellsIdle /\ PathIdle /\ SetupIdle
    BY <2>1 DEF ScriptsInv
  <2>3. TrialInv'
    BY <2>1, <2>2, TrialInvNext
  <2>4. RewardsTypeOK'
    BY <1>1, <2>1, <2>3, RegistrySideTypes DEF TrialInv
  <2> QED
    BY <1>1, <2>1, <2>2, <2>3, <2>4, IdlesStay DEF ScriptsInv
<1>5. CASE SetupRuns /\ UNCHANGED script
  <2>1. /\ script = "init" /\ script' = "init" /\ DeployNext
        /\ UNCHANGED <<shellVars, runVars, trialVars>>
    BY <1>5 DEF SetupRuns
  <2>2. QuietInv /\ ShellsIdle /\ PathIdle /\ TrialIdle
    BY <2>1 DEF ScriptsInv
  <2>3. QuietInv'
    BY <2>1, <2>2, NextQuietInv
  <2>4. RewardsTypeOK' /\ SetupTypeOK'
    BY <1>1, <2>1, DeployTypes
  <2> QED
    BY <2>1, <2>2, <2>3, <2>4, IdlesStay DEF ScriptsInv
<1>6. CASE ByHand /\ UNCHANGED script
  <2>1. /\ script = "none" /\ script' = "none" /\ RegistryNext
        /\ UNCHANGED <<vaultSide, shellVars, runVars, trialVars, setupVars>>
    BY <1>6 DEF ByHand
  <2>2. ShellsIdle /\ PathIdle /\ TrialIdle /\ SetupIdle
    BY <2>1 DEF ScriptsInv
  <2>3. RewardsTypeOK'
    BY <1>1, <2>1, NextType, RegistrySideTypes
  <2> QED
    BY <1>1, <2>1, <2>2, <2>3, IdlesStay DEF ScriptsInv
<1>7. CASE UNCHANGED scriptsVars
  <2>1. /\ UNCHANGED <<rewardsVars, shellVars, runVars, trialVars, setupVars>>
        /\ script' = script
    BY <1>7 DEF scriptsVars
  <2>2. UNCHANGED adminVars /\ UNCHANGED pathVars /\ UNCHANGED outsiderVars
        /\ UNCHANGED deployVars
    BY <2>1 DEF rewardsVars, trialVars, adminVars, pathVars, outsiderVars, deployVars
  <2>3. /\ AdminInv => AdminInv'
        /\ PathInv => PathInv'
        /\ TrialInv => TrialInv'
        /\ QuietInv => QuietInv'
    BY <2>2, AdminInvNext, PathInvNext, TrialInvNext, NextQuietInv
  <2>4. RewardsTypeOK'
    BY <1>1, <2>1, RewardsTypesStay
  <2> QED
    BY <1>1, <2>1, <2>3, <2>4, IdlesStay DEF ScriptsInv
<1> QED
  BY <1>2, <1>3, <1>4, <1>5, <1>6, <1>7 DEF ScriptsNext

\* The invariants of the four scripts hold together, whichever of them runs on the accounts
\* that another one left behind, and whatever strangers do in between.
THEOREM ScriptsInvariant == ScriptsSpec => []ScriptsInv
<1> QED
  BY ScriptsInvInit, ScriptsInvNext, PTL DEF ScriptsSpec

\* What every script holds, and the accounts, have their types, whichever script is
\* run by whom and whatever the authority does by hand (admin-mainnet.js:37).
THEOREM ScriptsTypeCorrect == ScriptsSpec => []ScriptsTypeOK
<1>1. ScriptsInv => ScriptsTypeOK
  <2> SUFFICES ASSUME ScriptsInv PROVE ScriptsTypeOK
    OBVIOUS
  <2>1. RewardsTypeOK /\ RegistryTypeOK /\ SetupTypeOK
    BY DEF ScriptsInv, RewardsTypeOK
  <2>2. ScriptTypeOK
    <3>1. AdminInv \/ ShellsIdle
      BY DEF ScriptsInv
    <3> QED
      BY <2>1, <3>1, AdminInvTypes, ScriptAssumption DEF ShellsIdle, ScriptTypeOK
  <2>3. PathTypeOK
    <3>1. PathInv \/ PathIdle
      BY DEF ScriptsInv
    <3> QED
      BY <2>1, <3>1 DEF PathInv, RunsKept, PathRecord, PathIdle, PathTypeOK
  <2>4. TrialTypeOK
    <3>1. TrialInv \/ TrialIdle
      BY DEF ScriptsInv
    <3> QED
      BY <2>1, <3>1, TrialInvTypes DEF TrialIdle, TrialTypeOK
  <2>5. DeployTypeOK
    BY <2>1 DEF SetupTypeOK, DeployTypeOK
  <2> QED
    BY <2>2, <2>3, <2>4, <2>5 DEF ScriptsTypeOK
<1> QED
  BY <1>1, ScriptsInvariant, PTL

\* Where creator-path-mainnet.js is one of the scripts that may be run: its money stays
\* with the clerk, the treasury and the vault (creator-path-mainnet.js:10).
THEOREM PathMoneyAlwaysStays == ScriptsSpec => []PathMoneyStaysOurs
<1>1. ScriptsInv => PathMoneyStaysOurs
  BY DEF ScriptsInv, PathInv, PathMoneyStaysOurs
<1> QED
  BY <1>1, ScriptsInvariant, PTL

\* What the scripts promise of a run that nobody interferes with, they promise
\* together (init-mainnet.js:2, outsider-mainnet.js:5, creator-path-mainnet.js:114).
THEOREM QuietScriptsKeepTheirWord ==
  ScriptsSpec => [](QuietReport /\ FreshRunPasses /\ QuietRunDeploys)
<1>1. ScriptsInv => QuietReport /\ FreshRunPasses /\ QuietRunDeploys
  <2> SUFFICES ASSUME ScriptsInv PROVE QuietReport /\ FreshRunPasses /\ QuietRunDeploys
    OBVIOUS
  <2>1. QuietReport
    BY DEF ScriptsInv, PathInv, PathIdle, QuietReport
  <2>2. FreshRunPasses
    BY DEF ScriptsInv, TrialInv, TrialIdle, FreshRunPasses
  <2>3. QuietRunDeploys
    BY QuietInvDeploys DEF ScriptsInv, SetupIdle, QuietRunDeploys
  <2> QED
    BY <2>1, <2>2, <2>3
<1> QED
  BY <1>1, ScriptsInvariant, PTL

-------------------------------------------------------------------------------
(***************************************************************************)
(* What the authority agreed, under the scripts.  Whatever a script sends, *)
(* with whatever it read or was told, is an instruction of the program.    *)
(***************************************************************************)

LEMMA AdminMoves ==
  ASSUME AdminInv, ScriptNext
  PROVE  Instruction \/ ClerkTrades \/ Rests
<1>1. CASE \E o \in Operators :
              \/ Start(o)
              \/ \E arg \in NewFees : SendFee(o, arg) \/ SendAgentFee(o, arg)
              \/ \E on \in BOOLEAN : SendPause(o, on)
              \/ SendRotateNoop(o)
  <2>1. UNCHANGED registryVars
    BY <1>1 DEF Start, SendFee, SendAgentFee, SendPause, SendRotateNoop, Post
  <2> QED
    BY <2>1 DEF registryVars, Rests
<1>2. CASE \E tx \in sent : Land(tx)
  BY <1>2, LandingInstructs
<1>3. CASE \E tx \in sent : Drop(tx)
  BY <1>3 DEF Drop, registryVars, Rests
<1>4. CASE OthersGoOn
  BY <1>4, OthersMove DEF TimePasses, Rests
<1> QED
  BY <1>1, <1>2, <1>3, <1>4 DEF ScriptNext, ScriptStep

LEMMA PathMoves ==
  ASSUME PathNext
  PROVE  Rests
<1>1. CASE PathStep
  BY <1>1 DEF PathStep, ReadBefore, Stage, Unwrap, UnwrapCreatorFees, ReadUnwrapped,
              Distribute, DistributeRewards, ReadAfter, PathStops, rewardsVars,
              registryVars, Rests
<1>2. CASE Others
  BY <1>2 DEF Others, OthersRun, FeesArrive, UnwrapCreatorFees, DistributeRewards,
              CollectCurveFee, CollectAmmFee, Rests
<1> QED
  BY <1>1, <1>2 DEF PathNext

LEMMA TrialMoves ==
  ASSUME TrialNext
  PROVE  Instruction \/ Rests
<1>1. OUTSIDER \in Wallets /\ ASKED \in U64 /\ LOWER \in U64
  BY TrialKeys
<1>2. CASE Register \/ Lower
  BY <1>1, <1>2 DEF Register, Lower, Instruction
<1>3. CASE ReadConfig \/ LookUp \/ InspectAgent \/ InspectTotal \/ Confirm \/ TrialStops
  <2>1. UNCHANGED registryVars
    BY <1>3 DEF ReadConfig, LookUp, InspectAgent, InspectTotal, Confirm, TrialStops
  <2> QED
    BY <2>1 DEF registryVars, Rests
<1>4. CASE OthersMeddle
  <2>1. /\ LimitArgs \subseteq U64 /\ ShareArgs \subseteq U16 /\ FeeArgs \subseteq U16
        /\ ConfigArgs \subseteq AnyArgs
    BY RouterAssumption, ArgsAreAny
  <2>2. CASE \E s \in Officials :
               \/ \E t, v \in Vaults, args \in ConfigArgs : UpdateConfig(s, t, v, args)
               \/ \E on \in BOOLEAN : SetPaused(s, on)
    BY <2>1, <2>2 DEF Instruction
  <2>3. CASE \E s \in Officials, limit \in LimitArgs, share \in ShareArgs,
                fee \in FeeArgs :
                \/ RegisterAgent(s, OUTSIDER, limit, share, fee)
                \/ \E e \in BOOLEAN : SetAgent(s, OUTSIDER, e, limit, share, fee)
    <3>1. PICK s \in Officials, limit \in U64, share \in U16, fee \in U16 :
                \/ RegisterAgent(s, OUTSIDER, limit, share, fee)
                \/ \E e \in BOOLEAN : SetAgent(s, OUTSIDER, e, limit, share, fee)
      BY <2>1, <2>3
    <3> QED
      BY <1>1, <3>1 DEF Instruction
  <2>4. CASE \E limit \in LimitArgs :
                SelfRegister(OUTSIDER, limit) \/ SetOwnLimit(OUTSIDER, limit)
    BY <1>1, <2>1, <2>4 DEF Instruction
  <2> QED
    BY <1>4, <2>2, <2>3, <2>4 DEF OthersMeddle
<1> QED
  BY <1>2, <1>3, <1>4 DEF TrialNext, TrialStep

LEMMA SetUpMoves ==
  ASSUME NEW k \in Steps, SetUp(k)
  PROVE  Instruction \/ Rests
<1>1. CASE k = 1
  BY <1>1, AgreedKeys, AgreedArgsAreAny DEF SetUp, Instruction
<1>2. CASE k = 2
  BY <1>2 DEF SetUp, InitCreatorVault, Rests
<1>3. CASE k = 3
  BY <1>3, AgreedKeys, AgreedArgsAreAny DEF SetUp, Instruction
<1> QED
  BY <1>1, <1>2, <1>3, StepsAre

LEMMA DeployMoves ==
  ASSUME DeployNext
  PROVE  Instruction \/ Rests
<1>1. ASSUME NEW h \in Shells, SetupStep(h) \/ Dies(h)
      PROVE  Instruction \/ Rests
  <2>1. UNCHANGED rewardsVars \/ \E k \in Steps : SetUp(k)
    BY <1>1 DEF SetupStep, Dies, Begin, Look, Send, Refused, Stops
  <2> QED
    BY <2>1, SetUpMoves DEF rewardsVars, registryVars, Rests
<1>2. CASE OthersInterfere
  <2>1. ASSUME NEW v \in Vaults, Initialize(RIVAL, v, v, AgreedArgs) PROVE Instruction
    BY <2>1, AgreedArgsAreAny DEF Instruction
  <2>2. ASSUME NEW limit \in LimitArgs, SelfRegister(CLERK, limit) PROVE Instruction
    BY <2>2, AgreedKeys, RouterAssumption DEF Instruction
  <2>3. ASSUME NEW args \in ConfigArgs, UpdateConfig(FUNDER, VAULT, VAULT, args)
        PROVE  Instruction
    BY <2>3, AgreedKeys, ArgsAreAny DEF Instruction
  <2> QED
    BY <1>2, <2>1, <2>2, <2>3 DEF OthersInterfere
<1>3. CASE EarlyRevenue
  BY <1>3 DEF EarlyRevenue, CollectCurveFee, CollectAmmFee, Rests
<1> QED
  BY <1>1, <1>2, <1>3 DEF DeployNext

LEMMA ScriptsMove ==
  ASSUME ScriptsInv, [ScriptsNext]_scriptsVars
  PROVE  Instruction \/ ClerkTrades \/ Rests
<1>1. CASE AdminRuns
  BY <1>1, AdminMoves DEF AdminRuns, ScriptsInv
<1>2. CASE PathRuns \/ TrialRuns \/ SetupRuns
  BY <1>2, PathMoves, TrialMoves, DeployMoves DEF PathRuns, TrialRuns, SetupRuns
<1>3. CASE ByHand
  BY <1>3, StepsAreInstructions DEF ByHand, RegistryNext, TimePasses, Rests
<1>4. CASE UNCHANGED scriptsVars
  BY <1>4 DEF scriptsVars, rewardsVars, registryVars, Rests
<1> QED
  BY <1>1, <1>2, <1>3, <1>4 DEF ScriptsNext

LEMMA ClerkTradesTerms ==
  ASSUME RegistryTypeOK, ClerkTrades
  PROVE  /\ RegistryTypeOK' /\ config' = config
         /\ Registered(CLERK) /\ Registered(CLERK)' /\ TermsUntouched(CLERK)
         /\ agents'[CLERK].reward_bps = agents[CLERK].reward_bps
         /\ agents'[CLERK].fee_bps = agents[CLERK].fee_bps
         /\ agents'[CLERK].authority_managed = agents[CLERK].authority_managed
         /\ \A w \in Wallets \ {CLERK} : agents'[w] = agents[w]
<1>1. Registered(CLERK) /\ agents[CLERK] \in AgentAuth
  BY AgreedKeys DEF ClerkTrades, Registered, RegistryTypeOK
<1>2. /\ RegistryTypeOK' /\ config' = config
      /\ agents'[CLERK] \in AgentAuth
      /\ agents'[CLERK].daily_limit = agents[CLERK].daily_limit
      /\ agents'[CLERK].reward_bps = agents[CLERK].reward_bps
      /\ agents'[CLERK].fee_bps = agents[CLERK].fee_bps
      /\ agents'[CLERK].enabled = agents[CLERK].enabled
      /\ agents'[CLERK].authority_managed = agents[CLERK].authority_managed
      /\ \A w \in Wallets \ {CLERK} : agents'[w] = agents[w]
  BY <1>1, ClerkSpendsType DEF ClerkTrades
<1>3. Registered(CLERK)'
  BY <1>2, SentinelAssumption DEF Registered
<1> QED
  BY <1>1, <1>2, <1>3 DEF TermsUntouched

\* What registry's invariant says of the shares and the fees, the scripts keep.
LEMMA ScriptsKeepTerms ==
  ASSUME ScriptsInv, RegistryInv, [ScriptsNext]_scriptsVars
  PROVE  RegistryInv'
<1>1. RegistryTypeOK /\ RegistryTypeOK'
  BY ScriptsInvNext DEF ScriptsInv, RewardsTypeOK
<1>2. CASE Instruction
  BY <1>2, InstructionInv
<1>3. CASE Rests
  BY <1>1, <1>3, AgentsUntouchedInv DEF Rests, RegistryInv
<1>4. CASE ClerkTrades
  <2>1. /\ config' = config /\ CLERK \in Wallets
        /\ Registered(CLERK) /\ Registered(CLERK)'
        /\ agents'[CLERK].reward_bps = agents[CLERK].reward_bps
        /\ agents'[CLERK].fee_bps = agents[CLERK].fee_bps
        /\ \A w \in Wallets \ {CLERK} : agents'[w] = agents[w]
    BY <1>1, <1>4, ClerkTradesTerms, AgreedKeys
  <2>2. \A w \in Wallets : ShareOf(w)' = ShareOf(w)
    BY <2>1 DEF ShareOf, Registered
  <2>3. config # NoConfig
    BY <2>1 DEF RegistryInv, SharesAddUp
  <2>4. SharesAddUp'
    BY <1>1, <2>1, <2>2, <2>3, SharesKept DEF RegistryInv
  <2>5. FeesCapped'
    BY <2>1 DEF RegistryInv, FeesCapped, Registered
  <2> QED
    BY <1>1, <2>4, <2>5 DEF RegistryInv
<1> QED
  BY <1>2, <1>3, <1>4, ScriptsMove

LEMMA ScriptsStartOnTerms == ScriptsInit => RegistryInv
<1> SUFFICES ASSUME ScriptsInit PROVE RegistryInv
  OBVIOUS
<1>1. CASE script \in {"init", "none"}
  BY <1>1, RegistryInductive DEF ScriptsInit, RewardsInit
<1>2. CASE script \notin {"init", "none"}
  <2>1. PathInv
    BY <1>2, PathInvInit DEF ScriptsInit
  <2> QED
    BY <2>1 DEF PathInv, PathAccounts, VaultInv
<1> QED
  BY <1>1, <1>2

\* Whichever script is run by however many operators, with whatever it read before
\* others acted: the shares on record add up (state.rs:63), and no rate it sends back
\* passes the ceiling (state.rs:17).
THEOREM ScriptsKeepTheTerms == ScriptsSpec => [](SharesAddUp /\ FeesCapped)
<1>1. RegistryInv => SharesAddUp /\ FeesCapped
  BY DEF RegistryInv
<1>2. ScriptsInit => ScriptsInv /\ RegistryInv
  BY ScriptsInvInit, ScriptsStartOnTerms
<1>3. ScriptsInv /\ RegistryInv /\ [ScriptsNext]_scriptsVars
         => ScriptsInv' /\ RegistryInv'
  BY ScriptsInvNext, ScriptsKeepTerms
<1> QED
  BY <1>1, <1>2, <1>3, PTL DEF ScriptsSpec

LEMMA ScriptsAuthority ==
  ASSUME ScriptsInv, [ScriptsNext]_scriptsVars
  PROVE  \/ config = NoConfig
         \/ signer' = config.authority
         \/ /\ config' = config
            /\ \A w \in Wallets : IF Registered(w) THEN TermsUntouched(w)
                                                   ELSE OutsidersTerms(w)
<1>1. RegistryTypeOK
  BY DEF ScriptsInv, RewardsTypeOK
<1>2. CASE Instruction
  BY <1>1, <1>2, AuthorityInstructs
<1>3. CASE Rests
  BY <1>3, UntouchedTerms DEF Rests
<1>4. CASE ClerkTrades
  <2>1. /\ config' = config /\ Registered(CLERK) /\ TermsUntouched(CLERK)
        /\ \A w \in Wallets \ {CLERK} : agents'[w] = agents[w]
    BY <1>1, <1>4, ClerkTradesTerms
  <2> QED
    BY <2>1, UntouchedTerms
<1> QED
  BY <1>2, <1>3, <1>4, ScriptsMove

\* No script, and nobody beside one, changes terms without the signature of the
\* authority of the moment: an operator whose key was rotated away is refused, and
\* what a stale command would have written is not (lib.rs:101, admin-mainnet.js:37).
THEOREM OnlyAuthorityRunsScripts == ScriptsSpec => AuthorityDecides
<1> QED
  BY ScriptsAuthority, ScriptsInvariant, PTL DEF ScriptsSpec, AuthorityDecides

LEMMA ScriptsRegistration ==
  ASSUME ScriptsInv, [ScriptsNext]_scriptsVars, NEW w \in Wallets, Registered(w)
  PROVE  /\ Registered(w)'
         /\ agents'[w].authority_managed = agents[w].authority_managed
<1>1. RegistryTypeOK
  BY DEF ScriptsInv, RewardsTypeOK
<1>2. CASE Instruction
  BY <1>1, <1>2, RegistrationStays
<1>3. CASE Rests
  BY <1>3 DEF Rests, Registered
<1>4. CASE ClerkTrades
  BY <1>1, <1>4, ClerkTradesTerms DEF Registered
<1> QED
  BY <1>2, <1>3, <1>4, ScriptsMove

\* However often a script is run again (init-mainnet.js:2, outsider-mainnet.js:69), no
\* agent is registered twice or comes under somebody else.
THEOREM ScriptsRegisterOnce == ScriptsSpec => RegistrationIsForever
<1>1. ASSUME ScriptsInv, [ScriptsNext]_scriptsVars
      PROVE  [\A w \in Wallets : Registered(w) =>
                /\ Registered(w)'
                /\ agents'[w].authority_managed = agents[w].authority_managed
             ]_registryVars
  BY <1>1, ScriptsRegistration
<1> QED
  BY <1>1, ScriptsInvariant, PTL DEF ScriptsSpec, RegistrationIsForever

\* A transaction lands only where admin-mainnet.js is what is run.
LEMMA ScriptsLand ==
  ASSUME ScriptsInv, NEW tx \in sent, Land(tx)
  PROVE  NamedFieldOnly(tx)
<1>1. AdminInv
  BY DEF ScriptsInv, ShellsIdle
<1> QED
  BY <1>1, LandsOnNamed

\* Beside all the scripts: a command of admin-mainnet.js that lands changes the field it
\* names (admin-mainnet.js:7), leaves alone what nobody has written since the command
\* read it, and puts back what another session has.
THEOREM ScriptsChangeOneField == ScriptsSpec => OneFieldEach
<1>1. ScriptsInv /\ [ScriptsNext]_scriptsVars =>
        [\A tx \in sent : Land(tx) =>
          CASE tx.cmd = "fee" -> FeeOnly(tx)
            [] tx.cmd = "agent-fee" -> AgentFeeOnly(tx)
            [] tx.cmd = "pause" ->
                  agents' = agents /\ config' = [config EXCEPT !.paused = tx.arg]
            [] tx.cmd = "rotate-noop" -> UNCHANGED <<config, agents>>]_adminVars
  BY ScriptsLand DEF NamedFieldOnly
<1> QED
  BY <1>1, ScriptsInvariant, PTL DEF ScriptsSpec, OneFieldEach
===============================================================================
