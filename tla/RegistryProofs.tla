---------------------------- MODULE RegistryProofs ----------------------------
(***************************************************************************)
(* Registry for every set of keys, every argument a caller may pass and    *)
(* every value of the limits.  RegistryInv is inductive: types alone are   *)
(* not enough, because that the running total stays a u64 and never falls  *)
(* below the share about to be taken out of it is what SharesAddUp says.   *)
(***************************************************************************)
EXTENDS Registry, NumberLemmas

RegistryInv == RegistryTypeOK /\ SharesAddUp /\ FeesCapped

-------------------------------------------------------------------------------
(***************************************************************************)
(* The operators the handlers are built from.                              *)
(***************************************************************************)

LEMMA CurrentDayType ==
  ASSUME clock \in 0 .. MaxClock
  PROVE  CurrentDay \in Nat
BY ChainAssumption, RouterAssumption DEF CurrentDay

LEMMA DebitType ==
  ASSUME NEW balances \in [Keys -> Nat], NEW k \in Keys, NEW amount \in Int
  PROVE  Debit(balances, k, amount) \in [Keys -> Int]
BY DEF Debit

\* What commits is a table of naturals.
LEMMA CommitType ==
  ASSUME NEW balances \in [Keys -> Int], Commit(balances)
  PROVE  lamports' \in [Keys -> Nat]
BY DEF Commit

LEMMA ConfigArgsType ==
  ASSUME NEW args \in ConfigArgs
  PROVE  /\ args.fee_bps \in U16
         /\ args.max_lamports_per_trade \in U64
         /\ args.default_daily_limit \in U64
BY RouterAssumption DEF ConfigArgs

\* What a caller may pass: anything of the width of its field.
AnyArgs ==
    [fee_bps : U16, max_lamports_per_trade : U64, default_daily_limit : U64]

LEMMA ArgsAreAny == ConfigArgs \subseteq AnyArgs
BY RouterAssumption DEF ConfigArgs, AnyArgs

\* An instruction of lib.rs, with any argument: the handlers of RegistryNext, and of
\* the scripts, which pass what they were told or what they read.
Instruction ==
    \/ \E s \in Officials :
          \/ \E t, v \in Vaults, args \in AnyArgs :
                Initialize(s, t, v, args) \/ UpdateConfig(s, t, v, args)
          \/ \E p \in BOOLEAN : SetPaused(s, p)
          \/ \E k \in Officials : SetAuthority(s, k)
          \/ \E w \in Wallets, limit \in U64, share \in U16, fee \in U16 :
                \/ RegisterAgent(s, w, limit, share, fee)
                \/ \E e \in BOOLEAN : SetAgent(s, w, e, limit, share, fee)
    \/ \E w \in Wallets, limit \in U64 : SelfRegister(w, limit) \/ SetOwnLimit(w, limit)

LEMMA StepsAreInstructions ==
  ASSUME ConfigStep \/ AgentStep
  PROVE  Instruction
<1>1. CASE ConfigStep
  BY <1>1, ArgsAreAny DEF ConfigStep, Instruction
<1>2. CASE AgentStep
  <2>1. PICK w \in Wallets, limit \in U64 :
            \/ \E s \in Officials, share \in U16, fee \in U16 :
                  \/ RegisterAgent(s, w, limit, share, fee)
                  \/ \E e \in BOOLEAN : SetAgent(s, w, e, limit, share, fee)
            \/ SelfRegister(w, limit)
            \/ SetOwnLimit(w, limit)
    BY <1>2, RouterAssumption DEF AgentStep
  <2> QED
    BY <2>1 DEF Instruction
<1> QED
  BY <1>1, <1>2

\* A handler writes to the record of one wallet.
LEMMA OneAgentChanges ==
  ASSUME agents \in [Wallets -> AgentAuth \cup {NoAgent}], NEW w \in Wallets,
         NEW limit \in LimitArgs,
         \/ \E s \in Officials, share \in ShareArgs, fee \in FeeArgs :
               \/ RegisterAgent(s, w, limit, share, fee)
               \/ \E e \in BOOLEAN : SetAgent(s, w, e, limit, share, fee)
         \/ SelfRegister(w, limit)
         \/ SetOwnLimit(w, limit)
  PROVE  \E record : agents' = [agents EXCEPT ![w] = record]
<1>1. ASSUME NEW s, NEW share, NEW fee, RegisterAgent(s, w, limit, share, fee)
      PROVE  \E record : agents' = [agents EXCEPT ![w] = record]
  BY <1>1 DEF RegisterAgent
<1>2. ASSUME NEW s, NEW share, NEW fee, NEW e, SetAgent(s, w, e, limit, share, fee)
      PROVE  \E record : agents' = [agents EXCEPT ![w] = record]
  BY <1>2 DEF SetAgent
<1>3. CASE SelfRegister(w, limit)
  BY <1>3 DEF SelfRegister
<1>4. CASE SetOwnLimit(w, limit)
  BY <1>4 DEF SetOwnLimit
<1> QED
  BY <1>1, <1>2, <1>3, <1>4

LEMMA WalletsFinite == IsFiniteSet(Wallets)
BY ChainAssumption, RouterAssumption, FS_Subset

\* The shares on record are numbers.
LEMMA SharesType ==
  ASSUME agents \in [Wallets -> AgentAuth \cup {NoAgent}]
  PROVE  \A w \in Wallets : Shares[w] \in Nat
BY RouterAssumption DEF Shares, ShareOf, Registered, AgentAuth, U16

-------------------------------------------------------------------------------
(***************************************************************************)
(* Type correctness, one lemma per handler.                                *)
(***************************************************************************)

LEMMA InitializeType ==
  ASSUME RegistryTypeOK, NEW s \in Officials, NEW t \in Vaults,
         NEW v \in Vaults, NEW args \in AnyArgs, Initialize(s, t, v, args)
  PROVE  RegistryTypeOK'
<1>1. s \in Keys /\ t \in Keys /\ v \in Keys
  BY RouterAssumption
<1>2. lamports' \in [Keys -> Nat]
  <2>1. ConfigRent \in Int /\ lamports \in [Keys -> Nat]
    BY RegistryAssumption DEF RegistryTypeOK, ChainTypeOK
  <2>2. Debit(lamports, s, ConfigRent) \in [Keys -> Int]
    BY <1>1, <2>1, DebitType
  <2> QED
    BY <2>2, CommitType DEF Initialize, InitializeAccounts
<1>3. config' \in Config
  <2>1. 0 \in U64
    BY RouterAssumption DEF U64
  <2> QED
    BY <1>1, <2>1 DEF Initialize, Config, AnyArgs
<1> QED
  BY <1>1, <1>2, <1>3
     DEF Initialize, InitializeAccounts, RegistryTypeOK, ChainTypeOK

LEMMA UpdateConfigType ==
  ASSUME RegistryTypeOK, NEW s \in Officials, NEW t \in Vaults,
         NEW v \in Vaults, NEW args \in AnyArgs, UpdateConfig(s, t, v, args)
  PROVE  RegistryTypeOK'
<1>1. s \in Keys /\ t \in Keys /\ v \in Keys
  BY RouterAssumption
<1>2. config \in Config
  BY DEF RegistryTypeOK, UpdateConfig, HasOneAuthority
<1>3. config' \in Config
  BY <1>1, <1>2 DEF UpdateConfig, Config, AnyArgs
<1> QED
  BY <1>1, <1>3
     DEF UpdateConfig, HasOneAuthority, RegistryTypeOK, ChainTypeOK, chainVars

LEMMA SetPausedType ==
  ASSUME RegistryTypeOK, NEW s \in Officials, NEW p \in BOOLEAN, SetPaused(s, p)
  PROVE  RegistryTypeOK'
<1>1. config \in Config /\ s \in Keys
  BY RouterAssumption DEF RegistryTypeOK, SetPaused, HasOneAuthority
<1>2. config' \in Config
  BY <1>1 DEF SetPaused, Config
<1> QED
  BY <1>1, <1>2
     DEF SetPaused, HasOneAuthority, RegistryTypeOK, ChainTypeOK, chainVars

LEMMA SetAuthorityType ==
  ASSUME RegistryTypeOK, NEW s \in Officials, NEW k \in Officials,
         SetAuthority(s, k)
  PROVE  RegistryTypeOK'
<1>1. config \in Config /\ s \in Keys /\ k \in Keys
  BY RouterAssumption DEF RegistryTypeOK, SetAuthority, HasOneAuthority
<1>2. config' \in Config
  BY <1>1 DEF SetAuthority, Config
<1> QED
  BY <1>1, <1>2
     DEF SetAuthority, HasOneAuthority, RegistryTypeOK, ChainTypeOK, chainVars

\* The total stays a u64, whatever share replaces whatever share.
LEMMA AddSharesType ==
  ASSUME config \in Config, NEW before \in Nat, NEW after \in Nat,
         AddShares(before, after)
  PROVE  /\ config' \in Config
         /\ config' # NoConfig
         /\ config'.total_reward_bps = (config.total_reward_bps - before) + after
         /\ config'.total_reward_bps <= BPS_DENOMINATOR
         /\ config'.fee_bps = config.fee_bps
<1> DEFINE total == (config.total_reward_bps - before) + after
<1>1. config.total_reward_bps \in Nat
  BY RouterAssumption DEF Config, U64
<1>2. total \in U64
  BY <1>1, RouterAssumption DEF AddShares, U64
<1>3. config' = [config EXCEPT !.total_reward_bps = total]
  BY DEF AddShares
<1>4. config' \in Config
  <2> HIDE DEF total
  <2> QED
    BY <1>2, <1>3 DEF Config
<1> QED
  BY <1>3, <1>4, SentinelAssumption DEF AddShares, Config

LEMMA RegisterAgentType ==
  ASSUME RegistryTypeOK, NEW s \in Officials, NEW w \in Wallets,
         NEW limit \in U64, NEW share \in U16, NEW fee \in U16,
         RegisterAgent(s, w, limit, share, fee)
  PROVE  RegistryTypeOK'
<1>1. s \in Keys /\ limit \in U64 /\ share \in U16 /\ fee \in U16
  BY RouterAssumption
<1>2. lamports' \in [Keys -> Nat]
  <2>1. Debit(lamports, s, AgentRent) \in [Keys -> Int]
    BY <1>1, DebitType, RegistryAssumption DEF RegistryTypeOK, ChainTypeOK
  <2> QED
    BY <2>1, CommitType DEF RegisterAgent, RegisterAgentAccounts, InitAgentAuth
<1>3. config' \in Config
  <2>1. config \in Config
    BY DEF RegistryTypeOK, RegisterAgent, RegisterAgentAccounts, HasOneAuthority
  <2> QED
    BY <1>1, <2>1, AddSharesType DEF RegisterAgent, U16
<1>4. agents' \in [Wallets -> AgentAuth \cup {NoAgent}]
  <2>1. CurrentDay \in Nat /\ 0 \in U64
    BY CurrentDayType, RouterAssumption DEF RegistryTypeOK, ChainTypeOK, U64
  <2> QED
    BY <1>1, <2>1 DEF RegisterAgent, RegistryTypeOK, AgentAuth
<1> QED
  BY <1>1, <1>2, <1>3, <1>4
     DEF RegisterAgent, RegisterAgentAccounts, HasOneAuthority, RegistryTypeOK,
         ChainTypeOK

LEMMA SelfRegisterType ==
  ASSUME RegistryTypeOK, NEW w \in Wallets, NEW limit \in U64,
         SelfRegister(w, limit)
  PROVE  RegistryTypeOK'
<1>1. w \in Keys /\ limit \in U64
  BY RouterAssumption
<1>2. lamports' \in [Keys -> Nat]
  <2>1. Debit(lamports, w, AgentRent) \in [Keys -> Int]
    BY <1>1, DebitType, RegistryAssumption DEF RegistryTypeOK, ChainTypeOK
  <2> QED
    BY <2>1, CommitType DEF SelfRegister, SelfRegisterAccounts, InitAgentAuth
<1>3. config \in Config
  BY DEF RegistryTypeOK, SelfRegister, SelfRegisterAccounts
<1>4. agents' \in [Wallets -> AgentAuth \cup {NoAgent}]
  <2>1. CurrentDay \in Nat /\ 0 \in U64 /\ 0 \in U16
    BY CurrentDayType, RouterAssumption
       DEF RegistryTypeOK, ChainTypeOK, U64, U16
  <2>2. config.default_daily_limit \in U64 /\ config.fee_bps \in U16
    BY <1>3 DEF Config
  <2> QED
    BY <1>1, <2>1, <2>2 DEF SelfRegister, RegistryTypeOK, AgentAuth
<1> QED
  BY <1>1, <1>2, <1>4
     DEF SelfRegister, SelfRegisterAccounts, RegistryTypeOK, ChainTypeOK

LEMMA SetAgentType ==
  ASSUME RegistryTypeOK, NEW s \in Officials, NEW w \in Wallets,
         NEW e \in BOOLEAN, NEW limit \in U64, NEW share \in U16,
         NEW fee \in U16, SetAgent(s, w, e, limit, share, fee)
  PROVE  RegistryTypeOK'
<1>1. s \in Keys /\ limit \in U64 /\ share \in U16 /\ fee \in U16
  BY RouterAssumption
<1>2. agents[w] \in AgentAuth
  BY DEF RegistryTypeOK, SetAgent, Registered
<1>3. config' \in Config
  <2>1. config \in Config
    BY DEF RegistryTypeOK, SetAgent, HasOneAuthority
  <2>2. agents[w].reward_bps \in Nat /\ share \in Nat
    BY <1>1, <1>2 DEF AgentAuth, U16
  <2> QED
    BY <2>1, <2>2, AddSharesType DEF SetAgent
<1>4. agents' \in [Wallets -> AgentAuth \cup {NoAgent}]
  BY <1>1, <1>2 DEF SetAgent, RegistryTypeOK, AgentAuth
<1> QED
  BY <1>1, <1>3, <1>4
     DEF SetAgent, HasOneAuthority, RegistryTypeOK, ChainTypeOK, chainVars

LEMMA SetOwnLimitType ==
  ASSUME RegistryTypeOK, NEW w \in Wallets, NEW limit \in U64,
         SetOwnLimit(w, limit)
  PROVE  RegistryTypeOK'
<1>1. w \in Keys /\ limit \in U64
  BY RouterAssumption
<1>2. agents[w] \in AgentAuth
  BY DEF RegistryTypeOK, SetOwnLimit, SetOwnLimitAccounts, Registered
<1>3. agents' \in [Wallets -> AgentAuth \cup {NoAgent}]
  BY <1>1, <1>2 DEF SetOwnLimit, RegistryTypeOK, AgentAuth
<1> QED
  BY <1>1, <1>3
     DEF SetOwnLimit, SetOwnLimitAccounts, RegistryTypeOK, ChainTypeOK,
         chainVars

LEMMA TimePassesType ==
  ASSUME RegistryTypeOK, TimePasses
  PROVE  RegistryTypeOK'
BY ChainAssumption DEF TimePasses, Tick, RegistryTypeOK, ChainTypeOK

LEMMA InstructionType ==
  ASSUME RegistryTypeOK, Instruction
  PROVE  RegistryTypeOK'
BY InitializeType, UpdateConfigType, SetPausedType, SetAuthorityType,
   RegisterAgentType, SetAgentType, SelfRegisterType, SetOwnLimitType DEF Instruction

LEMMA NextType ==
  ASSUME RegistryTypeOK, [RegistryNext]_registryVars
  PROVE  RegistryTypeOK'
<1>1. CASE ConfigStep \/ AgentStep
  BY <1>1, StepsAreInstructions, InstructionType
<1>2. CASE TimePasses
  BY <1>2, TimePassesType
<1>3. CASE UNCHANGED registryVars
  BY <1>3 DEF registryVars, RegistryTypeOK, ChainTypeOK
<1> QED
  BY <1>1, <1>2, <1>3 DEF RegistryNext

LEMMA InitType == RegistryInit => RegistryTypeOK
BY ChainAssumption DEF RegistryInit, ChainInit, RegistryTypeOK, ChainTypeOK

\* In every reachable state the accounts and balances have their types: no
\* counter leaves its width and no balance goes below zero (lib.rs, state.rs).
THEOREM RegistryTypeCorrect == RegistrySpec => []RegistryTypeOK
<1>1. RegistryInit => RegistryTypeOK
  BY InitType
<1>2. RegistryTypeOK /\ [RegistryNext]_registryVars => RegistryTypeOK'
  BY NextType
<1> QED
  BY <1>1, <1>2, PTL DEF RegistrySpec

-------------------------------------------------------------------------------
(***************************************************************************)
(* The shares on record and their running total.                           *)
(***************************************************************************)

\* A step that leaves every agent's share alone leaves their sum alone.
LEMMA SharesKept ==
  ASSUME RegistryTypeOK, SharesAddUp, config # NoConfig, config' # NoConfig,
         config'.total_reward_bps = config.total_reward_bps,
         \A w \in Wallets : ShareOf(w)' = ShareOf(w)
  PROVE  SharesAddUp'
<1>1. Shares' = Shares
  BY DEF Shares
<1> QED
  BY <1>1 DEF SharesAddUp

\* A step that changes one agent's share, and the total by as much.
LEMMA SharesMoved ==
  ASSUME RegistryTypeOK, SharesAddUp, config \in Config, NEW w \in Wallets,
         NEW before \in Nat, before = ShareOf(w),
         NEW after \in Nat, after = ShareOf(w)',
         \A v \in Wallets \ {w} : ShareOf(v)' = ShareOf(v),
         AddShares(before, after)
  PROVE  SharesAddUp'
<1>1. /\ config' # NoConfig
      /\ config'.total_reward_bps = (config.total_reward_bps - before) + after
      /\ config'.total_reward_bps <= BPS_DENOMINATOR
  BY AddSharesType
<1>2. \A v \in Wallets : Shares[v] \in Int
  BY SharesType DEF RegistryTypeOK
<1>3. Shares[w] = before /\ Shares'[w] = after
  BY DEF Shares
<1>4. \A v \in Wallets \ {w} : Shares'[v] = Shares[v]
  BY DEF Shares
<1>5. Sum(Shares', Wallets) = (Sum(Shares, Wallets) - before) + after
  BY <1>2, <1>3, <1>4, WalletsFinite, SumUpdate
<1>6. config.total_reward_bps = Sum(Shares, Wallets)
  BY SentinelAssumption DEF SharesAddUp, Sum
<1>7. config'.total_reward_bps = Sum(Shares', Wallets)
  BY <1>1, <1>5, <1>6
<1> QED
  BY <1>1, <1>7 DEF SharesAddUp, Sum

LEMMA InitializeInv ==
  ASSUME RegistryInv, NEW s \in Officials, NEW t \in Vaults,
         NEW v \in Vaults, NEW args \in AnyArgs, Initialize(s, t, v, args)
  PROVE  SharesAddUp' /\ FeesCapped'
<1>1. \A w \in Wallets : ~ Registered(w)
  BY DEF RegistryInv, SharesAddUp, Initialize, InitializeAccounts
<1>2. \A w \in Wallets : ~ Registered(w)'
  BY <1>1 DEF Initialize, Registered
<1>3. config' \in Config /\ config' # NoConfig
  <2>1. RegistryTypeOK'
    BY InitializeType DEF RegistryInv
  <2>2. config' # NoConfig
    <3>1. s \in Keys /\ t \in Keys /\ v \in Keys /\ 0 \in U64
      BY RouterAssumption DEF U64
    <3>2. config' \in Config
      BY <3>1 DEF Initialize, Config, AnyArgs
    <3> QED
      BY <3>2, SentinelAssumption
  <2> QED
    BY <2>1, <2>2 DEF RegistryTypeOK
<1>4. SharesAddUp'
  <2>1. \A w \in Wallets : Shares'[w] = 0
    BY <1>2 DEF Shares, ShareOf
  <2>2. Sum(Shares', Wallets) = 0
    BY <2>1, WalletsFinite, SumOfZeros
  <2>3. config'.total_reward_bps = 0
    BY DEF Initialize
  <2>4. 0 <= BPS_DENOMINATOR
    BY RouterAssumption DEF U64
  <2> QED
    BY <1>3, <2>2, <2>3, <2>4 DEF SharesAddUp, Sum
<1>5. FeesCapped'
  BY <1>2 DEF FeesCapped, Initialize, Validate
<1> QED
  BY <1>4, <1>5

LEMMA ConfigOnlyInv ==
  ASSUME RegistryInv, config \in Config, config' \in Config, agents' = agents,
         config'.total_reward_bps = config.total_reward_bps,
         config'.fee_bps <= MAX_FEE_BPS
  PROVE  SharesAddUp' /\ FeesCapped'
<1>1. config # NoConfig /\ config' # NoConfig
  BY SentinelAssumption
<1>2. \A w \in Wallets : ShareOf(w)' = ShareOf(w)
  BY DEF ShareOf, Registered
<1> QED
  BY <1>1, <1>2, SharesKept DEF RegistryInv, FeesCapped, Registered

LEMMA UpdateConfigInv ==
  ASSUME RegistryInv, NEW s \in Officials, NEW t \in Vaults,
         NEW v \in Vaults, NEW args \in AnyArgs, UpdateConfig(s, t, v, args)
  PROVE  SharesAddUp' /\ FeesCapped'
<1>1. config \in Config
  BY DEF RegistryInv, RegistryTypeOK, UpdateConfig, HasOneAuthority
<1>2. /\ config'.total_reward_bps = config.total_reward_bps
      /\ config'.fee_bps = args.fee_bps
      /\ agents' = agents
  BY <1>1 DEF UpdateConfig, Config
<1>3. config' \in Config
  BY <1>1, RouterAssumption DEF UpdateConfig, Config, AnyArgs
<1> QED
  BY <1>1, <1>2, <1>3, ConfigOnlyInv DEF UpdateConfig, Validate

LEMMA SetPausedInv ==
  ASSUME RegistryInv, NEW s \in Officials, NEW p \in BOOLEAN, SetPaused(s, p)
  PROVE  SharesAddUp' /\ FeesCapped'
<1>1. config \in Config
  BY DEF RegistryInv, RegistryTypeOK, SetPaused, HasOneAuthority
<1>2. /\ config'.total_reward_bps = config.total_reward_bps
      /\ config'.fee_bps = config.fee_bps
      /\ agents' = agents
      /\ config' \in Config
  BY <1>1 DEF SetPaused, Config
<1>3. config.fee_bps <= MAX_FEE_BPS
  BY <1>1, SentinelAssumption DEF RegistryInv, FeesCapped
<1> QED
  BY <1>1, <1>2, <1>3, ConfigOnlyInv

LEMMA SetAuthorityInv ==
  ASSUME RegistryInv, NEW s \in Officials, NEW k \in Officials, SetAuthority(s, k)
  PROVE  SharesAddUp' /\ FeesCapped'
<1>1. config \in Config
  BY DEF RegistryInv, RegistryTypeOK, SetAuthority, HasOneAuthority
<1>2. /\ config'.total_reward_bps = config.total_reward_bps
      /\ config'.fee_bps = config.fee_bps
      /\ agents' = agents
      /\ config' \in Config
  BY <1>1, RouterAssumption DEF SetAuthority, Config
<1>3. config.fee_bps <= MAX_FEE_BPS
  BY <1>1, SentinelAssumption DEF RegistryInv, FeesCapped
<1> QED
  BY <1>1, <1>2, <1>3, ConfigOnlyInv

LEMMA RegisterAgentInv ==
  ASSUME RegistryInv, NEW s \in Officials, NEW w \in Wallets,
         NEW limit \in U64, NEW share \in U16, NEW fee \in U16,
         RegisterAgent(s, w, limit, share, fee)
  PROVE  SharesAddUp' /\ FeesCapped'
<1> DEFINE new == [daily_limit |-> limit, spent_today |-> 0,
                   day |-> CurrentDay, reward_bps |-> share,
                   fee_bps |-> fee, enabled |-> TRUE,
                   authority_managed |-> TRUE]
<1>1. /\ config \in Config /\ config # NoConfig
      /\ agents[w] = NoAgent
      /\ agents \in [Wallets -> AgentAuth \cup {NoAgent}]
  BY DEF RegistryInv, RegistryTypeOK, RegisterAgent, RegisterAgentAccounts,
         HasOneAuthority, InitAgentAuth
<1>2. share \in Nat /\ AddShares(0, share)
  BY RouterAssumption DEF RegisterAgent, U16
<1>3. agents' = [agents EXCEPT ![w] = new]
  BY DEF RegisterAgent
<1>4. new # NoAgent
  <2>1. /\ CurrentDay \in Nat /\ 0 \in U64 /\ limit \in U64
        /\ share \in U16 /\ fee \in U16
    BY CurrentDayType, RouterAssumption
       DEF RegistryInv, RegistryTypeOK, ChainTypeOK, U64
  <2>2. new \in AgentAuth
    BY <2>1 DEF AgentAuth
  <2> HIDE DEF new
  <2> QED
    BY <2>2, SentinelAssumption
<1>5. agents'[w] = new /\ \A v \in Wallets \ {w} : agents'[v] = agents[v]
  BY <1>1, <1>3
<1>6. ShareOf(w) = 0 /\ ShareOf(w)' = share
  BY <1>1, <1>4, <1>5 DEF ShareOf, Registered
<1>7. \A v \in Wallets \ {w} : ShareOf(v)' = ShareOf(v)
  BY <1>5 DEF ShareOf, Registered
<1>8. SharesAddUp'
  BY <1>1, <1>2, <1>6, <1>7, SharesMoved DEF RegistryInv
<1>9. FeesCapped'
  <2>1. config'.fee_bps = config.fee_bps
    BY <1>1, <1>2, AddSharesType
  <2>2. fee <= MAX_FEE_BPS
    BY DEF RegisterAgent
  <2> QED
    BY <1>1, <1>5, <2>1, <2>2 DEF RegistryInv, FeesCapped, Registered
<1> QED
  BY <1>8, <1>9

LEMMA SetAgentInv ==
  ASSUME RegistryInv, NEW s \in Officials, NEW w \in Wallets,
         NEW e \in BOOLEAN, NEW limit \in U64, NEW share \in U16,
         NEW fee \in U16, SetAgent(s, w, e, limit, share, fee)
  PROVE  SharesAddUp' /\ FeesCapped'
<1>1. /\ config \in Config /\ config # NoConfig
      /\ agents[w] \in AgentAuth /\ agents[w] # NoAgent
      /\ agents \in [Wallets -> AgentAuth \cup {NoAgent}]
  BY DEF RegistryInv, RegistryTypeOK, SetAgent, HasOneAuthority, Registered
<1>2. /\ agents[w].reward_bps \in Nat /\ share \in Nat
      /\ AddShares(agents[w].reward_bps, share)
  BY <1>1, RouterAssumption DEF SetAgent, U16, AgentAuth
<1>3. /\ agents'[w].reward_bps = share
      /\ agents'[w].fee_bps = fee
      /\ agents'[w] \in AgentAuth
      /\ \A v \in Wallets \ {w} : agents'[v] = agents[v]
  BY <1>1 DEF SetAgent, AgentAuth
<1>4. agents'[w] # NoAgent
  BY <1>3, SentinelAssumption
<1>5. ShareOf(w) = agents[w].reward_bps /\ ShareOf(w)' = share
  BY <1>1, <1>3, <1>4 DEF ShareOf, Registered
<1>6. \A v \in Wallets \ {w} : ShareOf(v)' = ShareOf(v)
  BY <1>3 DEF ShareOf, Registered
<1>7. SharesAddUp'
  BY <1>1, <1>2, <1>5, <1>6, SharesMoved DEF RegistryInv
<1>8. FeesCapped'
  <2>1. config'.fee_bps = config.fee_bps
    BY <1>1, <1>2, AddSharesType
  <2>2. fee <= MAX_FEE_BPS
    BY DEF SetAgent
  <2> QED
    BY <1>1, <1>3, <2>1, <2>2 DEF RegistryInv, FeesCapped, Registered
<1> QED
  BY <1>7, <1>8

LEMMA SelfRegisterInv ==
  ASSUME RegistryInv, NEW w \in Wallets, NEW limit \in U64,
         SelfRegister(w, limit)
  PROVE  SharesAddUp' /\ FeesCapped'
<1>1. /\ config # NoConfig /\ config' = config
      /\ agents[w] = NoAgent
      /\ agents \in [Wallets -> AgentAuth \cup {NoAgent}]
  BY DEF RegistryInv, RegistryTypeOK, SelfRegister, SelfRegisterAccounts,
         InitAgentAuth
<1>2. /\ agents'[w].reward_bps = 0
      /\ agents'[w].fee_bps = config.fee_bps
      /\ \A v \in Wallets \ {w} : agents'[v] = agents[v]
  BY <1>1 DEF SelfRegister
<1>3. ShareOf(w) = 0 /\ ShareOf(w)' = 0
  BY <1>1, <1>2 DEF ShareOf, Registered
<1>4. \A v \in Wallets : ShareOf(v)' = ShareOf(v)
  BY <1>2, <1>3 DEF ShareOf, Registered
<1>5. SharesAddUp'
  BY <1>1, <1>4, SharesKept DEF RegistryInv
<1>6. FeesCapped'
  BY <1>1, <1>2 DEF RegistryInv, FeesCapped, Registered
<1> QED
  BY <1>5, <1>6

LEMMA SetOwnLimitInv ==
  ASSUME RegistryInv, NEW w \in Wallets, NEW limit \in U64,
         SetOwnLimit(w, limit)
  PROVE  SharesAddUp' /\ FeesCapped'
<1>1. /\ config' = config
      /\ agents[w] \in AgentAuth /\ agents[w] # NoAgent
      /\ agents \in [Wallets -> AgentAuth \cup {NoAgent}]
  BY DEF RegistryInv, RegistryTypeOK, SetOwnLimit, SetOwnLimitAccounts, Registered
<1>2. /\ agents'[w] \in AgentAuth
      /\ agents'[w].reward_bps = agents[w].reward_bps
      /\ agents'[w].fee_bps = agents[w].fee_bps
      /\ \A v \in Wallets \ {w} : agents'[v] = agents[v]
  BY <1>1, RouterAssumption DEF SetOwnLimit, AgentAuth
<1>3. agents'[w] # NoAgent
  BY <1>2, SentinelAssumption
<1>4. \A v \in Wallets : ShareOf(v)' = ShareOf(v)
  BY <1>1, <1>2, <1>3 DEF ShareOf, Registered
<1>5. config # NoConfig
  BY <1>1 DEF RegistryInv, SharesAddUp, Registered
<1>6. SharesAddUp'
  BY <1>1, <1>4, <1>5, SharesKept DEF RegistryInv
<1>7. FeesCapped'
  BY <1>1, <1>2 DEF RegistryInv, FeesCapped, Registered
<1> QED
  BY <1>6, <1>7

LEMMA AgentsUntouchedInv ==
  ASSUME RegistryInv, config' = config, agents' = agents
  PROVE  SharesAddUp' /\ FeesCapped'
BY DEF RegistryInv, SharesAddUp, FeesCapped, Shares, ShareOf, Registered

LEMMA InstructionInv ==
  ASSUME RegistryInv, Instruction
  PROVE  RegistryInv'
<1>1. RegistryTypeOK'
  BY InstructionType DEF RegistryInv
<1>2. SharesAddUp' /\ FeesCapped'
  BY InitializeInv, UpdateConfigInv, SetPausedInv, SetAuthorityInv, RegisterAgentInv,
     SetAgentInv, SelfRegisterInv, SetOwnLimitInv DEF Instruction
<1> QED
  BY <1>1, <1>2 DEF RegistryInv

\* Init => RegistryInv, and every step keeps it.
LEMMA RegistryInductive ==
  /\ RegistryInit => RegistryInv
  /\ RegistryInv /\ [RegistryNext]_registryVars => RegistryInv'
<1>1. RegistryInit => RegistryInv
  BY InitType DEF RegistryInit, RegistryInv, SharesAddUp, FeesCapped, Registered
<1>2. ASSUME RegistryInv, [RegistryNext]_registryVars
      PROVE  RegistryInv'
  <2>1. RegistryTypeOK'
    BY <1>2, NextType DEF RegistryInv
  <2>2. CASE ConfigStep \/ AgentStep
    BY <1>2, <2>2, StepsAreInstructions, InstructionInv
  <2>3. CASE TimePasses \/ UNCHANGED registryVars
    BY <1>2, <2>1, <2>3, AgentsUntouchedInv
       DEF TimePasses, registryVars, RegistryInv
  <2> QED
    BY <1>2, <2>2, <2>3 DEF RegistryNext
<1> QED
  BY <1>1, <1>2

\* The inductive invariant of the administration alone: under every order of the
\* instructions and of days, the shares on record add up to config.total_reward_bps and no
\* fee passes the maximum (lib.rs:90-160, state.rs:47).
THEOREM RegistryInvariant == RegistrySpec => []RegistryInv
<1> QED
  BY RegistryInductive, PTL DEF RegistrySpec

\* The total the authority's handlers keep one change at a time is always the
\* sum of every registered agent's share, and at most everything (state.rs:63).
THEOREM SharesAlwaysAddUp == RegistrySpec => []SharesAddUp
<1>1. RegistryInv => SharesAddUp
  BY DEF RegistryInv
<1> QED
  BY <1>1, RegistryInvariant, PTL

\* No rate in config or in any agent is ever above the ceiling (state.rs:17).
THEOREM FeesAlwaysCapped == RegistrySpec => []FeesCapped
<1>1. RegistryInv => FeesCapped
  BY DEF RegistryInv
<1> QED
  BY <1>1, RegistryInvariant, PTL

-------------------------------------------------------------------------------
(***************************************************************************)
(* What a single instruction may never do.                                 *)
(***************************************************************************)

LEMMA UntouchedTerms ==
  ASSUME NEW w \in Wallets, agents'[w] = agents[w]
  PROVE  IF Registered(w) THEN TermsUntouched(w) ELSE OutsidersTerms(w)
BY DEF TermsUntouched, OutsidersTerms, Registered

\* A newcomer's limit is what it asked for, clamped by the default.
LEMMA SelfRegisterTerms ==
  ASSUME RegistryTypeOK, NEW w \in Wallets, NEW limit \in U64,
         SelfRegister(w, limit)
  PROVE  /\ config' = config
         /\ ~ Registered(w) /\ Registered(w)'
         /\ OutsidersTerms(w)
         /\ \A v \in Wallets \ {w} : agents'[v] = agents[v]
<1> DEFINE cap == config.default_daily_limit
           given == IF cap > 0 /\ cap < limit THEN cap ELSE limit
<1>1. config \in Config /\ ~ Registered(w) /\ limit \in Nat /\ cap \in Nat
  BY RouterAssumption
     DEF SelfRegister, SelfRegisterAccounts, InitAgentAuth, Registered,
         RegistryTypeOK, Config, U64
<1>2. /\ agents' = [agents EXCEPT ![w] =
                      [daily_limit |-> given, spent_today |-> 0,
                       day |-> CurrentDay, reward_bps |-> 0,
                       fee_bps |-> config.fee_bps, enabled |-> TRUE,
                       authority_managed |-> FALSE]]
      /\ config' = config
  BY DEF SelfRegister
<1>3. cap > 0 => given <= cap
  BY <1>1
<1> HIDE DEF given
<1>4. /\ ~ agents'[w].authority_managed /\ agents'[w].reward_bps = 0
      /\ agents'[w].fee_bps = config.fee_bps /\ agents'[w].daily_limit = given
      /\ \A v \in Wallets \ {w} : agents'[v] = agents[v]
  BY <1>2 DEF RegistryTypeOK
<1>5. agents'[w] \in AgentAuth
  <2>1. CurrentDay \in Nat /\ 0 \in U64 /\ 0 \in U16 /\ limit \in U64
    BY CurrentDayType, RouterAssumption
       DEF RegistryTypeOK, ChainTypeOK, U64, U16
  <2>2. given \in U64 /\ config.fee_bps \in U16
    BY <1>1, <2>1 DEF given, Config
  <2>3. agents'[w] = [daily_limit |-> given, spent_today |-> 0,
                      day |-> CurrentDay, reward_bps |-> 0,
                      fee_bps |-> config.fee_bps, enabled |-> TRUE,
                      authority_managed |-> FALSE]
    BY <1>2 DEF RegistryTypeOK
  <2> QED
    BY <2>1, <2>2, <2>3 DEF AgentAuth
<1>6. Registered(w)'
  BY <1>5, SentinelAssumption DEF Registered
<1> QED
  BY <1>1, <1>2, <1>3, <1>4, <1>6 DEF OutsidersTerms

\* Company machines are refused, and nothing but the limit is written.
LEMMA SetOwnLimitTerms ==
  ASSUME RegistryTypeOK, NEW w \in Wallets, NEW limit \in U64,
         SetOwnLimit(w, limit)
  PROVE  /\ config' = config
         /\ TermsUntouched(w) /\ Registered(w)
         /\ \A v \in Wallets \ {w} : agents'[v] = agents[v]
<1>1. /\ Registered(w) /\ agents[w] \in AgentAuth /\ ~ agents[w].authority_managed
      /\ agents' = [agents EXCEPT ![w].daily_limit = limit]
      /\ config' = config
  BY DEF SetOwnLimit, SetOwnLimitAccounts, RegistryTypeOK, Registered
<1>2. agents'[w] = [agents[w] EXCEPT !.daily_limit = limit]
  BY <1>1 DEF RegistryTypeOK
<1>3. \A term \in {"reward_bps", "fee_bps", "enabled", "authority_managed"} :
         agents'[w][term] = agents[w][term]
  BY <1>1, <1>2 DEF AgentAuth
<1>4. agents'[w] \in AgentAuth
  BY <1>1, <1>2, RouterAssumption DEF AgentAuth
<1>5. Registered(w)'
  BY <1>4, SentinelAssumption DEF Registered
<1> QED
  BY <1>1, <1>3, <1>5 DEF TermsUntouched, RegistryTypeOK

LEMMA AuthorityInstructs ==
  ASSUME RegistryTypeOK, Instruction
  PROVE  \/ config = NoConfig
         \/ signer' = config.authority
         \/ /\ config' = config
            /\ \A w \in Wallets : IF Registered(w) THEN TermsUntouched(w)
                                                   ELSE OutsidersTerms(w)
<1>1. ASSUME NEW s \in Officials,
             \/ \E t, v \in Vaults, args \in AnyArgs :
                   Initialize(s, t, v, args) \/ UpdateConfig(s, t, v, args)
             \/ \E p \in BOOLEAN : SetPaused(s, p)
             \/ \E k \in Officials : SetAuthority(s, k)
      PROVE  config = NoConfig \/ signer' = config.authority
  BY <1>1 DEF Initialize, InitializeAccounts, UpdateConfig, SetPaused, SetAuthority,
              HasOneAuthority
<1>2. ASSUME NEW s \in Officials, NEW w \in Wallets, NEW limit \in U64,
             NEW share \in U16, NEW fee \in U16,
             \/ RegisterAgent(s, w, limit, share, fee)
             \/ \E e \in BOOLEAN : SetAgent(s, w, e, limit, share, fee)
      PROVE  signer' = config.authority
  BY <1>2 DEF RegisterAgent, RegisterAgentAccounts, SetAgent, HasOneAuthority
<1>3. ASSUME NEW w \in Wallets, NEW limit \in U64, SelfRegister(w, limit)
      PROVE  /\ config' = config
             /\ \A v \in Wallets : IF Registered(v) THEN TermsUntouched(v)
                                                    ELSE OutsidersTerms(v)
  BY <1>3, SelfRegisterTerms, UntouchedTerms
<1>4. ASSUME NEW w \in Wallets, NEW limit \in U64, SetOwnLimit(w, limit)
      PROVE  /\ config' = config
             /\ \A v \in Wallets : IF Registered(v) THEN TermsUntouched(v)
                                                    ELSE OutsidersTerms(v)
  BY <1>4, SetOwnLimitTerms, UntouchedTerms
<1> QED
  BY <1>1, <1>2, <1>3, <1>4 DEF Instruction

LEMMA AuthorityStep ==
  ASSUME RegistryTypeOK, [RegistryNext]_registryVars
  PROVE  \/ config = NoConfig
         \/ signer' = config.authority
         \/ /\ config' = config
            /\ \A w \in Wallets : IF Registered(w) THEN TermsUntouched(w)
                                                   ELSE OutsidersTerms(w)
<1>1. CASE ConfigStep \/ AgentStep
  BY <1>1, StepsAreInstructions, AuthorityInstructs
<1>2. CASE TimePasses \/ UNCHANGED registryVars
  BY <1>2, UntouchedTerms DEF TimePasses, registryVars
<1> QED
  BY <1>1, <1>2 DEF RegistryNext

\* Whoever signs, and whatever the limits, shares and fees they pass: only the
\* authority of the moment changes the config or anybody's terms (lib.rs:101).
THEOREM OnlyAuthorityDecides == RegistrySpec => AuthorityDecides
<1> QED
  BY AuthorityStep, RegistryTypeCorrect, PTL DEF RegistrySpec, AuthorityDecides

LEMMA RegistrationStays ==
  ASSUME RegistryTypeOK, Instruction, NEW v \in Wallets, Registered(v)
  PROVE  /\ Registered(v)'
         /\ agents'[v].authority_managed = agents[v].authority_managed
<1>1. agents[v] \in AgentAuth
  BY DEF RegistryTypeOK, Registered
<1>2. CASE agents'[v] = agents[v]
  BY <1>2 DEF Registered
<1>3. ASSUME NEW s \in Officials,
             \/ \E t, k \in Vaults, args \in AnyArgs :
                   Initialize(s, t, k, args) \/ UpdateConfig(s, t, k, args)
             \/ \E p \in BOOLEAN : SetPaused(s, p)
             \/ \E k \in Officials : SetAuthority(s, k)
      PROVE  agents'[v] = agents[v]
  BY <1>3 DEF Initialize, UpdateConfig, SetPaused, SetAuthority
<1>4. ASSUME NEW s \in Officials, NEW w \in Wallets, NEW limit \in U64,
             NEW share \in U16, NEW fee \in U16,
             RegisterAgent(s, w, limit, share, fee)
      PROVE  agents'[v] = agents[v]
  BY <1>4 DEF RegisterAgent, RegisterAgentAccounts, InitAgentAuth, Registered,
              RegistryTypeOK
<1>5. ASSUME NEW s \in Officials, NEW w \in Wallets, NEW limit \in U64,
             NEW share \in U16, NEW fee \in U16, NEW e \in BOOLEAN,
             SetAgent(s, w, e, limit, share, fee)
      PROVE  /\ Registered(v)'
             /\ agents'[v].authority_managed = agents[v].authority_managed
  <2>1. agents' = [agents EXCEPT ![w].enabled = e, ![w].daily_limit = limit,
                                 ![w].reward_bps = share, ![w].fee_bps = fee]
    BY <1>5 DEF SetAgent
  <2>2. /\ agents'[v] \in AgentAuth
        /\ agents'[v].authority_managed = agents[v].authority_managed
    BY <1>1, <2>1 DEF RegistryTypeOK, AgentAuth
  <2> QED
    BY <2>2, SentinelAssumption DEF Registered
<1>6. ASSUME NEW w \in Wallets, NEW limit \in U64, SelfRegister(w, limit)
      PROVE  agents'[v] = agents[v]
  BY <1>6, SelfRegisterTerms
<1>7. ASSUME NEW w \in Wallets, NEW limit \in U64, SetOwnLimit(w, limit)
      PROVE  /\ Registered(v)'
             /\ agents'[v].authority_managed = agents[v].authority_managed
  BY <1>2, <1>7, SetOwnLimitTerms DEF TermsUntouched
<1> QED
  BY <1>2, <1>3, <1>4, <1>5, <1>6, <1>7 DEF Instruction

LEMMA RegistrationStep ==
  ASSUME RegistryTypeOK, [RegistryNext]_registryVars, NEW v \in Wallets,
         Registered(v)
  PROVE  /\ Registered(v)'
         /\ agents'[v].authority_managed = agents[v].authority_managed
<1>1. CASE ConfigStep \/ AgentStep
  BY <1>1, StepsAreInstructions, RegistrationStays
<1>2. CASE TimePasses \/ UNCHANGED registryVars
  BY <1>2 DEF TimePasses, registryVars, Registered
<1> QED
  BY <1>1, <1>2 DEF RegistryNext

\* No sequence of instructions registers a wallet anew, and by it gives it a
\* fresh budget, or takes it from under whoever registered it.
THEOREM OnceRegistered == RegistrySpec => RegistrationIsForever
<1>1. ASSUME RegistryTypeOK, [RegistryNext]_registryVars
      PROVE  [\A w \in Wallets : Registered(w) =>
                /\ Registered(w)'
                /\ agents'[w].authority_managed = agents[w].authority_managed
             ]_registryVars
  BY <1>1, RegistrationStep
<1> QED
  BY <1>1, RegistryTypeCorrect, PTL DEF RegistrySpec, RegistrationIsForever
===============================================================================
