----------------------------- MODULE ClientProofs -----------------------------
(***************************************************************************)
(* client/sizing.js for every balance, cap and share, and client/trade.js  *)
(* for any number of runs, sizes, vaults and interleavings.                *)
(***************************************************************************)
EXTENDS TradeClient, TradingProofs

-------------------------------------------------------------------------------
(***************************************************************************)
(* Sizing.                                                                 *)
(***************************************************************************)

LEMMA TradableType ==
  ASSUME NEW l \in Limits
  PROVE  /\ Tradable(l) \in Nat
         /\ Tradable(l) > 0 => Tradable(l) = l.balance - ReserveLamports
BY SizingAssumption DEF Limits, Tradable, ClampZero

LEMMA ShareType ==
  ASSUME NEW l \in Limits, NEW bps \in Nat
  PROVE  /\ ShareOfTradable(l, bps) \in Nat
         /\ bps <= BPS => ShareOfTradable(l, bps) <= Tradable(l)
<1>1. Tradable(l) * bps \in Nat /\ Tradable(l) \in Nat
  BY TradableType
<1> QED
  BY <1>1, DivBounds, ShareAtMostWhole, SizingAssumption DEF ShareOfTradable

LEMMA CeilingTypes ==
  ASSUME NEW l \in Limits
  PROVE  /\ PerTrade(l) \in Nat /\ DailyAllowance(l) \in Nat
         /\ l.absoluteCap \in Nat /\ l.dailyCap \in Nat /\ l.spentToday \in Nat
BY ShareType, SizingAssumption DEF Limits, PerTrade, DailyAllowance

\* What sizing.js:109 lets pass is within all four ceilings of sizing.js:76 at
\* once: the chain's cap per trade, the share of the balance, what the chain
\* still allows today, and what the client's own day still allows.
THEOREM WithinEveryCeiling ==
  ASSUME NEW l \in Limits, NEW size \in Nat \ {0}, WithinBudget(l, size)
  PROVE  /\ size <= l.absoluteCap
         /\ size <= PerTrade(l)
         /\ l.spentToday + size <= l.dailyCap
         /\ l.spentToday + size <= DailyAllowance(l)
BY CeilingTypes DEF WithinBudget, MaxBuy, Smaller, LeftOf, ClampZero

\* "Never trade the wallet to zero" (sizing.js:27): with shares of at most
\* everything, a buy that passes leaves the reserve in the wallet.
THEOREM ReserveIsKept ==
  ASSUME TradeBps <= BPS,
         NEW l \in Limits, NEW size \in Nat \ {0}, WithinBudget(l, size)
  PROVE  l.balance - size >= ReserveLamports
<1>1. size <= PerTrade(l) /\ PerTrade(l) \in Nat
  BY WithinEveryCeiling, CeilingTypes
<1>2. PerTrade(l) <= Tradable(l)
  BY ShareType, SizingAssumption DEF PerTrade
<1> QED
  BY <1>1, <1>2, TradableType, SizingAssumption DEF Limits

LEMMA ShareMonotone ==
  ASSUME NEW l \in Limits, NEW k \in Limits, l.balance <= k.balance,
         NEW bps \in Nat
  PROVE  ShareOfTradable(l, bps) <= ShareOfTradable(k, bps)
<1>1. Tradable(l) <= Tradable(k)
  BY SizingAssumption DEF Limits, Tradable, ClampZero
<1>2. Tradable(l) \in Nat /\ Tradable(k) \in Nat
  BY TradableType
<1>3. Tradable(l) * bps <= Tradable(k) * bps
  BY <1>1, <1>2, TimesMonotone
<1>4. Tradable(l) * bps \in Nat /\ Tradable(k) * bps \in Nat
  BY <1>2
<1> QED
  BY <1>3, <1>4, DivMonotone, SizingAssumption DEF ShareOfTradable

\* "As the balance falls the cap falls with it on the next trade" (sizing.js:15),
\* through both roundings and all four ceilings: with the chain's limits as they
\* were, nobody is allowed more after losing or spending than before.
THEOREM LosingRunShrinks ==
  ASSUME NEW before \in Limits, NEW after \in Limits,
         after.absoluteCap = before.absoluteCap,
         after.dailyCap = before.dailyCap,
         after.balance <= before.balance,
         after.spentToday >= before.spentToday
  PROVE  MaxBuy(after) <= MaxBuy(before)
<1>1. /\ PerTrade(after) <= PerTrade(before)
      /\ DailyAllowance(after) <= DailyAllowance(before)
  BY ShareMonotone, SizingAssumption DEF PerTrade, DailyAllowance
<1>2. /\ LeftOf(after.dailyCap, after) <= LeftOf(before.dailyCap, before)
      /\ LeftOf(DailyAllowance(after), after)
            <= LeftOf(DailyAllowance(before), before)
  BY <1>1, CeilingTypes DEF LeftOf, ClampZero
<1>3. /\ LeftOf(after.dailyCap, after) \in Nat
      /\ LeftOf(before.dailyCap, before) \in Nat
      /\ LeftOf(DailyAllowance(after), after) \in Nat
      /\ LeftOf(DailyAllowance(before), before) \in Nat
  BY CeilingTypes DEF LeftOf, ClampZero
<1> HIDE DEF LeftOf
<1> QED
  BY <1>1, <1>2, <1>3, CeilingTypes DEF MaxBuy, Smaller

-------------------------------------------------------------------------------
(***************************************************************************)
(* What holds of a run, its trade, what it read, its cache and what it     *)
(* sent, at every await.                                                   *)
(***************************************************************************)

Unbuilt == {"idle", "limits", "venue", "pool", "vault"}

Fits(at, built, saw, cached, sent) ==
    /\ at \in Steps
    /\ built \in Trade \cup {NoTrade}
    /\ saw \in Seen
    /\ cached \in Vaults \cup {NoVault}
    /\ sent \in Trade \cup {NoTrade}
    /\ at = "idle" <=> built = NoTrade
    /\ at \notin {"idle", "limits", "venue", "pool"} => built.venue # "unresolved"
    /\ at \notin Unbuilt => built.fee_vault # NoVault
    /\ at \in Unbuilt /\ built # NoTrade => built.fee_vault = NoVault
    /\ at = "sent" => sent = built
    \* Only a buy is sized, and what sized it is forgotten.
    /\ at = "limits" => built.side = "Buy" /\ built.size \in BuySizes
    /\ at # "limits" => saw = NothingSeen
    \* Nothing else is begun before the chain is done with what was sent.
    /\ sent # NoTrade => at \in {"idle", "sent"}
    \* A script reads the vault anew in every attempt.
    /\ ~ LongLived /\ at \in Unbuilt => cached = NoVault

AttemptFits(c) ==
    Fits(step[c], plan[c], seen[c], cachedFeeVault[Process(c)], inflight[c])

AttemptsOK ==
    /\ step \in [Runs -> Steps]
    /\ plan \in [Runs -> Trade \cup {NoTrade}]
    /\ seen \in [Runs -> Seen]
    /\ cachedFeeVault \in [Runs -> Vaults \cup {NoVault}]
    /\ inflight \in [Runs -> Trade \cup {NoTrade}]
    /\ \A c \in Runs : AttemptFits(c)

CountersOK ==
    /\ pool \in BOOLEAN
    /\ fresh \in [Runs -> [limits : BOOLEAN, vault : BOOLEAN]]
    /\ richest \in Nat
    /\ buys \in 0 .. MaxBuys /\ troubles \in 0 .. MaxTroubles

\* What scripts/init-mainnet.js set up, and nobody takes away again.
Standing ==
    /\ config # NoConfig /\ config.fee_vault \in Vaults
    /\ Registered(Agent)

ClientInv ==
    /\ TradingInv
    /\ Standing
    /\ NothingLeftWrapped
    /\ AttemptsOK
    /\ CountersOK

-------------------------------------------------------------------------------
(***************************************************************************)
(* The chain's side of a step.                                             *)
(***************************************************************************)

LEMMA AgentType == Agent \in Wallets /\ Agent \in Keys
BY ClientAssumption, RouterAssumption

\* A trade on the AMM leaves no account behind, whatever was in it.
LEMMA AmmTradeFacts ==
  ASSUME TradingTypeOK, Registered(Agent), NEW vault \in Keys, NEW side \in Sides,
         NEW wrapped \in Nat, NEW quote \in Nat, NEW rent \in Nat,
         wsol[Agent] \in Nat, AmmTrade(vault, side, wrapped, quote, rent)
  PROVE  /\ lamports' \in [Keys -> Nat]
         /\ event' \in TradeRouted
         /\ wsol' = [wsol EXCEPT ![Agent] = NoAccount]
<1>1. Agent \in Keys /\ Agent \in Wallets /\ TokenRent \in Nat
  BY AgentType, ChainAssumption
<1>2. lamports \in [Keys -> Nat] /\ RegistryTypeOK
  BY DEF TradingTypeOK, RegistryTypeOK, ChainTypeOK
<1> DEFINE native == Debit(lamports, Agent, (wrapped - wsol[Agent]) + rent)
           moved == Moved(side, wrapped, quote)
           fee == BpsOf(moved, agents[Agent].fee_bps)
           paid == Move(native, Agent, vault, fee)
           back == -(quote + TokenRent)
<1>3. (wrapped - wsol[Agent]) + rent \in Int /\ back \in Int
  BY <1>1
<1>4. native \in [Keys -> Int]
  BY <1>1, <1>2, <1>3, DebitType
<1>5. moved \in Nat
  BY MovedType
<1>6. agents[Agent].fee_bps \in Nat
  BY <1>1, <1>2, SpentTodayType
<1>7. fee \in Nat
  BY <1>5, <1>6, BpsOfType
<1>8. paid \in [Keys -> Int]
  <2> HIDE DEF native, fee
  <2> QED
    BY <1>4, <1>7 DEF Move
<1>9. Debit(paid, Agent, back) \in [Keys -> Int]
  <2> HIDE DEF paid, back
  <2> QED
    BY <1>1, <1>3, <1>8 DEF Debit
<1>10. /\ Commit(Debit(paid, Agent, back))
       /\ event' = [agent |-> Agent, side |-> side, on_amm |-> TRUE,
                    quote_moved |-> moved, fee_lamports |-> fee]
       /\ wsol' = [wsol EXCEPT ![Agent] = NoAccount]
  BY DEF AmmTrade, Emit
<1>11. lamports' \in [Keys -> Nat]
  <2> HIDE DEF paid, back
  <2> QED
    BY <1>9, <1>10, CommitType
<1> HIDE DEF moved, fee
<1>12. event' \in TradeRouted
  BY <1>1, <1>5, <1>7, <1>10 DEF TradeRouted
<1> QED
  BY <1>10, <1>11, <1>12

\* What every step keeps of the chain's side.
ChainKept == TradingInv' /\ Standing' /\ NothingLeftWrapped'

LEMMA ClientFacts ==
  ASSUME ClientInv
  PROVE  /\ TradingInv /\ TradingTypeOK /\ RegistryTypeOK /\ ChainTypeOK
         /\ config \in Config /\ config # NoConfig /\ config.fee_vault \in Vaults
         /\ Registered(Agent) /\ agents[Agent] \in AgentAuth
         /\ wsol \in [Wallets -> Nat \cup {NoAccount}]
         /\ wsol[Agent] \in {NoAccount, 0}
         /\ committed \in [Wallets -> Nat]
         /\ lamports \in [Keys -> Nat]
BY AgentType
   DEF ClientInv, TradingInv, TradingTypeOK, RegistryTypeOK, ChainTypeOK,
       Standing, NothingLeftWrapped, Registered

\* The vault a transaction names is the configured one, or it fails.
LEMMA NamedVault ==
  ASSUME ClientInv, NEW vault, TradeCurveAccounts(Agent, Agent, vault)
  PROVE  vault \in Vaults /\ vault \in Keys
BY ClientFacts, RouterAssumption DEF TradeCurveAccounts

\* A buy that is not for nothing is for one of the sizes.
LEMMA BuySizeType ==
  ASSUME NEW t \in Trade, CheckBuy(Agent, t.size)
  PROVE  t.size \in Amounts /\ t.size \in U64 \ {0} /\ t.size \in Nat
<1>1. t.size \in BuySizes \cup {0} /\ t.size > 0
  BY DEF Trade, CheckBuy
<1>2. t.size \in Amounts \ {0}
  BY <1>1, ClientAssumption
<1>3. t.size \in U64
  BY <1>2, TradingAssumption
<1>4. t.size \in Nat
  BY <1>3, RouterAssumption DEF U64
<1> QED
  BY <1>1, <1>2, <1>3, <1>4

\* Registered agents stay registered, on a step that charges one.
LEMMA ChargedStands ==
  ASSUME ClientInv, NEW ceiling, Charged(Agent, ceiling), config' = config,
         UNCHANGED <<clock>>
  PROVE  BudgetOnRecord' /\ RecordsNotAhead' /\ Standing'
<1>1. BudgetOnRecord' /\ RecordsNotAhead'
  BY ClientFacts, AgentType, ChargedKeepsRecord
<1>2. agents'[Agent] \in AgentAuth
  <2>1. ceiling \in Nat
    BY RouterAssumption DEF Charged, U64
  <2> QED
    BY <2>1, ClientFacts, AgentType, ChargeFacts DEF Charged
<1> QED
  BY <1>1, <1>2, SentinelAssumption, ClientFacts DEF Standing, Registered

LEMMA CurveBuyLands ==
  ASSUME ClientInv, NEW t \in Trade, NEW cost \in Amounts \ {0},
         NEW rent \in {0, VenueRent},
         Buy(Agent, Agent, t.fee_vault, t.size, cost, rent)
  PROVE  /\ ChainKept /\ UNCHANGED <<clock, config>>
         /\ Charged(Agent, t.size)
<1>1. t.fee_vault \in Vaults /\ t.size \in Amounts
  BY NamedVault, BuySizeType DEF Buy
<1>2. TradingTypeOK' /\ OwnTrade(Agent) /\ Charged(Agent, t.size)
  BY <1>1, ClientFacts, AgentType, BuyFacts
<1>3. UNCHANGED <<clock, config>>
  BY <1>2 DEF OwnTrade
<1>4. wsol' = wsol
  BY DEF Buy, SettleCurve
<1>5. BudgetOnRecord' /\ RecordsNotAhead' /\ Standing'
  BY <1>2, <1>3, ChargedStands
<1> QED
  BY <1>2, <1>3, <1>4, <1>5, ClientFacts
     DEF ChainKept, TradingInv, NothingLeftWrapped

\* Nothing changes that Standing and the budgets speak of.
LEMMA UnchargedStands ==
  ASSUME ClientInv, UNCHANGED <<clock, config, agents, committed>>
  PROVE  BudgetOnRecord' /\ RecordsNotAhead' /\ Standing'
BY ClientFacts, RecordUntouched DEF Standing, Registered

LEMMA CurveSellLands ==
  ASSUME ClientInv, NEW t \in Trade, NEW out \in Amounts,
         Sell(Agent, Agent, t.fee_vault, out)
  PROVE  ChainKept /\ UNCHANGED <<clock, config, agents, committed>>
<1>1. t.fee_vault \in Vaults
  BY NamedVault DEF Sell
<1>2. TradingTypeOK' /\ OwnTrade(Agent) /\ UNCHANGED <<agents, committed>>
  BY <1>1, ClientFacts, AgentType, SellFacts
<1>3. UNCHANGED <<clock, config>>
  BY <1>2 DEF OwnTrade
<1>4. wsol' = wsol
  BY DEF Sell, SettleCurve
<1>5. BudgetOnRecord' /\ RecordsNotAhead' /\ Standing'
  BY <1>2, <1>3, UnchargedStands
<1> QED
  BY <1>2, <1>3, <1>4, <1>5, ClientFacts
     DEF ChainKept, TradingInv, NothingLeftWrapped

\* The AMM's quote and the buyers' rent change hands.
LEMMA PoolTakes ==
  ASSUME TradingTypeOK, NEW cost \in Nat, NEW rent \in Nat,
         reserves' = [reserves EXCEPT !.pool = @ + cost, !.rent = @ + rent]
  PROVE  reserves' \in Reserves
<1>1. /\ reserves \in Reserves
      /\ reserves.pool + cost \in Nat /\ reserves.rent + rent \in Nat
  BY ReservesType
<1> QED
  BY <1>1 DEF Reserves

LEMMA PoolGives ==
  ASSUME TradingTypeOK, NEW out \in Nat, out <= reserves.pool,
         reserves' = [reserves EXCEPT !.pool = @ - out]
  PROVE  reserves' \in Reserves
<1>1. reserves \in Reserves /\ reserves.pool \in Nat
  BY ReservesType
<1> QED
  BY <1>1 DEF Reserves

LEMMA AmmBuyLands ==
  ASSUME ClientInv, NEW t \in Trade, NEW cost \in Amounts \ {0},
         NEW rent \in {0, VenueRent}, AmmBuy(t.fee_vault, t.size, cost, rent)
  PROVE  /\ ChainKept /\ UNCHANGED <<clock, config>>
         /\ Charged(Agent, t.size)
<1>1. /\ t.fee_vault \in Keys /\ wsol[Agent] # NoAccount
      /\ t.size \in U64 \ {0} /\ t.size \in Nat
  BY NamedVault, BuySizeType DEF AmmBuy, TradeAmmAccounts
<1>2. cost \in Nat /\ rent \in Nat /\ cost <= t.size
  BY TradingAssumption, RouterAssumption DEF U64, AmmBuy
<1>3. wsol[Agent] = 0
  BY <1>1, ClientFacts
<1>4. /\ wsol[Agent] + t.size \in Nat /\ wsol[Agent] + t.size - cost \in Nat
      /\ wsol[Agent] \in Nat
  BY <1>1, <1>2, <1>3
<1>5. AmmTrade(t.fee_vault, "Buy", wsol[Agent] + t.size,
               wsol[Agent] + t.size - cost, rent)
  BY DEF AmmBuy
<1>6. "Buy" \in Sides
  BY DEF Sides
<1>7. /\ lamports' \in [Keys -> Nat]
      /\ event' \in TradeRouted
      /\ wsol' = [wsol EXCEPT ![Agent] = NoAccount]
  BY <1>1, <1>2, <1>4, <1>5, <1>6, ClientFacts, AmmTradeFacts
<1>8. Charged(Agent, t.size)
  BY <1>1, ClientFacts DEF Charged, AmmBuy, CheckBuy
<1>9. reserves' \in Reserves
  BY <1>2, ClientFacts, PoolTakes DEF AmmBuy
<1>10. UNCHANGED <<config, clock, complete>> /\ signer' = Agent
  BY DEF AmmBuy, TradeAmmAccounts, TradeCurveAccounts
<1>11. /\ agents' \in [Wallets -> AgentAuth \cup {NoAgent}]
       /\ committed' \in [Wallets -> Nat]
  BY <1>8, ClientFacts, AgentType, ChargedType
<1>12. BudgetOnRecord' /\ RecordsNotAhead' /\ Standing'
  BY <1>8, <1>10, ChargedStands
<1>13. TradingTypeOK'
  BY <1>7, <1>9, <1>10, <1>11, ClientFacts, AgentType
     DEF TradingTypeOK, RegistryTypeOK, ChainTypeOK
<1>14. NothingLeftWrapped'
  BY <1>7, ClientFacts, AgentType DEF NothingLeftWrapped
<1> QED
  BY <1>8, <1>10, <1>12, <1>13, <1>14 DEF ChainKept, TradingInv

LEMMA AmmSellLands ==
  ASSUME ClientInv, NEW t \in Trade, NEW out \in Amounts, AmmSell(t.fee_vault, out)
  PROVE  ChainKept /\ UNCHANGED <<clock, config, agents, committed>>
<1>1. t.fee_vault \in Keys /\ wsol[Agent] # NoAccount
  BY NamedVault DEF AmmSell, TradeAmmAccounts
<1>2. out \in Nat /\ out <= reserves.pool
  BY TradingAssumption, RouterAssumption DEF U64, AmmSell
<1>3. wsol[Agent] \in Nat /\ wsol[Agent] + out \in Nat
  BY <1>1, <1>2, ClientFacts
<1>4. AmmTrade(t.fee_vault, "Sell", wsol[Agent], wsol[Agent] + out, 0)
  BY DEF AmmSell
<1>5. "Sell" \in Sides /\ 0 \in Nat
  BY DEF Sides
<1>6. /\ lamports' \in [Keys -> Nat]
      /\ event' \in TradeRouted
      /\ wsol' = [wsol EXCEPT ![Agent] = NoAccount]
  BY <1>1, <1>3, <1>4, <1>5, ClientFacts, AmmTradeFacts
<1>7. reserves' \in Reserves
  BY <1>2, ClientFacts, PoolGives DEF AmmSell
<1>8. /\ UNCHANGED <<config, clock, complete, agents, committed>>
      /\ signer' = Agent
  BY DEF AmmSell, TradeAmmAccounts, TradeCurveAccounts
<1>9. BudgetOnRecord' /\ RecordsNotAhead' /\ Standing'
  BY <1>8, UnchargedStands
<1>10. TradingTypeOK'
  BY <1>6, <1>7, <1>8, ClientFacts, AgentType
     DEF TradingTypeOK, RegistryTypeOK, ChainTypeOK
<1>11. NothingLeftWrapped'
  BY <1>6, ClientFacts, AgentType DEF NothingLeftWrapped
<1> QED
  BY <1>8, <1>9, <1>10, <1>11 DEF ChainKept, TradingInv

\* A trade lands: the wrapped account is closed again, and a buy is charged
\* what the client allowed for it.
LEMMA TradeLands ==
  ASSUME ClientInv, NEW t \in Trade, Executes(t)
  PROVE  /\ ChainKept /\ UNCHANGED <<clock, config>>
         /\ \/ Charged(Agent, t.size)
            \/ t.side = "Sell" /\ UNCHANGED <<agents, committed>>
<1>1. CASE \E cost \in Amounts \ {0}, rent \in {0, VenueRent} :
              \/ Buy(Agent, Agent, t.fee_vault, t.size, cost, rent)
              \/ AmmBuy(t.fee_vault, t.size, cost, rent)
  BY <1>1, CurveBuyLands, AmmBuyLands
<1>2. CASE /\ t.side = "Sell"
           /\ \E out \in Amounts : \/ Sell(Agent, Agent, t.fee_vault, out)
                                  \/ AmmSell(t.fee_vault, out)
  BY <1>2, CurveSellLands, AmmSellLands
<1> QED
  BY <1>1, <1>2 DEF Executes

LEMMA PrepOnChain ==
  ASSUME ClientInv, NEW c \in Runs, Prep(c)
  PROVE  ChainKept /\ UNCHANGED <<clock, config, agents, committed>>
<1>1. /\ UNCHANGED <<clock, config, agents, reserves, complete, committed>>
      /\ signer' = Agent /\ event' = NoEvent
  BY DEF Prep
<1>2. TokenRent \in Int
  BY ChainAssumption
<1>3. Debit(lamports, Agent, TokenRent) \in [Keys -> Int]
  BY <1>2, ClientFacts, AgentType, DebitType
<1>4. lamports' \in [Keys -> Nat]
  BY <1>3, ClientFacts, CommitType DEF Prep
<1>5. /\ wsol' \in [Wallets -> Nat \cup {NoAccount}]
      /\ wsol'[Agent] \in {NoAccount, 0}
  BY ClientFacts, AgentType DEF Prep
<1>6. BudgetOnRecord' /\ RecordsNotAhead' /\ Standing'
  BY <1>1, UnchargedStands
<1>7. TradingTypeOK'
  BY <1>1, <1>4, <1>5, ClientFacts, AgentType
     DEF TradingTypeOK, RegistryTypeOK, ChainTypeOK
<1> QED
  BY <1>1, <1>5, <1>6, <1>7 DEF ChainKept, TradingInv, NothingLeftWrapped

\* The authority moves the vault and the cap, whatever the other settings are.
LEMMA VaultMoved ==
  ASSUME ClientInv, NEW s \in Officials, NEW v \in Vaults, NEW cap \in CapArgs,
         UpdateConfig(s, config.treasury, v,
            [fee_bps |-> config.fee_bps, max_lamports_per_trade |-> cap,
             default_daily_limit |-> config.default_daily_limit])
  PROVE  /\ RegistryTypeOK' /\ UNCHANGED <<clock, agents>>
         /\ config' # NoConfig /\ config'.fee_vault \in Vaults
<1>1. config \in Config /\ cap \in U64 /\ s \in Keys /\ v \in Keys
  BY ClientFacts, RouterAssumption
<1>2. config' = [config EXCEPT
                   !.treasury = config.treasury, !.fee_vault = v,
                   !.fee_bps = config.fee_bps, !.max_lamports_per_trade = cap,
                   !.default_daily_limit = config.default_daily_limit]
  BY DEF UpdateConfig
<1>3. config' \in Config /\ config'.fee_vault = v
  BY <1>1, <1>2 DEF Config
<1>4. UNCHANGED <<agents, lamports, clock>> /\ signer' = s
  BY DEF UpdateConfig, HasOneAuthority, chainVars
<1> QED
  BY <1>1, <1>3, <1>4, ClientFacts, SentinelAssumption
     DEF RegistryTypeOK, ChainTypeOK

\* Or the agent's limit and permission.
LEMMA AgentChanged ==
  ASSUME ClientInv, NEW s \in Officials, NEW e \in BOOLEAN, NEW limit \in LimitArgs,
         SetAgent(s, Agent, e, limit, agents[Agent].reward_bps, agents[Agent].fee_bps)
  PROVE  /\ RegistryTypeOK' /\ clock' = clock
         /\ config' # NoConfig /\ config'.fee_vault = config.fee_vault
         /\ Registered(Agent)' /\ agents'[Agent].daily_limit = limit
         /\ agents'[Agent].spent_today = agents[Agent].spent_today
         /\ agents'[Agent].day = agents[Agent].day
         /\ \A w \in Wallets \ {Agent} : agents'[w] = agents[w]
<1> DEFINE share == agents[Agent].reward_bps
           fee == agents[Agent].fee_bps
<1>1. /\ config \in Config /\ agents[Agent] \in AgentAuth
      /\ agents \in [Wallets -> AgentAuth \cup {NoAgent}]
      /\ limit \in U64 /\ s \in Keys /\ share \in U16 /\ fee \in U16
      /\ share \in Nat
  BY ClientFacts, RouterAssumption DEF AgentAuth, U16, RegistryTypeOK
<1>2. config' \in Config /\ config' # NoConfig /\ config'.fee_vault = config.fee_vault
  BY <1>1, AddSharesType DEF SetAgent, AddShares
<1>3. agents' = [agents EXCEPT ![Agent].enabled = e, ![Agent].daily_limit = limit,
                               ![Agent].reward_bps = share, ![Agent].fee_bps = fee]
  BY DEF SetAgent
<1> HIDE DEF share, fee
<1>4. /\ agents'[Agent] \in AgentAuth /\ agents'[Agent].daily_limit = limit
      /\ agents'[Agent].spent_today = agents[Agent].spent_today
      /\ agents'[Agent].day = agents[Agent].day
      /\ \A w \in Wallets \ {Agent} : agents'[w] = agents[w]
      /\ agents' \in [Wallets -> AgentAuth \cup {NoAgent}]
  BY <1>1, <1>3, AgentType DEF AgentAuth
<1>5. Registered(Agent)'
  BY <1>4, SentinelAssumption DEF Registered
<1>6. UNCHANGED <<lamports, clock>> /\ signer' = s
  BY DEF SetAgent, HasOneAuthority, chainVars
<1> QED
  BY <1>1, <1>2, <1>4, <1>5, <1>6, ClientFacts DEF RegistryTypeOK, ChainTypeOK

LEMMA GovernsOnChain ==
  ASSUME ClientInv, Governs
  PROVE  ChainKept /\ UNCHANGED <<clock, committed>>
<1> DEFINE AsGoverned ==
             /\ RegistryTypeOK' /\ clock' = clock
             /\ config' # NoConfig /\ config'.fee_vault \in Vaults
             /\ \/ agents' = agents
                \/ /\ Registered(Agent)'
                   /\ agents'[Agent].spent_today = agents[Agent].spent_today
                   /\ agents'[Agent].day = agents[Agent].day
                   /\ \A w \in Wallets \ {Agent} : agents'[w] = agents[w]
<1>1. PICK s \in Officials :
          \/ \E v \in Vaults, cap \in CapArgs :
                UpdateConfig(s, config.treasury, v,
                   [fee_bps |-> config.fee_bps, max_lamports_per_trade |-> cap,
                    default_daily_limit |-> config.default_daily_limit])
          \/ \E p \in BOOLEAN : SetPaused(s, p)
          \/ \E e \in BOOLEAN, limit \in LimitArgs :
                SetAgent(s, Agent, e, limit, agents[Agent].reward_bps,
                         agents[Agent].fee_bps)
  BY DEF Governs
<1>2. ASSUME NEW v \in Vaults, NEW cap \in CapArgs,
             UpdateConfig(s, config.treasury, v,
                [fee_bps |-> config.fee_bps, max_lamports_per_trade |-> cap,
                 default_daily_limit |-> config.default_daily_limit])
      PROVE  AsGoverned
  BY <1>2, VaultMoved
<1>3. ASSUME NEW p \in BOOLEAN, SetPaused(s, p)
      PROVE  AsGoverned
  <2>1. RegistryTypeOK'
    BY <1>3, ClientFacts, SetPausedType
  <2>2. config' = [config EXCEPT !.paused = p] /\ UNCHANGED <<agents, clock>>
    BY <1>3 DEF SetPaused, chainVars
  <2>3. config' \in Config /\ config'.fee_vault = config.fee_vault
    BY <2>2, ClientFacts DEF Config
  <2> QED
    BY <2>1, <2>2, <2>3, ClientFacts, SentinelAssumption
<1>4. ASSUME NEW e \in BOOLEAN, NEW limit \in LimitArgs,
             SetAgent(s, Agent, e, limit, agents[Agent].reward_bps,
                      agents[Agent].fee_bps)
      PROVE  AsGoverned
  BY <1>4, AgentChanged, ClientFacts
<1>5. AsGoverned
  BY <1>1, <1>2, <1>3, <1>4
<1>6. UNCHANGED <<wsol, reserves, complete, committed>> /\ event' = NoEvent
  BY DEF Governs, venueVars
<1>7. CurrentDay' = CurrentDay
  BY <1>5 DEF CurrentDay
<1>8. Registered(Agent)'
  BY <1>5, ClientFacts DEF Registered
<1>9. \A w \in Wallets : /\ Registered(w)' = Registered(w)
                         /\ Registered(w) => /\ SpentToday(w)' = SpentToday(w)
                                             /\ agents'[w].day = agents[w].day
  BY <1>5, <1>7, <1>8, ClientFacts DEF Registered, SpentToday
<1>10. BudgetOnRecord' /\ RecordsNotAhead'
  BY <1>6, <1>7, <1>9, ClientFacts DEF TradingInv, BudgetOnRecord, RecordsNotAhead
<1>11. TradingTypeOK' /\ NothingLeftWrapped'
  BY <1>5, <1>6, ClientFacts DEF TradingTypeOK, NothingLeftWrapped
<1> QED
  BY <1>5, <1>6, <1>8, <1>10, <1>11 DEF ChainKept, TradingInv, Standing

LEMMA ChainRests ==
  ASSUME ClientInv, UNCHANGED tradingVars
  PROVE  ChainKept /\ UNCHANGED <<clock, config, agents, committed>>
BY DEF tradingVars, registryVars, venueVars, ChainKept, TradingInv, TradingTypeOK,
       RegistryTypeOK, ChainTypeOK, BudgetOnRecord, RecordsNotAhead, SpentToday,
       CurrentDay, Registered, ClientInv, Standing, NothingLeftWrapped

LEMMA GraduatesOnChain ==
  ASSUME ClientInv, Graduate
  PROVE  ChainKept /\ UNCHANGED <<clock, config, agents, committed>>
<1>1. TradingTypeOK' /\ UNCHANGED <<clock, config, agents, committed>>
  BY ClientFacts, GraduateFacts
<1>2. BudgetOnRecord' /\ RecordsNotAhead' /\ Standing'
  BY <1>1, UnchargedStands
<1>3. NothingLeftWrapped'
  BY ClientFacts DEF Graduate, NothingLeftWrapped
<1> QED
  BY <1>1, <1>2, <1>3 DEF ChainKept, TradingInv

LEMMA AgesOnChain ==
  ASSUME ClientInv, PassTime
  PROVE  /\ ChainKept /\ UNCHANGED <<config, agents>>
         /\ \/ committed' = committed /\ CurrentDay' = CurrentDay
            \/ /\ CurrentDay' > CurrentDay
               /\ committed' = [w \in Wallets |-> 0] /\ lamports' = lamports
<1>1. TradingTypeOK' /\ BudgetOnRecord' /\ RecordsNotAhead'
  BY ClientFacts, PassTimeType, PassTimeKeepsRecord
<1>2. UNCHANGED <<config, agents, wsol>>
  BY DEF PassTime, TimePasses, venueVars
<1>3. Standing' /\ NothingLeftWrapped'
  BY <1>2, ClientFacts DEF Standing, Registered, NothingLeftWrapped
<1>4. \/ committed' = committed /\ CurrentDay' = CurrentDay
      \/ /\ CurrentDay' > CurrentDay
         /\ committed' = [w \in Wallets |-> 0] /\ lamports' = lamports
  <2>1. CurrentDay \in Nat /\ CurrentDay' \in {CurrentDay, CurrentDay + 1}
    BY ClientFacts, NextDay, CurrentDayType DEF PassTime, TimePasses, ChainTypeOK
  <2> QED
    BY <2>1 DEF PassTime, TimePasses, Tick
<1> QED
  BY <1>1, <1>2, <1>3, <1>4 DEF ChainKept, TradingInv

-------------------------------------------------------------------------------
(***************************************************************************)
(* The process's side of a step.                                           *)
(***************************************************************************)

\* One run moves on: everybody else's attempt is as it was.
Becomes(c, at, built, saw, cached, sent) ==
    /\ step' = [step EXCEPT ![c] = at]
    /\ plan' = [plan EXCEPT ![c] = built]
    /\ seen' = [seen EXCEPT ![c] = saw]
    /\ cachedFeeVault' = [cachedFeeVault EXCEPT ![Process(c)] = cached]
    /\ inflight' = [inflight EXCEPT ![c] = sent]

OthersRest(c) ==
    \A d \in Runs \ {c} :
        /\ step'[d] = step[d] /\ plan'[d] = plan[d]
        /\ seen'[d] = seen[d] /\ inflight'[d] = inflight[d]

\* What is known of the run that moved.
Is(c, at, built, saw, sent) ==
    step'[c] = at /\ plan'[c] = built /\ seen'[c] = saw /\ inflight'[c] = sent

\* Runs share a process only where it outlives them.
LEMMA ProcessType ==
  ASSUME NEW c \in Runs
  PROVE  Process(c) \in Runs /\ (LongLived \/ Process(c) = c)
BY DEF Process

LEMMA AttemptMoves ==
  ASSUME AttemptsOK, NEW c \in Runs,
         NEW at, NEW built, NEW saw, NEW cached, NEW sent,
         Becomes(c, at, built, saw, cached, sent), Fits(at, built, saw, cached, sent)
  PROVE  AttemptsOK' /\ OthersRest(c) /\ Is(c, at, built, saw, sent)
<1>1. /\ at \in Steps /\ built \in Trade \cup {NoTrade} /\ saw \in Seen
      /\ cached \in Vaults \cup {NoVault} /\ sent \in Trade \cup {NoTrade}
  BY DEF Fits
<1>2. /\ step' \in [Runs -> Steps]
      /\ plan' \in [Runs -> Trade \cup {NoTrade}]
      /\ seen' \in [Runs -> Seen]
      /\ cachedFeeVault' \in [Runs -> Vaults \cup {NoVault}]
      /\ inflight' \in [Runs -> Trade \cup {NoTrade}]
  BY <1>1 DEF AttemptsOK, Becomes
<1>3. Is(c, at, built, saw, sent) /\ cachedFeeVault'[Process(c)] = cached
  BY ProcessType DEF AttemptsOK, Becomes, Is
<1>4. OthersRest(c)
  BY DEF AttemptsOK, Becomes, OthersRest
<1>5. AttemptFits(c)'
  BY <1>3 DEF AttemptFits, Is, Process
<1>6. ASSUME NEW d \in Runs \ {c}
      PROVE  AttemptFits(d)'
  <2>1. AttemptFits(d) /\ Process(d)' = Process(d)
    BY DEF AttemptsOK, Process
  <2>2. CASE LongLived
    <3>1. cachedFeeVault'[Process(d)] \in Vaults \cup {NoVault}
      BY <1>2, ProcessType
    <3> QED
      BY <2>1, <2>2, <3>1, <1>4 DEF AttemptFits, OthersRest, Fits
  <2>3. CASE ~ LongLived
    <3>1. cachedFeeVault'[Process(d)] = cachedFeeVault[Process(d)]
      BY <2>3, ProcessType DEF AttemptsOK, Becomes
    <3> QED
      BY <2>1, <3>1, <1>4 DEF AttemptFits, OthersRest
  <2> QED
    BY <2>2, <2>3
<1> QED
  BY <1>2, <1>3, <1>4, <1>5, <1>6 DEF AttemptsOK

\* An entry that is written back as it was.
LEMMA SameEntry ==
  ASSUME AttemptsOK, NEW c \in Runs
  PROVE  /\ step = [step EXCEPT ![c] = step[c]]
         /\ plan = [plan EXCEPT ![c] = plan[c]]
         /\ seen = [seen EXCEPT ![c] = seen[c]]
         /\ cachedFeeVault =
               [cachedFeeVault EXCEPT ![Process(c)] = cachedFeeVault[Process(c)]]
         /\ inflight = [inflight EXCEPT ![c] = inflight[c]]
         /\ Fits(step[c], plan[c], seen[c], cachedFeeVault[Process(c)], inflight[c])
BY ProcessType DEF AttemptsOK, AttemptFits

\* A step from which nothing is sized keeps what is traded; only FeeVault names a
\* vault; and what is pending stays pending or is over.
Carries(c) ==
    /\ \A t \in {plan'[c], inflight'[c]} \ {NoTrade} :
          /\ step[c] # "limits"
          /\ \E u \in {plan[c], inflight[c]} \ {NoTrade} :
                t.side = u.side /\ t.size = u.size
    /\ plan'[c] # NoTrade =>
          /\ plan[c] # NoTrade
          /\ \/ plan'[c].fee_vault = plan[c].fee_vault
             \/ plan'[c].fee_vault = config.fee_vault
             \/ LongLived
    /\ seen'[c] = NothingSeen
    /\ \/ Pending(c)' = Pending(c) /\ seen'[c] = seen[c]
       \/ Pending(c)' = 0

Advances(c) == AttemptsOK' /\ OthersRest(c) /\ Carries(c)

LEMMA NothingSeenType == NothingSeen \in Seen
BY DEF NothingSeen, Seen

\* An attempt that ends, well or not, and sent nothing or was answered.
LEMMA EndsAdvances ==
  ASSUME AttemptsOK, NEW c \in Runs, step[c] # "idle",
         Ends(c), NEW sent, sent = NoTrade \/ sent = inflight[c],
         inflight' = [inflight EXCEPT ![c] = sent]
  PROVE  Advances(c)
<1> DEFINE cached == IF LongLived THEN cachedFeeVault[Process(c)] ELSE NoVault
<1>1. Becomes(c, "idle", NoTrade, NothingSeen, cached, sent)
  BY SameEntry, ProcessType DEF Becomes, Ends, Goto
<1>2. Fits("idle", NoTrade, NothingSeen, cached, sent)
  BY SameEntry, NothingSeenType, ClientAssumption DEF Fits, Steps, Unbuilt
<1>3. AttemptsOK' /\ OthersRest(c) /\ Is(c, "idle", NoTrade, NothingSeen, sent)
  <2> HIDE DEF cached
  <2> QED
    BY <1>1, <1>2, AttemptMoves
<1>4. /\ step[c] = "limits" => inflight[c] = NoTrade
      /\ step[c] # "limits" => seen[c] = NothingSeen
  BY SameEntry DEF Fits
<1>5. Carries(c)
  BY <1>3, <1>4 DEF Carries, Pending, Is
<1> QED
  BY <1>3, <1>5 DEF Advances

\* Between the sizing and the sending: the plan is filled in, and no more.
LEMMA GoesOn ==
  ASSUME AttemptsOK, NEW c \in Runs, NEW at, NEW built, NEW cached,
         Becomes(c, at, built, seen[c], cached, inflight[c]),
         step[c] \notin {"idle", "limits", "sent"},
         at \notin {"idle", "limits", "sent"},
         Fits(at, built, seen[c], cached, inflight[c]),
         built # NoTrade, built.side = plan[c].side, built.size = plan[c].size,
         \/ built.fee_vault = plan[c].fee_vault
         \/ built.fee_vault = config.fee_vault
         \/ LongLived
  PROVE  Advances(c)
<1>1. AttemptsOK' /\ OthersRest(c) /\ Is(c, at, built, seen[c], inflight[c])
  BY AttemptMoves
<1>2. plan[c] # NoTrade /\ seen[c] = NothingSeen
  BY SameEntry DEF Fits
<1>3. Carries(c)
  BY <1>1, <1>2 DEF Carries, Pending, Is
<1> QED
  BY <1>1, <1>3 DEF Advances

\* The same with the plan and the cache as they were.
LEMMA WaitsOn ==
  ASSUME AttemptsOK, NEW c \in Runs, NEW at,
         Goto(c, at), UNCHANGED <<plan, seen, cachedFeeVault, inflight>>,
         step[c] \notin {"idle", "limits", "sent"},
         at \notin {"idle", "limits", "sent"},
         Fits(at, plan[c], seen[c], cachedFeeVault[Process(c)], inflight[c])
  PROVE  Advances(c)
<1>1. Becomes(c, at, plan[c], seen[c], cachedFeeVault[Process(c)], inflight[c])
  BY SameEntry DEF Becomes, Goto
<1>2. plan[c] # NoTrade
  BY SameEntry DEF Fits
<1> QED
  BY <1>1, <1>2, GoesOn

\* A plan is a record, and stays one when its venue or its vault is filled in.
LEMMA PlanType ==
  ASSUME AttemptsOK, NEW c \in Runs, plan[c] # NoTrade
  PROVE  /\ plan[c] \in Trade
         /\ \A venue \in Venues :
               LET p == [plan[c] EXCEPT !.venue = venue]
               IN  /\ p \in Trade /\ p # NoTrade
                   /\ p.side = plan[c].side /\ p.size = plan[c].size
                   /\ p.venue = venue /\ p.fee_vault = plan[c].fee_vault
         /\ \A vault \in Vaults \cup {NoVault} :
               LET p == [plan[c] EXCEPT !.fee_vault = vault]
               IN  /\ p \in Trade /\ p # NoTrade
                   /\ p.side = plan[c].side /\ p.size = plan[c].size
                   /\ p.venue = plan[c].venue /\ p.fee_vault = vault
<1>1. plan[c] \in Trade
  BY DEF AttemptsOK
<1> QED
  BY <1>1, TradeAssumption DEF Trade

LEMMA ReadCurveAdvances ==
  ASSUME AttemptsOK, NEW c \in Runs, ReadCurve(c)
  PROVE  Advances(c)
<1>1. /\ step[c] = "venue"
      /\ UNCHANGED <<seen, cachedFeeVault, inflight>>
  BY DEF ReadCurve
<1>2. Fits(step[c], plan[c], seen[c], cachedFeeVault[Process(c)], inflight[c])
  BY SameEntry
<1>3. plan[c] # NoTrade /\ inflight[c] = NoTrade /\ plan[c].fee_vault = NoVault
  BY <1>1, <1>2 DEF Fits, Unbuilt
<1>4. CASE Goto(c, "pool") /\ UNCHANGED plan
  <2>1. Fits("pool", plan[c], seen[c], cachedFeeVault[Process(c)], inflight[c])
    BY <1>1, <1>2, <1>3 DEF Fits, Steps, Unbuilt
  <2> QED
    BY <1>1, <1>4, <2>1, WaitsOn
<1>5. CASE Goto(c, "vault") /\ plan' = [plan EXCEPT ![c].venue = "curve"]
  <2> DEFINE built == [plan[c] EXCEPT !.venue = "curve"]
  <2>1. /\ built \in Trade /\ built # NoTrade
        /\ built.side = plan[c].side /\ built.size = plan[c].size
        /\ built.venue = "curve" /\ built.fee_vault = plan[c].fee_vault
    BY <1>3, PlanType DEF Venues
  <2>2. plan' = [plan EXCEPT ![c] = built]
    BY <1>5
  <2> HIDE DEF built
  <2>3. Becomes(c, "vault", built, seen[c], cachedFeeVault[Process(c)], inflight[c])
    BY <1>1, <1>5, <2>2, SameEntry DEF Becomes, Goto
  <2>4. Fits("vault", built, seen[c], cachedFeeVault[Process(c)], inflight[c])
    BY <1>1, <1>2, <1>3, <2>1 DEF Fits, Steps, Unbuilt
  <2>5. step[c] \notin {"idle", "limits", "sent"}
    BY <1>1
  <2>6. "vault" \notin {"idle", "limits", "sent"}
    OBVIOUS
  <2> QED
    BY <2>1, <2>3, <2>4, <2>5, <2>6, GoesOn, Zenon
<1> QED
  BY <1>4, <1>5 DEF ReadCurve

LEMMA ReadPoolAdvances ==
  ASSUME AttemptsOK, NEW c \in Runs, ReadPool(c)
  PROVE  Advances(c)
<1>1. step[c] = "pool" /\ inflight' = inflight
  BY DEF ReadPool
<1>2. Fits(step[c], plan[c], seen[c], cachedFeeVault[Process(c)], inflight[c])
  BY SameEntry
<1>3. plan[c] # NoTrade /\ inflight[c] = NoTrade /\ plan[c].fee_vault = NoVault
  BY <1>1, <1>2 DEF Fits, Unbuilt
<1>4. CASE Ends(c)
  BY <1>1, <1>4, SameEntry, EndsAdvances
<1>5. CASE /\ Goto(c, "vault") /\ plan' = [plan EXCEPT ![c].venue = "amm"]
           /\ UNCHANGED <<seen, cachedFeeVault>>
  <2> DEFINE built == [plan[c] EXCEPT !.venue = "amm"]
  <2>1. /\ built \in Trade /\ built # NoTrade
        /\ built.side = plan[c].side /\ built.size = plan[c].size
        /\ built.venue = "amm" /\ built.fee_vault = plan[c].fee_vault
    BY <1>3, PlanType DEF Venues
  <2>2. plan' = [plan EXCEPT ![c] = built]
    BY <1>5
  <2> HIDE DEF built
  <2>3. Becomes(c, "vault", built, seen[c], cachedFeeVault[Process(c)], inflight[c])
    BY <1>1, <1>5, <2>2, SameEntry DEF Becomes, Goto
  <2>4. Fits("vault", built, seen[c], cachedFeeVault[Process(c)], inflight[c])
    BY <1>1, <1>2, <1>3, <2>1 DEF Fits, Steps, Unbuilt
  <2>5. step[c] \notin {"idle", "limits", "sent"}
    BY <1>1
  <2>6. "vault" \notin {"idle", "limits", "sent"}
    OBVIOUS
  <2> QED
    BY <2>1, <2>3, <2>4, <2>5, <2>6, GoesOn, Zenon
<1> QED
  BY <1>4, <1>5 DEF ReadPool

\* A process whose cache ends with its attempt reads the vault of the moment.
LEMMA FeeVaultAdvances ==
  ASSUME ClientInv, NEW c \in Runs, FeeVault(c)
  PROVE  Advances(c)
<1> DEFINE cached == cachedFeeVault[Process(c)]
           vault == IF cached # NoVault THEN cached ELSE config.fee_vault
           built == [plan[c] EXCEPT !.fee_vault = vault]
<1>1. step[c] = "vault" /\ UNCHANGED <<seen, inflight>> /\ AttemptsOK
  BY DEF FeeVault, ClientInv
<1>2. Fits(step[c], plan[c], seen[c], cachedFeeVault[Process(c)], inflight[c])
  BY <1>1, SameEntry
<1>3. plan[c] # NoTrade /\ inflight[c] = NoTrade /\ plan[c].venue # "unresolved"
  BY <1>1, <1>2 DEF Fits, Unbuilt
<1>4. /\ vault \in Vaults /\ vault # NoVault
      /\ vault = config.fee_vault \/ LongLived
  BY <1>1, <1>2, ClientFacts, ClientAssumption DEF Fits, Unbuilt
<1>5. /\ step' = [step EXCEPT ![c] = "build"]
      /\ plan' = [plan EXCEPT ![c] = built]
      /\ cachedFeeVault' = [cachedFeeVault EXCEPT ![Process(c)] = vault]
  BY DEF FeeVault, Goto
<1> HIDE DEF vault
<1>6. /\ built \in Trade /\ built # NoTrade
      /\ built.side = plan[c].side /\ built.size = plan[c].size
      /\ built.venue = plan[c].venue /\ built.fee_vault = vault
  BY <1>1, <1>3, <1>4, PlanType
<1> HIDE DEF built
<1>7. Becomes(c, "build", built, seen[c], vault, inflight[c])
  BY <1>1, <1>5, SameEntry DEF Becomes
<1>8. Fits("build", built, seen[c], vault, inflight[c])
  BY <1>1, <1>2, <1>3, <1>4, <1>6 DEF Fits, Steps, Unbuilt
<1>9. step[c] \notin {"idle", "limits", "sent"}
  BY <1>1
<1>10. "build" \notin {"idle", "limits", "sent"}
  OBVIOUS
<1> QED
  BY <1>1, <1>4, <1>6, <1>7, <1>8, <1>9, <1>10, GoesOn, Zenon

LEMMA BuildAdvances ==
  ASSUME AttemptsOK, NEW c \in Runs, Build(c)
  PROVE  Advances(c)
<1>1. /\ step[c] = "build"
      /\ Goto(c, "prep") \/ Goto(c, "simulate")
      /\ UNCHANGED <<plan, seen, cachedFeeVault, inflight>>
  BY DEF Build
<1>2. Fits(step[c], plan[c], seen[c], cachedFeeVault[Process(c)], inflight[c])
  BY SameEntry
<1>3. /\ Fits("prep", plan[c], seen[c], cachedFeeVault[Process(c)], inflight[c])
      /\ Fits("simulate", plan[c], seen[c], cachedFeeVault[Process(c)], inflight[c])
  BY <1>1, <1>2 DEF Fits, Steps, Unbuilt
<1> QED
  BY <1>1, <1>3, WaitsOn

LEMMA PrepAdvances ==
  ASSUME AttemptsOK, NEW c \in Runs, Prep(c)
  PROVE  Advances(c)
<1>1. /\ step[c] = "prep" /\ Goto(c, "simulate")
      /\ UNCHANGED <<plan, seen, cachedFeeVault, inflight>>
  BY DEF Prep
<1>2. Fits(step[c], plan[c], seen[c], cachedFeeVault[Process(c)], inflight[c])
  BY SameEntry
<1>3. Fits("simulate", plan[c], seen[c], cachedFeeVault[Process(c)], inflight[c])
  BY <1>1, <1>2 DEF Fits, Steps, Unbuilt
<1> QED
  BY <1>1, <1>3, WaitsOn

LEMMA PrepFailsAdvances ==
  ASSUME AttemptsOK, NEW c \in Runs, PrepFails(c)
  PROVE  Advances(c)
<1>1. step[c] = "prep" /\ Ends(c) /\ inflight' = inflight
  BY DEF PrepFails
<1> QED
  BY <1>1, SameEntry, EndsAdvances

LEMMA SimulateAndSendAdvances ==
  ASSUME AttemptsOK, NEW c \in Runs, SimulateAndSend(c)
  PROVE  Advances(c)
<1>1. step[c] = "simulate"
  BY DEF SimulateAndSend
<1>2. Fits(step[c], plan[c], seen[c], cachedFeeVault[Process(c)], inflight[c])
  BY SameEntry
<1>3. plan[c] # NoTrade /\ inflight[c] = NoTrade
  BY <1>1, <1>2 DEF Fits
<1>4. CASE Ends(c) /\ UNCHANGED inflight
  BY <1>1, <1>4, SameEntry, EndsAdvances
<1>5. CASE /\ Goto(c, "sent")
           /\ inflight' = [inflight EXCEPT ![c] = plan[c]]
           /\ UNCHANGED <<plan, seen, cachedFeeVault>>
  <2>1. Becomes(c, "sent", plan[c], seen[c], cachedFeeVault[Process(c)], plan[c])
    BY <1>5, SameEntry DEF Becomes, Goto
  <2>2. Fits("sent", plan[c], seen[c], cachedFeeVault[Process(c)], plan[c])
    BY <1>1, <1>2, <1>3 DEF Fits, Steps, Unbuilt
  <2>3. AttemptsOK' /\ OthersRest(c) /\ Is(c, "sent", plan[c], seen[c], plan[c])
    BY <2>1, <2>2, AttemptMoves
  <2>4. Carries(c)
    BY <1>1, <1>2, <1>3, <2>3 DEF Carries, Pending, Is, Fits
  <2> QED
    BY <2>3, <2>4 DEF Advances
<1> QED
  BY <1>4, <1>5 DEF SimulateAndSend

\* An answer from the chain ends the attempt, or finds nobody; afterwards
\* nothing is pending.
LEMMA ConfirmedAdvances ==
  ASSUME AttemptsOK, NEW c \in Runs, inflight[c] # NoTrade, Confirmed(c)
  PROVE  /\ Advances(c)
         /\ plan'[c] = NoTrade /\ inflight'[c] = NoTrade
<1>1. Fits(step[c], plan[c], seen[c], cachedFeeVault[Process(c)], inflight[c])
  BY SameEntry
<1>2. inflight' = [inflight EXCEPT ![c] = NoTrade] /\ inflight'[c] = NoTrade
  BY DEF Confirmed, AttemptsOK
<1>3. CASE step[c] = "sent"
  <2>1. Ends(c)
    BY <1>3 DEF Confirmed
  <2>2. plan'[c] = NoTrade
    BY <2>1 DEF Ends, AttemptsOK
  <2> QED
    BY <1>2, <1>3, <2>1, <2>2, EndsAdvances
<1>4. CASE step[c] = "idle" /\ UNCHANGED <<step, plan, seen, cachedFeeVault>>
  <2>1. plan[c] = NoTrade /\ seen[c] = NothingSeen
    BY <1>1, <1>4 DEF Fits
  <2>2. Becomes(c, "idle", NoTrade, seen[c], cachedFeeVault[Process(c)], NoTrade)
    BY <1>2, <1>4, <2>1, SameEntry DEF Becomes
  <2>3. Fits("idle", NoTrade, seen[c], cachedFeeVault[Process(c)], NoTrade)
    BY <1>1, <1>4 DEF Fits, Steps, Unbuilt
  <2>4. AttemptsOK' /\ OthersRest(c) /\ Is(c, "idle", NoTrade, seen[c], NoTrade)
    BY <2>2, <2>3, AttemptMoves
  <2>5. Carries(c)
    BY <2>1, <2>4 DEF Carries, Pending, Is
  <2> QED
    BY <1>2, <2>4, <2>5 DEF Advances, Is
<1>5. step[c] \in {"idle", "sent"}
  BY <1>1 DEF Fits
<1> QED
  BY <1>3, <1>4, <1>5 DEF Confirmed

LEMMA BreaksOffAdvances ==
  ASSUME AttemptsOK, NEW c \in Runs, BreaksOff(c)
  PROVE  Advances(c)
<1>1. step[c] # "idle" /\ Ends(c) /\ inflight' = inflight
  BY DEF BreaksOff
<1> QED
  BY <1>1, SameEntry, EndsAdvances

\* A new attempt: nothing is read, decided or sent.
Begun(c, side, size, first) ==
    /\ AttemptsOK' /\ OthersRest(c)
    /\ step[c] = "idle" /\ plan[c] = NoTrade /\ inflight[c] = NoTrade
    /\ seen[c] = NothingSeen
    /\ step'[c] = first /\ inflight'[c] = NoTrade /\ seen'[c] = NothingSeen
    /\ plan'[c] \in Trade /\ plan'[c].side = side /\ plan'[c].size = size
    /\ plan'[c].fee_vault = NoVault

LEMMA BeginBegins ==
  ASSUME AttemptsOK, NEW c \in Runs, NEW side \in Sides, NEW size, NEW first,
         \/ side = "Buy" /\ size \in BuySizes /\ first = "limits"
         \/ size = 0 /\ first = "venue",
         Begin(c, side, size, first)
  PROVE  Begun(c, side, size, first)
<1> DEFINE built == [side |-> side, size |-> size, venue |-> "unresolved",
                     fee_vault |-> NoVault]
<1>1. built \in Trade
  BY DEF Trade, Venues
<1>2. built # NoTrade
  BY <1>1, TradeAssumption
<1>3. /\ built.side = side /\ built.size = size /\ built.fee_vault = NoVault
      /\ built.venue = "unresolved"
  OBVIOUS
<1>4. /\ step[c] = "idle" /\ inflight[c] = NoTrade
      /\ plan' = [plan EXCEPT ![c] = built] /\ step' = [step EXCEPT ![c] = first]
      /\ UNCHANGED <<seen, cachedFeeVault, inflight>>
  BY DEF Begin, Goto
<1> HIDE DEF built
<1>5. Fits(step[c], plan[c], seen[c], cachedFeeVault[Process(c)], inflight[c])
  BY SameEntry
<1>6. Becomes(c, first, built, seen[c], cachedFeeVault[Process(c)], inflight[c])
  BY <1>4, SameEntry DEF Becomes
<1>7. Fits(first, built, seen[c], cachedFeeVault[Process(c)], inflight[c])
  BY <1>1, <1>2, <1>3, <1>4, <1>5 DEF Fits, Steps, Unbuilt
<1>8. AttemptsOK' /\ OthersRest(c) /\ Is(c, first, built, seen[c], inflight[c])
  BY <1>6, <1>7, AttemptMoves
<1>9. plan[c] = NoTrade /\ seen[c] = NothingSeen
  BY <1>4, <1>5 DEF Fits
<1> QED
  BY <1>1, <1>3, <1>4, <1>8, <1>9 DEF Begun, Is

\* One of the three reads is answered, from the state of the moment.
Reading(c) ==
    /\ AttemptsOK' /\ OthersRest(c)
    /\ step[c] = "limits" /\ plan[c] # NoTrade /\ inflight[c] = NoTrade
    /\ step'[c] = "limits" /\ plan'[c] = plan[c] /\ inflight'[c] = NoTrade
    /\ \/ seen'[c] = [seen[c] EXCEPT !.balance = lamports[Agent]]
       \/ seen'[c] = [seen[c] EXCEPT !.cap = config.max_lamports_per_trade]
       \/ /\ seen[c].agent = Unread
          /\ seen'[c] = [seen[c] EXCEPT !.agent =
                            [daily_limit |-> agents[Agent].daily_limit,
                             spent_today |-> agents[Agent].spent_today,
                             day |-> agents[Agent].day]]

LEMMA LimitTypes ==
  ASSUME ClientInv
  PROVE  /\ lamports[Agent] \in Nat /\ config.max_lamports_per_trade \in Nat
         /\ agents[Agent].daily_limit \in Nat /\ agents[Agent].spent_today \in Nat
         /\ agents[Agent].day \in Int
<1>1. \A x \in U64 : x \in Nat
  BY RouterAssumption DEF U64
<1>2. config.max_lamports_per_trade \in U64
  BY ClientFacts DEF Config
<1> QED
  BY <1>1, <1>2, ClientFacts, AgentType DEF AgentAuth

LEMMA ReadLimitsReads ==
  ASSUME ClientInv, NEW c \in Runs, ReadLimits(c)
  PROVE  Reading(c)
<1>1. /\ step[c] = "limits" /\ AttemptsOK
      /\ UNCHANGED <<step, plan, cachedFeeVault, inflight>>
  BY DEF ReadLimits, ClientInv
<1>2. PICK saw :
        /\ seen' = [seen EXCEPT ![c] = saw]
        /\ \/ saw = [seen[c] EXCEPT !.balance = lamports[Agent]]
           \/ saw = [seen[c] EXCEPT !.cap = config.max_lamports_per_trade]
           \/ /\ seen[c].agent = Unread
              /\ saw = [seen[c] EXCEPT !.agent =
                           [daily_limit |-> agents[Agent].daily_limit,
                            spent_today |-> agents[Agent].spent_today,
                            day |-> agents[Agent].day]]
  BY DEF ReadLimits
<1>3. Fits(step[c], plan[c], seen[c], cachedFeeVault[Process(c)], inflight[c])
  BY <1>1, SameEntry
<1>4. saw \in Seen
  <2>1. seen[c] \in Seen
    BY <1>3 DEF Fits
  <2> QED
    BY <1>2, <2>1, LimitTypes DEF Seen, Allotment
<1>5. Becomes(c, "limits", plan[c], saw, cachedFeeVault[Process(c)], inflight[c])
  BY <1>1, <1>2, SameEntry DEF Becomes
<1>6. Fits("limits", plan[c], saw, cachedFeeVault[Process(c)], inflight[c])
  BY <1>1, <1>3, <1>4 DEF Fits
<1>7. AttemptsOK' /\ OthersRest(c) /\ Is(c, "limits", plan[c], saw, inflight[c])
  BY <1>1, <1>5, <1>6, AttemptMoves
<1>8. plan[c] # NoTrade /\ inflight[c] = NoTrade
  BY <1>1, <1>3 DEF Fits
<1> QED
  BY <1>1, <1>2, <1>7, <1>8 DEF Reading, Is

\* A buy is found to be within what was read, and what was read is forgotten.
Deciding(c) ==
    /\ AttemptsOK' /\ OthersRest(c)
    /\ step[c] = "limits" /\ inflight[c] = NoTrade
    /\ plan[c] \in Trade /\ plan[c].side = "Buy" /\ plan[c].size \in BuySizes
    /\ seen[c] \in Seen
    /\ Unread \notin {seen[c].balance, seen[c].cap, seen[c].agent}
    /\ \E skew \in Skews : WithinBudget(SeenLimits(c, skew), plan[c].size)
    /\ step'[c] = "venue" /\ plan'[c] = plan[c] /\ inflight'[c] = NoTrade
    /\ seen'[c] = NothingSeen

LEMMA AssertDecides ==
  ASSUME AttemptsOK, NEW c \in Runs, AssertWithinBudget(c)
  PROVE  Advances(c) \/ Deciding(c)
<1>1. step[c] = "limits" /\ inflight' = inflight
  BY DEF AssertWithinBudget
<1>2. Fits(step[c], plan[c], seen[c], cachedFeeVault[Process(c)], inflight[c])
  BY SameEntry
<1>3. CASE Ends(c)
  BY <1>1, <1>3, SameEntry, EndsAdvances
<1>4. CASE /\ Goto(c, "venue") /\ seen' = [seen EXCEPT ![c] = NothingSeen]
           /\ UNCHANGED <<plan, cachedFeeVault>>
           /\ \E skew \in Skews : WithinBudget(SeenLimits(c, skew), plan[c].size)
  <2>1. Becomes(c, "venue", plan[c], NothingSeen, cachedFeeVault[Process(c)],
                inflight[c])
    BY <1>1, <1>4, SameEntry DEF Becomes, Goto
  <2>2. Fits("venue", plan[c], NothingSeen, cachedFeeVault[Process(c)], inflight[c])
    BY <1>1, <1>2, NothingSeenType DEF Fits, Steps, Unbuilt
  <2>3. AttemptsOK' /\ OthersRest(c)
        /\ Is(c, "venue", plan[c], NothingSeen, inflight[c])
    BY <2>1, <2>2, AttemptMoves
  <2>4. /\ plan[c] \in Trade /\ plan[c].side = "Buy" /\ plan[c].size \in BuySizes
        /\ seen[c] \in Seen /\ inflight[c] = NoTrade
    BY <1>1, <1>2 DEF Fits
  <2>5. Unread \notin {seen[c].balance, seen[c].cap, seen[c].agent}
    BY DEF AssertWithinBudget
  <2> QED
    BY <1>1, <1>4, <2>3, <2>4, <2>5 DEF Deciding, Is
<1> QED
  BY <1>3, <1>4 DEF AssertWithinBudget

LEMMA AttemptsRest ==
  ASSUME AttemptsOK, UNCHANGED attemptVars
  PROVE  AttemptsOK'
BY DEF attemptVars, AttemptsOK, AttemptFits

-------------------------------------------------------------------------------
(***************************************************************************)
(* The kinds of step of the whole.                                         *)
(***************************************************************************)

\* Somebody else's step: administration, graduation, migration, time.
Elsewhere ==
    /\ UNCHANGED attemptVars
    /\ \/ committed' = committed /\ CurrentDay' = CurrentDay
       \/ /\ CurrentDay' > CurrentDay
          /\ committed' = [w \in Wallets |-> 0] /\ lamports' = lamports

\* One run gets on, ends or is cut off; nothing is charged.  Only Prep costs
\* anything, and it ends nothing.
Working(c) ==
    /\ Advances(c) /\ UNCHANGED <<clock, config, agents, committed>>
    /\ \/ lamports' = lamports
       \/ Pending(c)' = Pending(c) /\ seen'[c] = seen[c]

\* The trade of one run lands, and may be charged.
Landing(c) ==
    /\ Advances(c) /\ UNCHANGED <<clock, config>>
    /\ inflight[c] \in Trade /\ seen[c] = NothingSeen
    /\ plan'[c] = NoTrade /\ inflight'[c] = NoTrade /\ Pending(c)' = 0
    /\ \/ Charged(Agent, inflight[c].size)
       \/ inflight[c].side = "Sell" /\ UNCHANGED <<agents, committed>>

\* Nothing happens on the chain, to no clock and no wallet.
Untouched == UNCHANGED <<clock, config, agents, committed, lamports>>

\* A run sets out for a sale or a buy, reads, or decides on what it has read.
Setting(c) ==
    \/ Begun(c, "Sell", 0, "venue")
    \/ \E size \in BuySizes : Begun(c, "Buy", size, "limits")
    \/ Reading(c)
    \/ Deciding(c)

Moves(c) == Working(c) \/ Landing(c) \/ (Setting(c) /\ Untouched)

ClientKind == Elsewhere \/ \E c \in Runs : Moves(c)

CountersKept ==
    pool' \in BOOLEAN /\ buys' \in 0 .. MaxBuys /\ troubles' \in 0 .. MaxTroubles

LEMMA AttemptsWork ==
  ASSUME ClientInv, NEW c \in Runs,
         \/ AssertWithinBudget(c) /\ ~ Deciding(c)
         \/ ReadCurve(c) \/ ReadPool(c) \/ FeeVault(c) \/ Build(c) \/ Prep(c)
         \/ PrepFails(c) \/ SimulateAndSend(c) \/ Fails(c) \/ Expires(c)
         \/ BreaksOff(c)
  PROVE  ChainKept /\ Working(c) /\ CountersKept
<1>1. AttemptsOK /\ CountersOK
  BY DEF ClientInv
<1>2. Advances(c)
  BY <1>1, AssertDecides, ReadCurveAdvances, ReadPoolAdvances, FeeVaultAdvances, BuildAdvances,
     PrepAdvances, PrepFailsAdvances, SimulateAndSendAdvances, ConfirmedAdvances,
     BreaksOffAdvances
     DEF Fails, Expires
<1>3. ChainKept /\ UNCHANGED <<clock, config, agents, committed>>
  <2>1. CASE Prep(c)
    BY <2>1, PrepOnChain
  <2>2. CASE UNCHANGED tradingVars
    BY <2>2, ChainRests
  <2> QED
    BY <2>1, <2>2
       DEF AssertWithinBudget, ReadCurve, ReadPool, FeeVault, Build, PrepFails, SimulateAndSend, Fails,
           Expires, BreaksOff, chainUnchanged
<1>4. \/ lamports' = lamports
      \/ Pending(c)' = Pending(c) /\ seen'[c] = seen[c]
  <2>1. CASE Prep(c)
    <3>1. Fits(step[c], plan[c], seen[c], cachedFeeVault[Process(c)], inflight[c])
      BY <1>1, SameEntry
    <3>2. step'[c] = "simulate" /\ step[c] = "prep"
      BY <1>1, <2>1 DEF Prep, Goto, AttemptsOK
    <3> QED
      BY <2>1, <3>1, <3>2 DEF Prep, Pending, Fits
  <2>2. CASE UNCHANGED tradingVars
    BY <2>2 DEF tradingVars, registryVars
  <2> QED
    BY <2>1, <2>2
       DEF AssertWithinBudget, ReadCurve, ReadPool, FeeVault, Build, PrepFails, SimulateAndSend, Fails,
           Expires, BreaksOff, chainUnchanged
<1>5. CountersKept
  <2>1. pool' = pool /\ buys' = buys
    BY DEF AssertWithinBudget, ReadCurve, ReadPool, FeeVault, Build, Prep, PrepFails, SimulateAndSend,
           Fails, Expires, BreaksOff, chainUnchanged
  <2>2. troubles' = troubles \/ (troubles < MaxTroubles /\ troubles' = troubles + 1)
    BY DEF AssertWithinBudget, ReadCurve, ReadPool, FeeVault, Build, Prep, PrepFails, SimulateAndSend,
           Fails, Expires, BreaksOff, Trouble
  <2> QED
    BY <1>1, <2>1, <2>2, ClientAssumption DEF CountersOK, CountersKept
<1> QED
  BY <1>2, <1>3, <1>4, <1>5 DEF Working

LEMMA LandsIsLanding ==
  ASSUME ClientInv, NEW c \in Runs, Lands(c)
  PROVE  ChainKept /\ Landing(c) /\ CountersKept
<1>1. AttemptsOK /\ CountersOK
  BY DEF ClientInv
<1>2. inflight[c] # NoTrade /\ inflight[c] \in Trade
  BY <1>1 DEF Lands, AttemptsOK
<1>3. /\ ChainKept /\ UNCHANGED <<clock, config>>
      /\ \/ Charged(Agent, inflight[c].size)
         \/ inflight[c].side = "Sell" /\ UNCHANGED <<agents, committed>>
  BY <1>2, TradeLands DEF Lands
<1>4. Advances(c) /\ plan'[c] = NoTrade /\ inflight'[c] = NoTrade
  BY <1>1, <1>2, ConfirmedAdvances DEF Lands
<1>5. CountersKept
  BY <1>1 DEF Lands, CountersOK, CountersKept
<1>6. seen[c] = NothingSeen
  BY <1>1, <1>2, SameEntry DEF Fits
<1>7. Pending(c)' = 0
  <2>1. Fits(step'[c], plan'[c], seen'[c], cachedFeeVault'[Process(c)], inflight'[c])
    BY <1>4 DEF Advances, AttemptsOK, AttemptFits, Process
  <2> QED
    BY <1>4, <2>1 DEF Pending, Fits
<1> QED
  BY <1>2, <1>3, <1>4, <1>5, <1>6, <1>7 DEF Landing

\* A run that begins, reads or decides touches nothing but itself.
LEMMA SettingOut ==
  ASSUME ClientInv, NEW c \in Runs,
         \/ BeginSell(c) \/ \E size \in BuySizes : BeginBuy(c, size)
         \/ ReadLimits(c)
         \/ AssertWithinBudget(c) /\ Deciding(c)
  PROVE  ChainKept /\ Setting(c) /\ Untouched /\ CountersKept
<1>1. AttemptsOK /\ CountersOK
  BY DEF ClientInv
<1>2. UNCHANGED <<tradingVars, pool, troubles>>
  BY DEF BeginSell, BeginBuy, Begin, ReadLimits, AssertWithinBudget, chainUnchanged
<1>3. ChainKept /\ Untouched
  BY <1>2, ChainRests DEF Untouched, tradingVars, registryVars
<1>4. CountersKept
  <2>1. buys' = buys \/ (buys < MaxBuys /\ buys' = buys + 1)
    BY DEF BeginSell, BeginBuy, ReadLimits, AssertWithinBudget
  <2> QED
    BY <1>1, <1>2, <2>1, ClientAssumption DEF CountersOK, CountersKept
<1>5. CASE BeginSell(c)
  <2>1. Begin(c, "Sell", 0, "venue") /\ "Sell" \in Sides
    BY <1>5 DEF BeginSell, Sides
  <2>2. Begun(c, "Sell", 0, "venue")
    BY <1>1, <2>1, BeginBegins
  <2> QED
    BY <1>3, <1>4, <2>2 DEF Setting
<1>6. CASE \E size \in BuySizes : BeginBuy(c, size)
  <2>1. PICK size \in BuySizes : Begin(c, "Buy", size, "limits") /\ "Buy" \in Sides
    BY <1>6 DEF BeginBuy, Sides
  <2>2. Begun(c, "Buy", size, "limits")
    BY <1>1, <2>1, BeginBegins
  <2> QED
    BY <1>3, <1>4, <2>2 DEF Setting
<1>7. CASE ReadLimits(c)
  BY <1>3, <1>4, <1>7, ReadLimitsReads DEF Setting
<1> QED
  BY <1>3, <1>4, <1>5, <1>6, <1>7 DEF Setting

LEMMA OthersElsewhere ==
  ASSUME ClientInv, Governs \/ Graduates \/ Migrates \/ Ages
  PROVE  ChainKept /\ Elsewhere /\ AttemptsOK' /\ CountersKept
<1>1. AttemptsOK /\ CountersOK
  BY DEF ClientInv
<1>2. UNCHANGED attemptVars
  BY DEF Governs, Graduates, Migrates, Ages
<1>3. /\ ChainKept
      /\ \/ committed' = committed /\ CurrentDay' = CurrentDay
         \/ /\ CurrentDay' > CurrentDay
            /\ committed' = [w \in Wallets |-> 0] /\ lamports' = lamports
  BY GovernsOnChain, GraduatesOnChain, ChainRests, AgesOnChain
     DEF Graduates, Migrates, Ages, CurrentDay
<1>4. CountersKept
  <2>1. pool' \in BOOLEAN
    <3>1. CASE pool' = pool
      BY <1>1, <3>1 DEF CountersOK
    <3>2. CASE pool' = TRUE
      BY <3>2
    <3> QED
      BY <3>1, <3>2 DEF Governs, Graduates, Migrates, Ages
  <2>2. buys' = buys
    BY DEF Governs, Graduates, Migrates, Ages
  <2>3. troubles' = troubles \/ (troubles < MaxTroubles /\ troubles' = troubles + 1)
    BY DEF Governs, Graduates, Migrates, Ages, Trouble
  <2>4. troubles' \in 0 .. MaxTroubles /\ buys' \in 0 .. MaxBuys
    BY <1>1, <2>2, <2>3, ClientAssumption DEF CountersOK
  <2> QED
    BY <2>1, <2>4 DEF CountersKept
<1> QED
  BY <1>1, <1>2, <1>3, <1>4, AttemptsRest DEF Elsewhere

LEMMA RemembersType ==
  ASSUME ClientInv, ChainKept, Remembers
  PROVE  /\ fresh' \in [Runs -> [limits : BOOLEAN, vault : BOOLEAN]]
         /\ richest' \in Nat
<1>1. richest \in Nat
  BY DEF ClientInv, CountersOK
<1>2. lamports'[Agent] \in Nat
  BY AgentType DEF ChainKept, TradingInv, TradingTypeOK, RegistryTypeOK, ChainTypeOK
<1> QED
  BY <1>1, <1>2 DEF Remembers

LEMMA ClientStep ==
  ASSUME ClientInv, ClientNext
  PROVE  ClientInv' /\ ClientKind /\ Remembers
<1>1. Remembers
  BY DEF ClientNext, Attempts, Settles
<1>2. CASE Governs \/ Graduates \/ Migrates \/ Ages
  BY <1>1, <1>2, OthersElsewhere, RemembersType
     DEF ClientInv, ChainKept, CountersKept, CountersOK, ClientKind
<1>3. ASSUME NEW c \in Runs, ChainKept, CountersKept, Moves(c)
      PROVE  ClientInv' /\ ClientKind
  <2>1. AttemptsOK'
    BY <1>3 DEF Moves, Working, Landing, Setting, Advances, Begun, Reading, Deciding
  <2> QED
    BY <1>1, <1>3, <2>1, RemembersType
       DEF ClientInv, ChainKept, CountersKept, CountersOK, ClientKind
<1>4. CASE \E c \in Runs : Attempts(c)
  BY <1>1, <1>3, <1>4, AttemptsWork, SettingOut DEF Attempts, Moves
<1>5. CASE \E c \in Runs : Settles(c)
  BY <1>1, <1>3, <1>5, AttemptsWork, LandsIsLanding DEF Settles, Moves
<1>6. CASE \E c \in Runs : Expires(c) \/ BreaksOff(c)
  BY <1>1, <1>3, <1>6, AttemptsWork DEF Moves
<1>7. CASE \E c \in Runs, size \in BuySizes : BeginBuy(c, size)
  BY <1>1, <1>3, <1>7, SettingOut DEF Moves
<1> QED
  BY <1>1, <1>2, <1>4, <1>5, <1>6, <1>7 DEF ClientNext

LEMMA ClientStarts ==
  ASSUME ClientInit
  PROVE  ClientInv
<1>1. PICK s \in Officials, v \in Vaults, limit \in LimitArgs, args \in ConfigArgs :
        /\ Validate(args)
        /\ config = [authority |-> s, treasury |-> v, fee_vault |-> v,
                     fee_bps |-> args.fee_bps,
                     max_lamports_per_trade |-> args.max_lamports_per_trade,
                     default_daily_limit |-> args.default_daily_limit,
                     total_reward_bps |-> 0, paused |-> FALSE]
        /\ agents = [w \in Wallets |->
                        [daily_limit |-> limit, spent_today |-> 0, day |-> 0,
                         reward_bps |-> 0, fee_bps |-> args.fee_bps,
                         enabled |-> TRUE, authority_managed |-> TRUE]]
  BY DEF ClientInit, Deployed
<1>2. /\ s \in Keys /\ v \in Keys /\ limit \in U64 /\ 0 \in U64 /\ 0 \in U16
      /\ args.fee_bps \in U16 /\ args.max_lamports_per_trade \in U64
      /\ args.default_daily_limit \in U64
  <2>1. 0 \in U64 /\ 0 \in U16
    BY RouterAssumption DEF U16, U64
  <2> QED
    BY <2>1, RouterAssumption DEF ConfigArgs
<1>3. config \in Config /\ config # NoConfig /\ config.fee_vault \in Vaults
  <2>1. config \in Config
    BY <1>1, <1>2 DEF Config
  <2> QED
    BY <1>1, <2>1, SentinelAssumption
<1>4. ASSUME NEW w \in Wallets
      PROVE  /\ agents[w] \in AgentAuth /\ Registered(w)
             /\ agents[w].spent_today = 0 /\ agents[w].day = 0
  <2>1. agents[w] \in AgentAuth
    BY <1>1, <1>2 DEF AgentAuth
  <2> QED
    BY <1>1, <2>1, SentinelAssumption DEF Registered
<1>5. RegistryTypeOK
  <2>1. agents \in [Wallets -> AgentAuth \cup {NoAgent}]
    <3>1. DOMAIN agents = Wallets /\ agents = [w \in Wallets |-> agents[w]]
      BY <1>1
    <3> QED
      BY <1>4, <3>1
  <2>2. ChainTypeOK
    BY ChainAssumption DEF ClientInit, ChainInit, ChainTypeOK
  <2> QED
    BY <1>3, <2>1, <2>2 DEF ClientInit, RegistryTypeOK
<1>6. TradingTypeOK
  BY <1>5, TradingAssumption DEF ClientInit, TradingTypeOK
<1>7. CurrentDay \in Nat
  BY <1>5, CurrentDayType DEF RegistryTypeOK, ChainTypeOK
<1>8. BudgetOnRecord /\ RecordsNotAhead
  <2>1. \A w \in Wallets : committed[w] = 0
    BY DEF ClientInit
  <2> QED
    BY <1>4, <1>7, <2>1 DEF BudgetOnRecord, RecordsNotAhead, SpentToday
<1>9. Standing /\ NothingLeftWrapped
  BY <1>3, <1>4, AgentType DEF Standing, NothingLeftWrapped, ClientInit
<1>10. AttemptsOK
  BY ClientAssumption, NothingSeenType, ProcessType
     DEF ClientInit, AttemptsOK, AttemptFits, Fits, Steps, Unbuilt
<1>11. CountersOK
  <2>1. pool \in BOOLEAN /\ fresh \in [Runs -> [limits : BOOLEAN, vault : BOOLEAN]]
    BY DEF ClientInit
  <2>2. buys \in 0 .. MaxBuys /\ troubles \in 0 .. MaxTroubles
    BY ClientAssumption DEF ClientInit
  <2>3. richest \in Nat
    BY AgentType, ChainAssumption DEF ClientInit
  <2> QED
    BY <2>1, <2>2, <2>3 DEF CountersOK
<1> QED
  BY <1>6, <1>8, <1>9, <1>10, <1>11 DEF ClientInv, TradingInv

LEMMA ClientStutters ==
  ASSUME ClientInv, UNCHANGED clientVars
  PROVE  ClientInv'
<1>1. UNCHANGED tradingVars /\ UNCHANGED attemptVars /\ UNCHANGED <<pool, fresh, richest, buys, troubles>>
  BY DEF clientVars
<1>2. ChainKept
  BY <1>1, ChainRests
<1>3. AttemptsOK'
  BY <1>1, AttemptsRest DEF ClientInv
<1>4. CountersOK'
  BY <1>1 DEF ClientInv, CountersOK
<1> QED
  BY <1>2, <1>3, <1>4 DEF ClientInv, ChainKept

LEMMA ClientInductive ==
  /\ ClientInit => ClientInv
  /\ ClientInv /\ [ClientNext]_clientVars => ClientInv'
BY ClientStarts, ClientStep, ClientStutters

LEMMA ClientInvariant == ClientSpec => []ClientInv
BY ClientInductive, PTL DEF ClientSpec

\* At every await, in every interleaving, with every process dying wherever it
\* may: what a process holds fits where it is (trade.js:268).  A trade that is
\* built has a venue and a vault, and what is waited for is what was sent.
THEOREM ClientTypeCorrect == ClientSpec => []ClientTypeOK
<1>1. ClientInv => ClientTypeOK
  <2> SUFFICES ASSUME ClientInv
               PROVE  ClientTypeOK
    OBVIOUS
  <2>1. ASSUME NEW c \in Runs
        PROVE  /\ step[c] = "idle" <=> plan[c] = NoTrade
               /\ step[c] \in {"build", "prep", "simulate", "sent"} =>
                     plan[c].venue # "unresolved" /\ plan[c].fee_vault # NoVault
               /\ step[c] = "sent" => inflight[c] = plan[c]
               /\ step[c] # "limits" => seen[c] = NothingSeen
    <3>1. Fits(step[c], plan[c], seen[c], cachedFeeVault[Process(c)], inflight[c])
      BY SameEntry DEF ClientInv
    <3> QED
      BY <3>1 DEF Fits, Unbuilt
  <2> QED
    BY <2>1, ClientFacts DEF ClientInv, AttemptsOK, CountersOK, ClientTypeOK
<1> QED
  BY <1>1, ClientInvariant, PTL

\* "Returns unspent slippage and the account rent as native SOL" (trade.js:178),
\* for any number of runs that share one wrapped account, of which each
\* may close the account another one has just prepared.
THEOREM NothingStaysWrapped == ClientSpec => []NothingLeftWrapped
<1>1. ClientInv => NothingLeftWrapped
  BY DEF ClientInv
<1> QED
  BY <1>1, ClientInvariant, PTL

-------------------------------------------------------------------------------
(***************************************************************************)
(* A buy that was sized right stays right as long as nothing changes.      *)
(***************************************************************************)

\* Whatever a run has in hand, it had before, or has just begun or decided on.
LEMMA InHand ==
  ASSUME ClientInv, ClientKind, NEW c \in Runs,
         NEW t \in {plan'[c], inflight'[c]} \ {NoTrade}
  PROVE  \/ /\ step'[c] = "limits" \/ step[c] # "limits"
            /\ \E u \in {plan[c], inflight[c]} \ {NoTrade} :
                  t.side = u.side /\ t.size = u.size
         \/ Begun(c, "Sell", 0, "venue")
         \/ \E size \in BuySizes : Begun(c, "Buy", size, "limits")
         \/ Deciding(c)
<1> DEFINE Claim == \/ /\ step'[c] = "limits" \/ step[c] # "limits"
                       /\ \E u \in {plan[c], inflight[c]} \ {NoTrade} :
                             t.side = u.side /\ t.size = u.size
                    \/ Begun(c, "Sell", 0, "venue")
                    \/ \E size \in BuySizes : Begun(c, "Buy", size, "limits")
                    \/ Deciding(c)
<1>1. CASE Elsewhere
  BY <1>1 DEF Elsewhere, attemptVars
<1>2. ASSUME NEW d \in Runs, Moves(d)
      PROVE  Claim
  <2>1. CASE d = c
    <3>1. CASE Working(c) \/ Landing(c)
      BY <3>1 DEF Working, Landing, Advances, Carries
    <3>2. CASE Reading(c)
      BY <3>2 DEF Reading
    <3> QED
      BY <1>2, <2>1, <3>1, <3>2 DEF Moves, Setting
  <2>2. CASE d # c
    <3>1. /\ plan'[c] = plan[c] /\ inflight'[c] = inflight[c]
          /\ step'[c] = step[c]
      BY <1>2, <2>2
         DEF Moves, Working, Landing, Setting, Advances, Begun, Reading, Deciding,
             OthersRest
    <3> QED
      BY <3>1
  <2> QED
    BY <2>1, <2>2
<1> QED
  BY <1>1, <1>2 DEF ClientKind

LEMMA InHandIsBusy ==
  ASSUME ClientInv, NEW c \in Runs, NEW u \in {plan[c], inflight[c]} \ {NoTrade}
  PROVE  Busy(c)
<1>1. Fits(step[c], plan[c], seen[c], cachedFeeVault[Process(c)], inflight[c])
  BY SameEntry DEF ClientInv
<1> QED
  BY <1>1 DEF Busy, Fits

\* What readLimits returns with the clock right, once all of it is answered.
LEMMA SeenLimitsFacts ==
  ASSUME ClientInv, NEW c \in Runs, seen[c] \in Seen,
         Unread \notin {seen[c].balance, seen[c].cap, seen[c].agent}
  PROVE  /\ SeenLimits(c, 0) \in Limits
         /\ SeenLimits(c, 0).balance = seen[c].balance
         /\ SeenLimits(c, 0).absoluteCap = seen[c].cap
         /\ SeenLimits(c, 0).dailyCap = seen[c].agent.daily_limit
         /\ SeenLimits(c, 0).spentToday = View(c)
         /\ seen[c].balance \in Nat /\ View(c) \in Nat
<1>1. clock + 0 = clock
  BY ClientFacts, ChainAssumption DEF ChainTypeOK
<1>2. /\ seen[c].balance \in Nat /\ seen[c].cap \in Nat
      /\ seen[c].agent \in Allotment
  BY DEF Seen
<1>3. /\ View(c) = IF seen[c].agent.day = CurrentDay
                   THEN seen[c].agent.spent_today ELSE 0
      /\ View(c) \in Nat
  BY <1>2 DEF View, Allotment
<1>4. SeenLimits(c, 0) = [balance |-> seen[c].balance, absoluteCap |-> seen[c].cap,
                          dailyCap |-> seen[c].agent.daily_limit,
                          spentToday |-> View(c)]
  BY <1>1, <1>3 DEF SeenLimits, CurrentDay
<1> QED
  BY <1>2, <1>3, <1>4 DEF Limits, Allotment

LEMMA SizeType == \A size \in BuySizes : size \in Nat \ {0}
BY ClientAssumption, TradingAssumption, RouterAssumption DEF U64

\* A buy that is decided is within each ceiling of what was read.
LEMMA DecidedIsWithin ==
  ASSUME Skews = {0}, ClientInv, NEW c \in Runs, Deciding(c)
  PROVE  /\ plan[c].size \in Nat \ {0}
         /\ seen[c].balance \in Nat /\ View(c) \in Nat
         /\ plan[c].size <= seen[c].cap
         /\ View(c) + plan[c].size <= seen[c].agent.daily_limit
         /\ plan[c].size <= PerTrade(SeenLimits(c, 0))
         /\ View(c) + plan[c].size <= DailyAllowance(SeenLimits(c, 0))
<1>1. /\ seen[c] \in Seen /\ plan[c].size \in Nat \ {0}
      /\ Unread \notin {seen[c].balance, seen[c].cap, seen[c].agent}
      /\ WithinBudget(SeenLimits(c, 0), plan[c].size)
  BY SizeType DEF Deciding
<1> DEFINE l == SeenLimits(c, 0)
           size == plan[c].size
<1>2. /\ l \in Limits /\ WithinBudget(l, size) /\ size \in Nat \ {0}
      /\ l.absoluteCap = seen[c].cap /\ l.spentToday = View(c)
      /\ l.dailyCap = seen[c].agent.daily_limit
      /\ seen[c].balance \in Nat /\ View(c) \in Nat
  BY <1>1, SeenLimitsFacts
<1> HIDE DEF l, size
<1>3. /\ size <= l.absoluteCap /\ size <= PerTrade(l)
      /\ l.spentToday + size <= l.dailyCap
      /\ l.spentToday + size <= DailyAllowance(l)
  BY <1>2, WithinEveryCeiling
<1> QED
  BY <1>2, <1>3 DEF l, size

\* As long as nothing changed, what was read of the budget is what it is.
SeenIsFresh ==
    \A c \in Runs : fresh[c].limits =>
        /\ seen[c].cap \in {Unread, config.max_lamports_per_trade}
        /\ seen[c].agent \in
              {Unread, [daily_limit |-> agents[Agent].daily_limit,
                        spent_today |-> agents[Agent].spent_today,
                        day |-> agents[Agent].day]}

\* Nobody reads but the run itself, and what it reads is what there is.
LEMMA SeenMoves ==
  ASSUME ClientInv, ClientKind, NEW c \in Runs
  PROVE  \/ seen'[c] = seen[c] \/ seen'[c] = NothingSeen \/ Reading(c)
<1>1. CASE Elsewhere
  BY <1>1 DEF Elsewhere, attemptVars
<1>2. ASSUME NEW d \in Runs, Moves(d)
      PROVE  seen'[c] = seen[c] \/ seen'[c] = NothingSeen \/ Reading(c)
  <2>1. CASE d = c
    BY <1>2, <2>1
       DEF Moves, Working, Landing, Setting, Advances, Carries, Begun, Deciding
  <2>2. CASE d # c
    BY <1>2, <2>2
       DEF Moves, Working, Landing, Setting, Advances, Begun, Reading, Deciding,
           OthersRest
  <2> QED
    BY <2>1, <2>2
<1> QED
  BY <1>1, <1>2 DEF ClientKind

LEMMA SeenStaysFresh ==
  ASSUME ClientInv, SeenIsFresh, ClientNext
  PROVE  SeenIsFresh'
<1> DEFINE now == [daily_limit |-> agents[Agent].daily_limit,
                   spent_today |-> agents[Agent].spent_today,
                   day |-> agents[Agent].day]
<1> SUFFICES ASSUME NEW c \in Runs, fresh'[c].limits
             PROVE  /\ seen'[c].cap \in {Unread, config'.max_lamports_per_trade}
                    /\ seen'[c].agent \in {Unread, now'}
  BY DEF SeenIsFresh
<1>1. ClientKind /\ Remembers
  BY ClientStep
<1>2. /\ Busy(c) => fresh[c].limits
      /\ agents' = agents
      /\ config'.max_lamports_per_trade = config.max_lamports_per_trade
  BY <1>1 DEF Remembers
<1>3. Fits(step[c], plan[c], seen[c], cachedFeeVault[Process(c)], inflight[c])
  BY SameEntry DEF ClientInv
<1>4. /\ seen[c].cap \in {Unread, config.max_lamports_per_trade}
      /\ seen[c].agent \in {Unread, now}
  <2>1. CASE Busy(c)
    BY <1>2, <2>1 DEF SeenIsFresh
  <2>2. CASE ~ Busy(c)
    BY <1>3, <2>2 DEF Busy, Fits, NothingSeen
  <2> QED
    BY <2>1, <2>2
<1>5. now' = now
  BY <1>2
<1>6. seen[c] \in Seen
  BY <1>3 DEF Fits
<1> HIDE DEF now
<1>7. /\ seen'[c].cap \in {seen[c].cap, Unread, config.max_lamports_per_trade}
      /\ seen'[c].agent \in {seen[c].agent, Unread, now}
  <2>1. CASE Reading(c)
    BY <1>6, <2>1 DEF Reading, Seen, now
  <2> QED
    BY <1>1, <2>1, SeenMoves DEF NothingSeen
<1> QED
  BY <1>2, <1>4, <1>5, <1>7

\* The two implementations of the budget agree: the guards of the program take
\* what sizing.js:109 lets pass on reads that still hold.
LEMMA DecidedIsAllowed ==
  ASSUME Skews = {0}, ClientInv, SeenIsFresh, NEW c \in Runs,
         fresh[c].limits, Deciding(c)
  PROVE  BudgetAllows(plan[c].size)
<1>1. /\ seen[c].cap = config.max_lamports_per_trade
      /\ seen[c].agent = [daily_limit |-> agents[Agent].daily_limit,
                          spent_today |-> agents[Agent].spent_today,
                          day |-> agents[Agent].day]
  BY DEF SeenIsFresh, Deciding
<1>2. View(c) = SpentToday(Agent)
  BY <1>1 DEF View, SpentToday, Deciding
<1> QED
  BY <1>1, <1>2, DecidedIsWithin DEF BudgetAllows

LEMMA FreshStep ==
  ASSUME Skews = {0}, ClientInv, SeenIsFresh, FreshBuyFits, ClientNext
  PROVE  FreshBuyFits'
<1> SUFFICES ASSUME NEW c \in Runs,
                    NEW t \in {plan'[c], inflight'[c]} \ {NoTrade},
                    t.side = "Buy", step'[c] # "limits", fresh'[c].limits
             PROVE  BudgetAllows(t.size)'
  BY DEF FreshBuyFits
<1>1. ClientKind /\ Remembers
  BY ClientStep
<1>2. /\ Busy(c) => fresh[c].limits
      /\ agents' = agents /\ CurrentDay' = CurrentDay
      /\ config'.max_lamports_per_trade = config.max_lamports_per_trade
  BY <1>1 DEF Remembers
<1>3. BudgetAllows(t.size) => BudgetAllows(t.size)'
  BY <1>2 DEF BudgetAllows, SpentToday
<1>4. CASE /\ step[c] # "limits"
           /\ \E u \in {plan[c], inflight[c]} \ {NoTrade} :
                 t.side = u.side /\ t.size = u.size
  <2>1. PICK u \in {plan[c], inflight[c]} \ {NoTrade} :
               t.side = u.side /\ t.size = u.size
    BY <1>4
  <2>2. fresh[c].limits
    BY <1>2, <2>1, InHandIsBusy
  <2>3. BudgetAllows(u.size)
    BY <1>4, <2>1, <2>2 DEF FreshBuyFits
  <2> QED
    BY <1>3, <2>1, <2>3
<1>5. ~ Begun(c, "Sell", 0, "venue")
  BY DEF Begun
<1>6. ~ \E size \in BuySizes : Begun(c, "Buy", size, "limits")
  BY DEF Begun
<1>7. CASE Deciding(c)
  <2>1. t.size = plan[c].size
    BY <1>7 DEF Deciding
  <2>2. fresh[c].limits
    BY <1>2, <1>7 DEF Deciding, Busy
  <2> QED
    BY <1>3, <1>7, <2>1, <2>2, DecidedIsAllowed
<1> QED
  BY <1>1, <1>4, <1>5, <1>6, <1>7, InHand

\* The client's sizing and the program's guards agree on every buy in hand
\* (sizing.js:48, guards.rs:12), however its attempt interleaves with others and
\* in whatever order its three reads are answered: with the clock right, and as
\* long as no budget, cap or day changed since it began, the program takes it.
THEOREM FreshBuysAlwaysFit ==
  ASSUME Skews = {0}
  PROVE  ClientSpec => []FreshBuyFits
<1>1. ClientInit => FreshBuyFits /\ SeenIsFresh
  BY DEF ClientInit, FreshBuyFits, SeenIsFresh
<1>2. /\ FreshBuyFits /\ SeenIsFresh /\ ClientInv /\ [ClientNext]_clientVars
      => FreshBuyFits' /\ SeenIsFresh'
  <2>1. ASSUME FreshBuyFits, SeenIsFresh, UNCHANGED clientVars
        PROVE  FreshBuyFits' /\ SeenIsFresh'
    BY <2>1 DEF FreshBuyFits, SeenIsFresh, BudgetAllows, SpentToday, CurrentDay,
                clientVars, attemptVars, tradingVars, registryVars
  <2> QED
    BY <2>1, FreshStep, SeenStaysFresh
<1> QED
  BY <1>1, <1>2, ClientInvariant, PTL DEF ClientSpec

-------------------------------------------------------------------------------
(***************************************************************************)
(* The vault a trade names.                                                *)
(***************************************************************************)

LEMMA HonouredStep ==
  ASSUME ~ LongLived, ClientInv, UpdateConfigHonoured, ClientNext
  PROVE  UpdateConfigHonoured'
<1> SUFFICES ASSUME NEW c \in Runs, plan'[c] # NoTrade,
                    plan'[c].fee_vault # NoVault, fresh'[c].vault
             PROVE  plan'[c].fee_vault = config'.fee_vault
  BY DEF UpdateConfigHonoured
<1>1. ClientKind /\ Remembers
  BY ClientStep
<1>2. /\ Busy(c) => fresh[c].vault
      /\ config'.fee_vault = config.fee_vault
  BY <1>1 DEF Remembers
<1>3. \/ plan[c] # NoTrade /\ plan'[c].fee_vault = plan[c].fee_vault
      \/ plan'[c].fee_vault = config.fee_vault
  <2>1. CASE Elsewhere
    BY <2>1 DEF Elsewhere, attemptVars
  <2>2. ASSUME NEW d \in Runs, Moves(d)
        PROVE  \/ plan[c] # NoTrade /\ plan'[c].fee_vault = plan[c].fee_vault
               \/ plan'[c].fee_vault = config.fee_vault
    <3>1. CASE d = c
      <4>1. CASE Working(c) \/ Landing(c)
        BY <4>1 DEF Working, Landing, Advances, Carries
      <4>2. CASE Setting(c)
        BY <4>2, TradeAssumption DEF Setting, Begun, Reading, Deciding
      <4> QED
        BY <2>2, <3>1, <4>1, <4>2 DEF Moves
    <3>2. CASE d # c
      BY <2>2, <3>2
         DEF Moves, Working, Landing, Setting, Advances, Begun, Reading, Deciding,
             OthersRest
    <3> QED
      BY <3>1, <3>2
  <2> QED
    BY <1>1, <2>1, <2>2 DEF ClientKind
<1>4. CASE plan[c] # NoTrade /\ plan'[c].fee_vault = plan[c].fee_vault
  <2>1. fresh[c].vault
    BY <1>2, <1>4, InHandIsBusy
  <2> QED
    BY <1>2, <1>4, <2>1 DEF UpdateConfigHonoured
<1> QED
  BY <1>2, <1>3, <1>4

\* "Read from config rather than hardcoded, so update_config is honoured"
\* (trade.js:254) holds of every process that lives for one attempt, as the
\* scripts do.  The run client_cache shows that the cache breaks it in one that
\* lives longer.
THEOREM ScriptsHonourConfig ==
  ASSUME ~ LongLived
  PROVE  ClientSpec => []UpdateConfigHonoured
<1>1. ClientInit => UpdateConfigHonoured
  BY DEF ClientInit, UpdateConfigHonoured
<1>2. UpdateConfigHonoured /\ ClientInv /\ [ClientNext]_clientVars
         => UpdateConfigHonoured'
  <2>1. ASSUME UpdateConfigHonoured, UNCHANGED clientVars
        PROVE  UpdateConfigHonoured'
    BY <2>1 DEF UpdateConfigHonoured, clientVars, attemptVars, tradingVars,
                registryVars
  <2> QED
    BY <2>1, HonouredStep
<1> QED
  BY <1>1, <1>2, ClientInvariant, PTL DEF ClientSpec

-------------------------------------------------------------------------------
(***************************************************************************)
(* The client's own day.  Somebody looks, decides, drops what was decided, *)
(* pays it, or the purse changes, or midnight passes: nothing else,        *)
(* whatever happens to transactions and processes.                         *)
(***************************************************************************)

PendingOf == [c \in Runs |-> Pending(c)]

ViewOf == [c \in Runs |-> View(c)]

\* A sale is always for the whole position, and costs nothing of the day.
SalesAreWhole ==
    \A c \in Runs : \A t \in {plan[c], inflight[c]} \ {NoTrade} :
        t.side = "Sell" => t.size = 0

\* What was read is of the past: a balance the agent had, a day that began.
SeenIsPast ==
    /\ lamports[Agent] <= richest
    /\ \A c \in Runs :
          /\ seen[c].balance # Unread => seen[c].balance <= richest
          /\ seen[c].agent # Unread => seen[c].agent.day <= CurrentDay

LEMMA SalesStep ==
  ASSUME ClientInv, SalesAreWhole, ClientNext
  PROVE  SalesAreWhole'
<1> SUFFICES ASSUME NEW c \in Runs,
                    NEW t \in {plan'[c], inflight'[c]} \ {NoTrade}, t.side = "Sell"
             PROVE  t.size = 0
  BY DEF SalesAreWhole
<1>1. ClientKind
  BY ClientStep
<1>2. CASE \E u \in {plan[c], inflight[c]} \ {NoTrade} :
              t.side = u.side /\ t.size = u.size
  BY <1>2 DEF SalesAreWhole
<1>3. CASE Begun(c, "Sell", 0, "venue")
  BY <1>3 DEF Begun
<1>4. ~ \E size \in BuySizes : Begun(c, "Buy", size, "limits")
  BY DEF Begun
<1>5. ~ Deciding(c)
  BY DEF Deciding
<1> QED
  BY <1>1, <1>2, <1>3, <1>4, <1>5, InHand

LEMMA DayAfter ==
  ASSUME ClientInv'
  PROVE  CurrentDay' \in Nat
<1>1. clock' \in 0 .. MaxClock
  BY DEF ClientInv, TradingInv, TradingTypeOK, RegistryTypeOK, ChainTypeOK
<1>2. \A n \in 0 .. MaxClock : n \div SECONDS_PER_DAY \in Nat
  BY ChainAssumption, RouterAssumption
<1> QED
  BY <1>1, <1>2 DEF CurrentDay

\* The clock never goes back.
LEMMA DayNeverFalls ==
  ASSUME ClientInv, ClientInv', ClientKind
  PROVE  /\ CurrentDay \in Int /\ CurrentDay' >= CurrentDay
         /\ \/ CurrentDay' = CurrentDay
            \/ /\ CurrentDay' > CurrentDay /\ UNCHANGED attemptVars
               /\ committed' = [w \in Wallets |-> 0] /\ lamports' = lamports
<1>1. CurrentDay \in Nat
  BY ClientFacts, CurrentDayType DEF ChainTypeOK
<1>2. CASE Elsewhere
  BY <1>1, <1>2, DayAfter DEF Elsewhere
<1>3. CASE \E c \in Runs : Moves(c)
  <2>1. clock' = clock
    BY <1>3 DEF Moves, Working, Landing, Untouched
  <2> QED
    BY <1>1, <2>1 DEF CurrentDay
<1> QED
  BY <1>2, <1>3 DEF ClientKind

LEMMA SeenStaysPast ==
  ASSUME ClientInv, ClientInv', SeenIsPast, ClientNext
  PROVE  SeenIsPast'
<1>1. ClientKind /\ Remembers
  BY ClientStep
<1>2. /\ lamports[Agent] \in Nat /\ lamports'[Agent] \in Nat
      /\ richest \in Nat /\ richest' \in Nat
      /\ agents[Agent].day \in Int /\ agents[Agent].day <= CurrentDay
  BY AgentType, LimitTypes, ClientFacts
     DEF ClientInv, CountersOK, TradingInv, TradingTypeOK, RegistryTypeOK, ChainTypeOK,
         RecordsNotAhead
<1>3. /\ richest' >= richest /\ lamports'[Agent] <= richest'
      /\ lamports[Agent] <= richest
  BY <1>1, <1>2 DEF Remembers, SeenIsPast
<1>4. CurrentDay \in Int /\ CurrentDay' \in Int /\ CurrentDay' >= CurrentDay
  <2>1. CurrentDay' \in Nat
    BY DayAfter
  <2> QED
    BY <1>1, <2>1, DayNeverFalls
<1>5. ASSUME NEW c \in Runs
      PROVE  /\ seen'[c].balance # Unread => seen'[c].balance <= richest'
             /\ seen'[c].agent # Unread => seen'[c].agent.day <= CurrentDay'
  <2>1. /\ seen[c] \in Seen
        /\ seen[c].balance # Unread => seen[c].balance <= richest
        /\ seen[c].agent # Unread => seen[c].agent.day <= CurrentDay
    BY DEF ClientInv, AttemptsOK, SeenIsPast
  <2>2. /\ seen[c].balance # Unread => seen[c].balance \in Nat
        /\ seen[c].agent # Unread => seen[c].agent.day \in Int
    BY <2>1 DEF Seen, Allotment
  <2>3. CASE seen'[c] = seen[c]
    BY <1>2, <1>3, <1>4, <2>1, <2>2, <2>3
  <2>4. CASE seen'[c] = NothingSeen
    BY <2>4 DEF NothingSeen
  <2>5. CASE Reading(c)
    <3>1. \/ seen'[c].balance = seen[c].balance
          \/ seen'[c].balance = lamports[Agent]
      BY <2>1, <2>5 DEF Reading, Seen
    <3>2. \/ seen'[c].agent = seen[c].agent
          \/ seen'[c].agent.day = agents[Agent].day
      BY <2>1, <2>5 DEF Reading, Seen
    <3> QED
      BY <1>2, <1>3, <1>4, <2>1, <2>2, <3>1, <3>2
  <2> QED
    BY <1>1, <2>3, <2>4, <2>5, SeenMoves
<1> QED
  BY <1>3, <1>5 DEF SeenIsPast

LEMMA PendingType ==
  ASSUME AttemptsOK, NEW c \in Runs
  PROVE  Pending(c) \in Nat
<1>1. \A t \in Trade : t.size \in Nat
  BY SizeType DEF Trade
<1>2. Fits(step[c], plan[c], seen[c], cachedFeeVault[Process(c)], inflight[c])
  BY SameEntry
<1> QED
  BY <1>1, <1>2 DEF Fits, Pending

\* What is seen is a number, or nothing yet; and then nothing is decided.
LEMMA ViewType ==
  ASSUME AttemptsOK, NEW c \in Runs
  PROVE  /\ View(c) \in Nat \cup {Unread} /\ Unread \notin Nat
         /\ View(c) = Unread <=> seen[c].agent = Unread
         /\ View(c) # Unread => Pending(c) = 0
         /\ seen[c] = NothingSeen => View(c) = Unread
<1>1. Fits(step[c], plan[c], seen[c], cachedFeeVault[Process(c)], inflight[c])
  BY SameEntry
<1>2. seen[c] \in Seen /\ Unread \notin Nat
  BY <1>1, TradeAssumption DEF Fits
<1>3. /\ View(c) \in Nat \cup {Unread}
      /\ View(c) = Unread <=> seen[c].agent = Unread
  BY <1>2 DEF Seen, Allotment, View
<1>4. seen[c] = NothingSeen => View(c) = Unread
  BY DEF NothingSeen, View
<1>5. View(c) # Unread => Pending(c) = 0
  BY <1>1, <1>4 DEF Fits, Pending
<1> QED
  BY <1>2, <1>3, <1>4, <1>5

\* The refinement mapping, by name, and what the two shares are shares of.
LEMMA OwnMapping ==
  /\ Own!Init <=> /\ lamports[Agent] \in Nat /\ richest = lamports[Agent]
                  /\ committed[Agent] = 0
                  /\ ViewOf = [c \in Runs |-> Unread]
                  /\ PendingOf = [c \in Runs |-> 0]
  /\ \A c \in Runs :
        Own!Look(c) <=> /\ PendingOf[c] = 0 /\ ViewOf[c] = Unread
                        /\ ViewOf' = [ViewOf EXCEPT ![c] = committed[Agent]]
                        /\ UNCHANGED <<lamports[Agent], committed[Agent], PendingOf>>
  /\ \A c \in Runs :
        Own!Drop(c) <=> /\ ViewOf' = [ViewOf EXCEPT ![c] = Unread]
                        /\ PendingOf' = [PendingOf EXCEPT ![c] = 0]
                        /\ UNCHANGED <<lamports[Agent], committed[Agent]>>
  /\ \A c \in Runs :
        Own!Pay(c) <=> /\ PendingOf' = [PendingOf EXCEPT ![c] = 0]
                       /\ committed'[Agent] = committed[Agent] + PendingOf[c]
                       /\ lamports'[Agent] \in Nat
                       /\ ViewOf' = ViewOf
  /\ \A c \in Runs, size \in BuySizes :
        Own!Decide(c, size) <=> /\ ViewOf[c] # Unread
                                /\ \E balance \in 0 .. richest :
                                      /\ size <= Own!APosition(balance)
                                      /\ ViewOf[c] + size <= Own!ADay(balance)
                                /\ ViewOf' = [ViewOf EXCEPT ![c] = Unread]
                                /\ PendingOf' = [PendingOf EXCEPT ![c] = size]
                                /\ UNCHANGED <<lamports[Agent], committed[Agent]>>
  /\ Own!Drift <=> /\ lamports'[Agent] \in Nat
                   /\ UNCHANGED <<committed[Agent], ViewOf, PendingOf>>
  /\ Own!NewDay <=> /\ committed'[Agent] = 0
                    /\ ViewOf' = [c \in Runs |-> IF ViewOf[c] = Unread THEN Unread
                                                                      ELSE 0]
                    /\ UNCHANGED <<lamports[Agent], PendingOf>>
BY DEF Own!Init, Own!Look, Own!Drop, Own!Pay, Own!Decide, Own!Drift, Own!NewDay,
       Own!Holds, Own!Sees, PendingOf, ViewOf

\* Any of these, with the most it has held remembered, is a step of that day.
LEMMA OwnSteps ==
  ASSUME Remembers,
         \/ \E c \in Runs :
               \/ Own!Look(c) \/ Own!Drop(c) \/ Own!Pay(c)
               \/ \E size \in BuySizes : Own!Decide(c, size)
         \/ Own!Drift
         \/ Own!NewDay
  PROVE  Own!Next
BY DEF Own!Next, Remembers

\* Day and position are those of sizing.js, as far as the balance decides them.
LEMMA OwnShares ==
  ASSUME NEW l \in Limits
  PROVE  /\ Own!ADay(l.balance) = DailyAllowance(l)
         /\ Own!APosition(l.balance) = PerTrade(l)
BY DEF Own!ADay, Own!APosition, Own!Holding, Own!DailyAllowance, Own!PerTrade,
       Own!ShareOfTradable, Own!Tradable, Own!ClampZero,
       DailyAllowance, PerTrade, ShareOfTradable, Tradable, ClampZero

\* On the same day, only the run that moved sees or holds something else.
LEMMA RunMoves ==
  ASSUME NEW c \in Runs, OthersRest(c), CurrentDay' = CurrentDay
  PROVE  /\ PendingOf' = [PendingOf EXCEPT ![c] = Pending(c)']
         /\ ViewOf' = [ViewOf EXCEPT ![c] = View(c)']
         /\ PendingOf[c] = Pending(c) /\ ViewOf[c] = View(c)
<1>1. \A d \in Runs \ {c} : Pending(d)' = Pending(d) /\ View(d)' = View(d)
  BY DEF OthersRest, Pending, View
<1> QED
  BY <1>1 DEF PendingOf, ViewOf

LEMMA SameHand ==
  ASSUME NEW c \in Runs,
         PendingOf' = [PendingOf EXCEPT ![c] = Pending(c)], PendingOf[c] = Pending(c),
         ViewOf' = [ViewOf EXCEPT ![c] = View(c)], ViewOf[c] = View(c)
  PROVE  PendingOf' = PendingOf /\ ViewOf' = ViewOf
BY DEF PendingOf, ViewOf

\* Every step of the whole is one of the client's own day.
LEMMA OwnStep ==
  ASSUME Skews = {0}, ClientInv, SalesAreWhole, SeenIsPast, ClientNext
  PROVE  Own!Next
<1>1. ClientInv' /\ ClientKind /\ Remembers
  BY ClientStep
<1>2. /\ AttemptsOK /\ AttemptsOK' /\ lamports'[Agent] \in Nat
      /\ committed \in [Wallets -> Nat] /\ Agent \in Wallets
      /\ lamports[Agent] <= richest /\ richest \in Nat
  BY <1>1, ClientFacts, AgentType
     DEF ClientInv, TradingInv, TradingTypeOK, RegistryTypeOK, ChainTypeOK, SeenIsPast,
         CountersOK
<1>3. CASE Elsewhere /\ CurrentDay' = CurrentDay
  <2>1. \A c \in Runs : Pending(c)' = Pending(c) /\ View(c)' = View(c)
    BY <1>3 DEF Elsewhere, attemptVars, Pending, View
  <2>2. PendingOf' = PendingOf /\ ViewOf' = ViewOf
    BY <2>1 DEF PendingOf, ViewOf
  <2>3. committed' = committed
    BY <1>1, <1>3, DayNeverFalls DEF Elsewhere
  <2>4. Own!Drift
    BY <1>2, <2>2, <2>3, OwnMapping
  <2> QED
    BY <1>1, <2>4, OwnSteps
<1>4. CASE CurrentDay' # CurrentDay
  <2>1. /\ CurrentDay \in Int /\ CurrentDay' > CurrentDay /\ UNCHANGED attemptVars
        /\ committed' = [w \in Wallets |-> 0] /\ lamports' = lamports
    BY <1>1, <1>4, DayNeverFalls
  <2>2. ASSUME NEW c \in Runs
        PROVE  /\ Pending(c)' = Pending(c)
               /\ View(c)' = IF View(c) = Unread THEN Unread ELSE 0
    <3>1. seen'[c] = seen[c] /\ seen[c] \in Seen
      BY <1>2, <2>1 DEF attemptVars, AttemptsOK
    <3>2. seen[c].agent # Unread =>
             seen[c].agent.day \in Int /\ seen[c].agent.day <= CurrentDay
      BY <3>1 DEF SeenIsPast, Seen, Allotment
    <3>3. CurrentDay' \in Int
      BY <1>1, DayAfter
    <3>4. View(c) = Unread <=> seen[c].agent = Unread
      BY <1>2, ViewType
    <3>5. View(c)' = IF seen[c].agent = Unread THEN Unread ELSE 0
      BY <2>1, <3>1, <3>2, <3>3 DEF View
    <3> QED
      BY <2>1, <3>4, <3>5 DEF attemptVars, Pending
  <2>3. /\ PendingOf' = PendingOf
        /\ ViewOf' = [c \in Runs |-> IF ViewOf[c] = Unread THEN Unread ELSE 0]
    BY <2>2 DEF PendingOf, ViewOf
  <2>4. Own!NewDay
    BY <1>2, <2>1, <2>3, OwnMapping
  <2> QED
    BY <1>1, <2>4, OwnSteps
<1>5. ASSUME NEW c \in Runs, CurrentDay' = CurrentDay, Working(c)
      PROVE  Own!Next
  <2>1. OthersRest(c) /\ committed' = committed /\ seen'[c] = NothingSeen
    BY <1>5 DEF Working, Advances, Carries
  <2>2. /\ PendingOf' = [PendingOf EXCEPT ![c] = Pending(c)']
        /\ ViewOf' = [ViewOf EXCEPT ![c] = View(c)']
        /\ PendingOf[c] = Pending(c) /\ ViewOf[c] = View(c)
    BY <1>5, <2>1, RunMoves
  <2>3. CASE Pending(c)' = Pending(c) /\ seen'[c] = seen[c]
    <3>1. View(c)' = View(c)
      BY <1>5, <2>3 DEF View
    <3>2. PendingOf' = PendingOf /\ ViewOf' = ViewOf
      BY <2>2, <2>3, <3>1, SameHand
    <3>3. Own!Drift
      BY <1>2, <2>1, <3>2, OwnMapping
    <3> QED
      BY <1>1, <3>3, OwnSteps
  <2>4. CASE Pending(c)' = 0 /\ lamports' = lamports
    <3>1. View(c)' = Unread
      BY <2>1 DEF View, NothingSeen
    <3>2. Own!Drop(c)
      BY <2>1, <2>2, <2>4, <3>1, OwnMapping
    <3> QED
      BY <1>1, <3>2, OwnSteps
  <2> QED
    BY <1>5, <2>3, <2>4 DEF Working, Advances, Carries
<1>6. ASSUME NEW c \in Runs, CurrentDay' = CurrentDay, Landing(c)
      PROVE  Own!Next
  <2>1. /\ OthersRest(c) /\ Pending(c)' = 0 /\ Pending(c) = inflight[c].size
        /\ seen'[c] = seen[c]
    BY <1>6, TradeAssumption DEF Landing, Advances, Carries, Pending
  <2>2. View(c)' = View(c)
    BY <1>6, <2>1 DEF View
  <2>3. /\ PendingOf' = [PendingOf EXCEPT ![c] = 0] /\ PendingOf[c] = Pending(c)
        /\ ViewOf' = [ViewOf EXCEPT ![c] = View(c)] /\ ViewOf[c] = View(c)
    BY <1>6, <2>1, <2>2, RunMoves
  <2>4. ViewOf' = ViewOf
    BY <2>3 DEF ViewOf
  <2>5. inflight[c].side = "Sell" => inflight[c].size = 0
    BY <1>6, TradeAssumption DEF Landing, SalesAreWhole
  <2>6. committed'[Agent] = committed[Agent] + PendingOf[c]
    BY <1>2, <1>6, <2>1, <2>3, <2>5 DEF Landing, Charged
  <2>7. Own!Pay(c)
    BY <1>2, <2>3, <2>4, <2>6, OwnMapping
  <2> QED
    BY <1>1, <2>7, OwnSteps
<1>7. ASSUME NEW c \in Runs, CurrentDay' = CurrentDay, Untouched,
             \/ Begun(c, "Sell", 0, "venue")
             \/ \E size \in BuySizes : Begun(c, "Buy", size, "limits")
      PROVE  Own!Next
  <2>1. /\ OthersRest(c) /\ seen'[c] = seen[c]
        /\ Pending(c) = 0 /\ Pending(c)' = 0
    BY <1>7, TradeAssumption DEF Begun, Pending
  <2>2. View(c)' = View(c)
    BY <1>7, <2>1 DEF View
  <2>3. PendingOf' = PendingOf /\ ViewOf' = ViewOf
    BY <1>7, <2>1, <2>2, RunMoves, SameHand
  <2>4. Own!Drift
    BY <1>2, <1>7, <2>3, OwnMapping DEF Untouched
  <2> QED
    BY <1>1, <2>4, OwnSteps
<1>8. ASSUME NEW c \in Runs, CurrentDay' = CurrentDay, Untouched, Reading(c)
      PROVE  Own!Next
  <2>1. OthersRest(c) /\ Pending(c) = 0 /\ Pending(c)' = 0 /\ seen[c] \in Seen
    BY <1>2, <1>8 DEF Reading, Pending, AttemptsOK
  <2>2. /\ PendingOf' = [PendingOf EXCEPT ![c] = Pending(c)] /\ PendingOf[c] = 0
        /\ ViewOf' = [ViewOf EXCEPT ![c] = View(c)'] /\ ViewOf[c] = View(c)
        /\ PendingOf[c] = Pending(c)
    BY <1>8, <2>1, RunMoves
  <2>3. PendingOf' = PendingOf
    BY <2>2 DEF PendingOf
  <2>4. CASE seen'[c].agent = seen[c].agent
    <3>1. View(c)' = View(c)
      BY <1>8, <2>4 DEF View
    <3>2. ViewOf' = ViewOf
      BY <2>2, <3>1 DEF ViewOf
    <3>3. Own!Drift
      BY <1>2, <1>8, <2>3, <3>2, OwnMapping DEF Untouched
    <3> QED
      BY <1>1, <3>3, OwnSteps
  <2>5. CASE /\ seen[c].agent = Unread
             /\ seen'[c].agent = [daily_limit |-> agents[Agent].daily_limit,
                                  spent_today |-> agents[Agent].spent_today,
                                  day |-> agents[Agent].day]
    <3>1. View(c) = Unread /\ View(c)' = SpentToday(Agent)
      <4>1. seen'[c].agent # Unread
        BY <1>2, <2>5, LimitTypes, TradeAssumption DEF Allotment
      <4> QED
        BY <1>8, <2>5, <4>1 DEF View, SpentToday
    <3>2. SpentToday(Agent) = committed[Agent]
      BY ClientFacts, AgentType DEF TradingInv, BudgetOnRecord
    <3>3. Own!Look(c)
      BY <1>8, <2>2, <2>3, <3>1, <3>2, OwnMapping DEF Untouched
    <3> QED
      BY <1>1, <3>3, OwnSteps
  <2>6. \/ seen'[c].agent = seen[c].agent
        \/ /\ seen[c].agent = Unread
           /\ seen'[c].agent = [daily_limit |-> agents[Agent].daily_limit,
                                spent_today |-> agents[Agent].spent_today,
                                day |-> agents[Agent].day]
    BY <1>8, <2>1 DEF Reading, Seen
  <2> QED
    BY <2>4, <2>5, <2>6
<1>9. ASSUME NEW c \in Runs, CurrentDay' = CurrentDay, Untouched, Deciding(c)
      PROVE  Own!Next
  <2> DEFINE size == plan[c].size
  <2>1. /\ OthersRest(c) /\ seen'[c] = NothingSeen /\ size \in BuySizes
        /\ Pending(c)' = size
    BY <1>9, TradeAssumption DEF Deciding, Pending
  <2>2. /\ seen[c] \in Seen
        /\ Unread \notin {seen[c].balance, seen[c].cap, seen[c].agent}
    BY <1>9 DEF Deciding
  <2>3. /\ seen[c].balance \in Nat /\ View(c) \in Nat
        /\ size <= PerTrade(SeenLimits(c, 0))
        /\ View(c) + size <= DailyAllowance(SeenLimits(c, 0))
    BY <1>9, DecidedIsWithin
  <2>4. /\ Own!APosition(seen[c].balance) = PerTrade(SeenLimits(c, 0))
        /\ Own!ADay(seen[c].balance) = DailyAllowance(SeenLimits(c, 0))
    <3>1. /\ SeenLimits(c, 0) \in Limits
          /\ SeenLimits(c, 0).balance = seen[c].balance
      BY <2>2, SeenLimitsFacts
    <3> QED
      BY <3>1, OwnShares
  <2>5. seen[c].balance \in 0 .. richest
    BY <1>2, <2>2, <2>3 DEF SeenIsPast
  <2>6. View(c)' = Unread /\ View(c) # Unread
    BY <2>1, <2>2, <2>3, TradeAssumption DEF View, NothingSeen
  <2>7. /\ PendingOf' = [PendingOf EXCEPT ![c] = size]
        /\ ViewOf' = [ViewOf EXCEPT ![c] = Unread] /\ ViewOf[c] = View(c)
    BY <1>9, <2>1, <2>6, RunMoves
  <2> HIDE DEF size
  <2>8. Own!Decide(c, size)
    <3>1. /\ size <= Own!APosition(seen[c].balance)
          /\ ViewOf[c] + size <= Own!ADay(seen[c].balance)
      BY <2>3, <2>4, <2>7
    <3>2. ViewOf[c] # Unread /\ UNCHANGED <<lamports[Agent], committed[Agent]>>
      BY <1>9, <2>6, <2>7 DEF Untouched
    <3> QED
      BY <2>1, <2>5, <2>7, <3>1, <3>2, OwnMapping
  <2> QED
    BY <1>1, <2>1, <2>8, OwnSteps
<1> QED
  BY <1>1, <1>3, <1>4, <1>5, <1>6, <1>7, <1>8, <1>9 DEF ClientKind, Moves, Setting

LEMMA OwnStutters ==
  ASSUME UNCHANGED clientVars
  PROVE  UNCHANGED Own!ownDayVars
BY DEF clientVars, tradingVars, registryVars, attemptVars, Own!ownDayVars, Pending,
       View, CurrentDay

LEMMA OwnStarts ==
  ASSUME ClientInit
  PROVE  Own!Init /\ SalesAreWhole /\ SeenIsPast
<1>1. /\ PendingOf = [c \in Runs |-> 0] /\ ViewOf = [c \in Runs |-> Unread]
      /\ SalesAreWhole
  BY DEF ClientInit, PendingOf, Pending, ViewOf, View, NothingSeen, SalesAreWhole
<1>2. committed[Agent] = 0 /\ lamports = InitialLamports
  BY AgentType DEF ClientInit, ChainInit
<1>3. lamports[Agent] \in Nat /\ richest = lamports[Agent]
  BY <1>2, AgentType, ChainAssumption DEF ClientInit
<1>4. SeenIsPast
  BY <1>3 DEF ClientInit, SeenIsPast, NothingSeen
<1> QED
  BY <1>1, <1>2, <1>3, <1>4, OwnMapping

OwnInv == ClientInv /\ SalesAreWhole /\ SeenIsPast

LEMMA OwnInvariant == ClientSpec => []OwnInv
<1>1. ClientInit => SalesAreWhole /\ SeenIsPast
  BY OwnStarts
<1>2. /\ SalesAreWhole /\ SeenIsPast /\ ClientInv /\ ClientInv'
      /\ [ClientNext]_clientVars
      => SalesAreWhole' /\ SeenIsPast'
  <2>1. ASSUME SalesAreWhole, SeenIsPast, UNCHANGED clientVars
        PROVE  SalesAreWhole' /\ SeenIsPast'
    BY <2>1 DEF SalesAreWhole, SeenIsPast, clientVars, attemptVars, tradingVars,
                registryVars, CurrentDay
  <2> QED
    BY <2>1, SalesStep, SeenStaysPast
<1> QED
  BY <1>1, <1>2, ClientInvariant, PTL DEF ClientSpec, OwnInv

\* The three reads are answered at three moments (sizing.js:51), the size is checked
\* before the trade is built (trade.js:286), and the trade may land much later, or
\* never, beside any number of others.  Still, with the clock right, none is decided
\* but on a day that was as it was read and a balance the agent had, no reading
\* survives its midnight, and none is charged that was not decided, or twice: the
\* client implements its day.
THEOREM ClientImplementsOwnDay ==
  ASSUME Skews = {0}
  PROVE  ClientSpec => ImplementsOwnDay
<1>1. ClientInit => Own!Init
  BY OwnStarts
<1>2. OwnInv /\ [ClientNext]_clientVars => [Own!Next]_(Own!ownDayVars)
  BY OwnStep, OwnStutters DEF OwnInv
<1> QED
  BY <1>1, <1>2, OwnInvariant, PTL DEF ClientSpec, ImplementsOwnDay, Own!Spec

-------------------------------------------------------------------------------
(***************************************************************************)
(* How far overlapping runs overrun the client's day.  A run that has      *)
(* looked at the day may still decide on what that day left, but on no     *)
(* more than a position: this is what it may add, until it is what it has  *)
(* decided.  Spent and all that may be added are within a day and a        *)
(* position for every run but one.  What was decided when the agent held   *)
(* less, or read before it held more, is bounded by what it holds at its   *)
(* best, and by any amount beyond that: so the bound stands when that      *)
(* grows.                                                                  *)
(***************************************************************************)

Others == Cardinality(Runs) - 1

\* What the day may come to when the agent never held more than this.
Room(amount) == Own!ADay(amount) + Others * Own!APosition(amount)

\* What a run that sees so much, or has decided so much, may still add.
Pot(view, pending, amount) ==
    IF view = Unread THEN pending
    ELSE Smaller(Own!APosition(amount), ClampZero(Own!ADay(amount) - view))

Pots(views, pendings, amount) ==
    [c \in Runs |-> Pot(views[c], pendings[c], amount)]

Modest(pending, amount) ==
    pending <= Own!APosition(amount) /\ pending <= Own!ADay(amount)

Within(most, spent, views, pendings) ==
    /\ \A c \in Runs : Modest(pendings[c], most)
    /\ \A amount \in Nat : amount >= most =>
          spent + Sum(Pots(views, pendings, amount), Runs) <= Room(amount)

\* Views and what is pending, as they are in every state.
Hands(views, pendings) ==
    /\ views \in [Runs -> Nat \cup {Unread}]
    /\ pendings \in [Runs -> Nat]
    /\ \A c \in Runs : views[c] # Unread => pendings[c] = 0

HandsInv == Hands(ViewOf, PendingOf)

DayInv == Within(richest, committed[Agent], ViewOf, PendingOf)

LEMMA OthersType == IsFiniteSet(Runs) /\ Others \in Nat
<1>1. Cardinality(Runs) \in Nat /\ Cardinality(Runs) # 0
  BY ClientAssumption, FS_CardinalityType, FS_EmptySet
<1> QED
  BY <1>1, ClientAssumption DEF Others

LEMMA SharesGrow ==
  ASSUME NEW a \in Nat, NEW b \in Nat, a <= b
  PROVE  /\ Own!ADay(a) \in Nat /\ Own!APosition(a) \in Nat
         /\ Own!ADay(b) \in Nat /\ Own!APosition(b) \in Nat
         /\ Own!ADay(a) <= Own!ADay(b)
         /\ Own!APosition(a) <= Own!APosition(b)
<1> DEFINE At(n) == [balance |-> n, absoluteCap |-> 0, dailyCap |-> 0, spentToday |-> 0]
<1>1. At(a) \in Limits /\ At(b) \in Limits /\ At(a).balance = a /\ At(b).balance = b
  BY DEF Limits
<1> HIDE DEF At
<1>2. /\ Own!ADay(a) = DailyAllowance(At(a)) /\ Own!APosition(a) = PerTrade(At(a))
      /\ Own!ADay(b) = DailyAllowance(At(b)) /\ Own!APosition(b) = PerTrade(At(b))
  BY <1>1, OwnShares
<1>3. /\ DailyAllowance(At(a)) <= DailyAllowance(At(b))
      /\ PerTrade(At(a)) <= PerTrade(At(b))
  BY <1>1, ShareMonotone, SizingAssumption DEF DailyAllowance, PerTrade
<1>4. /\ DailyAllowance(At(a)) \in Nat /\ PerTrade(At(a)) \in Nat
      /\ DailyAllowance(At(b)) \in Nat /\ PerTrade(At(b)) \in Nat
  BY <1>1, CeilingTypes
<1> QED
  BY <1>2, <1>3, <1>4

\* No run may add more than a position, or more than a day.
LEMMA PotFacts ==
  ASSUME NEW view \in Nat \cup {Unread}, NEW pending \in Nat, NEW most \in Nat,
         Modest(pending, most), NEW amount \in Nat, amount >= most
  PROVE  /\ Pot(view, pending, amount) \in Nat
         /\ Modest(Pot(view, pending, amount), amount)
         /\ Modest(pending, amount)
<1>1. /\ Own!ADay(amount) \in Nat /\ Own!APosition(amount) \in Nat
      /\ Own!ADay(most) \in Nat /\ Own!APosition(most) \in Nat
      /\ Own!ADay(most) <= Own!ADay(amount)
      /\ Own!APosition(most) <= Own!APosition(amount)
  BY SharesGrow
<1>2. Modest(pending, amount)
  BY <1>1 DEF Modest
<1>3. CASE view = Unread
  BY <1>2, <1>3 DEF Pot
<1>4. CASE view \in Nat /\ view # Unread
  BY <1>1, <1>2, <1>4 DEF Pot, Modest, Smaller, ClampZero
<1> QED
  BY <1>2, <1>3, <1>4

LEMMA PotsFacts ==
  ASSUME NEW views, NEW pendings, Hands(views, pendings), NEW most \in Nat,
         \A c \in Runs : Modest(pendings[c], most),
         NEW amount \in Nat, amount >= most
  PROVE  /\ \A c \in Runs :
               LET pot == Pots(views, pendings, amount)[c]
               IN  /\ pot = Pot(views[c], pendings[c], amount)
                   /\ pot \in Nat /\ Modest(pot, amount)
         /\ Sum(Pots(views, pendings, amount), Runs) \in Nat
<1> DEFINE pots == Pots(views, pendings, amount)
<1>1. \A c \in Runs : /\ pots[c] = Pot(views[c], pendings[c], amount)
                      /\ pots[c] \in Nat /\ Modest(pots[c], amount)
  <2> SUFFICES ASSUME NEW c \in Runs
               PROVE  /\ pots[c] = Pot(views[c], pendings[c], amount)
                      /\ pots[c] \in Nat /\ Modest(pots[c], amount)
    OBVIOUS
  <2>1. pots[c] = Pot(views[c], pendings[c], amount)
    BY DEF Pots
  <2>2. views[c] \in Nat \cup {Unread} /\ pendings[c] \in Nat
    BY DEF Hands
  <2> QED
    BY <2>1, <2>2, PotFacts
<1> HIDE DEF pots
<1>2. \A c \in Runs : pots[c] \in Int /\ pots[c] >= 0
  BY <1>1
<1>3. Sum(pots, Runs) \in Int /\ Sum(pots, Runs) >= 0
  BY <1>2, OthersType, SumType
<1> QED
  BY <1>1, <1>3 DEF pots

\* One run apart, the others add at most a position each.
LEMMA OthersAddPositions ==
  ASSUME NEW f, NEW most \in Nat, NEW c \in Runs,
         \A d \in Runs : f[d] \in Nat /\ f[d] <= most
  PROVE  Sum(f, Runs) <= f[c] + Others * most
<1> DEFINE R == Runs \ {c}
<1>1. IsFiniteSet(R) /\ Cardinality(R) = Others
  BY OthersType, FS_RemoveElement DEF Others
<1>2. Sum(f, Runs) = f[c] + Sum(f, R)
  BY OthersType, SumSplit
<1>3. \A d \in R : f[d] \in Int /\ f[d] <= most
  OBVIOUS
<1> HIDE DEF R
<1>4. Sum(f, R) <= Cardinality(R) * most /\ Sum(f, R) \in Int
  BY <1>1, <1>3, SumAtMost, SumType
<1>5. Others * most \in Int /\ f[c] \in Int
  BY OthersType
<1> QED
  BY <1>1, <1>2, <1>4, <1>5

LEMMA OneTermChanges ==
  ASSUME NEW f, NEW g, NEW c \in Runs,
         \A d \in Runs : f[d] \in Int, g[c] \in Int,
         \A d \in Runs \ {c} : g[d] = f[d]
  PROVE  Sum(g, Runs) = (Sum(f, Runs) - f[c]) + g[c]
<1>1. IsFiniteSet(Runs) /\ \A d \in Runs : f[d] \in Int
  BY OthersType
<1> QED
  BY <1>1, SumUpdate

LEMMA RoomType ==
  ASSUME NEW amount \in Nat
  PROVE  /\ Own!ADay(amount) \in Nat /\ Own!APosition(amount) \in Nat
         /\ Others * Own!APosition(amount) \in Nat /\ Room(amount) \in Nat
<1>1. Own!ADay(amount) \in Nat /\ Own!APosition(amount) \in Nat /\ Others \in Nat
  BY SharesGrow, OthersType
<1> QED
  BY <1>1 DEF Room

\* The agent comes to hold more.
LEMMA WithinMore ==
  ASSUME NEW most \in Nat, NEW more \in Nat, most <= more, NEW spent \in Nat,
         NEW views, NEW pendings, Hands(views, pendings),
         Within(most, spent, views, pendings)
  PROVE  Within(more, spent, views, pendings)
<1>1. ASSUME NEW c \in Runs
      PROVE  Modest(pendings[c], more)
  <2>1. views[c] \in Nat \cup {Unread} /\ pendings[c] \in Nat
    BY DEF Hands
  <2>2. Modest(pendings[c], most) /\ more >= most
    BY DEF Within
  <2> QED
    BY <2>1, <2>2, PotFacts
<1>2. \A amount \in Nat : amount >= more => amount >= most
  OBVIOUS
<1> QED
  BY <1>1, <1>2 DEF Within

\* A run adds to the day what it gives up of what it might have added.
LEMMA WithinOne ==
  ASSUME NEW most \in Nat, NEW spent \in Nat, NEW after \in Nat,
         NEW views, NEW pendings, Hands(views, pendings),
         Within(most, spent, views, pendings),
         NEW c \in Runs, NEW view \in Nat \cup {Unread}, NEW pending \in Nat,
         Modest(pending, most),
         \A amount \in Nat : amount >= most =>
            after + Pot(view, pending, amount)
               <= spent + Pot(views[c], pendings[c], amount),
         NEW views2, views2 = [views EXCEPT ![c] = view],
         NEW pendings2, pendings2 = [pendings EXCEPT ![c] = pending]
  PROVE  Within(most, after, views2, pendings2)
<1>1. /\ DOMAIN views = Runs /\ DOMAIN pendings = Runs
      /\ \A d \in Runs : Modest(pendings[d], most)
  BY DEF Hands, Within
<1>2. /\ views2[c] = view /\ pendings2[c] = pending
      /\ \A d \in Runs \ {c} : views2[d] = views[d] /\ pendings2[d] = pendings[d]
  BY <1>1
<1>3. \A d \in Runs : Modest(pendings2[d], most)
  BY <1>1, <1>2
<1>4. ASSUME NEW amount \in Nat, amount >= most
      PROVE  after + Sum(Pots(views2, pendings2, amount), Runs) <= Room(amount)
  <2> DEFINE f == Pots(views, pendings, amount)
             g == Pots(views2, pendings2, amount)
  <2>1. /\ \A d \in Runs : f[d] \in Nat /\ f[d] \in Int
        /\ f[c] = Pot(views[c], pendings[c], amount) /\ Sum(f, Runs) \in Nat
    BY <1>1, <1>4, PotsFacts
  <2>2. g[c] = Pot(view, pending, amount) /\ g[c] \in Nat /\ g[c] \in Int
    <3>1. Pot(view, pending, amount) \in Nat
      BY <1>4, PotFacts
    <3>2. g[c] = Pot(view, pending, amount)
      BY <1>2 DEF Pots
    <3> QED
      BY <3>1, <3>2
  <2>3. \A d \in Runs \ {c} : g[d] = f[d]
    BY <1>2 DEF Pots
  <2>4. after + g[c] <= spent + f[c]
    BY <1>4, <2>1, <2>2
  <2>5. spent + Sum(f, Runs) <= Room(amount) /\ Room(amount) \in Nat
    BY <1>4, RoomType DEF Within
  <2> HIDE DEF f, g
  <2>6. Sum(g, Runs) = (Sum(f, Runs) - f[c]) + g[c]
    BY <2>1, <2>2, <2>3, OneTermChanges, Zenon
  <2>7. f[c] \in Nat
    BY <2>1
  <2>8. after + Sum(g, Runs) <= Room(amount)
    BY <2>1, <2>2, <2>4, <2>5, <2>6, <2>7
  <2> QED
    BY <2>8 DEF g
<1> QED
  BY <1>3, <1>4 DEF Within

\* A run looks at the day, and may now use up what is left of it.
LEMMA WithinLook ==
  ASSUME NEW most \in Nat, NEW spent \in Nat,
         NEW views, NEW pendings, Hands(views, pendings),
         Within(most, spent, views, pendings),
         NEW c \in Runs, pendings[c] = 0, views[c] = Unread,
         NEW views2, views2 = [views EXCEPT ![c] = spent]
  PROVE  Within(most, spent, views2, pendings)
<1>1. /\ DOMAIN views = Runs /\ \A d \in Runs : Modest(pendings[d], most)
  BY DEF Hands, Within
<1>2. views2[c] = spent /\ \A d \in Runs \ {c} : views2[d] = views[d]
  BY <1>1
<1>3. Hands(views2, pendings)
  BY <1>2 DEF Hands
<1>4. ASSUME NEW amount \in Nat, amount >= most
      PROVE  spent + Sum(Pots(views2, pendings, amount), Runs) <= Room(amount)
  <2> DEFINE f == Pots(views, pendings, amount)
             g == Pots(views2, pendings, amount)
             position == Own!APosition(amount)
             day == Own!ADay(amount)
  <2>1. /\ \A d \in Runs : f[d] \in Nat /\ f[d] \in Int
        /\ f[c] = Pot(views[c], pendings[c], amount) /\ Sum(f, Runs) \in Nat
    BY <1>1, <1>4, PotsFacts
  <2>2. /\ \A d \in Runs : g[d] \in Nat /\ g[d] <= position
        /\ g[c] = Pot(spent, pendings[c], amount) /\ Sum(g, Runs) \in Nat
    <3>1. /\ \A d \in Runs : /\ g[d] = Pot(views2[d], pendings[d], amount)
                             /\ g[d] \in Nat /\ Modest(g[d], amount)
          /\ Sum(g, Runs) \in Nat
      <4>1. \A d \in Runs : Modest(pendings[d], most)
        BY <1>1
      <4>2. amount \in Nat /\ amount >= most /\ most \in Nat
        BY <1>4
      <4>3. Sum(Pots(views2, pendings, amount), Runs) \in Nat
        BY <1>3, <4>1, <4>2, PotsFacts
      <4>4. ASSUME NEW d \in Runs
            PROVE  /\ g[d] = Pot(views2[d], pendings[d], amount)
                   /\ g[d] \in Nat /\ Modest(g[d], amount)
        <5>1. g[d] = Pot(views2[d], pendings[d], amount)
          BY DEF Pots
        <5>2. views2[d] \in Nat \cup {Unread} /\ pendings[d] \in Nat
          BY <1>3 DEF Hands
        <5> HIDE DEF f, g, position, day
        <5>3. Modest(pendings[d], most)
          BY <4>1
        <5> DEFINE seen2 == views2[d]
                   pending == pendings[d]
        <5>4. seen2 \in Nat \cup {Unread} /\ pending \in Nat /\ Modest(pending, most)
          BY <5>2, <5>3
        <5> HIDE DEF seen2, pending
        <5>5. Pot(seen2, pending, amount) \in Nat /\ Modest(Pot(seen2, pending, amount), amount)
          BY <4>2, <5>4, PotFacts
        <5> QED
          BY <5>1, <5>5 DEF seen2, pending
      <4> QED
        BY <4>3, <4>4
    <3> HIDE DEF g
    <3> QED
      BY <1>2, <3>1 DEF Modest
  <2>3. \A d \in Runs \ {c} : g[d] = f[d]
    BY <1>2 DEF Pots
  <2>4. f[c] = 0
    BY <2>1 DEF Pot
  <2>5. /\ day \in Nat /\ position \in Nat /\ Others * position \in Nat
        /\ Room(amount) = day + Others * position
    BY RoomType DEF Room
  <2>6. spent + Sum(f, Runs) <= Room(amount)
    BY <1>4 DEF Within
  <2>7. spent # Unread
    BY TradeAssumption
  <2>8. g[c] = Smaller(position, ClampZero(day - spent))
    BY <2>2, <2>7 DEF Pot
  <2> HIDE DEF f, g, position, day
  <2>9. CASE spent <= day
    <3>1. spent + g[c] <= day
      BY <2>5, <2>8, <2>9 DEF Smaller, ClampZero
    <3>2. Sum(g, Runs) <= g[c] + Others * position
      BY <2>2, <2>5, OthersAddPositions
    <3>3. g[c] \in Nat
      BY <2>2
    <3> QED
      BY <2>2, <2>5, <3>1, <3>2, <3>3 DEF g
  <2>10. CASE spent > day
    <3>1. g[c] = 0
      BY <2>5, <2>8, <2>10 DEF Smaller, ClampZero
    <3>2. Sum(g, Runs) = (Sum(f, Runs) - f[c]) + g[c]
      <4>1. g[c] \in Int
        BY <3>1
      <4> QED
        BY <2>1, <2>3, <4>1, OneTermChanges, Zenon
    <3> QED
      BY <2>1, <2>4, <2>6, <3>1, <3>2 DEF g
  <2> QED
    BY <2>5, <2>9, <2>10
<1> QED
  BY <1>1, <1>4 DEF Within

\* At midnight the day is whole again, for whoever has looked as well.
LEMMA WithinNewDay ==
  ASSUME NEW most \in Nat, NEW spent \in Nat,
         NEW views, NEW pendings, Hands(views, pendings),
         Within(most, spent, views, pendings),
         NEW views2,
         views2 = [c \in Runs |-> IF views[c] = Unread THEN Unread ELSE 0]
  PROVE  Within(most, 0, views2, pendings)
<1>1. \A d \in Runs : Modest(pendings[d], most)
  BY DEF Within
<1>2. Hands(views2, pendings)
  BY DEF Hands
<1>3. PICK c \in Runs : TRUE
  BY ClientAssumption
<1>4. ASSUME NEW amount \in Nat, amount >= most
      PROVE  0 + Sum(Pots(views2, pendings, amount), Runs) <= Room(amount)
  <2> DEFINE g == Pots(views2, pendings, amount)
             position == Own!APosition(amount)
             day == Own!ADay(amount)
  <2>1. /\ \A d \in Runs : g[d] \in Nat /\ g[d] <= position /\ g[d] <= day
        /\ Sum(g, Runs) \in Nat
    BY <1>1, <1>2, <1>4, PotsFacts DEF Modest
  <2>2. /\ day \in Nat /\ position \in Nat /\ Others * position \in Nat
        /\ Room(amount) = day + Others * position
    BY RoomType DEF Room
  <2> HIDE DEF g, position, day
  <2>3. Sum(g, Runs) <= g[c] + Others * position
    BY <2>1, <2>2, OthersAddPositions
  <2>4. g[c] \in Nat /\ g[c] <= day
    BY <2>1
  <2> QED
    BY <2>1, <2>2, <2>3, <2>4 DEF g
<1> QED
  BY <1>1, <1>4 DEF Within

LEMMA HandsType ==
  ASSUME AttemptsOK
  PROVE  HandsInv
<1>1. \A c \in Runs : /\ View(c) \in Nat \cup {Unread} /\ Pending(c) \in Nat
                      /\ View(c) # Unread => Pending(c) = 0
  BY ViewType, PendingType
<1> QED
  BY <1>1 DEF HandsInv, Hands, ViewOf, PendingOf

\* A step of the client's own day keeps the bound, whatever the purse does.
LEMMA DayStep ==
  ASSUME ClientInv, ClientInv', HandsInv, HandsInv', DayInv, Own!Next
  PROVE  DayInv'
<1>1. /\ lamports[Agent] \in Nat /\ lamports'[Agent] \in Nat
      /\ richest \in Nat /\ richest' \in Nat /\ AttemptsOK
      /\ committed[Agent] \in Nat /\ committed'[Agent] \in Nat
  BY AgentType
     DEF ClientInv, CountersOK, TradingInv, TradingTypeOK, RegistryTypeOK, ChainTypeOK
<1>2. richest <= richest'
  BY <1>1 DEF Own!Next
<1>3. DayInv' <=> Within(richest', committed'[Agent], ViewOf', PendingOf')
  BY DEF DayInv, Within, Room, Others, Modest, Pots, Pot, Smaller, ClampZero, Own!ADay,
         Own!APosition, Own!Holding, Own!DailyAllowance, Own!PerTrade,
         Own!ShareOfTradable, Own!Tradable, Own!ClampZero
<1>4. Hands(ViewOf, PendingOf) /\ Hands(ViewOf', PendingOf')
  BY DEF HandsInv, Hands
<1>5. Within(richest, committed[Agent], ViewOf, PendingOf)
  BY DEF DayInv
<1>6. \A c \in Runs : /\ ViewOf[c] \in Nat \cup {Unread} /\ PendingOf[c] \in Nat
                      /\ ViewOf[c] # Unread => PendingOf[c] = 0
                      /\ Modest(PendingOf[c], richest)
  BY <1>4, <1>5 DEF Hands, Within
<1>7. SUFFICES Within(richest, committed'[Agent], ViewOf', PendingOf')
  BY <1>1, <1>2, <1>3, <1>4, WithinMore
<1>8. 0 \in Nat /\ Modest(0, richest) /\ Unread \notin Nat
  BY <1>1, RoomType, TradeAssumption DEF Modest
<1>9. ASSUME NEW c \in Runs, Own!Look(c)
      PROVE  Within(richest, committed'[Agent], ViewOf', PendingOf')
  <2>1. /\ PendingOf[c] = 0 /\ ViewOf[c] = Unread
        /\ ViewOf' = [ViewOf EXCEPT ![c] = committed[Agent]]
        /\ committed'[Agent] = committed[Agent] /\ PendingOf' = PendingOf
    BY <1>9, OwnMapping
  <2>2. Within(richest, committed[Agent], ViewOf', PendingOf)
    BY <1>1, <1>4, <1>5, <2>1, WithinLook
  <2> QED
    BY <2>1, <2>2
<1>10. ASSUME NEW c \in Runs, Own!Drop(c)
       PROVE  Within(richest, committed'[Agent], ViewOf', PendingOf')
  <2>1. /\ ViewOf' = [ViewOf EXCEPT ![c] = Unread]
        /\ PendingOf' = [PendingOf EXCEPT ![c] = 0]
        /\ committed'[Agent] = committed[Agent]
    BY <1>10, OwnMapping
  <2>2. ASSUME NEW amount \in Nat, amount >= richest
        PROVE  committed'[Agent] + Pot(Unread, 0, amount)
                  <= committed[Agent] + Pot(ViewOf[c], PendingOf[c], amount)
    <3>1. Pot(ViewOf[c], PendingOf[c], amount) \in Nat
      BY <1>1, <1>6, <2>2, PotFacts
    <3>2. Pot(Unread, 0, amount) = 0
      BY DEF Pot
    <3> QED
      BY <1>1, <2>1, <3>1, <3>2
  <2> QED
    BY <1>1, <1>4, <1>5, <1>8, <2>1, <2>2, WithinOne
<1>11. ASSUME NEW c \in Runs, Own!Pay(c)
       PROVE  Within(richest, committed'[Agent], ViewOf', PendingOf')
  <2>1. /\ PendingOf' = [PendingOf EXCEPT ![c] = 0] /\ ViewOf' = ViewOf
        /\ committed'[Agent] = committed[Agent] + PendingOf[c]
    BY <1>11, OwnMapping
  <2>2. ViewOf' = [ViewOf EXCEPT ![c] = ViewOf[c]]
    BY <2>1 DEF ViewOf
  <2>3. ASSUME NEW amount \in Nat, amount >= richest
        PROVE  committed'[Agent] + Pot(ViewOf[c], 0, amount)
                  <= committed[Agent] + Pot(ViewOf[c], PendingOf[c], amount)
    <3>1. CASE ViewOf[c] = Unread
      BY <1>1, <1>6, <2>1, <3>1 DEF Pot
    <3>2. CASE ViewOf[c] # Unread
      <4>1. PendingOf[c] = 0 /\ committed'[Agent] = committed[Agent]
        BY <1>1, <1>6, <2>1, <3>2
      <4>2. Pot(ViewOf[c], PendingOf[c], amount) \in Nat
        BY <1>1, <1>6, <2>3, PotFacts
      <4> QED
        BY <1>1, <4>1, <4>2
    <3> QED
      BY <3>1, <3>2
  <2>4. ViewOf[c] \in Nat \cup {Unread}
    BY <1>6
  <2> QED
    BY <1>1, <1>4, <1>5, <1>8, <2>1, <2>2, <2>3, <2>4, WithinOne
<1>12. ASSUME NEW c \in Runs, NEW size \in BuySizes, Own!Decide(c, size)
       PROVE  Within(richest, committed'[Agent], ViewOf', PendingOf')
  <2>1. /\ ViewOf[c] # Unread /\ size \in Nat
        /\ ViewOf' = [ViewOf EXCEPT ![c] = Unread]
        /\ PendingOf' = [PendingOf EXCEPT ![c] = size]
        /\ committed'[Agent] = committed[Agent]
    BY <1>12, OwnMapping, SizeType
  <2>2. PICK balance \in 0 .. richest : /\ size <= Own!APosition(balance)
                                        /\ ViewOf[c] + size <= Own!ADay(balance)
    BY <1>12, OwnMapping
  <2>3. ASSUME NEW amount \in Nat, amount >= richest
        PROVE  /\ size <= Own!APosition(amount)
               /\ ViewOf[c] + size <= Own!ADay(amount)
    <3>1. balance \in Nat /\ balance <= amount
      BY <1>1, <2>2, <2>3
    <3>2. /\ Own!ADay(balance) \in Nat /\ Own!APosition(balance) \in Nat
          /\ Own!ADay(amount) \in Nat /\ Own!APosition(amount) \in Nat
          /\ Own!ADay(balance) <= Own!ADay(amount)
          /\ Own!APosition(balance) <= Own!APosition(amount)
      BY <3>1, SharesGrow
    <3>3. ViewOf[c] \in Nat
      BY <1>6, <2>1
    <3> QED
      BY <2>1, <2>2, <3>2, <3>3
  <2>4. Modest(size, richest)
    <3>1. /\ size <= Own!APosition(richest)
          /\ ViewOf[c] + size <= Own!ADay(richest) /\ ViewOf[c] \in Nat
          /\ Own!ADay(richest) \in Nat
      BY <1>1, <1>6, <2>1, <2>3, RoomType
    <3> QED
      BY <2>1, <3>1 DEF Modest
  <2>5. ASSUME NEW amount \in Nat, amount >= richest
        PROVE  committed'[Agent] + Pot(Unread, size, amount)
                  <= committed[Agent] + Pot(ViewOf[c], PendingOf[c], amount)
    <3>1. /\ size <= Own!APosition(amount) /\ Own!APosition(amount) \in Nat
          /\ ViewOf[c] + size <= Own!ADay(amount) /\ Own!ADay(amount) \in Nat
          /\ ViewOf[c] \in Nat
      BY <1>6, <2>1, <2>3, <2>5, RoomType
    <3>2. /\ Pot(Unread, size, amount) = size
          /\ Pot(ViewOf[c], PendingOf[c], amount)
                = Smaller(Own!APosition(amount), ClampZero(Own!ADay(amount) - ViewOf[c]))
      BY <2>1 DEF Pot
    <3>3. size <= Smaller(Own!APosition(amount),
                          ClampZero(Own!ADay(amount) - ViewOf[c]))
      BY <2>1, <3>1 DEF Smaller, ClampZero
    <3>4. Pot(ViewOf[c], PendingOf[c], amount) \in Nat
      BY <1>1, <1>6, <2>5, PotFacts
    <3> QED
      BY <1>1, <2>1, <3>2, <3>3, <3>4
  <2> QED
    BY <1>1, <1>4, <1>5, <2>1, <2>4, <2>5, WithinOne
<1>13. CASE Own!Drift
  <2>1. /\ committed'[Agent] = committed[Agent]
        /\ ViewOf' = ViewOf /\ PendingOf' = PendingOf
    BY <1>13, OwnMapping
  <2> QED
    BY <1>5, <2>1
<1>14. CASE Own!NewDay
  <2>1. /\ committed'[Agent] = 0 /\ PendingOf' = PendingOf
        /\ ViewOf' = [c \in Runs |-> IF ViewOf[c] = Unread THEN Unread ELSE 0]
    BY <1>14, OwnMapping
  <2>2. Within(richest, 0, ViewOf', PendingOf)
    BY <1>1, <1>4, <1>5, <2>1, WithinNewDay
  <2> QED
    BY <2>1, <2>2
<1> QED
  BY <1>9, <1>10, <1>11, <1>12, <1>13, <1>14 DEF Own!Next

LEMMA DayStarts ==
  ASSUME ClientInit
  PROVE  DayInv
<1>1. /\ richest \in Nat /\ committed[Agent] = 0
      /\ \A c \in Runs : ViewOf[c] = Unread /\ PendingOf[c] = 0
  <2>1. Own!Init
    BY OwnStarts
  <2> QED
    BY <2>1, OwnMapping
<1>2. \A c \in Runs : Modest(PendingOf[c], richest)
  BY <1>1, RoomType DEF Modest
<1>3. ASSUME NEW amount \in Nat
      PROVE  0 + Sum(Pots(ViewOf, PendingOf, amount), Runs) <= Room(amount)
  <2> DEFINE f == Pots(ViewOf, PendingOf, amount)
  <2>1. \A c \in Runs : f[c] = 0
    BY <1>1 DEF Pots, Pot
  <2> HIDE DEF f
  <2>2. Sum(f, Runs) = 0
    BY <2>1, OthersType, SumOfZeros
  <2> QED
    BY <2>2, RoomType DEF f
<1> QED
  BY <1>1, <1>2, <1>3 DEF DayInv, Within

\* "A day's worth of risk" (sizing.js:24) is sized on three reads of three moments,
\* and the trade may land much later, beside those of other runs, when the agent
\* has gained or lost.  However that goes, together they overrun the client's own
\* day by at most one position for each run but one, both measured at the most the
\* agent has held.
THEOREM OverrunIsBounded ==
  ASSUME Skews = {0}
  PROVE  ClientSpec => []OverrunBounded
<1>1. ClientInit => DayInv
  BY DayStarts
<1>2. /\ DayInv /\ OwnInv /\ OwnInv' /\ HandsInv /\ HandsInv'
      /\ [ClientNext]_clientVars
      => DayInv'
  <2>1. ASSUME DayInv, UNCHANGED clientVars
        PROVE  DayInv'
    <3>1. UNCHANGED <<richest, committed, step, plan, seen, inflight, clock>>
      BY <2>1 DEF clientVars, attemptVars, tradingVars, registryVars
    <3>2. PendingOf' = PendingOf /\ ViewOf' = ViewOf
      BY <3>1 DEF PendingOf, Pending, ViewOf, View, CurrentDay
    <3> QED
      BY <2>1, <3>1, <3>2
         DEF DayInv, Within, Room, Others, Modest, Pots, Pot, Smaller, ClampZero,
             Own!ADay, Own!APosition, Own!Holding, Own!DailyAllowance, Own!PerTrade,
             Own!ShareOfTradable, Own!Tradable, Own!ClampZero
  <2> QED
    BY <2>1, OwnStep, DayStep DEF OwnInv
<1>3. OwnInv /\ DayInv => OverrunBounded
  <2> SUFFICES ASSUME ClientInv, DayInv
               PROVE  OverrunBounded
    BY DEF OwnInv
  <2>1. /\ committed[Agent] \in Nat /\ richest \in Nat /\ AttemptsOK
        /\ \A c \in Runs : Modest(PendingOf[c], richest)
    BY ClientFacts, AgentType DEF ClientInv, CountersOK, DayInv, Within
  <2>2. Sum(Pots(ViewOf, PendingOf, richest), Runs) \in Nat
    BY <2>1, HandsType, PotsFacts DEF HandsInv
  <2>3. committed[Agent] + Sum(Pots(ViewOf, PendingOf, richest), Runs) <= Room(richest)
    BY <2>1 DEF DayInv, Within
  <2>4. committed[Agent] <= Room(richest)
    BY <2>1, <2>2, <2>3, RoomType
  <2> QED
    BY <2>4 DEF Room, Others, OverrunBounded, Own!Bounded, Own!Cardinality, Cardinality
<1>4. OwnInv => HandsInv
  BY HandsType DEF OwnInv, ClientInv
<1> QED
  BY <1>1, <1>2, <1>3, <1>4, OwnInvariant, PTL DEF ClientSpec

-------------------------------------------------------------------------------
(***************************************************************************)
(* The chain's day, under the clients' own transactions.                   *)
(***************************************************************************)

LEMMA GovernsIsSetLimit ==
  ASSUME ClientInv, Governs
  PROVE  Budget!Next \/ UNCHANGED Budget!allowanceVars
<1>1. UNCHANGED <<clock, committed>>
  BY GovernsOnChain
<1>2. CASE agents' = agents
  BY <1>1, <1>2, AllowanceUntouched
<1>3. ASSUME NEW s \in Officials, NEW e \in BOOLEAN, NEW limit \in LimitArgs,
             SetAgent(s, Agent, e, limit, agents[Agent].reward_bps,
                      agents[Agent].fee_bps)
      PROVE  Budget!Next
  <2>1. /\ Registered(Agent)' /\ agents'[Agent].daily_limit = limit
        /\ \A w \in Wallets \ {Agent} : agents'[w] = agents[w]
        /\ Agent \in Wallets /\ limit \in U64
    BY <1>3, AgentChanged, AgentType, RouterAssumption
  <2>2. /\ LimitOf(Agent)' = limit
        /\ \A w \in Wallets \ {Agent} : LimitOf(w)' = LimitOf(w)
    BY <2>1 DEF LimitOf, Registered
  <2>3. LimitsOnRecord' = [LimitsOnRecord EXCEPT ![Agent] = limit]
    BY <2>2 DEF LimitsOnRecord
  <2>4. CurrentDay' = CurrentDay
    BY <1>1 DEF CurrentDay
  <2>5. Budget!SetLimit(Agent, limit)
    BY <1>1, <2>1, <2>3, <2>4, BudgetMapping
  <2> QED
    BY <2>1, <2>5, BudgetSteps
<1> QED
  BY <1>2, <1>3 DEF Governs, UpdateConfig, SetPaused

LEMMA ClientStepIsAllowed ==
  ASSUME ClientInv, [ClientNext]_clientVars
  PROVE  [Budget!Next]_(Budget!allowanceVars)
<1>1. CASE UNCHANGED clientVars
  BY <1>1, AllowanceUntouched DEF clientVars, tradingVars, registryVars
<1>2. ASSUME NEW c \in Runs, Working(c) \/ Untouched
      PROVE  UNCHANGED Budget!allowanceVars
  BY <1>2, AllowanceUntouched DEF Working, Untouched
<1>3. ASSUME NEW c \in Runs, Landing(c)
      PROVE  [Budget!Next]_(Budget!allowanceVars)
  <2>1. CASE Charged(Agent, inflight[c].size)
    BY <1>3, <2>1, ChargeIsSpend, AgentType, ClientFacts DEF Landing
  <2>2. CASE UNCHANGED <<agents, committed>>
    BY <1>3, <2>2, AllowanceUntouched DEF Landing
  <2> QED
    BY <1>3, <2>1, <2>2 DEF Landing
<1>4. CASE Governs
  BY <1>4, GovernsIsSetLimit
<1>5. CASE Graduates \/ Migrates
  <2>1. UNCHANGED <<clock, agents, committed>>
    BY <1>5, GraduatesOnChain, ChainRests DEF Graduates, Migrates
  <2> QED
    BY <2>1, AllowanceUntouched
<1>6. CASE Ages
  BY <1>6, PassTimeIsNewDay, ClientFacts DEF Ages
<1>7. CASE \E c \in Runs : Attempts(c) \/ Settles(c)
  BY <1>2, <1>3, <1>7, AttemptsWork, SettingOut, LandsIsLanding
     DEF Attempts, Settles
<1>8. CASE \E c \in Runs : \/ Expires(c) \/ BreaksOff(c)
                            \/ \E size \in BuySizes : BeginBuy(c, size)
  BY <1>2, <1>8, AttemptsWork, SettingOut
<1> QED
  BY <1>1, <1>4, <1>5, <1>6, <1>7, <1>8 DEF ClientNext

\* Whatever day their clocks show (sizing.js:61), and whatever is wrapped, traded
\* and closed in one transaction, the clients' trades are spent from the budget
\* of the chain (guards.rs:17): each within what its day still allows, and all of
\* it renewed at the chain's midnight, never at theirs.
THEOREM ClientsKeepAllowance == ClientSpec => AllowanceKept
<1> QED
  BY ClientStepIsAllowed, ClientInvariant, PTL DEF ClientSpec, AllowanceKept

-------------------------------------------------------------------------------
(***************************************************************************)
(* The terms the authority agreed, under the clients.                      *)
(***************************************************************************)

LEMMA GovernsKeepsTerms ==
  ASSUME ClientInv, RegistryInv, Governs
  PROVE  SharesAddUp' /\ FeesCapped'
<1>1. /\ config \in Config /\ config # NoConfig /\ RegistryTypeOK'
      /\ config.fee_bps <= MAX_FEE_BPS
  BY ClientFacts, GovernsOnChain
     DEF RegistryInv, FeesCapped, ChainKept, TradingInv, TradingTypeOK
<1>2. ASSUME NEW s \in Officials, NEW v \in Vaults, NEW cap \in CapArgs,
             UpdateConfig(s, config.treasury, v,
                [fee_bps |-> config.fee_bps, max_lamports_per_trade |-> cap,
                 default_daily_limit |-> config.default_daily_limit])
      PROVE  SharesAddUp' /\ FeesCapped'
  <2>1. config' # NoConfig /\ agents' = agents
    BY <1>2, VaultMoved
  <2>2. /\ config'.total_reward_bps = config.total_reward_bps
        /\ config'.fee_bps = config.fee_bps
    BY <1>1, <1>2 DEF UpdateConfig, Config
  <2>3. config' \in Config
    BY <1>1, <2>1 DEF RegistryTypeOK
  <2> QED
    BY <1>1, <2>1, <2>2, <2>3, ConfigOnlyInv
<1>3. ASSUME NEW s \in Officials, NEW p \in BOOLEAN, SetPaused(s, p)
      PROVE  SharesAddUp' /\ FeesCapped'
  BY <1>3, SetPausedInv
<1>4. ASSUME NEW s \in Officials, NEW e \in BOOLEAN, NEW limit \in LimitArgs,
             SetAgent(s, Agent, e, limit, agents[Agent].reward_bps,
                      agents[Agent].fee_bps)
      PROVE  SharesAddUp' /\ FeesCapped'
  <2>1. /\ limit \in U64 /\ Agent \in Wallets
        /\ agents[Agent].reward_bps \in U16 /\ agents[Agent].fee_bps \in U16
    BY ClientFacts, AgentType, RouterAssumption DEF AgentAuth
  <2> QED
    BY <1>4, <2>1, SetAgentInv
<1> QED
  BY <1>2, <1>3, <1>4 DEF Governs

LEMMA ClientKeepsTerms ==
  ASSUME ClientInv, RegistryInv, [ClientNext]_clientVars
  PROVE  RegistryInv'
<1>1. RegistryTypeOK' /\ TradingTypeOK
  BY ClientInductive DEF ClientInv, TradingInv, TradingTypeOK
<1>2. CASE UNCHANGED clientVars
  BY <1>1, <1>2, AgentsUntouchedInv
     DEF clientVars, tradingVars, registryVars, RegistryInv
<1>3. ASSUME NEW c \in Runs, Working(c) \/ (Setting(c) /\ Untouched)
      PROVE  RegistryInv'
  BY <1>1, <1>3, AgentsUntouchedInv DEF Working, Untouched, RegistryInv
<1>4. ASSUME NEW c \in Runs, Landing(c)
      PROVE  RegistryInv'
  BY <1>1, <1>4, ChargeKeepsTerms, AgentsUntouchedInv, AgentType
     DEF Landing, RegistryInv
<1>5. CASE Governs
  BY <1>1, <1>5, GovernsKeepsTerms DEF RegistryInv
<1>6. CASE Graduates \/ Migrates \/ Ages
  <2>1. UNCHANGED <<config, agents>>
    BY <1>6, GraduatesOnChain, ChainRests, AgesOnChain DEF Graduates, Migrates, Ages
  <2> QED
    BY <1>1, <2>1, AgentsUntouchedInv DEF RegistryInv
<1>7. CASE \E c \in Runs : Attempts(c) \/ Settles(c)
  BY <1>3, <1>4, <1>7, AttemptsWork, SettingOut, LandsIsLanding
     DEF Attempts, Settles
<1>8. CASE \E c \in Runs : \/ Expires(c) \/ BreaksOff(c)
                              \/ \E size \in BuySizes : BeginBuy(c, size)
  BY <1>3, <1>8, AttemptsWork, SettingOut
<1> QED
  BY <1>2, <1>5, <1>6, <1>7, <1>8 DEF ClientNext

\* scripts/init-mainnet.js has the program validate what it deploys.
LEMMA TermsAtDeployment ==
  ASSUME ClientInit
  PROVE  RegistryInv
<1>1. PICK s \in Officials, v \in Vaults, limit \in LimitArgs, args \in ConfigArgs :
        /\ Validate(args)
        /\ config = [authority |-> s, treasury |-> v, fee_vault |-> v,
                     fee_bps |-> args.fee_bps,
                     max_lamports_per_trade |-> args.max_lamports_per_trade,
                     default_daily_limit |-> args.default_daily_limit,
                     total_reward_bps |-> 0, paused |-> FALSE]
        /\ agents = [w \in Wallets |->
                        [daily_limit |-> limit, spent_today |-> 0, day |-> 0,
                         reward_bps |-> 0, fee_bps |-> args.fee_bps,
                         enabled |-> TRUE, authority_managed |-> TRUE]]
  BY DEF ClientInit, Deployed
<1>2. RegistryTypeOK /\ config # NoConfig
  BY ClientStarts DEF ClientInv, Standing, TradingInv, TradingTypeOK
<1>3. FeesCapped
  BY <1>1 DEF FeesCapped, Validate
<1>4. \A w \in Wallets : Shares[w] = 0
  BY <1>1 DEF Shares, ShareOf
<1>5. Sum(Shares, Wallets) = 0
  BY <1>4, WalletsFinite, SumOfZeros
<1>6. config.total_reward_bps = 0 /\ 0 <= BPS_DENOMINATOR
  BY <1>1, RouterAssumption DEF U64
<1> QED
  BY <1>2, <1>3, <1>5, <1>6 DEF RegistryInv, SharesAddUp, Sum

\* No trade of a client touches what the authority agreed, and no administration
\* beside it breaks the sum of the shares or the ceiling of the fees (state.rs:47).
THEOREM ClientsKeepTerms == ClientSpec => [](ClientInv /\ RegistryInv)
<1>1. ClientInit => ClientInv /\ RegistryInv
  BY TermsAtDeployment, ClientStarts
<1>2. ClientInv /\ RegistryInv /\ [ClientNext]_clientVars
         => ClientInv' /\ RegistryInv'
  BY ClientInductive, ClientKeepsTerms
<1> QED
  BY <1>1, <1>2, PTL DEF ClientSpec

-------------------------------------------------------------------------------
(***************************************************************************)
(* What a client's trade moves, and what it can cost.                      *)
(***************************************************************************)

\* One transaction wraps, trades and closes; the event, the vault and the wallet
\* see the same trade.
LEMMA AmmTradeMoves ==
  ASSUME TradingTypeOK, Registered(Agent), NEW vault \in Keys, NEW side \in Sides,
         NEW wrapped \in Nat, NEW quote \in Nat, NEW rent \in Nat,
         wsol[Agent] \in Nat, AmmTrade(vault, side, wrapped, quote, rent),
         Moved(side, wrapped, quote) \in Nat
  PROVE  /\ event'.agent = Agent /\ event'.side = side /\ event'.on_amm = TRUE
         /\ event'.quote_moved = Moved(side, wrapped, quote) /\ event'.fee_lamports = Fee(Agent, Moved(side, wrapped, quote))
         /\ Fee(Agent, Moved(side, wrapped, quote)) \in Nat
         /\ vault # Agent => lamports'[vault] = lamports[vault] + Fee(Agent, Moved(side, wrapped, quote))
         /\ lamports'[Agent] >=
               (((lamports[Agent] - ((wrapped - wsol[Agent]) + rent))
                    - Fee(Agent, Moved(side, wrapped, quote))) + quote) + TokenRent
         /\ wsol'[Agent] = NoAccount
<1> DEFINE moved == Moved(side, wrapped, quote)
           native == Debit(lamports, Agent, (wrapped - wsol[Agent]) + rent)
           fee == Fee(Agent, moved)
           paid == Move(native, Agent, vault, fee)
           back == -(quote + TokenRent)
<1>1. /\ Agent \in Keys /\ Agent \in Wallets /\ TokenRent \in Nat
      /\ RegistryTypeOK /\ (wrapped - wsol[Agent]) + rent \in Int /\ back \in Int
      /\ wsol \in [Wallets -> Nat \cup {NoAccount}]
  BY AgentType, ChainAssumption DEF TradingTypeOK
<1>2. /\ native \in [Keys -> Int]
      /\ native[Agent] = lamports[Agent] - ((wrapped - wsol[Agent]) + rent)
      /\ \A k \in Keys \ {Agent} : native[k] = lamports[k]
      /\ lamports[Agent] \in Nat
  BY <1>1, VenueTakes
<1>3. fee \in Nat
  BY <1>1, FeeType
<1>4. /\ lamports' = Debit(paid, Agent, back)
      /\ event' = [agent |-> Agent, side |-> side, on_amm |-> TRUE,
                   quote_moved |-> moved, fee_lamports |-> fee]
      /\ wsol' = [wsol EXCEPT ![Agent] = NoAccount]
  BY DEF AmmTrade, Emit, Commit, Fee
<1>5. /\ paid \in [Keys -> Int]
      /\ paid[Agent] >= native[Agent] - fee
      /\ vault # Agent => paid[vault] = native[vault] + fee
  <2> HIDE DEF native, fee
  <2> QED
    BY <1>1, <1>2, <1>3 DEF Move
<1>6. /\ lamports'[Agent] = paid[Agent] - back
      /\ vault # Agent => lamports'[vault] = paid[vault]
  <2> HIDE DEF paid, back
  <2> QED
    BY <1>1, <1>4, <1>5 DEF Debit
<1>7. native[Agent] \in Int /\ paid[Agent] \in Int
  BY <1>1, <1>2, <1>5
<1>8. lamports'[Agent] >= (((lamports[Agent] - ((wrapped - wsol[Agent]) + rent))
                              - fee) + quote) + TokenRent
  <2> DEFINE base == lamports[Agent] - ((wrapped - wsol[Agent]) + rent)
  <2>1. base \in Int /\ native[Agent] = base
    BY <1>1, <1>2, <1>7
  <2> HIDE DEF base, native, paid, fee
  <2>2. lamports'[Agent] >= ((base - fee) + quote) + TokenRent
    BY <1>1, <1>3, <1>5, <1>6, <1>7, <2>1
  <2> QED
    BY <2>2 DEF base
<1>9. vault # Agent => lamports'[vault] = lamports[vault] + fee
  BY <1>2, <1>5, <1>6
<1> QED
  BY <1>1, <1>3, <1>4, <1>8, <1>9

LEMMA AmmBuySettles ==
  ASSUME ClientInv, RegistryInv, ChainKept, NEW t \in Trade,
         NEW cost \in Amounts \ {0}, NEW rent \in {0, VenueRent},
         AmmBuy(t.fee_vault, t.size, cost, rent)
  PROVE  Agreed /\ Bounded
<1>1. /\ t.fee_vault \in Keys /\ t.fee_vault = config.fee_vault
      /\ wsol[Agent] # NoAccount
      /\ t.size \in Nat
  BY NamedVault, BuySizeType DEF AmmBuy, TradeAmmAccounts, TradeCurveAccounts
<1>2. cost \in Nat /\ rent \in Nat /\ cost <= t.size /\ "Buy" \in Sides
  BY TradingAssumption, RouterAssumption DEF U64, AmmBuy, Sides
<1>3. /\ wsol[Agent] = 0 /\ wsol[Agent] \in Nat
      /\ TokenRent \in Nat /\ NoAccount \notin Nat
  BY <1>1, ClientFacts, ChainAssumption
<1> DEFINE wrapped == wsol[Agent] + t.size
           quote == wsol[Agent] + t.size - cost
<1>4. /\ wrapped \in Nat /\ quote \in Nat
      /\ wrapped - wsol[Agent] = t.size /\ quote = t.size - cost
  BY <1>1, <1>2, <1>3
<1>5. cost = Moved("Buy", wrapped, quote)
  BY <1>1, <1>2, <1>3 DEF Moved, SaturatingSub
<1>6. AmmTrade(t.fee_vault, "Buy", wrapped, quote, rent)
  BY DEF AmmBuy
<1>7. Registered(Agent) /\ TradingTypeOK
  BY ClientFacts
<1> HIDE DEF wrapped, quote
<1>8. /\ event'.agent = Agent /\ event'.side = "Buy" /\ event'.on_amm = TRUE
      /\ event'.quote_moved = cost /\ event'.fee_lamports = Fee(Agent, cost)
      /\ Fee(Agent, cost) \in Nat
      /\ config.fee_vault # Agent =>
            lamports'[config.fee_vault] = lamports[config.fee_vault] + Fee(Agent, cost)
      /\ lamports'[Agent] >=
            (((lamports[Agent] - ((wrapped - wsol[Agent]) + rent))
                 - Fee(Agent, cost)) + quote) + TokenRent
      /\ wsol'[Agent] = NoAccount
  <2>1. /\ t.fee_vault \in Keys /\ "Buy" \in Sides /\ wsol[Agent] \in Nat
        /\ wrapped \in Nat /\ quote \in Nat /\ rent \in Nat
        /\ Moved("Buy", wrapped, quote) \in Nat
        /\ TradingTypeOK /\ Registered(Agent)
        /\ AmmTrade(t.fee_vault, "Buy", wrapped, quote, rent)
    BY <1>1, <1>2, <1>3, <1>4, <1>5, <1>6, <1>7
  <2>2. /\ event'.agent = Agent /\ event'.side = "Buy" /\ event'.on_amm = TRUE
        /\ wsol'[Agent] = NoAccount
    BY <2>1, AmmTradeMoves
  <2>3. event'.quote_moved = Moved("Buy", wrapped, quote)
    BY <2>1, AmmTradeMoves
  <2>4. /\ event'.fee_lamports = Fee(Agent, Moved("Buy", wrapped, quote))
        /\ Fee(Agent, Moved("Buy", wrapped, quote)) \in Nat
    BY <2>1, AmmTradeMoves
  <2>5. t.fee_vault # Agent =>
           lamports'[t.fee_vault] = lamports[t.fee_vault] + Fee(Agent, Moved("Buy", wrapped, quote))
    BY <2>1, AmmTradeMoves
  <2>6. lamports'[Agent] >=
           (((lamports[Agent] - ((wrapped - wsol[Agent]) + rent))
                - Fee(Agent, Moved("Buy", wrapped, quote))) + quote) + TokenRent
    BY <2>1, AmmTradeMoves
  <2> QED
    BY <1>1, <1>5, <2>2, <2>3, <2>4, <2>5, <2>6
<1>9. /\ reserves'.pool = reserves.pool + cost /\ reserves'.rent = reserves.rent + rent
      /\ reserves.pool \in Nat /\ reserves.rent \in Nat
  BY <1>7, ReservesType DEF AmmBuy, Reserves
<1>10. VenueGain(TRUE) = cost
  BY <1>2, <1>9 DEF VenueGain
<1>11. Agreed
  BY <1>8, <1>10 DEF Agreed, Fee
<1>12. /\ committed'[Agent] = committed[Agent] + t.size
       /\ committed[Agent] \in Nat /\ lamports[Agent] \in Nat
       /\ lamports'[Agent] \in Nat
  BY ClientFacts, AgentType
     DEF AmmBuy, CheckBuy, ChainKept, TradingInv, TradingTypeOK, RegistryTypeOK,
         ChainTypeOK
<1> DEFINE out == cost + rent
           granted == t.size + rent
           fee == Fee(Agent, cost)
<1>13. Holdings(Agent) = lamports[Agent] /\ Holdings(Agent)' = lamports'[Agent]
  BY <1>3, <1>8, <1>12 DEF Holdings
<1>14. lamports'[Agent] >= (lamports[Agent] - out) - fee
  <2> HIDE DEF fee
  <2>1. fee \in Nat
    BY <1>8 DEF fee
  <2>2. lamports'[Agent] >=
            (((lamports[Agent] - (t.size + rent)) - fee) + (t.size - cost)) + TokenRent
    BY <1>4, <1>8 DEF fee
  <2> QED
    BY <1>1, <1>2, <1>3, <1>12, <2>1, <2>2
<1>15. /\ out \in Nat /\ granted \in Nat /\ out <= granted /\ cost <= out
       /\ granted = (committed'[Agent] - committed[Agent])
                       + (reserves'.rent - reserves.rent)
  BY <1>1, <1>2, <1>9, <1>12
<1>16. Holdings(Agent)' >= (Holdings(Agent) - out) - Fee(Agent, cost)
  BY <1>13, <1>14
<1> HIDE DEF out, granted, fee
<1>17. Bounded
  BY <1>2, <1>7, <1>8, <1>15, <1>16, AgentType, ClientFacts, WithinGrant
     DEF ChainKept, TradingInv
<1> QED
  BY <1>11, <1>17

LEMMA AmmSellSettles ==
  ASSUME ClientInv, RegistryInv, ChainKept, NEW t \in Trade,
         NEW amount \in Amounts, AmmSell(t.fee_vault, amount)
  PROVE  Agreed /\ Bounded
<1>1. /\ t.fee_vault \in Keys /\ t.fee_vault = config.fee_vault
      /\ wsol[Agent] # NoAccount
  BY NamedVault DEF AmmSell, TradeAmmAccounts, TradeCurveAccounts
<1>2. amount \in Nat /\ "Sell" \in Sides /\ 0 \in Nat
  BY TradingAssumption, RouterAssumption DEF U64, Sides
<1>3. /\ wsol[Agent] = 0 /\ wsol[Agent] \in Nat
      /\ TokenRent \in Nat /\ NoAccount \notin Nat
  BY <1>1, ClientFacts, ChainAssumption
<1> DEFINE quote == wsol[Agent] + amount
<1>4. quote \in Nat /\ quote = amount
  BY <1>2, <1>3
<1>5. amount = Moved("Sell", wsol[Agent], quote)
  BY <1>2, <1>3 DEF Moved, SaturatingSub
<1>6. AmmTrade(t.fee_vault, "Sell", wsol[Agent], quote, 0)
  BY DEF AmmSell
<1>7. Registered(Agent) /\ TradingTypeOK
  BY ClientFacts
<1> HIDE DEF quote
<1>8. /\ event'.agent = Agent /\ event'.side = "Sell" /\ event'.on_amm = TRUE
      /\ event'.quote_moved = amount /\ event'.fee_lamports = Fee(Agent, amount)
      /\ Fee(Agent, amount) \in Nat
      /\ config.fee_vault # Agent =>
            lamports'[config.fee_vault] = lamports[config.fee_vault] + Fee(Agent, amount)
      /\ lamports'[Agent] >=
            (((lamports[Agent] - ((wsol[Agent] - wsol[Agent]) + 0))
                 - Fee(Agent, amount)) + quote) + TokenRent
      /\ wsol'[Agent] = NoAccount
  <2>1. /\ t.fee_vault \in Keys /\ "Sell" \in Sides /\ wsol[Agent] \in Nat
        /\ wsol[Agent] \in Nat /\ quote \in Nat /\ 0 \in Nat
        /\ Moved("Sell", wsol[Agent], quote) \in Nat
        /\ TradingTypeOK /\ Registered(Agent)
        /\ AmmTrade(t.fee_vault, "Sell", wsol[Agent], quote, 0)
    BY <1>1, <1>2, <1>3, <1>4, <1>5, <1>6, <1>7
  <2>2. /\ event'.agent = Agent /\ event'.side = "Sell" /\ event'.on_amm = TRUE
        /\ wsol'[Agent] = NoAccount
    BY <2>1, AmmTradeMoves
  <2>3. event'.quote_moved = Moved("Sell", wsol[Agent], quote)
    BY <2>1, AmmTradeMoves
  <2>4. /\ event'.fee_lamports = Fee(Agent, Moved("Sell", wsol[Agent], quote))
        /\ Fee(Agent, Moved("Sell", wsol[Agent], quote)) \in Nat
    BY <2>1, AmmTradeMoves
  <2>5. t.fee_vault # Agent =>
           lamports'[t.fee_vault] = lamports[t.fee_vault] + Fee(Agent, Moved("Sell", wsol[Agent], quote))
    BY <2>1, AmmTradeMoves
  <2>6. lamports'[Agent] >=
           (((lamports[Agent] - ((wsol[Agent] - wsol[Agent]) + 0))
                - Fee(Agent, Moved("Sell", wsol[Agent], quote))) + quote) + TokenRent
    BY <2>1, AmmTradeMoves
  <2> QED
    BY <1>1, <1>5, <2>2, <2>3, <2>4, <2>5, <2>6
<1>9. /\ reserves'.pool = reserves.pool - amount /\ reserves'.rent = reserves.rent
      /\ reserves.pool \in Nat /\ reserves.rent \in Nat
  BY <1>7, ReservesType DEF AmmSell, Reserves
<1>10. amount = - VenueGain(TRUE)
  BY <1>2, <1>9 DEF VenueGain
<1>11. Agreed
  BY <1>8, <1>10 DEF Agreed, Fee
<1>12. /\ committed' = committed /\ committed[Agent] \in Nat
       /\ lamports[Agent] \in Nat /\ lamports'[Agent] \in Nat
  BY ClientFacts, AgentType
     DEF AmmSell, ChainKept, TradingInv, TradingTypeOK, RegistryTypeOK, ChainTypeOK
<1>13. Holdings(Agent) = lamports[Agent] /\ Holdings(Agent)' = lamports'[Agent]
  BY <1>3, <1>8, <1>12 DEF Holdings
<1>14. /\ Holdings(Agent)' >= (Holdings(Agent) + amount) - Fee(Agent, amount)
       /\ Holdings(Agent)' >= (Holdings(Agent) - 0) - Fee(Agent, amount)
  BY <1>2, <1>3, <1>4, <1>8, <1>12, <1>13
<1>15. 0 = (committed'[Agent] - committed[Agent]) + (reserves'.rent - reserves.rent)
  BY <1>9, <1>12
<1>16. Bounded
  BY <1>2, <1>7, <1>8, <1>14, <1>15, AgentType, ClientFacts, WithinGrant
     DEF ChainKept, TradingInv
<1> QED
  BY <1>11, <1>16

\* On the curve a client's trade is one of the program's, in a transaction alone.
LEMMA CurveTradeSettles ==
  ASSUME ClientInv, RegistryInv, NEW t \in Trade,
         \/ \E cost \in Amounts \ {0}, rent \in {0, VenueRent} :
               Buy(Agent, Agent, t.fee_vault, t.size, cost, rent)
         \/ \E out \in Amounts : Sell(Agent, Agent, t.fee_vault, out)
  PROVE  Agreed /\ Bounded
<1>1. TradeStep
  <2>1. t.fee_vault \in Vaults /\ Agent \in Wallets
    BY NamedVault, AgentType DEF Buy, Sell
  <2>2. CASE \E cost \in Amounts \ {0}, rent \in {0, VenueRent} :
                Buy(Agent, Agent, t.fee_vault, t.size, cost, rent)
    <3>1. t.size \in Amounts
      BY <2>2, BuySizeType DEF Buy
    <3> QED
      BY <2>1, <2>2, <3>1 DEF TradeStep
  <2>3. CASE \E out \in Amounts : Sell(Agent, Agent, t.fee_vault, out)
    BY <2>1, <2>3 DEF TradeStep
  <2> QED
    BY <2>2, <2>3
<1> QED
  BY <1>1, ClientFacts, TradeStepAgrees, TradeStepBounded

LEMMA ClientTradeSettles ==
  ASSUME ClientInv, RegistryInv, NEW c \in Runs, Lands(c)
  PROVE  Agreed /\ Bounded
<1>1. inflight[c] \in Trade /\ Executes(inflight[c])
  BY DEF Lands, ClientInv, AttemptsOK
<1>2. ChainKept
  BY LandsIsLanding
<1> QED
  BY <1>1, <1>2, AmmBuySettles, AmmSellSettles, CurveTradeSettles DEF Executes

\* Only a landing trade leaves an event behind.
LEMMA OtherwiseQuiet ==
  ASSUME ClientInv, [ClientNext]_clientVars, ~ \E c \in Runs : Lands(c)
  PROVE  event' = NoEvent \/ UNCHANGED tradingVars
BY DEF ClientNext, Attempts, Settles, BeginSell, BeginBuy, Begin, ReadLimits,
       AssertWithinBudget, ReadCurve, ReadPool,
       FeeVault, Build, Prep, PrepFails, SimulateAndSend, Fails, Expires, BreaksOff,
       chainUnchanged, Governs, Graduates, Graduate, Migrates, Ages, PassTime,
       clientVars

LEMMA ClientTradesAgree ==
  ASSUME ClientInv, RegistryInv, [ClientNext]_clientVars
  PROVE  [Trades => Agreed]_tradingVars /\ [Trades => Bounded]_tradingVars
<1>1. CASE \E c \in Runs : Lands(c)
  BY <1>1, ClientTradeSettles
<1>2. CASE ~ \E c \in Runs : Lands(c)
  BY <1>2, OtherwiseQuiet DEF Trades
<1> QED
  BY <1>1, <1>2

\* A client wraps, trades and closes in one transaction (trade.js:178), at
\* whatever price and rate: the event says what the venue saw move, and the vault
\* received the fee on exactly that.
THEOREM ClientTradesSettle == ClientSpec => TradeSettles
<1> QED
  BY ClientTradesAgree, ClientsKeepTerms, PTL DEF ClientSpec, TradeSettles, Agreed

\* And what the transaction takes from the agent, rents and slippage returned, is
\* within the budget it was charged, the rent of one venue account and the hard
\* ceiling of the fee on both (state.rs:17); a sale costs nothing.
THEOREM ClientLossesAreBounded == ClientSpec => LossBounded
<1> QED
  BY ClientTradesAgree, ClientsKeepTerms, PTL DEF ClientSpec, LossBounded, Bounded

===============================================================================
