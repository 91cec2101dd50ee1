----------------------------- MODULE TradingProofs -----------------------------
(***************************************************************************)
(* Trading for every set of wallets, every limit, width and length of a    *)
(* day.  The record of the day is rolled lazily; that this cannot be told  *)
(* from the eager Allowance rests on an invariant of three parts: types,   *)
(* the record telling what was committed today, and no record being dated  *)
(* in the future, without which a new day could find one dated to it.      *)
(***************************************************************************)
EXTENDS BuyWindow, RegistryProofs

RecordsNotAhead ==
    \A w \in Wallets : Registered(w) => agents[w].day <= CurrentDay

TradingInv == TradingTypeOK /\ BudgetOnRecord /\ RecordsNotAhead

\* What the program has on record for w today, registered or not.
OnRecord(w) == IF Registered(w) THEN SpentToday(w) ELSE 0

LimitOf(w) == IF Registered(w) THEN agents[w].daily_limit ELSE NoAgent

-------------------------------------------------------------------------------
(***************************************************************************)
(* Days.                                                                   *)
(***************************************************************************)

LEMMA NextDay ==
  ASSUME ChainTypeOK, Tick
  PROVE  CurrentDay' \in {CurrentDay, CurrentDay + 1}
<1>1. clock \in Nat /\ clock' = clock + 1 /\ SECONDS_PER_DAY \in Nat \ {0}
  BY ChainAssumption, RouterAssumption DEF ChainTypeOK, Tick
<1> QED
  BY <1>1, NextSecond DEF CurrentDay

-------------------------------------------------------------------------------
(***************************************************************************)
(* The operators the trades are built from.                                *)
(***************************************************************************)

LEMMA SpentTodayType ==
  ASSUME RegistryTypeOK, NEW w \in Wallets, Registered(w)
  PROVE  /\ agents[w] \in AgentAuth
         /\ SpentToday(w) \in U64 /\ SpentToday(w) \in Nat
         /\ agents[w].fee_bps \in Nat
<1>1. agents[w] \in AgentAuth
  BY DEF RegistryTypeOK, Registered
<1>2. SpentToday(w) \in U64
  BY <1>1, RouterAssumption DEF SpentToday, AgentAuth, U64
<1> QED
  BY <1>1, <1>2 DEF AgentAuth, U16, U64

\* A charge writes today's record of one agent, and nothing else.
LEMMA ChargeFacts ==
  ASSUME RegistryTypeOK, NEW w \in Wallets, Registered(w), NEW amount \in Nat,
         ChargeDailyBudget(w, amount)
  PROVE  /\ agents' \in [Wallets -> AgentAuth \cup {NoAgent}]
         /\ agents'[w] \in AgentAuth
         /\ agents'[w].day = CurrentDay
         /\ agents'[w].spent_today = SpentToday(w) + amount
         /\ agents'[w].daily_limit = agents[w].daily_limit
         /\ SpentToday(w) + amount <= agents[w].daily_limit
         /\ \A v \in Wallets \ {w} : agents'[v] = agents[v]
<1>1. agents[w] \in AgentAuth /\ SpentToday(w) \in Nat
  BY SpentTodayType
<1>2. SpentToday(w) + amount \in U64
  BY <1>1, RouterAssumption DEF ChargeDailyBudget, U64
<1>3. CurrentDay \in Nat
  BY CurrentDayType DEF RegistryTypeOK, ChainTypeOK
<1>4. agents' = [agents EXCEPT ![w].day = CurrentDay,
                               ![w].spent_today = SpentToday(w) + amount]
  BY DEF ChargeDailyBudget
<1>5. SpentToday(w) + amount <= agents[w].daily_limit
  BY DEF ChargeDailyBudget
<1> QED
  BY <1>1, <1>2, <1>3, <1>4, <1>5 DEF RegistryTypeOK, AgentAuth

LEMMA BpsOfType ==
  ASSUME NEW amount \in Nat, NEW bps \in Nat
  PROVE  BpsOf(amount, bps) \in Nat
<1>1. amount * bps \in Nat /\ BPS_DENOMINATOR \in Nat \ {0}
  BY RouterAssumption DEF U64
<1> QED
  BY <1>1 DEF BpsOf

LEMMA MovedType ==
  ASSUME NEW side \in Sides, NEW before \in Int, NEW after \in Int
  PROVE  Moved(side, before, after) \in Nat
BY DEF Moved, SaturatingSub

\* The fee leaves the agent for the vault; everybody else keeps what they have.
LEMMA TakeFeeFacts ==
  ASSUME NEW balances \in [Keys -> Int], NEW w \in Keys, NEW vault \in Keys,
         NEW fee \in Nat, TakeFee(balances, w, vault, fee)
  PROVE  /\ lamports' \in [Keys -> Nat]
         /\ \A k \in Keys \ {w} : lamports'[k] >= balances[k]
<1> DEFINE moved == Move(balances, w, vault, fee)
<1>1. moved \in [Keys -> Int]
  BY DEF Move
<1>2. Commit(moved)
  BY DEF TakeFee
<1>3. lamports' \in [Keys -> Nat]
  <2> HIDE DEF moved
  <2> QED
    BY <1>1, <1>2, CommitType
<1>4. \A k \in Keys \ {w} : moved[k] >= balances[k]
  BY DEF Move
<1> QED
  BY <1>2, <1>3, <1>4 DEF Commit

\* Every trade, on either venue, from the moment the venue has done its part.
LEMMA SettleCurveFacts ==
  ASSUME RegistryTypeOK, NEW w \in Wallets, Registered(w), NEW vault \in Keys,
         NEW side \in Sides, NEW balances \in [Keys -> Int],
         SettleCurve(w, vault, side, balances)
  PROVE  /\ lamports' \in [Keys -> Nat]
         /\ \A k \in Keys \ {w} : lamports'[k] >= balances[k]
         /\ event' \in TradeRouted /\ event'.agent = w
         /\ UNCHANGED <<config, clock, wsol, complete>>
<1> DEFINE moved == Moved(side, lamports[w], balances[w])
           fee == BpsOf(moved, agents[w].fee_bps)
<1>1. w \in Keys /\ lamports[w] \in Int /\ balances[w] \in Int
  BY RouterAssumption DEF RegistryTypeOK, ChainTypeOK
<1>2. moved \in Nat
  BY <1>1, MovedType
<1>3. fee \in Nat
  <2> HIDE DEF moved
  <2> QED
    BY <1>2, BpsOfType, SpentTodayType
<1>4. /\ TakeFee(balances, w, vault, fee)
      /\ Emit(w, side, FALSE, moved, fee)
      /\ UNCHANGED <<config, clock, wsol, complete>>
  BY DEF SettleCurve
<1> HIDE DEF moved, fee
<1>5. event' \in TradeRouted /\ event'.agent = w
  BY <1>2, <1>3, <1>4 DEF Emit, TradeRouted
<1> QED
  BY <1>1, <1>3, <1>4, <1>5, TakeFeeFacts

LEMMA SettleAmmFacts ==
  ASSUME RegistryTypeOK, NEW w \in Wallets, Registered(w), NEW vault \in Keys,
         NEW side \in Sides, NEW balances \in [Keys -> Int],
         wsol \in [Wallets -> Nat \cup {NoAccount}], wsol[w] # NoAccount,
         NEW quote \in Nat, SettleAmm(w, vault, side, balances, quote)
  PROVE  /\ lamports' \in [Keys -> Nat]
         /\ \A k \in Keys \ {w} : lamports'[k] >= balances[k]
         /\ event' \in TradeRouted /\ event'.agent = w
         /\ wsol' \in [Wallets -> Nat \cup {NoAccount}]
         /\ \A v \in Wallets \ {w} : wsol'[v] = wsol[v]
         /\ UNCHANGED <<config, clock, complete>>
<1> DEFINE moved == Moved(side, wsol[w], quote)
           fee == BpsOf(moved, agents[w].fee_bps)
<1>1. w \in Keys /\ wsol[w] \in Int /\ quote \in Int
  BY RouterAssumption
<1>2. moved \in Nat
  BY <1>1, MovedType
<1>3. fee \in Nat
  <2> HIDE DEF moved
  <2> QED
    BY <1>2, BpsOfType, SpentTodayType
<1>4. /\ TakeFee(balances, w, vault, fee)
      /\ Emit(w, side, TRUE, moved, fee)
      /\ wsol' = [wsol EXCEPT ![w] = quote]
      /\ UNCHANGED <<config, clock, complete>>
  BY DEF SettleAmm
<1> HIDE DEF moved, fee
<1>5. event' \in TradeRouted /\ event'.agent = w
  BY <1>2, <1>3, <1>4 DEF Emit, TradeRouted
<1>6. /\ wsol' \in [Wallets -> Nat \cup {NoAccount}]
      /\ \A v \in Wallets \ {w} : wsol'[v] = wsol[v]
  BY <1>4
<1> QED
  BY <1>1, <1>3, <1>4, <1>5, <1>6, TakeFeeFacts

-------------------------------------------------------------------------------
(***************************************************************************)
(* The trades.  OwnTrade is what each of them leaves alone, Charged what a *)
(* buy does to the budget.                                                 *)
(***************************************************************************)

OwnTrade(s) ==
    /\ signer' = s /\ event' \in TradeRouted /\ event'.agent = s
    /\ UNCHANGED <<config, clock>>
    /\ \A v \in Wallets \ {s} : /\ agents'[v] = agents[v]
                                /\ wsol'[v] = wsol[v]
                                /\ lamports'[v] >= lamports[v]
    /\ \A k \in Keys \ {s} : lamports'[k] >= lamports[k]

Charged(s, ceiling) ==
    /\ Registered(s)
    /\ ceiling \in U64 \ {0}
    /\ ChargeDailyBudget(s, ceiling)
    /\ committed' = [committed EXCEPT ![s] = @ + ceiling]

LEMMA InputsType ==
  ASSUME NEW s \in Wallets, NEW vault \in Vaults, NEW amount \in Amounts,
         NEW rent \in {0, VenueRent}
  PROVE  /\ s \in Keys /\ vault \in Keys
         /\ amount \in U64 /\ amount \in Nat /\ rent \in Nat
BY RouterAssumption, TradingAssumption DEF U64

\* What a charge does to the types.
LEMMA ChargedType ==
  ASSUME TradingTypeOK, NEW s \in Wallets, NEW ceiling, Charged(s, ceiling)
  PROVE  /\ agents' \in [Wallets -> AgentAuth \cup {NoAgent}]
         /\ committed' \in [Wallets -> Nat]
         /\ \A v \in Wallets \ {s} : agents'[v] = agents[v]
<1>1. ceiling \in Nat /\ RegistryTypeOK
  BY RouterAssumption DEF Charged, U64, TradingTypeOK
<1>2. /\ agents' \in [Wallets -> AgentAuth \cup {NoAgent}]
      /\ \A v \in Wallets \ {s} : agents'[v] = agents[v]
  BY <1>1, ChargeFacts DEF Charged
<1>3. committed' \in [Wallets -> Nat]
  BY <1>1 DEF Charged, TradingTypeOK
<1> QED
  BY <1>2, <1>3

LEMMA BuyFacts ==
  ASSUME TradingTypeOK, NEW s \in Wallets, NEW w \in Wallets,
         NEW vault \in Vaults, NEW ceiling \in Amounts,
         NEW cost \in Amounts \ {0}, NEW rent \in {0, VenueRent},
         Buy(s, w, vault, ceiling, cost, rent)
  PROVE  TradingTypeOK' /\ OwnTrade(s) /\ Charged(s, ceiling)
<1> DEFINE balances == Debit(lamports, s, cost + rent)
<1>1. /\ s \in Keys /\ vault \in Keys /\ ceiling \in U64
      /\ cost \in Nat /\ rent \in Nat
  BY InputsType
<1>2. w = s /\ Registered(s) /\ signer' = s
  BY DEF Buy, TradeCurveAccounts
<1>3. Charged(s, ceiling)
  BY <1>1, <1>2, RouterAssumption DEF Buy, CheckBuy, Charged, U64
<1>4. RegistryTypeOK /\ "Buy" \in Sides
  BY DEF TradingTypeOK, Sides
<1>5. balances \in [Keys -> Int] /\ \A k \in Keys \ {s} : balances[k] = lamports[k]
  BY <1>1, <1>4 DEF RegistryTypeOK, ChainTypeOK, Debit
<1>6. SettleCurve(s, vault, "Buy", balances)
  BY DEF Buy
<1>7. /\ lamports' \in [Keys -> Nat]
      /\ \A k \in Keys \ {s} : lamports'[k] >= balances[k]
      /\ event' \in TradeRouted /\ event'.agent = s
      /\ UNCHANGED <<config, clock, wsol, complete>>
  <2> HIDE DEF balances
  <2> QED
    BY <1>1, <1>2, <1>4, <1>5, <1>6, SettleCurveFacts
<1>8. reserves' \in Reserves
  <2>1. reserves \in Reserves
    BY DEF TradingTypeOK
  <2>2. /\ reserves.curve + cost \in Nat /\ reserves.pool + cost \in Nat
        /\ reserves.rent + rent \in Nat
    BY <1>1, <2>1 DEF Reserves
  <2> QED
    BY <2>1, <2>2 DEF Buy, Reserves
<1>9. TradingTypeOK'
  BY <1>1, <1>2, <1>3, <1>7, <1>8, ChargedType
     DEF TradingTypeOK, RegistryTypeOK, ChainTypeOK
<1>10. OwnTrade(s)
  <2>1. \A v \in Wallets \ {s} : v \in Keys \ {s}
    BY RouterAssumption
  <2> HIDE DEF balances
  <2> QED
    BY <1>2, <1>3, <1>5, <1>7, <2>1, ChargedType DEF OwnTrade
<1> QED
  BY <1>3, <1>9, <1>10

LEMMA BuyAmmFacts ==
  ASSUME TradingTypeOK, NEW s \in Wallets, NEW w \in Wallets,
         NEW vault \in Vaults, NEW ceiling \in Amounts,
         NEW cost \in Amounts \ {0}, NEW rent \in {0, VenueRent},
         BuyAmm(s, w, vault, ceiling, cost, rent)
  PROVE  TradingTypeOK' /\ OwnTrade(s) /\ Charged(s, ceiling)
<1> DEFINE balances == Debit(lamports, s, rent)
           quote == wsol[s] - cost
<1>1. /\ s \in Keys /\ vault \in Keys /\ ceiling \in U64
      /\ cost \in Nat /\ rent \in Nat
  BY InputsType
<1>2. w = s /\ Registered(s) /\ signer' = s /\ wsol[s] # NoAccount
  BY DEF BuyAmm, TradeAmmAccounts, TradeCurveAccounts
<1>3. Charged(s, ceiling)
  BY <1>1, <1>2, RouterAssumption DEF BuyAmm, CheckBuy, Charged, U64
<1>4. /\ RegistryTypeOK /\ "Buy" \in Sides
      /\ wsol \in [Wallets -> Nat \cup {NoAccount}]
  BY DEF TradingTypeOK, Sides
<1>5. balances \in [Keys -> Int] /\ \A k \in Keys \ {s} : balances[k] = lamports[k]
  BY <1>1, <1>4 DEF RegistryTypeOK, ChainTypeOK, Debit
<1>6. SettleAmm(s, vault, "Buy", balances, quote) /\ quote \in Nat
  BY <1>1, <1>2, <1>4 DEF BuyAmm
<1>7. /\ lamports' \in [Keys -> Nat]
      /\ \A k \in Keys \ {s} : lamports'[k] >= balances[k]
      /\ event' \in TradeRouted /\ event'.agent = s
      /\ wsol' \in [Wallets -> Nat \cup {NoAccount}]
      /\ \A v \in Wallets \ {s} : wsol'[v] = wsol[v]
      /\ UNCHANGED <<config, clock, complete>>
  <2> HIDE DEF balances, quote
  <2> QED
    BY <1>1, <1>2, <1>4, <1>5, <1>6, SettleAmmFacts
<1>8. reserves' \in Reserves
  <2>1. reserves \in Reserves
    BY DEF TradingTypeOK
  <2>2. /\ reserves.curve + cost \in Nat /\ reserves.pool + cost \in Nat
        /\ reserves.rent + rent \in Nat
    BY <1>1, <2>1 DEF Reserves
  <2> QED
    BY <2>1, <2>2 DEF BuyAmm, Reserves
<1>9. TradingTypeOK'
  BY <1>1, <1>2, <1>3, <1>7, <1>8, ChargedType
     DEF TradingTypeOK, RegistryTypeOK, ChainTypeOK
<1>10. OwnTrade(s)
  <2>1. \A v \in Wallets \ {s} : v \in Keys \ {s}
    BY RouterAssumption
  <2> HIDE DEF balances, quote
  <2> QED
    BY <1>2, <1>3, <1>5, <1>7, <2>1, ChargedType DEF OwnTrade
<1> QED
  BY <1>3, <1>9, <1>10

LEMMA SellFacts ==
  ASSUME TradingTypeOK, NEW s \in Wallets, NEW w \in Wallets,
         NEW vault \in Vaults, NEW out \in Amounts, Sell(s, w, vault, out)
  PROVE  TradingTypeOK' /\ OwnTrade(s) /\ UNCHANGED <<agents, committed>>
<1> DEFINE balances == Debit(lamports, s, -out)
<1>1. s \in Keys /\ vault \in Keys /\ out \in Nat
  BY InputsType
<1>2. w = s /\ Registered(s) /\ signer' = s
  BY DEF Sell, TradeCurveAccounts
<1>3. UNCHANGED <<agents, committed>>
  BY DEF Sell
<1>4. RegistryTypeOK /\ "Sell" \in Sides
  BY DEF TradingTypeOK, Sides
<1>5. balances \in [Keys -> Int] /\ \A k \in Keys \ {s} : balances[k] = lamports[k]
  BY <1>1, <1>4 DEF RegistryTypeOK, ChainTypeOK, Debit
<1>6. SettleCurve(s, vault, "Sell", balances)
  BY DEF Sell
<1>7. /\ lamports' \in [Keys -> Nat]
      /\ \A k \in Keys \ {s} : lamports'[k] >= balances[k]
      /\ event' \in TradeRouted /\ event'.agent = s
      /\ UNCHANGED <<config, clock, wsol, complete>>
  <2> HIDE DEF balances
  <2> QED
    BY <1>1, <1>2, <1>4, <1>5, <1>6, SettleCurveFacts
<1>8. reserves' \in Reserves
  BY <1>1 DEF Sell, TradingTypeOK, Reserves
<1>9. TradingTypeOK'
  BY <1>1, <1>2, <1>3, <1>7, <1>8 DEF TradingTypeOK, RegistryTypeOK, ChainTypeOK
<1>10. OwnTrade(s)
  <2>1. \A v \in Wallets \ {s} : v \in Keys \ {s}
    BY RouterAssumption
  <2> HIDE DEF balances
  <2> QED
    BY <1>2, <1>3, <1>5, <1>7, <2>1 DEF OwnTrade
<1> QED
  BY <1>3, <1>9, <1>10

LEMMA SellAmmFacts ==
  ASSUME TradingTypeOK, NEW s \in Wallets, NEW w \in Wallets,
         NEW vault \in Vaults, NEW out \in Amounts, SellAmm(s, w, vault, out)
  PROVE  TradingTypeOK' /\ OwnTrade(s) /\ UNCHANGED <<agents, committed>>
<1> DEFINE quote == wsol[s] + out
<1>1. s \in Keys /\ vault \in Keys /\ out \in Nat
  BY InputsType
<1>2. w = s /\ Registered(s) /\ signer' = s /\ wsol[s] # NoAccount
  BY DEF SellAmm, TradeAmmAccounts, TradeCurveAccounts
<1>3. UNCHANGED <<agents, committed>>
  BY DEF SellAmm
<1>4. /\ RegistryTypeOK /\ "Sell" \in Sides
      /\ wsol \in [Wallets -> Nat \cup {NoAccount}]
      /\ lamports \in [Keys -> Int]
  BY DEF TradingTypeOK, Sides, RegistryTypeOK, ChainTypeOK
<1>5. SettleAmm(s, vault, "Sell", lamports, quote) /\ quote \in Nat
  BY <1>1, <1>2, <1>4 DEF SellAmm
<1>6. /\ lamports' \in [Keys -> Nat]
      /\ \A k \in Keys \ {s} : lamports'[k] >= lamports[k]
      /\ event' \in TradeRouted /\ event'.agent = s
      /\ wsol' \in [Wallets -> Nat \cup {NoAccount}]
      /\ \A v \in Wallets \ {s} : wsol'[v] = wsol[v]
      /\ UNCHANGED <<config, clock, complete>>
  <2> HIDE DEF quote
  <2> QED
    BY <1>1, <1>2, <1>4, <1>5, SettleAmmFacts
<1>7. reserves' \in Reserves
  BY <1>1 DEF SellAmm, TradingTypeOK, Reserves
<1>8. TradingTypeOK'
  BY <1>1, <1>2, <1>3, <1>6, <1>7 DEF TradingTypeOK, RegistryTypeOK, ChainTypeOK
<1>9. OwnTrade(s)
  <2>1. \A v \in Wallets \ {s} : v \in Keys \ {s}
    BY RouterAssumption
  <2> QED
    BY <1>2, <1>3, <1>6, <2>1 DEF OwnTrade
<1> QED
  BY <1>3, <1>8, <1>9

-------------------------------------------------------------------------------
(***************************************************************************)
(* The surroundings.                                                       *)
(***************************************************************************)

LEMMA WalletStepFacts ==
  ASSUME TradingTypeOK, WalletStep
  PROVE  /\ TradingTypeOK'
         /\ UNCHANGED <<clock, config, agents, committed>>
         /\ event' = NoEvent
<1>1. /\ lamports \in [Keys -> Nat]
      /\ wsol \in [Wallets -> Nat \cup {NoAccount}]
      /\ NoAccount \notin Nat /\ TokenRent \in Nat
  BY ChainAssumption DEF TradingTypeOK, RegistryTypeOK, ChainTypeOK
<1>2. PICK w \in Wallets : Unwrap(w) \/ \E amount \in Amounts : Wrap(w, amount)
  BY DEF WalletStep
<1>3. w \in Keys
  BY RouterAssumption
<1>4. ASSUME Unwrap(w)
      PROVE  lamports' \in [Keys -> Nat] /\ wsol' \in [Wallets -> Nat \cup {NoAccount}]
  <2>1. -(wsol[w] + TokenRent) \in Int
    BY <1>1, <1>4 DEF Unwrap
  <2>2. Debit(lamports, w, -(wsol[w] + TokenRent)) \in [Keys -> Int]
    BY <1>1, <1>3, <2>1, DebitType
  <2>3. lamports' \in [Keys -> Nat]
    BY <1>4, <2>2, CommitType DEF Unwrap
  <2> QED
    BY <1>1, <1>4, <2>3 DEF Unwrap
<1>5. ASSUME NEW amount \in Amounts, Wrap(w, amount)
      PROVE  lamports' \in [Keys -> Nat] /\ wsol' \in [Wallets -> Nat \cup {NoAccount}]
  <2>1. amount \in Nat
    BY TradingAssumption, RouterAssumption DEF U64
  <2>2. /\ Debit(lamports, w, amount) \in [Keys -> Int]
        /\ Debit(lamports, w, TokenRent + amount) \in [Keys -> Int]
    BY <1>1, <1>3, <2>1, DebitType
  <2>3. lamports' \in [Keys -> Nat]
    BY <1>5, <2>2, CommitType DEF Wrap
  <2> QED
    BY <1>1, <1>5, <2>1, <2>3 DEF Wrap
<1>6. lamports' \in [Keys -> Nat] /\ wsol' \in [Wallets -> Nat \cup {NoAccount}]
  BY <1>2, <1>4, <1>5
<1>7. /\ UNCHANGED <<clock, config, agents, reserves, complete, committed>>
      /\ signer' = w /\ event' = NoEvent
  BY <1>2 DEF Wrap, Unwrap
<1> QED
  BY <1>3, <1>6, <1>7 DEF TradingTypeOK, RegistryTypeOK, ChainTypeOK

LEMMA GraduateFacts ==
  ASSUME TradingTypeOK, Graduate
  PROVE  /\ TradingTypeOK'
         /\ UNCHANGED <<clock, config, agents, committed>>
         /\ event' = NoEvent
<1>1. reserves' \in Reserves
  <2>1. reserves \in Reserves
    BY DEF TradingTypeOK
  <2>2. reserves.pool + reserves.curve \in Nat
    BY <2>1 DEF Reserves
  <2> QED
    BY <2>1, <2>2 DEF Graduate, Reserves
<1> QED
  BY <1>1 DEF Graduate, TradingTypeOK, RegistryTypeOK, ChainTypeOK, chainVars

LEMMA AdministerType ==
  ASSUME TradingTypeOK, Administer
  PROVE  TradingTypeOK' /\ event' = NoEvent
<1>1. RegistryTypeOK'
  BY NextType DEF TradingTypeOK, Administer, RegistryNext
<1> QED
  BY <1>1 DEF Administer, TradingTypeOK, venueVars

LEMMA PassTimeType ==
  ASSUME TradingTypeOK, PassTime
  PROVE  TradingTypeOK' /\ event' = NoEvent
<1>1. RegistryTypeOK'
  BY TimePassesType DEF TradingTypeOK, PassTime
<1> QED
  BY <1>1 DEF PassTime, TradingTypeOK, venueVars

\* A trade, by its signer, that charges its budget or nothing.
LEMMA TradeStepFacts ==
  ASSUME TradingTypeOK, TradeStep
  PROVE  /\ TradingTypeOK'
         /\ \E s \in Wallets :
               /\ OwnTrade(s)
               /\ \/ \E ceiling \in Amounts : Charged(s, ceiling)
                  \/ UNCHANGED <<agents, committed>>
<1>1. PICK s \in Wallets, w \in Wallets, vault \in Vaults, amount \in Amounts :
        \/ \E cost \in Amounts \ {0}, rent \in {0, VenueRent} :
              \/ Buy(s, w, vault, amount, cost, rent)
              \/ BuyAmm(s, w, vault, amount, cost, rent)
        \/ Sell(s, w, vault, amount)
        \/ SellAmm(s, w, vault, amount)
  BY DEF TradeStep
<1>2. CASE \E cost \in Amounts \ {0}, rent \in {0, VenueRent} :
              \/ Buy(s, w, vault, amount, cost, rent)
              \/ BuyAmm(s, w, vault, amount, cost, rent)
  BY <1>2, BuyFacts, BuyAmmFacts
<1>3. CASE Sell(s, w, vault, amount) \/ SellAmm(s, w, vault, amount)
  BY <1>3, SellFacts, SellAmmFacts
<1> QED
  BY <1>1, <1>2, <1>3

LEMMA TradingNextType ==
  ASSUME TradingTypeOK, [TradingNext]_tradingVars
  PROVE  TradingTypeOK'
<1>1. CASE TradeStep
  BY <1>1, TradeStepFacts
<1>2. CASE WalletStep \/ Graduate
  BY <1>2, WalletStepFacts, GraduateFacts
<1>3. CASE Administer \/ PassTime
  BY <1>3, AdministerType, PassTimeType
<1>4. CASE UNCHANGED tradingVars
  BY <1>4 DEF tradingVars, registryVars, venueVars, TradingTypeOK, RegistryTypeOK,
              ChainTypeOK
<1> QED
  BY <1>1, <1>2, <1>3, <1>4 DEF TradingNext

LEMMA TradingInitType == TradingInit => TradingTypeOK
<1> SUFFICES ASSUME TradingInit PROVE TradingTypeOK
  OBVIOUS
<1>1. RegistryTypeOK
  BY InitType DEF TradingInit
<1>2. wsol \in [Wallets -> Nat \cup {NoAccount}] /\ committed \in [Wallets -> Nat]
  BY DEF TradingInit
<1>3. reserves \in Reserves /\ complete \in BOOLEAN /\ event = NoEvent
  BY TradingAssumption DEF TradingInit
<1> QED
  BY <1>1, <1>2, <1>3 DEF TradingTypeOK

\* Whatever is traded, wrapped, administered: balances stay natural numbers,
\* the record of the day fits its width, an event is well formed.
THEOREM TradingTypeCorrect == TradingSpec => []TradingTypeOK
<1> QED
  BY TradingInitType, TradingNextType, PTL DEF TradingSpec

-------------------------------------------------------------------------------
(***************************************************************************)
(* The record of the day.                                                  *)
(***************************************************************************)

\* The instructions of Registry change nobody's record of today, and date no
\* record ahead of today.
LEMMA AdministerKeepsRecord ==
  ASSUME RegistryTypeOK, RecordsNotAhead, ConfigStep \/ AgentStep
  PROVE  /\ clock' = clock
         /\ RecordsNotAhead'
         /\ \A w \in Wallets : OnRecord(w)' = OnRecord(w)
<1>1. CASE ConfigStep
  <2>1. clock' = clock /\ agents' = agents
    BY <1>1 DEF ConfigStep, Initialize, UpdateConfig, SetPaused, SetAuthority, chainVars
  <2> QED
    BY <2>1 DEF RecordsNotAhead, OnRecord, SpentToday, Registered, CurrentDay
<1>2. CASE AgentStep
  <2>1. PICK w \in Wallets, limit \in LimitArgs :
          \/ \E s \in Officials, share \in ShareArgs, fee \in FeeArgs :
                \/ RegisterAgent(s, w, limit, share, fee)
                \/ \E e \in BOOLEAN : SetAgent(s, w, e, limit, share, fee)
          \/ SelfRegister(w, limit)
          \/ SetOwnLimit(w, limit)
    BY <1>2 DEF AgentStep
  <2>2. clock' = clock /\ CurrentDay' = CurrentDay /\ CurrentDay \in Nat
    BY <2>1, CurrentDayType
       DEF RegisterAgent, SetAgent, SelfRegister, SetOwnLimit, chainVars,
           CurrentDay, RegistryTypeOK, ChainTypeOK
  <2>3. agents \in [Wallets -> AgentAuth \cup {NoAgent}]
    BY DEF RegistryTypeOK
  <2>4. \A v \in Wallets \ {w} : agents'[v] = agents[v]
    BY <2>1, <2>3 DEF RegisterAgent, SetAgent, SelfRegister, SetOwnLimit
  <2>5. \/ /\ ~ Registered(w)
           /\ agents'[w].spent_today = 0 /\ agents'[w].day = CurrentDay
        \/ /\ Registered(w) /\ Registered(w)'
           /\ agents'[w].spent_today = agents[w].spent_today
           /\ agents'[w].day = agents[w].day
    <3>0. /\ limit \in U64 /\ ShareArgs \subseteq U16 /\ FeeArgs \subseteq U16
          /\ NoAgent \notin AgentAuth
      BY RouterAssumption, SentinelAssumption
    <3>1. ASSUME Registered(w)
          PROVE  agents[w] \in AgentAuth
      BY <2>3, <3>1 DEF Registered
    <3>2. CASE \E s \in Officials, share \in ShareArgs, fee \in FeeArgs :
                  RegisterAgent(s, w, limit, share, fee)
      BY <2>3, <3>2 DEF RegisterAgent, RegisterAgentAccounts, InitAgentAuth, Registered
    <3>3. CASE \E s \in Officials, share \in ShareArgs, fee \in FeeArgs :
                  \E e \in BOOLEAN : SetAgent(s, w, e, limit, share, fee)
      <4>0. PICK s \in Officials, share \in ShareArgs, fee \in FeeArgs, e \in BOOLEAN :
                    SetAgent(s, w, e, limit, share, fee)
        BY <3>3
      <4>1. agents[w] \in AgentAuth /\ Registered(w)
        BY <3>1, <4>0 DEF SetAgent
      <4>2. /\ agents'[w] \in AgentAuth
            /\ agents'[w].spent_today = agents[w].spent_today
            /\ agents'[w].day = agents[w].day
        <5>1. share \in U16 /\ fee \in U16
          BY <3>0
        <5>2. agents' = [agents EXCEPT ![w].enabled = e, ![w].daily_limit = limit,
                                       ![w].reward_bps = share, ![w].fee_bps = fee]
          BY <4>0 DEF SetAgent
        <5> QED
          BY <2>3, <3>0, <4>1, <5>1, <5>2 DEF AgentAuth
      <4> QED
        BY <3>0, <4>1, <4>2 DEF Registered
    <3>4. CASE SelfRegister(w, limit)
      BY <2>3, <3>4 DEF SelfRegister, SelfRegisterAccounts, InitAgentAuth, Registered
    <3>5. CASE SetOwnLimit(w, limit)
      <4>1. agents[w] \in AgentAuth /\ Registered(w)
        BY <3>1, <3>5 DEF SetOwnLimit, SetOwnLimitAccounts
      <4>2. /\ agents'[w] \in AgentAuth
            /\ agents'[w].spent_today = agents[w].spent_today
            /\ agents'[w].day = agents[w].day
        BY <2>3, <3>0, <3>5, <4>1 DEF SetOwnLimit, AgentAuth
      <4> QED
        BY <3>0, <4>1, <4>2 DEF Registered
    <3> QED
      BY <2>1, <3>2, <3>3, <3>4, <3>5
  <2>6. OnRecord(w)' = OnRecord(w)
    BY <2>2, <2>5 DEF OnRecord, SpentToday, Registered
  <2>7. \A v \in Wallets \ {w} : OnRecord(v)' = OnRecord(v)
    BY <2>2, <2>4 DEF OnRecord, SpentToday, Registered
  <2>8. RecordsNotAhead'
    BY <2>2, <2>4, <2>5 DEF RecordsNotAhead, Registered
  <2> QED
    BY <2>2, <2>6, <2>7, <2>8
<1> QED
  BY <1>1, <1>2

\* A charge dates the record to today and adds what it committed.
LEMMA ChargedKeepsRecord ==
  ASSUME TradingInv, clock' = clock, NEW s \in Wallets, NEW ceiling,
         Charged(s, ceiling)
  PROVE  BudgetOnRecord' /\ RecordsNotAhead'
<1>1. ceiling \in Nat /\ RegistryTypeOK /\ Registered(s)
  BY RouterAssumption DEF Charged, U64, TradingInv, TradingTypeOK
<1>2. /\ agents'[s] \in AgentAuth
      /\ agents'[s].day = CurrentDay
      /\ agents'[s].spent_today = SpentToday(s) + ceiling
      /\ \A v \in Wallets \ {s} : agents'[v] = agents[v]
  BY <1>1, ChargeFacts DEF Charged
<1>3. Registered(s)'
  BY <1>2, SentinelAssumption DEF Registered
<1>4. CurrentDay' = CurrentDay /\ CurrentDay \in Nat
  BY <1>1, CurrentDayType DEF CurrentDay, RegistryTypeOK, ChainTypeOK
<1>5. /\ committed'[s] = committed[s] + ceiling
      /\ \A v \in Wallets \ {s} : committed'[v] = committed[v]
  BY DEF Charged, TradingInv, TradingTypeOK
<1>6. committed[s] = SpentToday(s)
  BY <1>1 DEF TradingInv, BudgetOnRecord
<1>7. committed'[s] = SpentToday(s)'
  BY <1>2, <1>4, <1>5, <1>6 DEF SpentToday
<1>8. \A v \in Wallets \ {s} : /\ Registered(v)' = Registered(v)
                               /\ SpentToday(v)' = SpentToday(v)
                               /\ agents'[v].day = agents[v].day
  BY <1>2, <1>4 DEF Registered, SpentToday
<1>9. BudgetOnRecord'
  BY <1>3, <1>5, <1>7, <1>8 DEF TradingInv, BudgetOnRecord
<1>10. RecordsNotAhead'
  BY <1>2, <1>4, <1>8 DEF TradingInv, RecordsNotAhead
<1> QED
  BY <1>9, <1>10

\* Nothing changes that the two speak of.
LEMMA RecordUntouched ==
  ASSUME TradingInv, UNCHANGED <<clock, agents, committed>>
  PROVE  BudgetOnRecord' /\ RecordsNotAhead'
BY DEF TradingInv, BudgetOnRecord, RecordsNotAhead, Registered, SpentToday, CurrentDay

\* Midnight: no record can be dated to the new day, so all of them read zero.
LEMMA PassTimeKeepsRecord ==
  ASSUME TradingInv, PassTime
  PROVE  BudgetOnRecord' /\ RecordsNotAhead'
<1>1. ChainTypeOK /\ RegistryTypeOK
  BY DEF TradingInv, TradingTypeOK, RegistryTypeOK
<1>2. /\ CurrentDay \in Nat /\ agents' = agents
      /\ CurrentDay' \in {CurrentDay, CurrentDay + 1}
  BY <1>1, NextDay, CurrentDayType DEF PassTime, TimePasses, ChainTypeOK
<1>3. ASSUME NEW w \in Wallets, Registered(w)
      PROVE  agents[w].day \in Nat /\ agents[w].day <= CurrentDay
  BY <1>1, <1>3, SpentTodayType DEF TradingInv, RecordsNotAhead, AgentAuth
<1>4. RecordsNotAhead'
  BY <1>2, <1>3 DEF RecordsNotAhead, Registered
<1>5. CASE CurrentDay' = CurrentDay
  <2>1. committed' = committed
    BY <1>5 DEF PassTime
  <2> QED
    BY <1>2, <1>4, <1>5, <2>1 DEF TradingInv, BudgetOnRecord, Registered, SpentToday
<1>6. CASE CurrentDay' = CurrentDay + 1
  <2>1. committed' = [w \in Wallets |-> 0]
    BY <1>2, <1>6 DEF PassTime
  <2>2. \A w \in Wallets : Registered(w) => agents[w].day # CurrentDay'
    BY <1>2, <1>3, <1>6
  <2> QED
    BY <1>2, <1>4, <2>1, <2>2 DEF BudgetOnRecord, Registered, SpentToday
<1> QED
  BY <1>2, <1>5, <1>6

LEMMA AdministerKeepsBudget ==
  ASSUME TradingInv, Administer
  PROVE  BudgetOnRecord' /\ RecordsNotAhead'
<1>1. /\ RecordsNotAhead'
      /\ \A w \in Wallets : OnRecord(w)' = OnRecord(w)
      /\ committed' = committed
  BY AdministerKeepsRecord DEF TradingInv, TradingTypeOK, Administer
<1> QED
  BY <1>1 DEF TradingInv, BudgetOnRecord, OnRecord

LEMMA TradingInductive ==
  /\ TradingInit => TradingInv
  /\ TradingInv /\ [TradingNext]_tradingVars => TradingInv'
<1>1. TradingInit => TradingInv
  BY TradingInitType
     DEF TradingInit, TradingInv, RegistryInit, BudgetOnRecord, RecordsNotAhead,
         Registered
<1>2. ASSUME TradingInv, [TradingNext]_tradingVars
      PROVE  TradingInv'
  <2>1. TradingTypeOK'
    BY <1>2, TradingNextType DEF TradingInv
  <2>2. CASE TradeStep
    <3>1. PICK s \in Wallets :
             /\ OwnTrade(s)
             /\ \/ \E ceiling \in Amounts : Charged(s, ceiling)
                \/ UNCHANGED <<agents, committed>>
      BY <1>2, <2>2, TradeStepFacts DEF TradingInv
    <3>2. clock' = clock
      BY <3>1 DEF OwnTrade
    <3>3. BudgetOnRecord' /\ RecordsNotAhead'
      BY <1>2, <3>1, <3>2, ChargedKeepsRecord, RecordUntouched
    <3> QED
      BY <2>1, <3>3 DEF TradingInv
  <2>3. CASE WalletStep \/ Graduate
    BY <1>2, <2>1, <2>3, WalletStepFacts, GraduateFacts, RecordUntouched
       DEF TradingInv
  <2>4. CASE Administer
    BY <1>2, <2>1, <2>4, AdministerKeepsBudget DEF TradingInv
  <2>5. CASE PassTime
    BY <1>2, <2>1, <2>5, PassTimeKeepsRecord DEF TradingInv
  <2>6. CASE UNCHANGED tradingVars
    BY <1>2, <2>1, <2>6, RecordUntouched
       DEF tradingVars, registryVars, TradingInv
  <2> QED
    BY <1>2, <2>2, <2>3, <2>4, <2>5, <2>6 DEF TradingNext
<1> QED
  BY <1>1, <1>2

\* The inductive invariant of trading: an agent's record of the day is the sum of what its
\* buys committed that day, and no record is of a day to come (guards.rs:15-30).
THEOREM TradingInvariant == TradingSpec => []TradingInv
<1> QED
  BY TradingInductive, PTL DEF TradingSpec

\* The record each agent carries, rolled only when it buys (guards.rs:17), is
\* at every moment what it committed today, through every change of its terms.
THEOREM BudgetAlwaysOnRecord == TradingSpec => []BudgetOnRecord
<1>1. TradingInv => BudgetOnRecord
  BY DEF TradingInv
<1> QED
  BY <1>1, TradingInvariant, PTL

-------------------------------------------------------------------------------
(***************************************************************************)
(* A trade is its signer's own.                                            *)
(***************************************************************************)

\* "Cannot spend another agent's budget" (SECURITY.md:14), for any number of
\* agents and whatever account the caller names.
THEOREM TradesAreOwn == TradingSpec => OwnBudgetOnly
<1>1. ASSUME TradingInv, [TradingNext]_tradingVars
      PROVE  [ Trades => /\ event'.agent = signer'
                         /\ \A w \in Wallets \ {signer'} :
                              /\ agents'[w] = agents[w]
                              /\ wsol'[w] = wsol[w]
                              /\ lamports'[w] >= lamports[w] ]_tradingVars
  <2>1. CASE TradeStep
    BY <1>1, <2>1, TradeStepFacts DEF TradingInv, OwnTrade
  <2>2. CASE WalletStep \/ Graduate \/ Administer \/ PassTime
    BY <1>1, <2>2, WalletStepFacts, GraduateFacts, AdministerType, PassTimeType
       DEF Trades, TradingInv
  <2>3. CASE UNCHANGED tradingVars
    BY <2>3
  <2> QED
    BY <1>1, <2>1, <2>2, <2>3 DEF TradingNext
<1> QED
  BY <1>1, TradingInvariant, PTL DEF TradingSpec, OwnBudgetOnly

-------------------------------------------------------------------------------
(***************************************************************************)
(* What a trade moves.  After the venue's part the accounts stand at       *)
(* `balances`; the fee is a part of `moved`, and goes to the fee vault.    *)
(***************************************************************************)

Fee(s, moved) == BpsOf(moved, agents[s].fee_bps)

Settled(s, side, on_amm, moved, balances) ==
    /\ event'.agent = s /\ event'.side = side /\ event'.on_amm = on_amm
    /\ event'.quote_moved = moved
    /\ event'.fee_lamports = Fee(s, moved)
    /\ config.fee_vault # s =>
          lamports'[config.fee_vault] = balances[config.fee_vault] + Fee(s, moved)
    /\ lamports'[s] >= balances[s] - Fee(s, moved)
    /\ Sum(lamports', Keys) = Sum(balances, Keys)
    /\ RentExempt(lamports)'

LEMMA FeeType ==
  ASSUME RegistryTypeOK, NEW s \in Wallets, Registered(s), NEW moved \in Nat
  PROVE  Fee(s, moved) \in Nat
BY BpsOfType, SpentTodayType DEF Fee

\* A transfer makes and loses nothing, also from a key to itself.
LEMMA MoveKeepsSum ==
  ASSUME NEW balances \in [Keys -> Int], NEW from \in Keys, NEW to \in Keys,
         NEW amount \in Int
  PROVE  Sum(Move(balances, from, to, amount), Keys) = Sum(balances, Keys)
<1> DEFINE taken == [balances EXCEPT ![from] = @ - amount]
           moved == Move(balances, from, to, amount)
<1>1. /\ taken \in [Keys -> Int] /\ IsFiniteSet(Keys)
      /\ taken[from] = balances[from] - amount
      /\ \A k \in Keys \ {from} : taken[k] = balances[k]
  BY ChainAssumption
<1>2. moved = [taken EXCEPT ![to] = @ + amount]
  BY DEF Move
<1>3. /\ moved \in [Keys -> Int] /\ moved[to] = taken[to] + amount
      /\ \A k \in Keys \ {to} : moved[k] = taken[k]
  <2> HIDE DEF taken, moved
  <2> QED
    BY <1>1, <1>2
<1> HIDE DEF taken, moved
<1>4. Sum(taken, Keys) = (Sum(balances, Keys) - balances[from]) + taken[from]
  BY <1>1, SumUpdate
<1>5. Sum(moved, Keys) = (Sum(taken, Keys) - taken[to]) + moved[to]
  BY <1>1, <1>3, SumUpdate
<1>6. Sum(balances, Keys) \in Int /\ Sum(taken, Keys) \in Int
  BY <1>1, SumType
<1>7. Sum(moved, Keys) = Sum(balances, Keys)
  <2>1. /\ balances[from] \in Int /\ taken[from] \in Int
        /\ taken[to] \in Int /\ moved[to] \in Int
    BY <1>1, <1>3
  <2> QED
    BY <1>1, <1>3, <1>4, <1>5, <1>6, <2>1
<1> QED
  BY <1>7 DEF moved

LEMMA FeeArrives ==
  ASSUME NEW balances \in [Keys -> Int], NEW w \in Keys, NEW vault \in Keys,
         NEW fee \in Nat, TakeFee(balances, w, vault, fee)
  PROVE  /\ vault # w => lamports'[vault] = balances[vault] + fee
         /\ lamports'[w] >= balances[w] - fee
         /\ Sum(lamports', Keys) = Sum(balances, Keys)
         /\ RentExempt(lamports)'
<1>1. lamports' = Move(balances, w, vault, fee) /\ RentExempt(lamports')
  BY DEF TakeFee, Commit
<1>2. /\ vault # w => lamports'[vault] = balances[vault] + fee
      /\ lamports'[w] >= balances[w] - fee
  BY <1>1 DEF Move
<1>3. Sum(lamports', Keys) = Sum(balances, Keys)
  BY <1>1, MoveKeepsSum
<1>4. RentExempt(lamports)'
  BY <1>1 DEF RentExempt
<1> QED
  BY <1>2, <1>3, <1>4

LEMMA CurveSettles ==
  ASSUME RegistryTypeOK, NEW s \in Wallets, Registered(s),
         NEW vault \in Keys, vault = config.fee_vault, NEW side \in Sides,
         NEW balances \in [Keys -> Int], NEW moved \in Nat,
         moved = Moved(side, lamports[s], balances[s]),
         SettleCurve(s, vault, side, balances)
  PROVE  Settled(s, side, FALSE, moved, balances)
<1>1. Fee(s, moved) \in Nat /\ s \in Keys
  BY FeeType, RouterAssumption
<1>2. /\ TakeFee(balances, s, vault, Fee(s, moved))
      /\ Emit(s, side, FALSE, moved, Fee(s, moved))
  BY DEF SettleCurve, Fee
<1> QED
  BY <1>1, <1>2, FeeArrives DEF Settled, Emit

LEMMA AmmSettles ==
  ASSUME RegistryTypeOK, NEW s \in Wallets, Registered(s),
         NEW vault \in Keys, vault = config.fee_vault, NEW side \in Sides,
         NEW balances \in [Keys -> Int], NEW moved \in Nat, NEW quote \in Nat,
         moved = Moved(side, wsol[s], quote),
         SettleAmm(s, vault, side, balances, quote)
  PROVE  Settled(s, side, TRUE, moved, balances) /\ wsol' = [wsol EXCEPT ![s] = quote]
<1>1. Fee(s, moved) \in Nat /\ s \in Keys
  BY FeeType, RouterAssumption
<1>2. /\ TakeFee(balances, s, vault, Fee(s, moved))
      /\ Emit(s, side, TRUE, moved, Fee(s, moved))
      /\ wsol' = [wsol EXCEPT ![s] = quote]
  BY DEF SettleAmm, Fee
<1> QED
  BY <1>1, <1>2, FeeArrives DEF Settled, Emit

\* The table of balances a venue leaves, when it takes `taken` from s.
LEMMA VenueTakes ==
  ASSUME RegistryTypeOK, NEW s \in Keys, NEW taken \in Int
  PROVE  /\ Debit(lamports, s, taken) \in [Keys -> Int]
         /\ Debit(lamports, s, taken)[s] = lamports[s] - taken
         /\ \A k \in Keys \ {s} : Debit(lamports, s, taken)[k] = lamports[k]
         /\ lamports[s] \in Nat
         /\ Sum(Debit(lamports, s, taken), Keys) = Sum(lamports, Keys) - taken
<1> DEFINE balances == Debit(lamports, s, taken)
<1>1. /\ balances \in [Keys -> Int] /\ balances[s] = lamports[s] - taken
      /\ \A k \in Keys \ {s} : balances[k] = lamports[k]
      /\ lamports \in [Keys -> Nat] /\ lamports[s] \in Nat /\ balances[s] \in Int
      /\ IsFiniteSet(Keys) /\ \A k \in Keys : lamports[k] \in Int
  BY ChainAssumption DEF RegistryTypeOK, ChainTypeOK, Debit
<1> HIDE DEF balances
<1>2. Sum(balances, Keys) = (Sum(lamports, Keys) - lamports[s]) + balances[s]
  BY <1>1, SumUpdate
<1>3. Sum(lamports, Keys) \in Int
  BY <1>1, SumType
<1>4. Sum(balances, Keys) = Sum(lamports, Keys) - taken
  BY <1>1, <1>2, <1>3
<1> QED
  BY <1>1, <1>4 DEF balances

LEMMA ReservesType ==
  ASSUME TradingTypeOK
  PROVE  /\ reserves.curve \in Nat /\ reserves.pool \in Nat /\ reserves.rent \in Nat
         /\ reserves \in Reserves
BY DEF TradingTypeOK, Reserves

\* What each buy takes from its wallet and gives its venue, and how much of the
\* budget it uses.
BuyOutcome(s, ceiling, cost, rent) ==
    /\ Settled(s, "Buy", FALSE, cost + rent, Debit(lamports, s, cost + rent))
    /\ cost <= ceiling /\ Registered(s) /\ wsol' = wsol
    /\ committed'[s] = committed[s] + ceiling
    /\ reserves'.curve = reserves.curve + cost
    /\ reserves'.pool = reserves.pool
    /\ reserves'.rent = reserves.rent + rent

BuyAmmOutcome(s, ceiling, cost, rent) ==
    /\ Settled(s, "Buy", TRUE, cost, Debit(lamports, s, rent))
    /\ cost <= ceiling /\ Registered(s)
    /\ wsol[s] \in Nat /\ wsol'[s] \in Nat /\ wsol'[s] = wsol[s] - cost
    /\ committed'[s] = committed[s] + ceiling
    /\ reserves'.curve = reserves.curve
    /\ reserves'.pool = reserves.pool + cost
    /\ reserves'.rent = reserves.rent + rent

LEMMA BuyMoves ==
  ASSUME TradingTypeOK, NEW s \in Wallets, NEW w \in Wallets,
         NEW vault \in Vaults, NEW ceiling \in Amounts,
         NEW cost \in Amounts \ {0}, NEW rent \in {0, VenueRent},
         Buy(s, w, vault, ceiling, cost, rent)
  PROVE  BuyOutcome(s, ceiling, cost, rent)
<1> DEFINE balances == Debit(lamports, s, cost + rent)
<1>1. /\ s \in Keys /\ vault \in Keys /\ cost \in Nat /\ rent \in Nat
      /\ cost + rent \in Nat /\ RegistryTypeOK /\ "Buy" \in Sides
  <2>1. s \in Keys /\ vault \in Keys /\ cost \in Nat /\ rent \in Nat
    BY InputsType
  <2> QED
    BY <2>1 DEF TradingTypeOK, Sides
<1>2. /\ Registered(s) /\ vault = config.fee_vault /\ cost <= ceiling
      /\ SettleCurve(s, vault, "Buy", balances)
      /\ committed' = [committed EXCEPT ![s] = @ + ceiling]
      /\ reserves' = [reserves EXCEPT !.curve = @ + cost, !.rent = @ + rent]
  BY DEF Buy, TradeCurveAccounts, CheckBuy
<1>3. balances \in [Keys -> Int] /\ balances[s] = lamports[s] - (cost + rent)
      /\ lamports[s] \in Nat
  BY <1>1, VenueTakes
<1> HIDE DEF balances
<1>4. Moved("Buy", lamports[s], balances[s]) = cost + rent
  BY <1>1, <1>3 DEF Moved, SaturatingSub
<1>5. Settled(s, "Buy", FALSE, cost + rent, balances)
  BY <1>1, <1>2, <1>3, <1>4, CurveSettles
<1>6. wsol' = wsol /\ committed'[s] = committed[s] + ceiling
  BY <1>2 DEF SettleCurve, TradingTypeOK
<1>7. /\ reserves'.curve = reserves.curve + cost
      /\ reserves'.pool = reserves.pool
      /\ reserves'.rent = reserves.rent + rent
  BY <1>2, ReservesType DEF Reserves
<1> QED
  BY <1>2, <1>5, <1>6, <1>7 DEF balances, BuyOutcome

LEMMA SellMoves ==
  ASSUME TradingTypeOK, NEW s \in Wallets, NEW w \in Wallets,
         NEW vault \in Vaults, NEW out \in Amounts, Sell(s, w, vault, out)
  PROVE  /\ Settled(s, "Sell", FALSE, out, Debit(lamports, s, -out))
         /\ Registered(s) /\ wsol' = wsol /\ committed' = committed
         /\ reserves'.curve = reserves.curve - out
         /\ reserves'.pool = reserves.pool
         /\ reserves'.rent = reserves.rent
<1> DEFINE balances == Debit(lamports, s, -out)
<1>1. /\ s \in Keys /\ vault \in Keys /\ out \in Nat /\ -out \in Int
      /\ RegistryTypeOK /\ "Sell" \in Sides
  <2>1. s \in Keys /\ vault \in Keys /\ out \in Nat
    BY InputsType
  <2> QED
    BY <2>1 DEF TradingTypeOK, Sides
<1>2. /\ Registered(s) /\ vault = config.fee_vault /\ committed' = committed
      /\ SettleCurve(s, vault, "Sell", balances)
      /\ reserves' = [reserves EXCEPT !.curve = @ - out]
  BY DEF Sell, TradeCurveAccounts
<1>3. balances \in [Keys -> Int] /\ balances[s] = lamports[s] - (-out)
      /\ lamports[s] \in Nat
  BY <1>1, VenueTakes
<1> HIDE DEF balances
<1>4. Moved("Sell", lamports[s], balances[s]) = out
  BY <1>1, <1>3 DEF Moved, SaturatingSub
<1>5. Settled(s, "Sell", FALSE, out, balances)
  BY <1>1, <1>2, <1>3, <1>4, CurveSettles
<1>6. wsol' = wsol
  BY <1>2 DEF SettleCurve
<1>7. /\ reserves'.curve = reserves.curve - out
      /\ reserves'.pool = reserves.pool
      /\ reserves'.rent = reserves.rent
  BY <1>2, ReservesType DEF Reserves
<1> QED
  BY <1>2, <1>5, <1>6, <1>7 DEF balances

LEMMA BuyAmmMoves ==
  ASSUME TradingTypeOK, NEW s \in Wallets, NEW w \in Wallets,
         NEW vault \in Vaults, NEW ceiling \in Amounts,
         NEW cost \in Amounts \ {0}, NEW rent \in {0, VenueRent},
         BuyAmm(s, w, vault, ceiling, cost, rent)
  PROVE  BuyAmmOutcome(s, ceiling, cost, rent)
<1> DEFINE balances == Debit(lamports, s, rent)
           quote == wsol[s] - cost
<1>1. /\ s \in Keys /\ vault \in Keys /\ cost \in Nat /\ rent \in Nat
      /\ RegistryTypeOK /\ "Buy" \in Sides
  <2>1. s \in Keys /\ vault \in Keys /\ cost \in Nat /\ rent \in Nat
    BY InputsType
  <2> QED
    BY <2>1 DEF TradingTypeOK, Sides
<1>2. /\ Registered(s) /\ vault = config.fee_vault /\ cost <= ceiling
      /\ wsol[s] # NoAccount /\ cost <= wsol[s]
      /\ SettleAmm(s, vault, "Buy", balances, quote)
      /\ committed' = [committed EXCEPT ![s] = @ + ceiling]
      /\ reserves' = [reserves EXCEPT !.pool = @ + cost, !.rent = @ + rent]
  BY DEF BuyAmm, TradeAmmAccounts, TradeCurveAccounts, CheckBuy
<1>3. balances \in [Keys -> Int]
  BY <1>1, VenueTakes
<1>4. wsol \in [Wallets -> Nat \cup {NoAccount}] /\ wsol[s] \in Nat /\ quote \in Nat
  BY <1>1, <1>2 DEF TradingTypeOK
<1>5. Moved("Buy", wsol[s], quote) = cost
  BY <1>1, <1>4 DEF Moved, SaturatingSub
<1>6. /\ Settled(s, "Buy", TRUE, cost, balances)
      /\ wsol' = [wsol EXCEPT ![s] = quote]
  <2> HIDE DEF balances, quote
  <2> QED
    BY <1>1, <1>2, <1>3, <1>4, <1>5, AmmSettles
<1>7. /\ wsol'[s] = wsol[s] - cost /\ wsol'[s] \in Nat
      /\ committed'[s] = committed[s] + ceiling
  BY <1>2, <1>4, <1>6 DEF TradingTypeOK
<1>8. /\ reserves'.curve = reserves.curve
      /\ reserves'.pool = reserves.pool + cost
      /\ reserves'.rent = reserves.rent + rent
  BY <1>2, ReservesType DEF Reserves
<1> QED
  BY <1>2, <1>4, <1>6, <1>7, <1>8 DEF balances, BuyAmmOutcome

LEMMA SellAmmMoves ==
  ASSUME TradingTypeOK, NEW s \in Wallets, NEW w \in Wallets,
         NEW vault \in Vaults, NEW out \in Amounts, SellAmm(s, w, vault, out)
  PROVE  /\ Settled(s, "Sell", TRUE, out, lamports)
         /\ Registered(s) /\ committed' = committed
         /\ wsol[s] \in Nat /\ wsol'[s] \in Nat /\ wsol'[s] = wsol[s] + out
         /\ reserves'.curve = reserves.curve
         /\ reserves'.pool = reserves.pool - out
         /\ reserves'.rent = reserves.rent
<1> DEFINE quote == wsol[s] + out
<1>1. /\ s \in Keys /\ vault \in Keys /\ out \in Nat
      /\ RegistryTypeOK /\ "Sell" \in Sides
  <2>1. s \in Keys /\ vault \in Keys /\ out \in Nat
    BY InputsType
  <2> QED
    BY <2>1 DEF TradingTypeOK, Sides
<1>2. /\ Registered(s) /\ vault = config.fee_vault /\ committed' = committed
      /\ wsol[s] # NoAccount
      /\ SettleAmm(s, vault, "Sell", lamports, quote)
      /\ reserves' = [reserves EXCEPT !.pool = @ - out]
  BY DEF SellAmm, TradeAmmAccounts, TradeCurveAccounts
<1>3. lamports \in [Keys -> Int]
  BY <1>1 DEF RegistryTypeOK, ChainTypeOK
<1>4. wsol \in [Wallets -> Nat \cup {NoAccount}] /\ wsol[s] \in Nat /\ quote \in Nat
  BY <1>1, <1>2 DEF TradingTypeOK
<1>5. Moved("Sell", wsol[s], quote) = out
  BY <1>1, <1>4 DEF Moved, SaturatingSub
<1>6. /\ Settled(s, "Sell", TRUE, out, lamports)
      /\ wsol' = [wsol EXCEPT ![s] = quote]
  <2> HIDE DEF quote
  <2> QED
    BY <1>1, <1>2, <1>3, <1>4, <1>5, AmmSettles
<1>7. wsol'[s] = wsol[s] + out /\ wsol'[s] \in Nat
  BY <1>4, <1>6
<1>8. /\ reserves'.curve = reserves.curve
      /\ reserves'.pool = reserves.pool - out
      /\ reserves'.rent = reserves.rent
  BY <1>2, ReservesType DEF Reserves
<1> QED
  BY <1>2, <1>4, <1>6, <1>7, <1>8

\* One trade of the four, by the wallet that signs it.
LEMMA TradeCases ==
  ASSUME TradeStep
  PROVE  \E s \in Wallets, w \in Wallets, vault \in Vaults, amount \in Amounts :
            \/ \E cost \in Amounts \ {0}, rent \in {0, VenueRent} :
                  \/ Buy(s, w, vault, amount, cost, rent)
                  \/ BuyAmm(s, w, vault, amount, cost, rent)
            \/ Sell(s, w, vault, amount)
            \/ SellAmm(s, w, vault, amount)
BY DEF TradeStep

\* The property TradeSettles, of one step.
Agreed ==
    LET e == event'
        gain == VenueGain(e.on_amm)
    IN  /\ e.quote_moved = IF e.side = "Buy" THEN gain ELSE - gain
        /\ e.fee_lamports = BpsOf(e.quote_moved, agents[e.agent].fee_bps)
        /\ config.fee_vault # e.agent =>
              lamports'[config.fee_vault] =
                 lamports[config.fee_vault] + e.fee_lamports

LEMMA SettledAgrees ==
  ASSUME TradingTypeOK, NEW s \in Wallets, NEW side, NEW on_amm, NEW moved,
         NEW balances, Settled(s, side, on_amm, moved, balances),
         config.fee_vault # s =>
            balances[config.fee_vault] = lamports[config.fee_vault],
         moved = IF side = "Buy" THEN VenueGain(on_amm) ELSE - VenueGain(on_amm)
  PROVE  Agreed
BY DEF Settled, Agreed, Fee

LEMMA TradeStepAgrees ==
  ASSUME TradingTypeOK, TradeStep
  PROVE  Agreed
<1>1. PICK s \in Wallets, w \in Wallets, vault \in Vaults, amount \in Amounts :
            \/ \E cost \in Amounts \ {0}, rent \in {0, VenueRent} :
                  \/ Buy(s, w, vault, amount, cost, rent)
                  \/ BuyAmm(s, w, vault, amount, cost, rent)
            \/ Sell(s, w, vault, amount)
            \/ SellAmm(s, w, vault, amount)
  BY TradeCases
<1>2. /\ RegistryTypeOK /\ s \in Keys /\ amount \in Nat /\ vault \in Keys
      /\ reserves.curve \in Nat /\ reserves.pool \in Nat /\ reserves.rent \in Nat
  <2>1. s \in Keys /\ amount \in Nat /\ vault \in Keys
    BY RouterAssumption, TradingAssumption DEF U64
  <2> QED
    BY <2>1, ReservesType DEF TradingTypeOK
<1>3. ASSUME NEW cost \in Amounts \ {0}, NEW rent \in {0, VenueRent},
             Buy(s, w, vault, amount, cost, rent)
      PROVE  Agreed
  <2>1. cost \in Nat /\ rent \in Nat /\ cost + rent \in Int
    BY RouterAssumption, TradingAssumption DEF U64
  <2>2. config.fee_vault \in Keys
    BY <1>2, <1>3 DEF Buy, TradeCurveAccounts
  <2>3. /\ Settled(s, "Buy", FALSE, cost + rent, Debit(lamports, s, cost + rent))
        /\ reserves'.curve = reserves.curve + cost
        /\ reserves'.rent = reserves.rent + rent
    <3>1. BuyOutcome(s, amount, cost, rent)
      BY <1>3, BuyMoves
    <3> QED
      BY <3>1 DEF BuyOutcome
  <2>4. VenueGain(FALSE) = cost + rent
    BY <1>2, <2>1, <2>3 DEF VenueGain
  <2>5. \A k \in Keys \ {s} : Debit(lamports, s, cost + rent)[k] = lamports[k]
    BY <1>2, <2>1, VenueTakes
  <2> QED
    BY <2>2, <2>3, <2>4, <2>5, SettledAgrees
<1>4. ASSUME NEW cost \in Amounts \ {0}, NEW rent \in {0, VenueRent},
             BuyAmm(s, w, vault, amount, cost, rent)
      PROVE  Agreed
  <2>1. cost \in Nat /\ rent \in Nat /\ rent \in Int
    BY RouterAssumption, TradingAssumption DEF U64
  <2>2. config.fee_vault \in Keys
    BY <1>2, <1>4 DEF BuyAmm, TradeAmmAccounts, TradeCurveAccounts
  <2>3. /\ Settled(s, "Buy", TRUE, cost, Debit(lamports, s, rent))
        /\ reserves'.pool = reserves.pool + cost
    <3>1. BuyAmmOutcome(s, amount, cost, rent)
      BY <1>4, BuyAmmMoves
    <3> QED
      BY <3>1 DEF BuyAmmOutcome
  <2>4. VenueGain(TRUE) = cost
    BY <1>2, <2>1, <2>3 DEF VenueGain
  <2>5. \A k \in Keys \ {s} : Debit(lamports, s, rent)[k] = lamports[k]
    BY <1>2, <2>1, VenueTakes
  <2> QED
    BY <2>2, <2>3, <2>4, <2>5, SettledAgrees
<1>5. CASE Sell(s, w, vault, amount)
  <2>1. config.fee_vault \in Keys /\ -amount \in Int
    BY <1>2, <1>5 DEF Sell, TradeCurveAccounts
  <2>2. /\ Settled(s, "Sell", FALSE, amount, Debit(lamports, s, -amount))
        /\ reserves'.curve = reserves.curve - amount
        /\ reserves'.rent = reserves.rent
    BY <1>5, SellMoves
  <2>3. amount = - VenueGain(FALSE)
    BY <1>2, <2>2 DEF VenueGain
  <2>4. \A k \in Keys \ {s} : Debit(lamports, s, -amount)[k] = lamports[k]
    BY <1>2, <2>1, VenueTakes
  <2> QED
    BY <2>1, <2>2, <2>3, <2>4, SettledAgrees
<1>6. CASE SellAmm(s, w, vault, amount)
  <2>1. /\ Settled(s, "Sell", TRUE, amount, lamports)
        /\ reserves'.pool = reserves.pool - amount
    BY <1>6, SellAmmMoves
  <2>2. amount = - VenueGain(TRUE)
    BY <1>2, <2>1 DEF VenueGain
  <2> QED
    BY <2>1, <2>2, SettledAgrees
<1> QED
  BY <1>1, <1>3, <1>4, <1>5, <1>6

\* The event says what the venue saw move, the fee is the agent's rate of it,
\* and the vault received it, whatever the amounts and rates (guards.rs:40).
THEOREM TradesAlwaysSettle == TradingSpec => TradeSettles
<1>1. ASSUME TradingInv, [TradingNext]_tradingVars
      PROVE  [Trades => Agreed]_tradingVars
  <2>1. CASE TradeStep
    BY <1>1, <2>1, TradeStepAgrees DEF TradingInv
  <2>2. CASE WalletStep \/ Graduate \/ Administer \/ PassTime
    BY <1>1, <2>2, WalletStepFacts, GraduateFacts, AdministerType, PassTimeType
       DEF Trades, TradingInv
  <2>3. CASE UNCHANGED tradingVars
    BY <2>3
  <2> QED
    BY <1>1, <2>1, <2>2, <2>3 DEF TradingNext
<1> QED
  BY <1>1, TradingInvariant, PTL DEF TradingSpec, TradeSettles, Agreed

-------------------------------------------------------------------------------
(***************************************************************************)
(* Trading leaves shares and rates as the registry's handlers set them, so *)
(* the invariant of the registry is one of the trading program.            *)
(***************************************************************************)

LEMMA ChargeKeepsTerms ==
  ASSUME TradingTypeOK, RegistryInv, NEW s \in Wallets, NEW ceiling,
         Charged(s, ceiling), config' = config
  PROVE  SharesAddUp' /\ FeesCapped'
<1>1. /\ RegistryTypeOK /\ Registered(s) /\ ceiling \in Nat
      /\ ChargeDailyBudget(s, ceiling)
  BY RouterAssumption DEF TradingTypeOK, Charged, U64
<1>2. /\ agents[s] \in AgentAuth /\ agents'[s] \in AgentAuth
      /\ \A v \in Wallets \ {s} : agents'[v] = agents[v]
  BY <1>1, ChargeFacts, SpentTodayType
<1>3. /\ agents'[s].reward_bps = agents[s].reward_bps
      /\ agents'[s].fee_bps = agents[s].fee_bps
  BY <1>1, <1>2 DEF ChargeDailyBudget, RegistryTypeOK, AgentAuth
<1>4. agents[s] # NoAgent /\ agents'[s] # NoAgent
  BY <1>2, SentinelAssumption
<1>5. \A w \in Wallets : ShareOf(w)' = ShareOf(w)
  BY <1>2, <1>3, <1>4 DEF ShareOf, Registered
<1>6. config # NoConfig
  BY <1>1 DEF RegistryInv, SharesAddUp
<1>7. SharesAddUp'
  BY <1>1, <1>5, <1>6, SharesKept DEF RegistryInv
<1>8. FeesCapped'
  BY <1>2, <1>3, <1>4 DEF RegistryInv, FeesCapped, Registered
<1> QED
  BY <1>7, <1>8

LEMMA TradingKeepsRegistry ==
  ASSUME TradingInv, RegistryInv, [TradingNext]_tradingVars
  PROVE  RegistryInv'
<1>1. RegistryTypeOK' /\ TradingTypeOK
  BY TradingInductive DEF TradingInv, TradingTypeOK
<1>2. CASE TradeStep
  <2>1. PICK s \in Wallets :
           /\ OwnTrade(s)
           /\ \/ \E ceiling \in Amounts : Charged(s, ceiling)
              \/ UNCHANGED <<agents, committed>>
    BY <1>1, <1>2, TradeStepFacts
  <2>2. config' = config
    BY <2>1 DEF OwnTrade
  <2> QED
    BY <1>1, <2>1, <2>2, ChargeKeepsTerms, AgentsUntouchedInv DEF RegistryInv
<1>3. CASE WalletStep \/ Graduate
  BY <1>1, <1>3, WalletStepFacts, GraduateFacts, AgentsUntouchedInv DEF RegistryInv
<1>4. CASE Administer \/ PassTime
  BY <1>4, RegistryInductive DEF Administer, PassTime, RegistryNext
<1>5. CASE UNCHANGED tradingVars
  BY <1>5, RegistryInductive DEF tradingVars
<1> QED
  BY <1>2, <1>3, <1>4, <1>5 DEF TradingNext

\* No trade touches what the authority agreed: the invariant of the administration also
\* holds where agents trade and pools graduate (a buy only writes the
\* record's spent_today and day, guards.rs:15-30).
THEOREM TradingKeepsTerms == TradingSpec => [](TradingInv /\ RegistryInv)
<1>1. TradingInit => TradingInv /\ RegistryInv
  BY TradingInductive, RegistryInductive DEF TradingInit
<1>2. TradingInv /\ RegistryInv /\ [TradingNext]_tradingVars
         => TradingInv' /\ RegistryInv'
  BY TradingInductive, TradingKeepsRegistry
<1> QED
  BY <1>1, <1>2, PTL DEF TradingSpec

-------------------------------------------------------------------------------
(***************************************************************************)
(* What a trade can cost.                                                  *)
(***************************************************************************)

LEMMA FeeCeiling ==
  ASSUME NEW moved \in Nat, NEW bps \in Nat, bps <= MAX_FEE_BPS
  PROVE  /\ BpsOf(moved, bps) \in Nat
         /\ BpsOf(moved, bps) * BPS_DENOMINATOR <= moved * MAX_FEE_BPS
         /\ BpsOf(moved, bps) <= moved
<1>1. /\ MAX_FEE_BPS \in Nat /\ BPS_DENOMINATOR \in Nat \ {0}
      /\ bps <= BPS_DENOMINATOR
  BY RouterAssumption DEF U16, U64
<1>2. moved * bps \in Nat /\ moved * MAX_FEE_BPS \in Nat
  BY <1>1
<1>3. moved * bps <= moved * MAX_FEE_BPS
  <2>1. bps * moved <= MAX_FEE_BPS * moved
    BY <1>1, TimesMonotone
  <2> QED
    BY <1>1, <2>1
<1>4. ((moved * bps) \div BPS_DENOMINATOR) * BPS_DENOMINATOR <= moved * bps
  BY <1>1, <1>2, DivBounds
<1>5. BpsOf(moved, bps) \in Nat
  BY BpsOfType
<1>6. BpsOf(moved, bps) * BPS_DENOMINATOR <= moved * bps
  BY <1>4 DEF BpsOf
<1>7. BpsOf(moved, bps) <= moved
  BY <1>1, ShareAtMostWhole DEF BpsOf
<1>8. BpsOf(moved, bps) * BPS_DENOMINATOR \in Int
  BY <1>1, <1>5
<1> QED
  BY <1>2, <1>3, <1>5, <1>6, <1>7, <1>8

\* What is lost is `out` and a fee on it; what was granted is at least `out`.
LEMMA LossWithinGrant ==
  ASSUME NEW lost \in Int, NEW out \in Nat, NEW granted \in Nat, NEW fee \in Nat,
         out <= granted, lost <= out + fee,
         fee * BPS_DENOMINATOR <= out * MAX_FEE_BPS
  PROVE  lost * BPS_DENOMINATOR <= granted * (BPS_DENOMINATOR + MAX_FEE_BPS)
<1> DEFINE d == BPS_DENOMINATOR
           m == MAX_FEE_BPS
<1>1. d \in Nat /\ m \in Nat /\ fee * d <= out * m
  BY RouterAssumption DEF U16, U64
<1> HIDE DEF d, m
<1>2. lost * d <= (out + fee) * d
  <2>1. ((out + fee) - lost) * d >= 0
    BY <1>1
  <2> QED
    BY <1>1, <2>1
<1>3. (out + fee) * d = out * d + fee * d
  BY <1>1
<1>4. out * (d + m) = out * d + out * m
  BY <1>1
<1>5. out * (d + m) <= granted * (d + m)
  BY <1>1, TimesMonotone
<1>6. /\ lost * d \in Int /\ out * d \in Int /\ fee * d \in Int /\ out * m \in Int
      /\ out * (d + m) \in Int /\ granted * (d + m) \in Int
  BY <1>1
<1>7. lost * d <= granted * (d + m)
  BY <1>1, <1>2, <1>3, <1>4, <1>5, <1>6
<1> QED
  BY <1>7 DEF d, m

\* The property LossBounded, of one step.
Bounded ==
    \A w \in Wallets : event'.agent = w =>
       LET lost == Holdings(w) - Holdings(w)'
           charged == committed'[w] - committed[w]
           rent == reserves'.rent - reserves.rent
       IN  lost * BPS_DENOMINATOR <=
              (charged + rent) * (BPS_DENOMINATOR + MAX_FEE_BPS)

LEMMA HoldingsType ==
  ASSUME TradingTypeOK, NEW w \in Wallets
  PROVE  Holdings(w) \in Int
<1>1. /\ lamports[w] \in Nat /\ wsol[w] \in Nat \cup {NoAccount}
  BY RouterAssumption DEF TradingTypeOK, RegistryTypeOK, ChainTypeOK
<1> QED
  BY <1>1 DEF Holdings

LEMMA HoldingsNextType ==
  ASSUME TradingTypeOK', NEW w \in Wallets
  PROVE  Holdings(w)' \in Int
<1>1. /\ lamports'[w] \in Nat /\ wsol'[w] \in Nat \cup {NoAccount}
  BY RouterAssumption DEF TradingTypeOK, RegistryTypeOK, ChainTypeOK
<1> QED
  BY <1>1 DEF Holdings

LEMMA WithinGrant ==
  ASSUME TradingInv, RegistryInv, TradingTypeOK', NEW s \in Wallets, Registered(s),
         event'.agent = s, NEW moved \in Nat, NEW out \in Nat, NEW granted \in Nat,
         Holdings(s)' >= (Holdings(s) - out) - Fee(s, moved),
         \/ moved <= out
         \/ out = 0 /\ Holdings(s)' >= (Holdings(s) + moved) - Fee(s, moved),
         granted = (committed'[s] - committed[s]) + (reserves'.rent - reserves.rent),
         out <= granted
  PROVE  Bounded
<1> DEFINE lost == Holdings(s) - Holdings(s)'
           fee == Fee(s, moved)
<1>1. agents[s].fee_bps \in Nat /\ agents[s].fee_bps <= MAX_FEE_BPS
  BY SpentTodayType DEF RegistryInv, FeesCapped
<1>2. /\ fee \in Nat /\ fee <= moved
      /\ fee * BPS_DENOMINATOR <= moved * MAX_FEE_BPS
  BY <1>1, FeeCeiling DEF Fee
<1>3. Holdings(s) \in Int /\ Holdings(s)' \in Int
  BY HoldingsType, HoldingsNextType DEF TradingInv
<1>4. lost * BPS_DENOMINATOR <= granted * (BPS_DENOMINATOR + MAX_FEE_BPS)
  <2>1. CASE moved <= out
    <3>1. moved * MAX_FEE_BPS <= out * MAX_FEE_BPS
      BY <2>1, TimesMonotone, RouterAssumption DEF U16
    <3>2. fee * BPS_DENOMINATOR <= out * MAX_FEE_BPS
      <4>1. /\ fee * BPS_DENOMINATOR \in Int /\ moved * MAX_FEE_BPS \in Int
            /\ out * MAX_FEE_BPS \in Int
        BY <1>2, RouterAssumption DEF U16, U64
      <4> QED
        BY <1>2, <3>1, <4>1
    <3>3. lost \in Int /\ lost <= out + fee
      BY <1>2, <1>3
    <3> HIDE DEF lost, fee
    <3> QED
      BY <1>2, <3>2, <3>3, LossWithinGrant
  <2>2. CASE out = 0 /\ Holdings(s)' >= (Holdings(s) + moved) - fee
    <3>1. lost \in Int /\ lost <= 0 + 0 /\ 0 <= granted
      BY <1>2, <1>3, <2>2
    <3>2. 0 * BPS_DENOMINATOR <= 0 * MAX_FEE_BPS
      BY RouterAssumption DEF U16, U64
    <3> HIDE DEF lost, fee
    <3> QED
      BY <3>1, <3>2, LossWithinGrant
  <2> QED
    BY <2>1, <2>2
<1> QED
  BY <1>4 DEF Bounded

LEMMA TradeStepBounded ==
  ASSUME TradingInv, RegistryInv, TradeStep
  PROVE  Bounded
<1> TradingTypeOK /\ RegistryTypeOK
  BY DEF TradingInv, TradingTypeOK
<1>1. PICK s \in Wallets, w \in Wallets, vault \in Vaults, amount \in Amounts :
            \/ \E cost \in Amounts \ {0}, rent \in {0, VenueRent} :
                  \/ Buy(s, w, vault, amount, cost, rent)
                  \/ BuyAmm(s, w, vault, amount, cost, rent)
            \/ Sell(s, w, vault, amount)
            \/ SellAmm(s, w, vault, amount)
  BY TradeCases
<1>2. /\ s \in Keys /\ amount \in Nat /\ -amount \in Int
      /\ reserves.rent \in Nat /\ committed[s] \in Nat /\ lamports[s] \in Nat
      /\ wsol[s] \in Nat \cup {NoAccount} /\ NoAccount \notin Nat
  <2>1. s \in Keys /\ amount \in Nat
    BY RouterAssumption, TradingAssumption DEF U64
  <2> QED
    BY <2>1, ReservesType, ChainAssumption
       DEF TradingTypeOK, RegistryTypeOK, ChainTypeOK
<1>3. TradingTypeOK' /\ lamports'[s] \in Nat
  <2>1. TradingTypeOK'
    BY TradingInductive DEF TradingNext, TradingInv
  <2> QED
    BY <1>2, <2>1 DEF TradingTypeOK, RegistryTypeOK, ChainTypeOK
<1>4. ASSUME NEW cost \in Amounts \ {0}, NEW rent \in {0, VenueRent},
             Buy(s, w, vault, amount, cost, rent)
      PROVE  Bounded
  <2>1. cost \in Nat /\ rent \in Nat /\ cost + rent \in Nat /\ cost + rent \in Int
    BY RouterAssumption, TradingAssumption DEF U64
  <2>2. BuyOutcome(s, amount, cost, rent)
    BY <1>4, BuyMoves
  <2>3. Debit(lamports, s, cost + rent)[s] = lamports[s] - (cost + rent)
    BY <1>2, <2>1, VenueTakes
  <2>4. /\ Registered(s) /\ event'.agent = s
        /\ lamports'[s] >= (lamports[s] - (cost + rent)) - Fee(s, cost + rent)
        /\ wsol' = wsol
        /\ amount + rent =
              (committed'[s] - committed[s]) + (reserves'.rent - reserves.rent)
        /\ cost + rent <= amount + rent
    BY <1>2, <2>1, <2>2, <2>3 DEF BuyOutcome, Settled
  <2>5. Fee(s, cost + rent) \in Nat
    BY <2>1, <2>4, FeeType
  <2>6. Holdings(s)' >= (Holdings(s) - (cost + rent)) - Fee(s, cost + rent)
    BY <1>2, <1>3, <2>1, <2>4, <2>5 DEF Holdings
  <2> DEFINE out == cost + rent
             granted == amount + rent
  <2>7. /\ out \in Nat /\ granted \in Nat /\ out <= granted /\ out <= out
        /\ Holdings(s)' >= (Holdings(s) - out) - Fee(s, out)
        /\ granted = (committed'[s] - committed[s]) + (reserves'.rent - reserves.rent)
    BY <1>2, <2>1, <2>4, <2>6
  <2> HIDE DEF out, granted
  <2> QED
    BY <1>3, <2>4, <2>7, WithinGrant
<1>5. ASSUME NEW cost \in Amounts \ {0}, NEW rent \in {0, VenueRent},
             BuyAmm(s, w, vault, amount, cost, rent)
      PROVE  Bounded
  <2>1. cost \in Nat /\ rent \in Nat /\ rent \in Int
    BY RouterAssumption, TradingAssumption DEF U64
  <2>2. BuyAmmOutcome(s, amount, cost, rent)
    BY <1>5, BuyAmmMoves
  <2>3. Debit(lamports, s, rent)[s] = lamports[s] - rent
    BY <1>2, <2>1, VenueTakes
  <2>4. /\ Registered(s) /\ event'.agent = s
        /\ lamports'[s] >= (lamports[s] - rent) - Fee(s, cost)
        /\ wsol[s] \in Nat /\ wsol'[s] \in Nat /\ wsol'[s] = wsol[s] - cost
        /\ amount + rent =
              (committed'[s] - committed[s]) + (reserves'.rent - reserves.rent)
        /\ cost + rent <= amount + rent
    BY <1>2, <2>1, <2>2, <2>3 DEF BuyAmmOutcome, Settled
  <2>5. Fee(s, cost) \in Nat
    BY <2>1, <2>4, FeeType
  <2>6. Holdings(s)' >= (Holdings(s) - (cost + rent)) - Fee(s, cost)
    BY <1>2, <1>3, <2>1, <2>4, <2>5 DEF Holdings
  <2> DEFINE out == cost + rent
             granted == amount + rent
  <2>7. /\ out \in Nat /\ granted \in Nat /\ out <= granted /\ cost <= out
        /\ Holdings(s)' >= (Holdings(s) - out) - Fee(s, cost)
        /\ granted = (committed'[s] - committed[s]) + (reserves'.rent - reserves.rent)
    BY <1>2, <2>1, <2>4, <2>6
  <2> HIDE DEF out, granted
  <2> QED
    BY <1>3, <2>1, <2>4, <2>7, WithinGrant
<1>6. ASSUME Registered(s), event'.agent = s, committed' = committed,
             reserves'.rent = reserves.rent,
             Holdings(s)' >= (Holdings(s) + amount) - Fee(s, amount)
      PROVE  Bounded
  <2>1. /\ 0 = (committed'[s] - committed[s]) + (reserves'.rent - reserves.rent)
        /\ 0 \in Nat /\ 0 <= 0
    BY <1>2, <1>6
  <2>2. Fee(s, amount) \in Nat /\ Holdings(s) \in Int /\ Holdings(s)' \in Int
    BY <1>2, <1>3, <1>6, FeeType, HoldingsType, HoldingsNextType
  <2>3. Holdings(s)' >= (Holdings(s) - 0) - Fee(s, amount)
    BY <1>2, <1>6, <2>2
  <2> QED
    BY <1>2, <1>3, <1>6, <2>1, <2>3, WithinGrant
<1>7. CASE Sell(s, w, vault, amount)
  <2>1. /\ Settled(s, "Sell", FALSE, amount, Debit(lamports, s, -amount))
        /\ Registered(s) /\ wsol' = wsol /\ committed' = committed
        /\ reserves'.rent = reserves.rent
    BY <1>7, SellMoves
  <2>2. Debit(lamports, s, -amount)[s] = lamports[s] - (-amount)
    BY <1>2, VenueTakes
  <2>3. /\ event'.agent = s
        /\ lamports'[s] >= (lamports[s] + amount) - Fee(s, amount)
    BY <1>2, <2>1, <2>2 DEF Settled
  <2>4. Fee(s, amount) \in Nat
    BY <1>2, <2>1, FeeType
  <2>5. Holdings(s)' >= (Holdings(s) + amount) - Fee(s, amount)
    BY <1>2, <1>3, <2>1, <2>3, <2>4 DEF Holdings
  <2> QED
    BY <1>6, <2>1, <2>3, <2>5
<1>8. CASE SellAmm(s, w, vault, amount)
  <2>1. /\ Settled(s, "Sell", TRUE, amount, lamports)
        /\ Registered(s) /\ committed' = committed
        /\ wsol[s] \in Nat /\ wsol'[s] \in Nat /\ wsol'[s] = wsol[s] + amount
        /\ reserves'.rent = reserves.rent
    BY <1>8, SellAmmMoves
  <2>2. event'.agent = s /\ lamports'[s] >= lamports[s] - Fee(s, amount)
    BY <2>1 DEF Settled
  <2>3. Fee(s, amount) \in Nat
    BY <1>2, <2>1, FeeType
  <2>4. Holdings(s)' >= (Holdings(s) + amount) - Fee(s, amount)
    BY <1>2, <1>3, <2>1, <2>2, <2>3 DEF Holdings
  <2> QED
    BY <1>6, <2>1, <2>2, <2>4
<1> QED
  BY <1>1, <1>4, <1>5, <1>7, <1>8

\* No trade costs its wallet more than the budget it took and the rent of one
\* venue account, with the hard ceiling of the fee on both; no sale costs
\* anything.  It rests on the ceiling no handler can raise (state.rs:17).
THEOREM LossesAreBounded == TradingSpec => LossBounded
<1>1. ASSUME TradingInv, RegistryInv, [TradingNext]_tradingVars
      PROVE  [Trades => Bounded]_tradingVars
  <2>1. CASE TradeStep
    BY <1>1, <2>1, TradeStepBounded
  <2>2. CASE WalletStep \/ Graduate \/ Administer \/ PassTime
    BY <1>1, <2>2, WalletStepFacts, GraduateFacts, AdministerType, PassTimeType
       DEF Trades, TradingInv
  <2>3. CASE UNCHANGED tradingVars
    BY <2>3
  <2> QED
    BY <1>1, <2>1, <2>2, <2>3 DEF TradingNext
<1> QED
  BY <1>1, TradingKeepsTerms, PTL DEF TradingSpec, LossBounded, Bounded

-------------------------------------------------------------------------------
(***************************************************************************)
(* The lazy record implements the eager allowance: a buy is a Spend of its *)
(* ceiling, a change of terms a SetLimit, the second that starts a day a   *)
(* NewDay, and everything else leaves the allowance as it is.              *)
(***************************************************************************)

LimitsOnRecord == [w \in Wallets |-> LimitOf(w)]

\* The refinement mapping, by name.
LEMMA BudgetMapping ==
  /\ Budget!Init <=> /\ LimitsOnRecord = [w \in Wallets |-> NoAgent]
                     /\ committed = [w \in Wallets |-> 0]
                     /\ CurrentDay = 0
  /\ \A w \in Wallets, l \in U64 :
        Budget!SetLimit(w, l) <=> /\ LimitsOnRecord' = [LimitsOnRecord EXCEPT ![w] = l]
                                  /\ UNCHANGED <<committed, CurrentDay>>
  /\ \A w \in Wallets, amount \in U64 :
        Budget!Spend(w, amount) <=>
           /\ LimitsOnRecord[w] # NoAgent
           /\ committed[w] + amount <= LimitsOnRecord[w]
           /\ committed' = [committed EXCEPT ![w] = @ + amount]
           /\ UNCHANGED <<LimitsOnRecord, CurrentDay>>
  /\ Budget!NewDay <=> /\ CurrentDay' = CurrentDay + 1
                       /\ committed' = [w \in Wallets |-> 0]
                       /\ UNCHANGED LimitsOnRecord
  /\ UNCHANGED Budget!allowanceVars <=> UNCHANGED <<LimitsOnRecord, committed, CurrentDay>>
BY DEF Budget!Init, Budget!SetLimit, Budget!Spend, Budget!NewDay,
       Budget!allowanceVars, LimitsOnRecord, LimitOf

\* Every step of Budget!Next, from the three the mapping names.
LEMMA BudgetSteps ==
  /\ \A w \in Wallets, l \in U64 : Budget!SetLimit(w, l) => Budget!Next
  /\ \A w \in Wallets, amount \in U64 \ {0} : Budget!Spend(w, amount) => Budget!Next
  /\ Budget!NewDay => Budget!Next
BY DEF Budget!Next

LEMMA InitIsInit == TradingInit => Budget!Init
<1> SUFFICES ASSUME TradingInit PROVE Budget!Init
  OBVIOUS
<1>1. \A w \in Wallets : LimitOf(w) = NoAgent
  BY DEF TradingInit, RegistryInit, LimitOf, Registered
<1>2. LimitsOnRecord = [w \in Wallets |-> NoAgent]
  BY <1>1 DEF LimitsOnRecord
<1>3. clock = 0 /\ committed = [w \in Wallets |-> 0]
  BY DEF TradingInit, RegistryInit, ChainInit
<1>4. CurrentDay = 0
  <2>1. \A d \in Nat \ {0} : 0 \div d = 0
    OBVIOUS
  <2> QED
    BY <1>3, <2>1, RouterAssumption DEF CurrentDay
<1> QED
  BY <1>2, <1>3, <1>4, BudgetMapping

\* Nothing changes that the allowance speaks of.
LEMMA AllowanceUntouched ==
  ASSUME UNCHANGED <<clock, agents, committed>>
  PROVE  UNCHANGED Budget!allowanceVars
<1>1. UNCHANGED <<LimitsOnRecord, committed, CurrentDay>>
  BY DEF LimitsOnRecord, LimitOf, Registered, CurrentDay
<1> QED
  BY <1>1, BudgetMapping

LEMMA ChargeIsSpend ==
  ASSUME TradingInv, clock' = clock, NEW s \in Wallets, NEW ceiling,
         Charged(s, ceiling)
  PROVE  Budget!Next
<1>1. /\ ceiling \in U64 \ {0} /\ ceiling \in Nat
      /\ RegistryTypeOK /\ Registered(s)
  BY RouterAssumption DEF Charged, U64, TradingInv, TradingTypeOK
<1>2. /\ agents'[s] \in AgentAuth
      /\ agents'[s].daily_limit = agents[s].daily_limit
      /\ SpentToday(s) + ceiling <= agents[s].daily_limit
      /\ \A v \in Wallets \ {s} : agents'[v] = agents[v]
  BY <1>1, ChargeFacts DEF Charged
<1>3. LimitsOnRecord[s] = agents[s].daily_limit /\ agents[s] \in AgentAuth
  BY <1>1, SpentTodayType DEF LimitsOnRecord, LimitOf
<1>4. LimitsOnRecord[s] # NoAgent
  BY <1>3, EventAssumption DEF AgentAuth
<1>5. Registered(s)'
  BY <1>2, SentinelAssumption DEF Registered
<1>6. LimitsOnRecord' = LimitsOnRecord
  <2>1. LimitOf(s)' = LimitOf(s)
    BY <1>1, <1>2, <1>5 DEF LimitOf
  <2>2. \A v \in Wallets \ {s} : LimitOf(v)' = LimitOf(v)
    BY <1>2 DEF LimitOf, Registered
  <2> QED
    BY <2>1, <2>2 DEF LimitsOnRecord
<1>7. committed[s] + ceiling <= LimitsOnRecord[s]
  BY <1>1, <1>2, <1>3 DEF TradingInv, BudgetOnRecord
<1>8. CurrentDay' = CurrentDay
  BY DEF CurrentDay
<1>9. Budget!Spend(s, ceiling)
  BY <1>1, <1>4, <1>6, <1>7, <1>8, BudgetMapping DEF Charged
<1> QED
  BY <1>1, <1>9, BudgetSteps

\* Each of the four handlers leaves the wallet it names with an account.
LEMMA HandlersRegister ==
  ASSUME RegistryTypeOK, NEW w \in Wallets, NEW limit \in LimitArgs,
         \/ \E s \in Officials, share \in ShareArgs, fee \in FeeArgs :
               \/ RegisterAgent(s, w, limit, share, fee)
               \/ \E e \in BOOLEAN : SetAgent(s, w, e, limit, share, fee)
         \/ SelfRegister(w, limit)
         \/ SetOwnLimit(w, limit)
  PROVE  agents'[w] \in AgentAuth
<1>1. /\ agents \in [Wallets -> AgentAuth \cup {NoAgent}]
      /\ config \in Config \cup {NoConfig}
      /\ CurrentDay \in Nat /\ 0 \in U64 /\ 0 \in U16 /\ limit \in U64
  BY CurrentDayType, RouterAssumption DEF RegistryTypeOK, ChainTypeOK, U64, U16
<1>2. ASSUME NEW s \in Officials, NEW share \in ShareArgs, NEW fee \in FeeArgs,
             RegisterAgent(s, w, limit, share, fee)
      PROVE  agents'[w] \in AgentAuth
  <2> DEFINE new == [daily_limit |-> limit, spent_today |-> 0,
                     day |-> CurrentDay, reward_bps |-> share,
                     fee_bps |-> fee, enabled |-> TRUE,
                     authority_managed |-> TRUE]
  <2>1. share \in U16 /\ fee \in U16
    BY RouterAssumption
  <2>2. new \in AgentAuth
    BY <1>1, <2>1 DEF AgentAuth
  <2>3. agents' = [agents EXCEPT ![w] = new]
    BY <1>2 DEF RegisterAgent
  <2> HIDE DEF new
  <2> QED
    BY <1>1, <2>2, <2>3
<1>3. ASSUME NEW s \in Officials, NEW share \in ShareArgs, NEW fee \in FeeArgs,
             NEW e \in BOOLEAN, SetAgent(s, w, e, limit, share, fee)
      PROVE  agents'[w] \in AgentAuth
  <2>1. share \in U16 /\ fee \in U16
    BY RouterAssumption
  <2>2. agents[w] \in AgentAuth
    BY <1>1, <1>3 DEF SetAgent, Registered
  <2>3. agents' = [agents EXCEPT ![w].enabled = e, ![w].daily_limit = limit,
                                 ![w].reward_bps = share, ![w].fee_bps = fee]
    BY <1>3 DEF SetAgent
  <2> QED
    BY <1>1, <2>1, <2>2, <2>3 DEF AgentAuth
<1>4. ASSUME SelfRegister(w, limit)
      PROVE  agents'[w] \in AgentAuth
  <2> DEFINE cap == config.default_daily_limit
             own == IF cap > 0 /\ cap < limit THEN cap ELSE limit
             new == [daily_limit |-> own, spent_today |-> 0,
                     day |-> CurrentDay, reward_bps |-> 0,
                     fee_bps |-> config.fee_bps, enabled |-> TRUE,
                     authority_managed |-> FALSE]
  <2>1. config \in Config
    BY <1>1, <1>4 DEF SelfRegister, SelfRegisterAccounts
  <2>2. cap \in U64 /\ config.fee_bps \in U16
    BY <2>1 DEF Config
  <2>3. own \in U64
    BY <1>1, <2>2
  <2>4. agents' = [agents EXCEPT ![w] = new]
    BY <1>4 DEF SelfRegister
  <2> HIDE DEF own
  <2>5. new \in AgentAuth
    BY <1>1, <2>2, <2>3 DEF AgentAuth
  <2> HIDE DEF new
  <2> QED
    BY <1>1, <2>4, <2>5
<1>5. ASSUME SetOwnLimit(w, limit)
      PROVE  agents'[w] \in AgentAuth
  <2>1. agents[w] \in AgentAuth
    BY <1>1, <1>5 DEF SetOwnLimit, SetOwnLimitAccounts, Registered
  <2> QED
    BY <1>1, <1>5, <2>1 DEF SetOwnLimit, AgentAuth
<1> QED
  BY <1>2, <1>3, <1>4, <1>5

LEMMA AdministerIsSetLimit ==
  ASSUME TradingInv, Administer
  PROVE  Budget!Next \/ UNCHANGED Budget!allowanceVars
<1>1. committed' = committed /\ RegistryTypeOK
  BY DEF Administer, TradingInv, TradingTypeOK
<1>2. CASE ConfigStep
  <2>1. UNCHANGED <<clock, agents>>
    BY <1>2 DEF ConfigStep, Initialize, UpdateConfig, SetPaused, SetAuthority, chainVars
  <2> QED
    BY <1>1, <2>1, AllowanceUntouched
<1>3. CASE AgentStep
  <2>1. PICK w \in Wallets, limit \in LimitArgs :
          \/ \E s \in Officials, share \in ShareArgs, fee \in FeeArgs :
                \/ RegisterAgent(s, w, limit, share, fee)
                \/ \E e \in BOOLEAN : SetAgent(s, w, e, limit, share, fee)
          \/ SelfRegister(w, limit)
          \/ SetOwnLimit(w, limit)
    BY <1>3 DEF AgentStep
  <2>2. CurrentDay' = CurrentDay
    BY <2>1 DEF RegisterAgent, SetAgent, SelfRegister, SetOwnLimit, chainVars, CurrentDay
  <2>3. /\ agents \in [Wallets -> AgentAuth \cup {NoAgent}]
        /\ agents' \in [Wallets -> AgentAuth \cup {NoAgent}]
    BY <1>1, <1>3, NextType DEF RegistryTypeOK, RegistryNext
  <2>4. \A v \in Wallets \ {w} : agents'[v] = agents[v]
    BY <2>1, <2>3 DEF RegisterAgent, SetAgent, SelfRegister, SetOwnLimit
  <2>5. agents'[w] \in AgentAuth /\ agents'[w] # NoAgent
    BY <1>1, <2>1, HandlersRegister, SentinelAssumption
  <2>6. PICK l \in U64 : l = agents'[w].daily_limit
    BY <2>5 DEF AgentAuth
  <2>7. LimitOf(w)' = l /\ \A v \in Wallets \ {w} : LimitOf(v)' = LimitOf(v)
    BY <2>4, <2>5, <2>6 DEF LimitOf, Registered
  <2>8. LimitsOnRecord' = [LimitsOnRecord EXCEPT ![w] = l]
    BY <2>7 DEF LimitsOnRecord
  <2>9. Budget!SetLimit(w, l)
    BY <1>1, <2>2, <2>8, BudgetMapping
  <2> QED
    BY <2>9, BudgetSteps
<1> QED
  BY <1>2, <1>3 DEF Administer

LEMMA PassTimeIsNewDay ==
  ASSUME TradingInv, PassTime
  PROVE  Budget!Next \/ UNCHANGED Budget!allowanceVars
<1>1. ChainTypeOK /\ RegistryTypeOK
  BY DEF TradingInv, TradingTypeOK, RegistryTypeOK
<1>2. /\ CurrentDay \in Nat /\ agents' = agents
      /\ CurrentDay' \in {CurrentDay, CurrentDay + 1}
  BY <1>1, NextDay, CurrentDayType DEF PassTime, TimePasses, ChainTypeOK
<1>3. LimitsOnRecord' = LimitsOnRecord
  BY <1>2 DEF LimitsOnRecord, LimitOf, Registered
<1>4. CASE CurrentDay' = CurrentDay
  BY <1>3, <1>4, BudgetMapping DEF PassTime
<1>5. CASE CurrentDay' = CurrentDay + 1
  <2>1. committed' = [w \in Wallets |-> 0]
    BY <1>2, <1>5 DEF PassTime
  <2>2. Budget!NewDay
    BY <1>3, <1>5, <2>1, BudgetMapping
  <2> QED
    BY <2>2, BudgetSteps
<1> QED
  BY <1>2, <1>4, <1>5

LEMMA TradingStepIsAllowed ==
  ASSUME TradingInv, [TradingNext]_tradingVars
  PROVE  [Budget!Next]_(Budget!allowanceVars)
<1>1. CASE TradeStep
  <2>1. PICK s \in Wallets :
           /\ OwnTrade(s)
           /\ \/ \E ceiling \in Amounts : Charged(s, ceiling)
              \/ UNCHANGED <<agents, committed>>
    BY <1>1, TradeStepFacts DEF TradingInv
  <2>2. clock' = clock
    BY <2>1 DEF OwnTrade
  <2> QED
    BY <2>1, <2>2, ChargeIsSpend, AllowanceUntouched
<1>2. CASE WalletStep \/ Graduate
  BY <1>2, WalletStepFacts, GraduateFacts, AllowanceUntouched DEF TradingInv
<1>3. CASE Administer \/ PassTime
  BY <1>3, AdministerIsSetLimit, PassTimeIsNewDay
<1>4. CASE UNCHANGED tradingVars
  BY <1>4, AllowanceUntouched DEF tradingVars, registryVars
<1> QED
  BY <1>1, <1>2, <1>3, <1>4 DEF TradingNext

\* The detailed program implements the abstract promise: with days rolled when
\* an agent happens to buy (guards.rs:17), it spends as if every allowance were
\* renewed at midnight, and within its limit on every day.
THEOREM RouterImplementsAllowance == TradingSpec => ImplementsAllowance
<1> QED
  BY TradingStepIsAllowed, InitIsInit, TradingInvariant, PTL
     DEF TradingSpec, ImplementsAllowance, Budget!Spec

-------------------------------------------------------------------------------
(***************************************************************************)
(* The rolling window: what an agent can spend in any stretch of one day,  *)
(* for every length of the day, every clock and every set of limits, is    *)
(* two budgets.  The budget of guards.rs:17 is one of the calendar day, so *)
(* the proof is about calendar days: none ever holds more than the highest *)
(* limit, and a stretch of one day meets two of them.                      *)
(***************************************************************************)

Seconds == 0 .. MaxClock

\* The calendar day d.
DaySeconds(d) == {u \in Seconds : u \div SECONDS_PER_DAY = d}

BoughtOn(w, d) == Sum(bought[w], DaySeconds(d))

WindowTypeOK == bought \in [Wallets -> [Seconds -> Nat]]

\* Nobody is granted, or has spent today, more than the highest limit.  The
\* second does not follow from the first: a limit may be lowered after the buy.
LimitsBelow ==
    \A w \in Wallets : Registered(w) => agents[w].daily_limit <= HighestLimit

CommittedBelow == \A w \in Wallets : committed[w] <= HighestLimit

\* The history adds up to the record of the day, and ends with it.
TodayIsCommitted == \A w \in Wallets : BoughtOn(w, CurrentDay) = committed[w]

FutureIsEmpty == \A w \in Wallets, u \in Seconds : u > clock => bought[w][u] = 0

DaysWithinLimit == \A w \in Wallets, d \in Nat : BoughtOn(w, d) <= HighestLimit

WindowInv ==
    /\ TradingInv
    /\ WindowTypeOK
    /\ LimitsBelow
    /\ CommittedBelow
    /\ TodayIsCommitted
    /\ FutureIsEmpty
    /\ DaysWithinLimit

-------------------------------------------------------------------------------
(***************************************************************************)
(* Days and limits.                                                        *)
(***************************************************************************)

LEMMA SecondsFinite ==
  /\ IsFiniteSet(Seconds)
  /\ \A d : DaySeconds(d) \subseteq Seconds /\ IsFiniteSet(DaySeconds(d))
<1>1. IsFiniteSet(Seconds)
  <2>1. 0 \in Int /\ MaxClock \in Int
    BY ChainAssumption
  <2> QED
    BY <2>1, FS_Interval DEF Seconds
<1> QED
  BY <1>1, FS_Subset DEF DaySeconds

LEMMA HighestLimitFacts ==
  /\ HighestLimit \in LimitArgs /\ HighestLimit \in Nat
  /\ \A l \in LimitArgs : l <= HighestLimit
<1>1. /\ IsFiniteSet(LimitArgs)
      /\ LimitArgs \subseteq Nat
  <2>1. 0 \in Int /\ U64_MAX \in Int
    BY RouterAssumption
  <2>2. IsFiniteSet(0 .. U64_MAX)
    BY <2>1, FS_Interval
  <2>3. LimitArgs \in SUBSET (0 .. U64_MAX)
    BY RouterAssumption DEF U64
  <2>4. IsFiniteSet(LimitArgs)
    BY <2>2, <2>3, FS_Subset
  <2> QED
    BY <2>3, <2>4
<1>2. \E l \in LimitArgs : \A m \in LimitArgs : m <= l
  <2>1. LimitArgs # {} /\ \A x \in LimitArgs : x \in Int
    BY <1>1, WindowAssumption
  <2> QED
    BY <1>1, <2>1, GreatestExists
<1> QED
  BY <1>1, <1>2 DEF HighestLimit

\* A stretch of one day meets two calendar days.
LEMMA StretchMeetsTwoDays ==
  ASSUME NEW t \in Seconds
  PROVE  /\ Stretch(t) \subseteq Seconds
         /\ \E d \in Nat : Stretch(t) \subseteq DaySeconds(d) \cup DaySeconds(d + 1)
<1> DEFINE D == SECONDS_PER_DAY
           d == t \div D
<1>1. D \in Nat \ {0} /\ t \in Nat
  BY RouterAssumption DEF Seconds
<1>2. d \in Nat /\ d * D <= t /\ t < (d + 1) * D
  BY <1>1, DivBounds
<1>3. ASSUME NEW u \in Stretch(t)
      PROVE  u \in DaySeconds(d) \cup DaySeconds(d + 1)
  <2> DEFINE e == u \div D
  <2>1. u \in Seconds /\ u \in Nat /\ t <= u /\ u < t + D
    BY <1>1 DEF Stretch, Seconds
  <2>2. e \in Nat /\ e * D <= u
    BY <1>1, <2>1, DivBounds
  <2>3. d <= e
    BY <1>1, <2>1, DivMonotone
  <2> HIDE DEF d, e, D
  <2>4. e < d + 2
    <3>1. (d + 2) * D = (d + 1) * D + D /\ (d + 1) * D \in Int /\ e * D \in Int
      BY <1>1, <1>2, <2>2
    <3>2. e * D < (d + 2) * D
      BY <1>1, <1>2, <2>1, <2>2, <3>1
    <3> QED
      BY <1>1, <1>2, <2>2, <3>2, TimesLess
  <2>5. e = d \/ e = d + 1
    BY <1>2, <2>2, <2>3, <2>4
  <2> QED
    BY <2>1, <2>5 DEF DaySeconds, e, D
<1> QED
  BY <1>2, <1>3 DEF Stretch, Seconds

\* The invariant says what the run checks.
LEMMA WindowInvSuffices ==
  ASSUME WindowInv
  PROVE  TwoBudgetsAtMost
<1> SUFFICES ASSUME NEW w \in Wallets, NEW t \in Seconds
             PROVE  BoughtFrom(w, t) <= 2 * HighestLimit
  BY DEF TwoBudgetsAtMost, Seconds
<1> DEFINE f == bought[w]
<1>1. \A u \in Seconds : f[u] \in Nat
  BY DEF WindowInv, WindowTypeOK
<1>2. PICK d \in Nat : Stretch(t) \subseteq DaySeconds(d) \cup DaySeconds(d + 1)
  BY StretchMeetsTwoDays
<1>3. /\ Stretch(t) \in SUBSET Seconds /\ DaySeconds(d) \in SUBSET Seconds
      /\ DaySeconds(d + 1) \in SUBSET Seconds
  BY StretchMeetsTwoDays, SecondsFinite
<1>4. BoughtOn(w, d) <= HighestLimit /\ BoughtOn(w, d + 1) <= HighestLimit
  BY DEF WindowInv, DaysWithinLimit
<1>5. BoughtFrom(w, t) = Sum(f, Stretch(t))
  BY DEF BoughtFrom, Sum
<1>6. BoughtOn(w, d) = Sum(f, DaySeconds(d))
      /\ BoughtOn(w, d + 1) = Sum(f, DaySeconds(d + 1))
  BY DEF BoughtOn
<1> HIDE DEF f
<1>7. Sum(f, Stretch(t)) <= Sum(f, DaySeconds(d)) + Sum(f, DaySeconds(d + 1))
  BY <1>1, <1>2, <1>3, SecondsFinite, SumCovered
<1>8. /\ Sum(f, Stretch(t)) \in Int /\ Sum(f, DaySeconds(d)) \in Int
      /\ Sum(f, DaySeconds(d + 1)) \in Int
  <2>1. \A T \in SUBSET Seconds : IsFiniteSet(T) /\ \A u \in T : f[u] \in Int
    BY <1>1, SecondsFinite, FS_Subset
  <2> QED
    BY <1>3, <2>1, SumType
<1> QED
  BY <1>4, <1>5, <1>6, <1>7, <1>8, HighestLimitFacts

-------------------------------------------------------------------------------
(***************************************************************************)
(* Limits.                                                                 *)
(***************************************************************************)

\* No handler stores a limit nobody asked for.
LEMMA AdministerKeepsLimits ==
  ASSUME TradingTypeOK, LimitsBelow, ConfigStep \/ AgentStep
  PROVE  LimitsBelow'
<1>1. RegistryTypeOK /\ agents \in [Wallets -> AgentAuth \cup {NoAgent}]
  BY DEF TradingTypeOK, RegistryTypeOK
<1>2. CASE ConfigStep
  <2>1. agents' = agents
    BY <1>2 DEF ConfigStep, Initialize, UpdateConfig, SetPaused, SetAuthority
  <2> QED
    BY <2>1 DEF LimitsBelow, Registered, HighestLimit
<1>3. CASE AgentStep
  <2>1. PICK w \in Wallets, limit \in LimitArgs :
           \/ \E s \in Officials, share \in ShareArgs, fee \in FeeArgs :
                 \/ RegisterAgent(s, w, limit, share, fee)
                 \/ \E e \in BOOLEAN : SetAgent(s, w, e, limit, share, fee)
           \/ SelfRegister(w, limit)
           \/ SetOwnLimit(w, limit)
    BY <1>3 DEF AgentStep
  <2>2. \A v \in Wallets \ {w} : agents'[v] = agents[v]
    <3>1. \E record : agents' = [agents EXCEPT ![w] = record]
      BY <1>1, <2>1, OneAgentChanges
    <3> QED
      BY <1>1, <3>1
  <2>3. limit <= HighestLimit /\ limit \in Nat /\ HighestLimit \in Nat
    BY HighestLimitFacts, RouterAssumption DEF U64
  <2>4. agents'[w].daily_limit <= HighestLimit
    <3>1. CASE \E s \in Officials, share \in ShareArgs, fee \in FeeArgs :
                  RegisterAgent(s, w, limit, share, fee)
      <4>1. agents'[w].daily_limit = limit
        BY <1>1, <3>1 DEF RegisterAgent
      <4> QED
        BY <2>3, <4>1
    <3>2. CASE SetOwnLimit(w, limit)
      <4>1. agents[w] \in AgentAuth
        BY <1>1, <3>2 DEF SetOwnLimit, SetOwnLimitAccounts, Registered
      <4>2. agents'[w].daily_limit = limit
        BY <1>1, <3>2, <4>1 DEF SetOwnLimit, AgentAuth
      <4> QED
        BY <2>3, <4>2
    <3>4. ASSUME NEW s \in Officials, NEW share \in ShareArgs, NEW fee \in FeeArgs,
                 NEW e \in BOOLEAN, SetAgent(s, w, e, limit, share, fee)
          PROVE  agents'[w].daily_limit <= HighestLimit
      <4>1. agents[w] \in AgentAuth
        BY <1>1, <3>4 DEF SetAgent, Registered
      <4>2. agents' = [agents EXCEPT ![w].enabled = e, ![w].daily_limit = limit,
                                     ![w].reward_bps = share, ![w].fee_bps = fee]
        BY <3>4 DEF SetAgent
      <4>3. agents'[w].daily_limit = limit
        BY <1>1, <4>1, <4>2 DEF AgentAuth
      <4> QED
        BY <2>3, <4>3
    <3>3. CASE SelfRegister(w, limit)
      <4> DEFINE cap == config.default_daily_limit
                 own == IF cap > 0 /\ cap < limit THEN cap ELSE limit
      <4>1. agents'[w].daily_limit = own
        BY <1>1, <3>3 DEF SelfRegister
      <4>2. cap \in Nat
        BY <1>1, <3>3, RouterAssumption
           DEF SelfRegister, SelfRegisterAccounts, RegistryTypeOK, Config, U64
      <4>3. own <= limit
        BY <2>3, <4>2
      <4>4. own \in Nat
        BY <2>3, <4>2
      <4> HIDE DEF own
      <4> QED
        BY <2>3, <4>1, <4>3, <4>4
    <3> QED
      BY <2>1, <3>1, <3>2, <3>3, <3>4
  <2> QED
    BY <2>2, <2>4 DEF LimitsBelow, Registered, HighestLimit
<1> QED
  BY <1>2, <1>3

\* Only a handler of the registry writes a limit.
LEMMA LimitsStayBelow ==
  ASSUME TradingTypeOK, LimitsBelow, TradingNext
  PROVE  LimitsBelow'
<1>1. CASE agents' = agents
  BY <1>1 DEF LimitsBelow, Registered, HighestLimit
<1>2. CASE TradeStep
  <2>1. PICK s \in Wallets :
           /\ OwnTrade(s)
           /\ \/ \E ceiling \in Amounts : Charged(s, ceiling)
              \/ UNCHANGED <<agents, committed>>
    BY <1>2, TradeStepFacts
  <2>2. ASSUME NEW ceiling \in Amounts, Charged(s, ceiling)
        PROVE  LimitsBelow'
    <3>1. /\ ceiling \in Nat /\ Registered(s) /\ ChargeDailyBudget(s, ceiling)
          /\ RegistryTypeOK
      BY <2>2, TradingAssumption, RouterAssumption DEF Charged, U64, TradingTypeOK
    <3>2. /\ agents'[s].daily_limit = agents[s].daily_limit
          /\ \A v \in Wallets \ {s} : agents'[v] = agents[v]
      BY <3>1, ChargeFacts
    <3> QED
      BY <3>1, <3>2 DEF LimitsBelow, Registered, HighestLimit
  <2> QED
    BY <1>1, <2>1, <2>2
<1>3. CASE WalletStep \/ Graduate
  BY <1>1, <1>3, WalletStepFacts, GraduateFacts
<1>4. CASE Administer
  BY <1>4, AdministerKeepsLimits DEF Administer
<1>5. CASE PassTime
  BY <1>1, <1>5 DEF PassTime, TimePasses
<1> QED
  BY <1>2, <1>3, <1>4, <1>5 DEF TradingNext

-------------------------------------------------------------------------------
(***************************************************************************)
(* What a step adds to the history.                                        *)
(***************************************************************************)

LEMMA NowFacts ==
  ASSUME ChainTypeOK
  PROVE  /\ clock \in Seconds /\ CurrentDay \in Nat
         /\ clock \in DaySeconds(CurrentDay)
         /\ \A d : clock \in DaySeconds(d) => d = CurrentDay
<1>1. clock \in Seconds /\ CurrentDay \in Nat
  BY CurrentDayType DEF ChainTypeOK, Seconds
<1> QED
  BY <1>1 DEF DaySeconds, CurrentDay

\* The history of one wallet, when so much is added to this second.
LEMMA HistoryGrows ==
  ASSUME ChainTypeOK, WindowTypeOK, NEW w \in Wallets, NEW more \in Nat,
         bought'[w] = [bought[w] EXCEPT ![clock] = @ + more]
  PROVE  /\ bought'[w] \in [Seconds -> Nat]
         /\ \A u \in Seconds : u # clock => bought'[w][u] = bought[w][u]
         /\ Sum(bought'[w], DaySeconds(CurrentDay)) = BoughtOn(w, CurrentDay) + more
         /\ \A d \in Nat : d # CurrentDay =>
               Sum(bought'[w], DaySeconds(d)) = BoughtOn(w, d)
<1> DEFINE f == bought[w]
           g == bought'[w]
           T == DaySeconds(CurrentDay)
<1>1. f \in [Seconds -> Nat] /\ g = [f EXCEPT ![clock] = @ + more]
  BY DEF WindowTypeOK
<1>2. clock \in Seconds /\ clock \in T /\ T \subseteq Seconds /\ IsFiniteSet(T)
  BY NowFacts, SecondsFinite
<1>3. /\ g \in [Seconds -> Nat] /\ g[clock] = f[clock] + more
      /\ \A u \in Seconds : u # clock => g[u] = f[u]
  BY <1>1, <1>2
<1>4. Sum(g, T) = Sum(f, T) + more
  <2> HIDE DEF f, g, T
  <2>1. /\ \A u \in T : f[u] \in Int
        /\ g[clock] \in Int
        /\ \A u \in T \ {clock} : g[u] = f[u]
    BY <1>1, <1>2, <1>3
  <2>2. Sum(g, T) = (Sum(f, T) - f[clock]) + g[clock]
    BY <1>2, <2>1, SumUpdate
  <2>3. Sum(f, T) \in Int
    BY <1>2, <2>1, SumType
  <2> QED
    BY <1>1, <1>2, <1>3, <2>2, <2>3
<1>5. ASSUME NEW d \in Nat, d # CurrentDay
      PROVE  Sum(g, DaySeconds(d)) = Sum(f, DaySeconds(d))
  <2>1. \A u \in DaySeconds(d) : u \in Seconds /\ u # clock
    BY <1>5, NowFacts, SecondsFinite
  <2>2. \A u \in DaySeconds(d) : g[u] = f[u]
    BY <1>3, <2>1
  <2> HIDE DEF f, g
  <2> QED
    BY <2>2, SecondsFinite, SumAgree
<1> QED
  BY <1>3, <1>4, <1>5 DEF BoughtOn, CurrentDay

\* Nothing is bought: nothing is added.
LEMMA HistoryStays ==
  ASSUME ChainTypeOK, WindowTypeOK, event' = NoEvent,
         bought' = [w \in Wallets |-> [bought[w] EXCEPT ![clock] = @ + BoughtNow(w)]]
  PROVE  bought' = bought
<1>1. ASSUME NEW w \in Wallets
      PROVE  [bought[w] EXCEPT ![clock] = @ + BoughtNow(w)] = bought[w]
  <2>1. bought[w] \in [Seconds -> Nat] /\ BoughtNow(w) = 0
    BY DEF WindowTypeOK, BoughtNow
  <2>2. clock \in Seconds
    BY NowFacts
  <2> QED
    BY <2>1, <2>2
<1> QED
  BY <1>1 DEF WindowTypeOK

-------------------------------------------------------------------------------
(***************************************************************************)
(* The steps.                                                              *)
(***************************************************************************)

\* What a trade commits is within its limit, and so within the highest.
LEMMA TradeCommits ==
  ASSUME WindowInv, TradeStep, NEW w \in Wallets
  PROVE  /\ clock' = clock /\ event' # NoEvent
         /\ BoughtNow(w) \in Nat
         /\ committed'[w] = committed[w] + BoughtNow(w)
         /\ committed'[w] <= HighestLimit
<1>1. /\ TradingTypeOK /\ RegistryTypeOK /\ BudgetOnRecord
      /\ committed \in [Wallets -> Nat] /\ HighestLimit \in Nat
  BY HighestLimitFacts DEF WindowInv, TradingInv, TradingTypeOK
<1>2. PICK s \in Wallets :
         /\ OwnTrade(s)
         /\ \/ \E ceiling \in Amounts : Charged(s, ceiling)
            \/ UNCHANGED <<agents, committed>>
  BY <1>1, TradeStepFacts
<1>3. clock' = clock /\ event' # NoEvent
  BY <1>2, EventAssumption DEF OwnTrade
<1>4. BoughtNow(w) = committed'[w] - committed[w]
  BY <1>3 DEF BoughtNow
<1>5. CASE committed'[w] = committed[w]
  <2>1. committed[w] \in Nat /\ committed[w] <= HighestLimit
    BY <1>1 DEF WindowInv, CommittedBelow
  <2>2. BoughtNow(w) = 0
    BY <1>4, <1>5, <2>1
  <2> QED
    BY <1>3, <1>5, <2>1, <2>2
<1>6. ASSUME NEW ceiling \in Amounts, Charged(s, ceiling), w = s
      PROVE  BoughtNow(w) = ceiling /\ committed'[w] <= HighestLimit
  <2>1. /\ ceiling \in Nat /\ Registered(w) /\ ChargeDailyBudget(w, ceiling)
        /\ committed' = [committed EXCEPT ![w] = @ + ceiling]
    BY <1>6, TradingAssumption, RouterAssumption DEF Charged, U64
  <2>2. /\ SpentToday(w) + ceiling <= agents[w].daily_limit
        /\ committed[w] = SpentToday(w)
        /\ agents[w].daily_limit <= HighestLimit
    BY <1>1, <2>1, ChargeFacts DEF BudgetOnRecord, WindowInv, LimitsBelow
  <2>3. agents[w].daily_limit \in Nat
    BY <1>1, <2>1, SpentTodayType, RouterAssumption DEF AgentAuth, U64
  <2>4. committed'[w] = committed[w] + ceiling /\ committed[w] \in Nat
    BY <1>1, <2>1
  <2> QED
    BY <1>1, <1>4, <2>1, <2>2, <2>3, <2>4
<1>7. \/ committed'[w] = committed[w]
      \/ w = s /\ \E ceiling \in Amounts : Charged(s, ceiling)
  BY <1>1, <1>2 DEF Charged
<1>8. CASE w = s /\ \E ceiling \in Amounts : Charged(s, ceiling)
  <2>1. PICK ceiling \in Amounts : Charged(s, ceiling)
    BY <1>8
  <2>2. BoughtNow(w) = ceiling /\ committed'[w] <= HighestLimit
    BY <1>6, <1>8, <2>1
  <2>3. /\ ceiling \in Nat /\ committed[w] \in Nat
        /\ committed'[w] = committed[w] + ceiling
    BY <1>1, <1>8, <2>1, TradingAssumption, RouterAssumption DEF Charged, U64
  <2> QED
    BY <1>3, <2>2, <2>3
<1> QED
  BY <1>5, <1>7, <1>8

LEMMA TradeKeepsWindow ==
  ASSUME WindowInv, TradingInv', LimitsBelow', TradeStep,
         bought' = [w \in Wallets |-> [bought[w] EXCEPT ![clock] = @ + BoughtNow(w)]]
  PROVE  WindowInv'
<1>1. /\ ChainTypeOK /\ WindowTypeOK /\ HighestLimit \in Nat
      /\ CurrentDay \in Nat /\ clock \in Seconds
  BY HighestLimitFacts, NowFacts
     DEF WindowInv, TradingInv, TradingTypeOK, RegistryTypeOK
<1>2. clock' = clock \/ Wallets = {}
  BY TradeCommits
<1>3. \E s \in Wallets : TRUE
  BY DEF TradeStep
<1>4. clock' = clock /\ CurrentDay' = CurrentDay
  BY <1>2, <1>3 DEF CurrentDay
<1>5. ASSUME NEW w \in Wallets
      PROVE  /\ bought'[w] \in [Seconds -> Nat]
             /\ \A u \in Seconds : u # clock => bought'[w][u] = bought[w][u]
             /\ Sum(bought'[w], DaySeconds(CurrentDay)) = committed'[w]
             /\ committed'[w] <= HighestLimit
             /\ \A d \in Nat : d # CurrentDay =>
                   Sum(bought'[w], DaySeconds(d)) = BoughtOn(w, d)
  <2> DEFINE more == BoughtNow(w)
  <2>1. /\ more \in Nat /\ committed'[w] = committed[w] + more
        /\ committed'[w] <= HighestLimit
    BY TradeCommits
  <2>2. bought'[w] = [bought[w] EXCEPT ![clock] = @ + more]
    BY DEF WindowNext
  <2>3. BoughtOn(w, CurrentDay) = committed[w]
    BY DEF WindowInv, TodayIsCommitted
  <2> HIDE DEF more
  <2>4. /\ bought'[w] \in [Seconds -> Nat]
        /\ \A u \in Seconds : u # clock => bought'[w][u] = bought[w][u]
        /\ Sum(bought'[w], DaySeconds(CurrentDay)) = BoughtOn(w, CurrentDay) + more
        /\ \A d \in Nat : d # CurrentDay =>
              Sum(bought'[w], DaySeconds(d)) = BoughtOn(w, d)
    BY <1>1, <2>1, <2>2, HistoryGrows
  <2> QED
    BY <2>1, <2>3, <2>4
<1>6. WindowTypeOK'
  BY <1>5 DEF WindowTypeOK
<1>7. CommittedBelow'
  BY <1>5 DEF CommittedBelow, HighestLimit
<1>8. TodayIsCommitted'
  BY <1>4, <1>5 DEF TodayIsCommitted, BoughtOn
<1>9. FutureIsEmpty'
  <2> SUFFICES ASSUME NEW w \in Wallets, NEW u \in Seconds, u > clock
               PROVE  bought'[w][u] = 0
    BY <1>4 DEF FutureIsEmpty
  <2>1. u # clock
    BY DEF Seconds
  <2> QED
    BY <1>5, <2>1 DEF WindowInv, FutureIsEmpty
<1>10. DaysWithinLimit'
  <2> SUFFICES ASSUME NEW w \in Wallets, NEW d \in Nat
               PROVE  Sum(bought'[w], DaySeconds(d)) <= HighestLimit
    BY DEF DaysWithinLimit, BoughtOn, HighestLimit
  <2>1. CASE d = CurrentDay
    BY <1>5, <2>1
  <2>2. CASE d # CurrentDay
    BY <1>5, <2>2 DEF WindowInv, DaysWithinLimit
  <2> QED
    BY <2>1, <2>2
<1> QED
  BY <1>6, <1>7, <1>8, <1>9, <1>10 DEF WindowInv

\* Steps that buy nothing, on the same day.
LEMMA CalmKeepsWindow ==
  ASSUME WindowInv, TradingInv', LimitsBelow', event' = NoEvent,
         committed' = committed, CurrentDay' = CurrentDay, clock' >= clock,
         bought' = [w \in Wallets |-> [bought[w] EXCEPT ![clock] = @ + BoughtNow(w)]]
  PROVE  WindowInv'
<1>1. ChainTypeOK /\ WindowTypeOK /\ clock \in Nat /\ clock' \in Nat
  BY DEF WindowInv, TradingInv, TradingTypeOK, RegistryTypeOK, ChainTypeOK
<1>2. bought' = bought
  BY <1>1, HistoryStays
<1>3. WindowTypeOK' /\ CommittedBelow' /\ TodayIsCommitted' /\ DaysWithinLimit'
  BY <1>2 DEF WindowInv, WindowTypeOK, CommittedBelow, TodayIsCommitted,
              DaysWithinLimit, BoughtOn, HighestLimit
<1>4. FutureIsEmpty'
  <2>1. \A u \in Seconds : u > clock' => u > clock
    BY <1>1 DEF Seconds
  <2> QED
    BY <1>2, <2>1 DEF WindowInv, FutureIsEmpty
<1> QED
  BY <1>3, <1>4 DEF WindowInv

\* The second that starts a day: its seconds are all still to come.
LEMMA MidnightKeepsWindow ==
  ASSUME WindowInv, TradingInv', LimitsBelow', PassTime,
         CurrentDay' = CurrentDay + 1,
         bought' = [w \in Wallets |-> [bought[w] EXCEPT ![clock] = @ + BoughtNow(w)]]
  PROVE  WindowInv'
<1>1. /\ ChainTypeOK /\ WindowTypeOK /\ clock \in Nat /\ clock' = clock + 1
      /\ CurrentDay \in Nat /\ HighestLimit \in Nat
  BY NowFacts, HighestLimitFacts
     DEF WindowInv, TradingInv, TradingTypeOK, RegistryTypeOK, ChainTypeOK,
         PassTime, TimePasses, Tick
<1>2. bought' = bought
  BY <1>1, HistoryStays DEF PassTime
<1>3. committed' = [w \in Wallets |-> 0]
  BY <1>1 DEF PassTime
<1>4. \A u \in DaySeconds(CurrentDay + 1) : u \in Seconds /\ u > clock
  <2> SUFFICES ASSUME NEW u \in DaySeconds(CurrentDay + 1), u <= clock
               PROVE  FALSE
    BY <1>1 DEF DaySeconds, Seconds
  <2>1. u \in Nat /\ u \div SECONDS_PER_DAY = CurrentDay + 1
    BY DEF DaySeconds, Seconds
  <2>2. u \div SECONDS_PER_DAY <= clock \div SECONDS_PER_DAY
    BY <1>1, <2>1, RouterAssumption, DivMonotone
  <2> QED
    BY <1>1, <2>1, <2>2 DEF CurrentDay
<1>5. ASSUME NEW w \in Wallets
      PROVE  BoughtOn(w, CurrentDay + 1) = 0
  <2>1. \A u \in DaySeconds(CurrentDay + 1) : bought[w][u] = 0
    BY <1>4 DEF WindowInv, FutureIsEmpty
  <2> QED
    BY <2>1, SecondsFinite, SumOfZeros DEF BoughtOn
<1>6. WindowTypeOK' /\ DaysWithinLimit'
  BY <1>2 DEF WindowInv, WindowTypeOK, DaysWithinLimit, BoughtOn, HighestLimit
<1>7. CommittedBelow'
  BY <1>1, <1>3 DEF CommittedBelow, HighestLimit
<1>8. TodayIsCommitted'
  BY <1>2, <1>3, <1>5 DEF TodayIsCommitted, BoughtOn
<1>9. FutureIsEmpty'
  <2>1. \A u \in Seconds : u > clock' => u > clock
    BY <1>1 DEF Seconds
  <2> QED
    BY <1>2, <2>1 DEF WindowInv, FutureIsEmpty
<1> QED
  BY <1>6, <1>7, <1>8, <1>9 DEF WindowInv

LEMMA WindowInductive ==
  /\ WindowInit => WindowInv
  /\ WindowInv /\ [WindowNext]_windowVars => WindowInv'
<1>1. ASSUME WindowInit
      PROVE  WindowInv
  <2>1. TradingInv /\ TradingTypeOK
    BY <1>1, TradingInductive DEF WindowInit, TradingInv
  <2>2. /\ \A w \in Wallets : ~ Registered(w) /\ committed[w] = 0
        /\ bought = [w \in Wallets |-> [u \in Seconds |-> 0]]
        /\ HighestLimit \in Nat
    BY <1>1, HighestLimitFacts
       DEF WindowInit, TradingInit, RegistryInit, Registered, Seconds
  <2>3. ASSUME NEW w \in Wallets, NEW d
        PROVE  BoughtOn(w, d) = 0
    <3>1. \A u \in DaySeconds(d) : bought[w][u] = 0
      BY <2>2, SecondsFinite
    <3> QED
      BY <3>1, SecondsFinite, SumOfZeros DEF BoughtOn
  <2>4. WindowTypeOK /\ FutureIsEmpty
    BY <2>2 DEF WindowTypeOK, FutureIsEmpty
  <2>5. LimitsBelow /\ CommittedBelow
    BY <2>2 DEF LimitsBelow, CommittedBelow
  <2>6. TodayIsCommitted /\ DaysWithinLimit
    BY <2>2, <2>3 DEF TodayIsCommitted, DaysWithinLimit
  <2> QED
    BY <2>1, <2>4, <2>5, <2>6 DEF WindowInv
<1>2. ASSUME WindowInv, WindowNext
      PROVE  WindowInv'
  <2>1. /\ TradingNext /\ TradingTypeOK /\ clock \in Nat /\ clock >= clock
        /\ bought' = [w \in Wallets |->
                        [bought[w] EXCEPT ![clock] = @ + BoughtNow(w)]]
    BY <1>2 DEF WindowNext, WindowInv, TradingInv, TradingTypeOK, RegistryTypeOK,
                ChainTypeOK
  <2>2. TradingInv' /\ LimitsBelow'
    BY <1>2, <2>1, TradingInductive, LimitsStayBelow DEF WindowInv
  <2>3. CASE TradeStep
    BY <1>2, <2>1, <2>2, <2>3, TradeKeepsWindow
  <2>4. CASE WalletStep \/ Graduate \/ Administer
    <3>1. UNCHANGED <<clock, committed>> /\ event' = NoEvent
      <4>1. CASE WalletStep \/ Graduate
        BY <2>1, <4>1, WalletStepFacts, GraduateFacts
      <4>2. CASE Administer
        <5>1. RegistryTypeOK /\ RecordsNotAhead
          BY <1>2 DEF WindowInv, TradingInv, TradingTypeOK
        <5>2. /\ ConfigStep \/ AgentStep
              /\ event' = NoEvent /\ committed' = committed
          BY <4>2 DEF Administer
        <5> QED
          BY <5>1, <5>2, AdministerKeepsRecord
      <4> QED
        BY <2>4, <4>1, <4>2
    <3>2. CurrentDay' = CurrentDay /\ clock' >= clock
      BY <2>1, <3>1 DEF CurrentDay
    <3> QED
      BY <1>2, <2>1, <2>2, <3>1, <3>2, CalmKeepsWindow
  <2>5. CASE PassTime
    <3>1. /\ CurrentDay' \in {CurrentDay, CurrentDay + 1}
          /\ clock' = clock + 1 /\ event' = NoEvent
      BY <1>2, <2>5, NextDay
         DEF PassTime, TimePasses, Tick, WindowInv, TradingInv, TradingTypeOK,
             RegistryTypeOK
    <3>2. CASE CurrentDay' = CurrentDay
      <4>1. committed' = committed /\ clock' >= clock
        BY <2>1, <2>5, <3>1, <3>2 DEF PassTime
      <4> QED
        BY <1>2, <2>1, <2>2, <3>1, <3>2, <4>1, CalmKeepsWindow
    <3>3. CASE CurrentDay' = CurrentDay + 1
      BY <1>2, <2>1, <2>2, <2>5, <3>3, MidnightKeepsWindow
    <3> QED
      BY <3>1, <3>2, <3>3
  <2> QED
    BY <2>1, <2>3, <2>4, <2>5 DEF TradingNext
<1>3. ASSUME WindowInv, UNCHANGED windowVars
      PROVE  WindowInv'
  <2>1. UNCHANGED tradingVars /\ bought' = bought
    BY <1>3 DEF windowVars
  <2>2. TradingInv'
    BY <1>3, <2>1, TradingInductive DEF WindowInv
  <2>3. UNCHANGED <<clock, agents, committed>>
    BY <2>1 DEF tradingVars, registryVars
  <2> QED
    BY <1>3, <2>1, <2>2, <2>3
       DEF WindowInv, WindowTypeOK, LimitsBelow, CommittedBelow, TodayIsCommitted,
           FutureIsEmpty, DaysWithinLimit, BoughtOn, HighestLimit, Registered,
           CurrentDay
<1> QED
  BY <1>1, <1>2, <1>3

\* For every day length, clock, ceiling and limit, and whatever changes of
\* limits and days fall in between: a stretch of one day never holds more than
\* two budgets (guards.rs:17).  SECURITY.md:16 promises one; the run
\* rolling_window shows a state with two.
THEOREM TwoBudgetsAtMostAlways == WindowSpec => []TwoBudgetsAtMost
<1>1. WindowInv => TwoBudgetsAtMost
  BY WindowInvSuffices
<1> QED
  BY <1>1, WindowInductive, PTL DEF WindowSpec

\* The history is only a history: the program with it is the program.
LEMMA WindowIsTrading == WindowSpec => TradingSpec
<1>1. WindowInit => TradingInit
  BY DEF WindowInit
<1>2. [WindowNext]_windowVars => [TradingNext]_tradingVars
  BY DEF WindowNext, windowVars
<1> QED
  BY <1>1, <1>2, PTL DEF WindowSpec, TradingSpec

\* Keeping the history changes nothing about who may spend what: a trade is
\* its signer's own (SECURITY.md:14).
THEOREM WindowTradesAreOwn == WindowSpec => OwnBudgetOnly
<1> QED
  BY WindowIsTrading, TradesAreOwn, PTL

===============================================================================
