------------------------------ MODULE RouterProofs ------------------------------
(***************************************************************************)
(* Trading and rewards together, for every set of keys and wallets.  What  *)
(* each proves alone holds of both because neither writes what the other's *)
(* invariant is about: a trade leaves shares, rates and the vault alone, a *)
(* payout the record of the day and the terms of every agent.              *)
(***************************************************************************)
EXTENDS GuardDrill, TradingProofs, RewardsProofs

RouterInv == TradingInv /\ VaultInv

-------------------------------------------------------------------------------
(***************************************************************************)
(* What trading leaves alone of the rewards.                               *)
(***************************************************************************)

LEMMA TradingSideInv ==
  ASSUME RouterInv, TradingSide
  PROVE  RouterInv'
<1>1. TradingNext /\ payout' = NoPayout /\ UNCHANGED vaultVars
  BY DEF TradingSide
<1>2. TradingInv'
  BY <1>1, TradingInductive DEF RouterInv
<1>3. TradingTypeOK /\ RegistryInv /\ RegistryTypeOK'
  BY <1>2 DEF RouterInv, VaultInv, TradingInv, TradingTypeOK
<1>4. SharesAddUp' /\ FeesCapped' /\ (config # NoConfig => config' # NoConfig)
  <2>1. CASE TradeStep
    <3>1. PICK s \in Wallets :
             /\ OwnTrade(s)
             /\ \/ \E ceiling \in Amounts : Charged(s, ceiling)
                \/ UNCHANGED <<agents, committed>>
      BY <1>3, <2>1, TradeStepFacts
    <3>2. config' = config
      BY <3>1 DEF OwnTrade
    <3> QED
      BY <1>3, <3>1, <3>2, ChargeKeepsTerms, AgentsUntouchedInv
  <2>2. CASE WalletStep \/ Graduate
    BY <1>3, <2>2, WalletStepFacts, GraduateFacts, AgentsUntouchedInv
  <2>3. CASE Administer \/ PassTime
    <3>1. RegistryNext
      BY <2>3 DEF Administer, PassTime, RegistryNext
    <3>2. RegistryInv'
      BY <1>3, <3>1, RegistryInductive
    <3> QED
      BY <3>1, <3>2, ConfigIsForGood DEF RegistryInv, RouterInv
  <2> QED
    BY <1>1, <2>1, <2>2, <2>3 DEF TradingNext
<1>5. VaultInv'
  BY <1>1, <1>3, <1>4
     DEF RouterInv, VaultInv, RegistryInv, RewardsTypeOK, VaultReserved, vaultVars
<1> QED
  BY <1>2, <1>5 DEF RouterInv

-------------------------------------------------------------------------------
(***************************************************************************)
(* What rewards leave alone of trading.                                    *)
(***************************************************************************)

LEMMA RewardsSideFacts ==
  ASSUME RouterInv, RewardsSide
  PROVE  /\ VaultInv'
         /\ UNCHANGED <<clock, config, agents, wsol, reserves, complete, committed>>
         /\ event' = NoEvent
<1>1. VaultInv' /\ UNCHANGED <<clock, config, agents>>
  BY InitCreatorVaultInv, CollectCurveInv, CollectAmmInv, UnwrapCreatorFeesInv,
     DistributeInv DEF RewardsSide, RewardsStep, RouterInv
<1> QED
  BY <1>1 DEF RewardsSide, venueVars

LEMMA RewardsSideInv ==
  ASSUME RouterInv, RewardsSide
  PROVE  RouterInv'
<1>1. /\ VaultInv'
      /\ UNCHANGED <<clock, config, agents, wsol, reserves, complete, committed>>
      /\ event' = NoEvent
  BY RewardsSideFacts
<1>2. TradingTypeOK'
  BY <1>1 DEF RouterInv, TradingInv, TradingTypeOK, VaultInv, RewardsTypeOK
<1>3. BudgetOnRecord' /\ RecordsNotAhead'
  BY <1>1, RecordUntouched DEF RouterInv
<1> QED
  BY <1>1, <1>2, <1>3 DEF RouterInv, TradingInv

LEMMA RouterInductive ==
  /\ RouterInit => RouterInv
  /\ RouterInv /\ [RouterNext]_routerVars => RouterInv'
<1>1. RouterInit => RouterInv
  <2>1. RouterInit => TradingInit /\ RewardsInit
    BY DEF RouterInit
  <2>2. TradingInit => TradingInv
    BY TradingInductive
  <2>3. RewardsInit => RewardsInv
    BY RewardsInductive
  <2>4. RewardsInv => VaultInv
    BY DEF RewardsInv, PursesInv
  <2> QED
    BY <2>1, <2>2, <2>3, <2>4 DEF RouterInv
<1>2. ASSUME RouterInv, UNCHANGED routerVars
      PROVE  RouterInv'
  <2>1. UNCHANGED tradingVars /\ UNCHANGED vaultVars /\ payout' = payout
    BY <1>2 DEF routerVars
  <2>2. TradingInv'
    BY <1>2, <2>1, TradingInductive DEF RouterInv
  <2>3. RegistryInv'
    BY <1>2, <2>1, RegistryInductive DEF RouterInv, VaultInv, tradingVars
  <2>4. config' = config
    BY <2>1 DEF tradingVars, registryVars
  <2>5. RewardsTypeOK' /\ VaultReserved'
    BY <1>2, <2>1, <2>3, <2>4
       DEF RouterInv, VaultInv, RegistryInv, RewardsTypeOK, VaultReserved, vaultVars
  <2> QED
    BY <2>2, <2>3, <2>5 DEF RouterInv, VaultInv
<1> QED
  BY <1>1, <1>2, TradingSideInv, RewardsSideInv DEF RouterNext

\* The inductive invariants of trading, administration and rewards hold together, over one
\* set of accounts and any interleaving of the instructions.
THEOREM RouterInvariant == RouterSpec => []RouterInv
<1> QED
  BY RouterInductive, PTL DEF RouterSpec

-------------------------------------------------------------------------------
(***************************************************************************)
(* What holds of the whole program.                                        *)
(***************************************************************************)

\* With payouts, unwraps and revenue between the trades of a day, the record
\* of every agent is still what it committed today (guards.rs:17).
THEOREM RouterBudgetOnRecord == RouterSpec => []BudgetOnRecord
<1>1. RouterInv => BudgetOnRecord
  BY DEF RouterInv, TradingInv
<1> QED
  BY <1>1, RouterInvariant, PTL

\* No instruction of the whole program, permissionless ones included, spends
\* or renews an allowance except as the abstract promise says.
THEOREM WholeRouterImplementsAllowance == RouterSpec => ImplementsAllowance
<1>1. ASSUME RouterInv, [RouterNext]_routerVars
      PROVE  [Budget!Next]_(Budget!allowanceVars)
  <2>1. TradingInv
    BY <1>1 DEF RouterInv
  <2>2. CASE TradingSide
    <3>1. [TradingNext]_tradingVars
      BY <2>2 DEF TradingSide
    <3> QED
      BY <2>1, <3>1, TradingStepIsAllowed
  <2>3. CASE RewardsSide
    BY <1>1, <2>3, RewardsSideFacts, AllowanceUntouched
  <2>4. CASE UNCHANGED routerVars
    BY <2>4, AllowanceUntouched DEF routerVars, tradingVars, registryVars
  <2> QED
    BY <1>1, <2>2, <2>3, <2>4 DEF RouterNext
<1>2. RouterInit => Budget!Init
  BY InitIsInit DEF RouterInit
<1> QED
  BY <1>1, <1>2, RouterInvariant, PTL
     DEF RouterSpec, ImplementsAllowance, Budget!Spec

\* Trades between its calls change nothing of what a payout pays to whom
\* (rewards.rs:8).
THEOREM RouterPayoutsAreFixed == RouterSpec => PayoutIsFixed
<1>1. ASSUME RouterInv, [RouterNext]_routerVars
      PROVE  [Distributes =>
                LET all == SumFunctionOnSet([w \in Wallets |-> Entitled(w)], Wallets)
                IN  \A k \in Keys :
                       lamports'[k] - lamports[k] =
                          Entitled(k) + (IF k = config.treasury
                                         THEN Available - all ELSE 0)]_rewardsVars
  <2>1. CASE TradingSide
    BY <2>1 DEF TradingSide, Distributes
  <2>2. CASE RewardsSide
    BY <1>1, <2>2, RewardsStepPays DEF RewardsSide, RouterInv
  <2>3. CASE UNCHANGED routerVars
    BY <2>3 DEF routerVars, tradingVars, rewardsVars
  <2> QED
    BY <1>1, <2>1, <2>2, <2>3 DEF RouterNext
<1> QED
  BY <1>1, RouterInvariant, PTL DEF RouterSpec, PayoutIsFixed

-------------------------------------------------------------------------------
(***************************************************************************)
(* Every lamport of the whole program.                                     *)
(***************************************************************************)

Venues == reserves.curve + reserves.pool + reserves.rent

WrappedByWallets == Sum([w \in Wallets |-> Wrapped(w)], Wallets)

AllThere == AllLamports + WrappedByWallets + Venues

InitialVenues ==
    InitialReserves.curve + InitialReserves.pool + InitialReserves.rent

AllAccounted == AllThere = Sum(InitialLamports, Keys) + InitialVenues + earned

\* The inductive invariant: no balance is in the range that keeps a transaction
\* from committing, and all there is has a place.
LamportsInv == RouterInv /\ RentExempt(lamports) /\ AllAccounted

\* What the venues and the wallets' token accounts hold are numbers.
LEMMA HeldType ==
  ASSUME TradingTypeOK
  PROVE  /\ Venues \in Nat /\ InitialVenues \in Nat
         /\ WrappedByWallets \in Int
         /\ \A w \in Wallets : Wrapped(w) \in Nat
<1>1. Venues \in Nat
  BY ReservesType DEF Venues
<1>2. InitialVenues \in Nat
  BY TradingAssumption DEF InitialVenues, Reserves
<1>3. \A w \in Wallets : Wrapped(w) \in Nat
  BY ChainAssumption DEF TradingTypeOK, Wrapped
<1>4. WrappedByWallets \in Int
  <2> DEFINE f == [w \in Wallets |-> Wrapped(w)]
  <2>1. \A w \in Wallets : f[w] \in Int
    BY <1>3
  <2> HIDE DEF f
  <2>2. Sum(f, Wallets) \in Int
    BY <2>1, WalletsFinite, SumType
  <2> QED
    BY <2>2 DEF WrappedByWallets, f
<1> QED
  BY <1>1, <1>2, <1>3, <1>4

\* EveryLamport, with the sums named.
LEMMA EveryLamportIs ==
  RouterInv => (EveryLamport <=> AllAccounted)
<1> SUFFICES ASSUME RouterInv
             PROVE  EveryLamport <=> AllAccounted
  OBVIOUS
<1>1. DOMAIN InitialLamports = Keys
  BY ChainAssumption
<1>2. DOMAIN lamports = Keys
  BY DEF RouterInv, VaultInv, RewardsTypeOK, RegistryTypeOK, ChainTypeOK
<1>3. /\ SumFunction(lamports) = Purses
      /\ SumFunction(InitialLamports) = Sum(InitialLamports, Keys)
      /\ SumFunction([w \in Wallets |-> Wrapped(w)]) = WrappedByWallets
  BY <1>1, <1>2 DEF SumFunction, Sum, Purses, WrappedByWallets
<1> DEFINE start == Sum(InitialLamports, Keys)
<1>4. EveryLamport <=>
         Purses + Rents + vault + Wrapping + WrappedByWallets
            + reserves.curve + reserves.pool + reserves.rent
         = start + InitialReserves.curve + InitialReserves.pool
            + InitialReserves.rent + earned
  BY <1>3 DEF EveryLamport, Wrapping
<1>5. /\ Purses \in Int /\ Rents \in Int /\ vault \in Int /\ Wrapping \in Int
      /\ earned \in Int /\ start \in Int
  BY LamportsType DEF RouterInv, VaultInv
<1>6. /\ WrappedByWallets \in Int
      /\ reserves.curve \in Nat /\ reserves.pool \in Nat /\ reserves.rent \in Nat
  BY HeldType, ReservesType DEF RouterInv, TradingInv
<1>7. /\ InitialReserves.curve \in Nat /\ InitialReserves.pool \in Nat
      /\ InitialReserves.rent \in Nat
  BY TradingAssumption DEF Reserves
<1> HIDE DEF start
<1> QED
  BY <1>4, <1>5, <1>6, <1>7 
     DEF AllAccounted, AllThere, AllLamports, Venues, InitialVenues, start

\* A step that moves lamports about, and brings in only what it earns.
Balanced ==
    /\ RentExempt(lamports)'
    /\ AllThere' = AllThere + (earned' - earned)

LEMMA AllThereType ==
  ASSUME RouterInv
  PROVE  /\ AllThere \in Int /\ earned \in Int
         /\ Sum(InitialLamports, Keys) \in Int /\ InitialVenues \in Int
<1>1. /\ Purses \in Int /\ Rents \in Int /\ vault \in Int /\ Wrapping \in Int
      /\ earned \in Int /\ Sum(InitialLamports, Keys) \in Int
  BY LamportsType DEF RouterInv, VaultInv
<1>2. Venues \in Nat /\ InitialVenues \in Nat /\ WrappedByWallets \in Int
  BY HeldType DEF RouterInv, TradingInv
<1>3. AllLamports \in Int
  BY <1>1 DEF AllLamports
<1> QED
  BY <1>1, <1>2, <1>3 DEF AllThere

\* One wallet's token account changes.
LEMMA OneWraps ==
  ASSUME TradingTypeOK, TradingTypeOK', NEW s \in Wallets,
         \A v \in Wallets \ {s} : wsol'[v] = wsol[v]
  PROVE  WrappedByWallets' = (WrappedByWallets - Wrapped(s)) + Wrapped(s)'
<1> DEFINE f == [w \in Wallets |-> Wrapped(w)]
           g == [w \in Wallets |->
                   IF wsol'[w] = NoAccount THEN 0 ELSE wsol'[w] + TokenRent]
<1>1. \A w \in Wallets : f[w] \in Int /\ f[w] = Wrapped(w)
  BY HeldType
<1>2. g[s] \in Int /\ g[s] = Wrapped(s)'
  BY ChainAssumption DEF TradingTypeOK, Wrapped
<1>3. \A w \in Wallets \ {s} : g[w] = f[w]
  BY DEF Wrapped
<1>4. WrappedByWallets = Sum(f, Wallets) /\ WrappedByWallets' = Sum(g, Wallets)
  BY DEF WrappedByWallets, Wrapped
<1> HIDE DEF f, g
<1>5. Sum(g, Wallets) = (Sum(f, Wallets) - f[s]) + g[s]
  <2>1. (\A w \in Wallets : f[w] \in Int) /\ g[s] \in Int
    BY <1>1, <1>2
  <2> QED
    BY <1>3, <2>1, WalletsFinite, SumUpdate
<1> QED
  BY <1>1, <1>2, <1>4, <1>5

\* No account opens or closes, no revenue comes in.
LEMMA RentsStay ==
  ASSUME UNCHANGED <<config, vaultVars>>,
         \A w \in Wallets : agents'[w] = NoAgent <=> agents[w] = NoAgent
  PROVE  /\ Rents' = Rents /\ vault' = vault /\ Wrapping' = Wrapping
         /\ earned' = earned
<1>1. {w \in Wallets : agents'[w] # NoAgent} = {w \in Wallets : agents[w] # NoAgent}
  OBVIOUS
<1> QED
  BY <1>1 DEF Rents, Registered, Wrapping, vaultVars

\* What a wallet and the venues exchange is all that changes hands.
LEMMA Exchange ==
  ASSUME RouterInv, RouterInv', RentExempt(lamports)',
         UNCHANGED <<config, vaultVars>>,
         \A w \in Wallets : agents'[w] = NoAgent <=> agents[w] = NoAgent,
         NEW s \in Wallets, \A v \in Wallets \ {s} : wsol'[v] = wsol[v],
         NEW out \in Int, NEW in \in Int,
         Purses' = Purses - out, Venues' = Venues + in,
         Wrapped(s)' = (Wrapped(s) + out) - in
  PROVE  Balanced
<1>1. WrappedByWallets' = (WrappedByWallets - Wrapped(s)) + Wrapped(s)'
  BY OneWraps DEF RouterInv, TradingInv
<1>2. Rents' = Rents /\ vault' = vault /\ Wrapping' = Wrapping /\ earned' = earned
  BY RentsStay
<1>3. /\ Purses \in Int /\ Rents \in Int /\ vault \in Int /\ Wrapping \in Int
      /\ earned \in Int
  BY LamportsType DEF RouterInv, VaultInv
<1>4. Venues \in Int /\ WrappedByWallets \in Int /\ Wrapped(s) \in Int
  BY HeldType DEF RouterInv, TradingInv
<1> QED
  BY <1>1, <1>2, <1>3, <1>4 DEF Balanced, AllThere, AllLamports

LEMMA TradeOpensNoAccount ==
  ASSUME TradingTypeOK, TradeStep
  PROVE  /\ \A w \in Wallets : agents'[w] = NoAgent <=> agents[w] = NoAgent
         /\ config' = config
<1>1. PICK s \in Wallets :
         /\ OwnTrade(s)
         /\ \/ \E ceiling \in Amounts : Charged(s, ceiling)
            \/ UNCHANGED <<agents, committed>>
  BY TradeStepFacts
<1>2. \A v \in Wallets \ {s} : agents'[v] = agents[v]
  BY <1>1 DEF OwnTrade
<1>3. agents'[s] = NoAgent <=> agents[s] = NoAgent
  <2>1. ASSUME NEW ceiling \in Amounts, Charged(s, ceiling)
        PROVE  agents'[s] # NoAgent /\ agents[s] # NoAgent
    <3>1. ceiling \in Nat /\ Registered(s) /\ ChargeDailyBudget(s, ceiling)
      BY <2>1, RouterAssumption DEF Charged, U64
    <3>2. agents'[s] \in AgentAuth
      BY <3>1, ChargeFacts DEF TradingTypeOK
    <3> QED
      BY <3>1, <3>2, SentinelAssumption DEF Registered
  <2> QED
    BY <1>1, <2>1
<1> QED
  BY <1>1, <1>2, <1>3 DEF OwnTrade

\* A trade moves lamports between its wallet, the venue and the fee vault.
LEMMA TradeBalances ==
  ASSUME RouterInv, RouterInv', TradeStep, UNCHANGED vaultVars
  PROVE  Balanced
<1>1. TradingTypeOK /\ TradingTypeOK' /\ RegistryTypeOK
  BY DEF RouterInv, TradingInv, TradingTypeOK
<1>2. /\ \A w \in Wallets : agents'[w] = NoAgent <=> agents[w] = NoAgent
      /\ config' = config
  BY <1>1, TradeOpensNoAccount
<1>3. PICK s \in Wallets, w \in Wallets, vault_key \in Vaults, amount \in Amounts :
         \/ \E cost \in Amounts \ {0}, rent \in {0, VenueRent} :
               \/ Buy(s, w, vault_key, amount, cost, rent)
               \/ BuyAmm(s, w, vault_key, amount, cost, rent)
         \/ Sell(s, w, vault_key, amount)
         \/ SellAmm(s, w, vault_key, amount)
  BY TradeCases
<1>4. /\ s \in Keys /\ amount \in Int /\ Purses \in Int
      /\ reserves.curve \in Int /\ reserves.pool \in Int /\ reserves.rent \in Int
      /\ TokenRent \in Int /\ Wrapped(s) \in Int /\ Wrapped(s)' \in Int
  <2>1. Wrapped(s) \in Int
    BY <1>1, HeldType
  <2>2. Wrapped(s)' \in Int
    BY <1>1, ChainAssumption DEF TradingTypeOK, Wrapped
  <2>3. s \in Keys /\ amount \in Nat
    BY RouterAssumption, TradingAssumption DEF U64
  <2>4. reserves.curve \in Nat /\ reserves.pool \in Nat /\ reserves.rent \in Nat
    BY <1>1, ReservesType
  <2>5. Purses \in Int
    BY LamportsType DEF RouterInv, VaultInv
  <2> QED
    BY <2>1, <2>2, <2>3, <2>4, <2>5, ChainAssumption
<1>5. ASSUME NEW side, NEW on_amm, NEW moved, NEW taken \in Int,
             Settled(s, side, on_amm, moved, Debit(lamports, s, taken)),
             \A v \in Wallets \ {s} : wsol'[v] = wsol[v],
             NEW gain \in Int, Venues' = Venues + gain,
             Wrapped(s)' = (Wrapped(s) + taken) - gain
      PROVE  Balanced
  <2>1. Sum(Debit(lamports, s, taken), Keys) = Sum(lamports, Keys) - taken
    BY <1>1, <1>4, VenueTakes
  <2>2. Purses' = Purses - taken /\ RentExempt(lamports)'
    BY <1>5, <2>1 DEF Settled, Purses
  <2> QED
    BY <1>2, <1>5, <2>2, Exchange
<1>6. \A v \in Wallets \ {s} : wsol'[v] = wsol[v]
  BY <1>1, <1>3, BuyFacts, BuyAmmFacts, SellFacts, SellAmmFacts DEF OwnTrade
<1>7. ASSUME NEW cost \in Amounts \ {0}, NEW rent \in {0, VenueRent},
             Buy(s, w, vault_key, amount, cost, rent)
      PROVE  Balanced
  <2>1. cost \in Int /\ rent \in Int
    BY RouterAssumption, TradingAssumption DEF U64
  <2>2. BuyOutcome(s, amount, cost, rent)
    BY <1>1, <1>7, BuyMoves
  <2> DEFINE taken == cost + rent
  <2>3. taken \in Int /\ Venues' = Venues + taken
    BY <1>4, <2>1, <2>2 DEF BuyOutcome, Venues
  <2>4. Wrapped(s)' = Wrapped(s)
    BY <2>2 DEF BuyOutcome, Wrapped
  <2>5. Wrapped(s)' = (Wrapped(s) + taken) - taken
    BY <1>4, <2>3, <2>4
  <2>6. Settled(s, "Buy", FALSE, taken, Debit(lamports, s, taken))
    BY <2>2 DEF BuyOutcome
  <2> HIDE DEF taken
  <2> QED
    BY <1>5, <1>6, <2>3, <2>5, <2>6
<1>8. ASSUME NEW cost \in Amounts \ {0}, NEW rent \in {0, VenueRent},
             BuyAmm(s, w, vault_key, amount, cost, rent)
      PROVE  Balanced
  <2>1. cost \in Int /\ rent \in Int
    BY RouterAssumption, TradingAssumption DEF U64
  <2>2. BuyAmmOutcome(s, amount, cost, rent)
    BY <1>1, <1>8, BuyAmmMoves
  <2> DEFINE gain == cost + rent
  <2>3. gain \in Int /\ Venues' = Venues + gain
    BY <1>4, <2>1, <2>2 DEF BuyAmmOutcome, Venues
  <2>4. Wrapped(s)' = (Wrapped(s) + rent) - gain
    <3>1. wsol[s] \in Nat /\ wsol'[s] \in Nat /\ wsol'[s] = wsol[s] - cost
      BY <2>2 DEF BuyAmmOutcome
    <3>2. Wrapped(s) = wsol[s] + TokenRent /\ Wrapped(s)' = wsol'[s] + TokenRent
      BY <3>1, ChainAssumption DEF Wrapped
    <3> QED
      BY <1>4, <2>1, <3>1, <3>2
  <2>5. Settled(s, "Buy", TRUE, cost, Debit(lamports, s, rent))
    BY <2>2 DEF BuyAmmOutcome
  <2> HIDE DEF gain
  <2> QED
    BY <1>5, <1>6, <2>1, <2>3, <2>4, <2>5
<1>9. CASE Sell(s, w, vault_key, amount)
  <2>1. /\ Settled(s, "Sell", FALSE, amount, Debit(lamports, s, -amount))
        /\ wsol' = wsol /\ reserves'.curve = reserves.curve - amount
        /\ reserves'.pool = reserves.pool /\ reserves'.rent = reserves.rent
    BY <1>1, <1>9, SellMoves
  <2> DEFINE taken == -amount
  <2>2. taken \in Int /\ Venues' = Venues + taken
    BY <1>4, <2>1 DEF Venues
  <2>3. Wrapped(s)' = Wrapped(s)
    BY <2>1 DEF Wrapped
  <2>4. Wrapped(s)' = (Wrapped(s) + taken) - taken
    BY <1>4, <2>2, <2>3
  <2>5. Settled(s, "Sell", FALSE, amount, Debit(lamports, s, taken))
    BY <2>1
  <2> HIDE DEF taken
  <2> QED
    BY <1>5, <1>6, <2>2, <2>4, <2>5
<1>10. CASE SellAmm(s, w, vault_key, amount)
  <2>1. /\ Settled(s, "Sell", TRUE, amount, lamports)
        /\ wsol[s] \in Nat /\ wsol'[s] \in Nat /\ wsol'[s] = wsol[s] + amount
        /\ reserves'.curve = reserves.curve
        /\ reserves'.pool = reserves.pool - amount
        /\ reserves'.rent = reserves.rent
    BY <1>1, <1>10, SellAmmMoves
  <2>2. Wrapped(s) = wsol[s] + TokenRent /\ Wrapped(s)' = wsol'[s] + TokenRent
    BY <2>1, ChainAssumption DEF Wrapped
  <2> DEFINE gain == -amount
  <2>3. gain \in Int /\ Venues' = Venues + gain
    BY <1>4, <2>1 DEF Venues
  <2>4. Wrapped(s)' = (Wrapped(s) + 0) - gain
    BY <1>4, <2>1, <2>2
  <2>5. Purses' = Purses - 0 /\ RentExempt(lamports)'
    BY <1>4, <2>1 DEF Settled, Purses
  <2> HIDE DEF gain
  <2> QED
    BY <1>2, <1>6, <2>3, <2>4, <2>5, Exchange
<1> QED
  BY <1>3, <1>7, <1>8, <1>9, <1>10

\* Wrapping and unwrapping move them between a wallet and its token account.
LEMMA WalletBalances ==
  ASSUME RouterInv, RouterInv', WalletStep, UNCHANGED vaultVars
  PROVE  Balanced
<1>1. TradingTypeOK /\ TradingTypeOK' /\ RegistryTypeOK
  BY DEF RouterInv, TradingInv, TradingTypeOK
<1>2. /\ UNCHANGED <<config, agents, reserves>> /\ Venues' = Venues
      /\ \A w \in Wallets : agents'[w] = NoAgent <=> agents[w] = NoAgent
  BY DEF WalletStep, Wrap, Unwrap, Venues
<1>3. ASSUME NEW w \in Wallets, NEW amount \in Int,
             Commit(Debit(lamports, w, amount)),
             \A v \in Wallets \ {w} : wsol'[v] = wsol[v],
             Wrapped(w)' = Wrapped(w) + amount
      PROVE  Balanced
  <2>1. w \in Keys
    BY RouterAssumption
  <2>2. RentExempt(lamports)' /\ Purses' = Purses - amount
    BY <1>1, <1>3, <2>1, DebitFacts
  <2>3. Venues \in Int /\ Wrapped(w) \in Int
    BY <1>1, HeldType
  <2>4. Venues' = Venues + 0 /\ Wrapped(w)' = (Wrapped(w) + amount) - 0
    BY <1>2, <1>3, <2>3
  <2> QED
    BY <1>2, <1>3, <2>2, <2>4, Exchange
<1>4. ASSUME NEW w \in Wallets, Unwrap(w)
      PROVE  Balanced
  <2>1. /\ wsol[w] \in Nat /\ TokenRent \in Nat
        /\ wsol' = [wsol EXCEPT ![w] = NoAccount]
        /\ wsol \in [Wallets -> Nat \cup {NoAccount}]
    BY <1>1, <1>4, ChainAssumption DEF Unwrap, TradingTypeOK
  <2> DEFINE amount == -(wsol[w] + TokenRent)
  <2>2. amount \in Int /\ Commit(Debit(lamports, w, amount))
    BY <1>4, <2>1 DEF Unwrap
  <2>3. Wrapped(w)' = 0 /\ Wrapped(w) = wsol[w] + TokenRent
    BY <2>1, ChainAssumption DEF Wrapped
  <2>4. Wrapped(w)' = Wrapped(w) + amount
    BY <2>1, <2>3
  <2>5. \A v \in Wallets \ {w} : wsol'[v] = wsol[v]
    BY <2>1
  <2> HIDE DEF amount
  <2> QED
    BY <1>3, <2>2, <2>4, <2>5
<1>5. ASSUME NEW w \in Wallets, NEW amount \in Amounts, Wrap(w, amount)
      PROVE  Balanced
  <2>1. /\ amount \in Nat /\ TokenRent \in Nat /\ NoAccount \notin Nat
        /\ wsol \in [Wallets -> Nat \cup {NoAccount}]
    BY <1>1, RouterAssumption, TradingAssumption, ChainAssumption
       DEF TradingTypeOK, U64
  <2>2. CASE wsol[w] = NoAccount
    <3>1. /\ Commit(Debit(lamports, w, TokenRent + amount))
          /\ wsol' = [wsol EXCEPT ![w] = amount]
      BY <1>5, <2>2 DEF Wrap
    <3> DEFINE paid == TokenRent + amount
    <3>2. wsol'[w] = amount /\ \A v \in Wallets \ {w} : wsol'[v] = wsol[v]
      BY <2>1, <3>1
    <3>3. Wrapped(w)' = Wrapped(w) + paid
      BY <2>1, <2>2, <3>2 DEF Wrapped
    <3>4. paid \in Int /\ Commit(Debit(lamports, w, paid))
      BY <2>1, <3>1
    <3> HIDE DEF paid
    <3> QED
      BY <1>3, <3>2, <3>3, <3>4
  <2>3. CASE wsol[w] # NoAccount
    <3>1. /\ Commit(Debit(lamports, w, amount))
          /\ wsol' = [wsol EXCEPT ![w] = @ + amount]
      BY <1>5, <2>3 DEF Wrap
    <3>2. /\ wsol[w] \in Nat /\ wsol'[w] = wsol[w] + amount
          /\ \A v \in Wallets \ {w} : wsol'[v] = wsol[v]
      BY <2>1, <2>3, <3>1
    <3>3. Wrapped(w)' = Wrapped(w) + amount
      BY <2>1, <2>3, <3>2 DEF Wrapped
    <3> QED
      BY <1>3, <2>1, <3>1, <3>2, <3>3
  <2> QED
    BY <2>2, <2>3
<1> QED
  BY <1>4, <1>5 DEF WalletStep

\* Nothing of what wallets, vault and token accounts hold changes.
LEMMA GraduateBalances ==
  ASSUME LamportsInv, Graduate, UNCHANGED vaultVars
  PROVE  Balanced
<1>1. TradingTypeOK
  BY DEF LamportsInv, RouterInv, TradingInv
<1>2. /\ UNCHANGED <<lamports, config, agents, wsol>>
      /\ reserves' = [reserves EXCEPT !.curve = 0, !.pool = @ + reserves.curve]
  BY DEF Graduate, chainVars
<1>3. Venues' = Venues
  <2>1. /\ reserves \in Reserves /\ reserves.curve \in Nat
        /\ reserves.pool \in Nat /\ reserves.rent \in Nat
    BY <1>1, ReservesType
  <2>2. /\ reserves'.curve = 0 /\ reserves'.rent = reserves.rent
        /\ reserves'.pool = reserves.pool + reserves.curve
    BY <1>2, <2>1 DEF Reserves
  <2> QED
    BY <2>1, <2>2 DEF Venues
<1>4. /\ Rents' = Rents /\ vault' = vault /\ Wrapping' = Wrapping
      /\ earned' = earned
  BY <1>2, RentsStay
<1>5. Purses' = Purses /\ WrappedByWallets' = WrappedByWallets
  BY <1>2 DEF Purses, WrappedByWallets, Wrapped
<1>6. RentExempt(lamports)'
  BY <1>2 DEF LamportsInv, RentExempt
<1>7. AllThere' = AllThere
  BY <1>3, <1>4, <1>5 DEF AllThere, AllLamports
<1>8. AllThere \in Int /\ earned \in Int
  BY AllThereType DEF LamportsInv
<1> QED
  BY <1>4, <1>6, <1>7, <1>8 DEF Balanced

\* Administration buys the rent of what it opens.
LEMMA RegistryBalances ==
  ASSUME LamportsInv, RouterInv', RegistryNext, UNCHANGED <<vaultVars, venueVars>>
  PROVE  Balanced
<1>1. PursesInv /\ RegistryInv'
  BY DEF LamportsInv, RouterInv, PursesInv, VaultInv
<1>2. Purses' + Rents' = Purses + Rents /\ RentExempt(lamports)'
  BY <1>1, RegistryStepPays
<1>3. /\ vault' = vault /\ Wrapping' = Wrapping /\ earned' = earned
      /\ WrappedByWallets' = WrappedByWallets /\ Venues' = Venues
  BY DEF vaultVars, venueVars, Wrapping, WrappedByWallets, Wrapped, Venues
<1>4. /\ AllThere = (Purses + Rents) + vault + Wrapping + WrappedByWallets + Venues
      /\ AllThere' = (Purses' + Rents') + vault' + Wrapping'
                        + WrappedByWallets' + Venues'
  BY DEF AllThere, AllLamports
<1>5. AllThere' = AllThere
  BY <1>2, <1>3, <1>4
<1>6. AllThere \in Int /\ earned \in Int
  BY AllThereType DEF LamportsInv
<1> QED
  BY <1>2, <1>3, <1>5, <1>6 DEF Balanced

\* Revenue and payouts do not touch what trading holds.
LEMMA RewardsBalance ==
  ASSUME LamportsInv, RouterInv', RewardsSide
  PROVE  Balanced
<1>1. VaultInv /\ RewardsStep /\ UNCHANGED venueVars
  BY DEF LamportsInv, RouterInv, RewardsSide
<1>2. Conserves
  BY <1>1, InitCreatorVaultInv, CollectCurveInv, CollectAmmInv,
     UnwrapCreatorFeesInv, DistributeInv DEF RewardsStep
<1>3. WrappedByWallets' = WrappedByWallets /\ Venues' = Venues
  BY <1>1 DEF venueVars, WrappedByWallets, Wrapped, Venues
<1>4. AllLamports \in Int /\ earned \in Int /\ earned' \in Int
  <2>1. VaultInv'
    BY DEF RouterInv
  <2>2. earned \in Int /\ earned' \in Int
    BY <1>1, <2>1, RewardsAssumption DEF VaultInv, RewardsTypeOK
  <2>3. Purses \in Int /\ Rents \in Int /\ vault \in Int /\ Wrapping \in Int
    BY <1>1, LamportsType DEF VaultInv
  <2> QED
    BY <2>2, <2>3 DEF AllLamports
<1>5. WrappedByWallets \in Int /\ Venues \in Int
  BY HeldType DEF LamportsInv, RouterInv, TradingInv
<1> QED
  BY <1>2, <1>3, <1>4, <1>5 DEF Balanced, Conserves, LamportsInv, AllThere

LEMMA StepBalances ==
  ASSUME LamportsInv, RouterInv', RouterNext
  PROVE  Balanced
<1>1. RouterInv /\ TradingTypeOK
  BY DEF LamportsInv, RouterInv, TradingInv
<1>2. CASE TradingSide
  <2>1. TradingNext /\ UNCHANGED vaultVars
    BY <1>2 DEF TradingSide
  <2>2. CASE TradeStep
    BY <1>1, <2>1, <2>2, TradeBalances
  <2>3. CASE WalletStep
    BY <1>1, <2>1, <2>3, WalletBalances
  <2>4. CASE Graduate
    BY <2>1, <2>4, GraduateBalances
  <2>5. CASE Administer \/ PassTime
    <3>1. RegistryNext /\ UNCHANGED <<vaultVars, venueVars>>
      BY <2>1, <2>5 DEF Administer, PassTime, RegistryNext
    <3> QED
      BY <3>1, RegistryBalances
  <2> QED
    BY <2>1, <2>2, <2>3, <2>4, <2>5 DEF TradingNext
<1>3. CASE RewardsSide
  BY <1>3, RewardsBalance
<1> QED
  BY <1>2, <1>3 DEF RouterNext

LEMMA LamportsInitInv ==
  ASSUME RouterInit
  PROVE  LamportsInv
<1>1. RouterInv /\ RewardsInv
  BY RouterInductive, RewardsInductive DEF RouterInit
<1>2. RewardsTypeOK /\ NothingLost /\ RentExempt(lamports)
  BY <1>1 DEF RewardsInv, PursesInv, VaultInv
<1>3. AllLamports = Sum(InitialLamports, Keys) + earned
  BY <1>2, NothingLostIs
<1>4. Venues = InitialVenues
  BY DEF RouterInit, TradingInit, Venues, InitialVenues
<1>5. WrappedByWallets = 0
  <2> DEFINE f == [w \in Wallets |-> Wrapped(w)]
  <2>1. \A w \in Wallets : f[w] = 0
    BY DEF RouterInit, TradingInit, Wrapped
  <2> HIDE DEF f
  <2>2. Sum(f, Wallets) = 0
    BY <2>1, WalletsFinite, SumOfZeros
  <2> QED
    BY <2>2 DEF f, WrappedByWallets
<1>6. /\ earned \in Int /\ Sum(InitialLamports, Keys) \in Int
      /\ InitialVenues \in Int
  BY <1>1, AllThereType
<1>7. AllAccounted
  BY <1>3, <1>4, <1>5, <1>6 DEF AllAccounted, AllThere
<1> QED
  BY <1>1, <1>2, <1>7 DEF LamportsInv

LEMMA LamportsInductive ==
  ASSUME LamportsInv, [RouterNext]_routerVars
  PROVE  LamportsInv'
<1>1. RouterInv'
  BY RouterInductive DEF LamportsInv
<1>2. CASE RouterNext
  <2>1. Balanced
    BY <1>1, <1>2, StepBalances
  <2>2. /\ AllThere = Sum(InitialLamports, Keys) + InitialVenues + earned
        /\ AllThere' = AllThere + (earned' - earned)
    BY <2>1 DEF LamportsInv, AllAccounted, Balanced
  <2>3. /\ earned \in Int /\ Sum(InitialLamports, Keys) \in Int
        /\ InitialVenues \in Int
    BY AllThereType DEF LamportsInv
  <2>4. earned' \in Int
    BY <1>1, RewardsAssumption DEF RouterInv, VaultInv, RewardsTypeOK
  <2> DEFINE start == Sum(InitialLamports, Keys) + InitialVenues
  <2>5. start \in Int /\ AllThere' = start + earned'
    BY <2>2, <2>3, <2>4
  <2>6. AllAccounted'
    BY <2>5 DEF AllAccounted
  <2> QED
    BY <1>1, <2>1, <2>6 DEF LamportsInv, Balanced
<1>3. CASE UNCHANGED routerVars
  <2>1. UNCHANGED <<lamports, config, agents, wsol, reserves, vault, vaultWsol, earned>>
    BY <1>3 DEF routerVars, tradingVars, registryVars, venueVars, vaultVars
  <2>2. AllAccounted'
    BY <2>1 DEF LamportsInv, AllAccounted, AllThere, AllLamports, Purses, Rents,
                Registered, Wrapping, WrappedByWallets, Wrapped, Venues
  <2> QED
    BY <1>1, <2>1, <2>2 DEF LamportsInv, RentExempt
<1> QED
  BY <1>2, <1>3

\* Trades, wraps, rents, revenue and payouts of the whole program, in whatever
\* order, neither make nor lose a lamport: what trading measures and what
\* rewards move by hand are the same money (rewards.rs:164, guards.rs:42).
THEOREM NoLamportIsLost == RouterSpec => []EveryLamport
<1>1. RouterInit => LamportsInv
  BY LamportsInitInv
<1>2. LamportsInv /\ [RouterNext]_routerVars => LamportsInv'
  BY LamportsInductive
<1>3. LamportsInv => EveryLamport
  BY EveryLamportIs DEF LamportsInv
<1> QED
  BY <1>1, <1>2, <1>3, PTL DEF RouterSpec

-------------------------------------------------------------------------------
(***************************************************************************)
(* The vaults that sign nothing.                                           *)
(***************************************************************************)

\* Whoever is not debited keeps what it has.
LEMMA OthersKeep ==
  ASSUME RegistryTypeOK, NEW s \in Keys, NEW amount,
         Commit(Debit(lamports, s, amount)), NEW k \in Keys \ {s}
  PROVE  lamports'[k] = lamports[k]
<1>1. lamports \in [Keys -> Nat] /\ k \in Keys /\ k # s
  BY DEF RegistryTypeOK, ChainTypeOK
<1>2. Debit(lamports, s, amount)[k] = lamports[k]
  BY <1>1 DEF Debit
<1> QED
  BY <1>2 DEF Commit

LEMMA RegistryOnlyTakes ==
  ASSUME RegistryTypeOK, RegistryNext, NEW v \in Vaults \ (Wallets \cup Officials)
  PROVE  lamports'[v] = lamports[v]
<1>1. v \in Keys /\ \A s \in Wallets \cup Officials : s \in Keys /\ v # s
  BY RouterAssumption
<1>2. CASE ConfigStep
  <2>1. PICK s \in Officials :
           \/ \E t, f \in Vaults, args \in ConfigArgs :
                 Initialize(s, t, f, args) \/ UpdateConfig(s, t, f, args)
           \/ \E p \in BOOLEAN : SetPaused(s, p)
           \/ \E k \in Officials : SetAuthority(s, k)
    BY <1>2 DEF ConfigStep
  <2>2. lamports' = lamports \/ Commit(Debit(lamports, s, ConfigRent))
    BY <2>1 DEF Initialize, InitializeAccounts, UpdateConfig, SetPaused,
                SetAuthority, chainVars
  <2> QED
    BY <1>1, <2>2, OthersKeep
<1>3. CASE AgentStep
  <2>1. PICK w \in Wallets, limit \in LimitArgs :
           \/ \E s \in Officials, share \in ShareArgs, fee \in FeeArgs :
                 \/ RegisterAgent(s, w, limit, share, fee)
                 \/ \E e \in BOOLEAN : SetAgent(s, w, e, limit, share, fee)
           \/ SelfRegister(w, limit)
           \/ SetOwnLimit(w, limit)
    BY <1>3 DEF AgentStep
  <2>2. \/ lamports' = lamports
        \/ \E s \in Wallets \cup Officials : Commit(Debit(lamports, s, AgentRent))
    BY <2>1 DEF RegisterAgent, RegisterAgentAccounts, SelfRegister,
                SelfRegisterAccounts, InitAgentAuth, SetAgent, SetOwnLimit, chainVars
  <2> QED
    BY <1>1, <2>2, OthersKeep
<1>4. CASE TimePasses
  BY <1>4 DEF TimePasses, Tick
<1> QED
  BY <1>2, <1>3, <1>4 DEF RegistryNext

LEMMA TradingOnlyTakes ==
  ASSUME TradingTypeOK, TradingNext, NEW v \in Vaults \ (Wallets \cup Officials)
  PROVE  lamports'[v] >= lamports[v]
<1>1. /\ RegistryTypeOK /\ v \in Keys /\ lamports[v] \in Nat
      /\ \A s \in Wallets : s \in Keys /\ v # s
  BY RouterAssumption DEF TradingTypeOK, RegistryTypeOK, ChainTypeOK
<1>2. CASE TradeStep
  <2>1. PICK s \in Wallets : OwnTrade(s)
    BY <1>2, TradeStepFacts
  <2> QED
    BY <1>1, <2>1 DEF OwnTrade
<1>3. lamports'[v] = lamports[v] => lamports'[v] >= lamports[v]
  BY <1>1
<1>4. CASE WalletStep
  <2>1. \E w \in Wallets : \E amount : Commit(Debit(lamports, w, amount))
    BY <1>4 DEF WalletStep, Wrap, Unwrap
  <2> QED
    BY <1>1, <1>3, <2>1, OthersKeep
<1>5. CASE Graduate
  BY <1>3, <1>5 DEF Graduate, chainVars
<1>6. CASE Administer \/ PassTime
  <2>1. RegistryNext
    BY <1>6 DEF Administer, PassTime, RegistryNext
  <2> QED
    BY <1>1, <1>3, <2>1, RegistryOnlyTakes
<1> QED
  BY <1>2, <1>4, <1>5, <1>6 DEF TradingNext

LEMMA RewardsOnlyTake ==
  ASSUME VaultInv, RewardsStep, NEW v \in Vaults \ (Wallets \cup Officials)
  PROVE  lamports'[v] >= lamports[v]
<1>1. /\ RegistryTypeOK /\ v \in Keys /\ lamports[v] \in Nat
      /\ \A s \in Officials : s \in Keys /\ v # s
  BY RouterAssumption DEF VaultInv, RewardsTypeOK, RegistryTypeOK, ChainTypeOK
<1>2. lamports'[v] = lamports[v] => lamports'[v] >= lamports[v]
  BY <1>1
<1>3. ASSUME NEW payees \in PayeeLists, NEW treasury \in Vaults,
             DistributeRewards(payees, treasury)
      PROVE  lamports'[v] >= lamports[v]
  <2>1. lamports'[v] = lamports[v] + Gain(v) /\ config \in Config
    BY <1>1, <1>3, DistributeFacts
  <2>2. Gain(v) \in Nat
    BY <1>1, <2>1, GainType, SentinelAssumption DEF VaultInv, RegistryInv
  <2> QED
    BY <1>1, <2>1, <2>2
<1>4. ASSUME NEW s \in Officials,
             \/ InitCreatorVault(s)
             \/ \E amount \in Revenue : CollectAmmFee(s, amount)
      PROVE  lamports'[v] >= lamports[v]
  <2>1. \/ lamports' = lamports
        \/ \E amount : Commit(Debit(lamports, s, amount))
    BY <1>4 DEF InitCreatorVault, InitCreatorVaultAccounts, CollectAmmFee
  <2> QED
    BY <1>1, <1>2, <1>4, <2>1, OthersKeep
<1>5. CASE UnwrapCreatorFees \/ \E amount \in Revenue : CollectCurveFee(amount)
  BY <1>2, <1>5 DEF UnwrapCreatorFees, CollectCurveFee, chainVars
<1> QED
  BY <1>3, <1>4, <1>5 DEF RewardsStep

\* Router fees and what is left of the rewards stay where they arrive, whatever
\* instruction of the program runs and whatever accounts it is given
\* (state.rs:57).
THEOREM RevenueAlwaysStays == RouterSpec => RevenueStays
<1>1. ASSUME RouterInv, [RouterNext]_routerVars
      PROVE  [\A v \in Vaults \ (Wallets \cup Officials) :
                 lamports'[v] >= lamports[v]]_routerVars
  <2>1. CASE TradingSide
    BY <1>1, <2>1, TradingOnlyTakes DEF TradingSide, RouterInv, TradingInv
  <2>2. CASE RewardsSide
    BY <1>1, <2>2, RewardsOnlyTake DEF RewardsSide, RouterInv
  <2>3. CASE UNCHANGED routerVars
    BY <2>3
  <2> QED
    BY <1>1, <2>1, <2>2, <2>3 DEF RouterNext
<1> QED
  BY <1>1, RouterInvariant, PTL DEF RouterSpec, RevenueStays

-------------------------------------------------------------------------------
(***************************************************************************)
(* What each side promises, with the other's steps in between.             *)
(***************************************************************************)

\* A charge writes the record of the day and nothing else.
LEMMA ChargeIsNoTerm ==
  ASSUME TradingTypeOK, TradeStep, NEW w \in Wallets
  PROVE  IF Registered(w) THEN TermsUntouched(w) ELSE OutsidersTerms(w)
<1>1. PICK s \in Wallets :
         /\ OwnTrade(s)
         /\ \/ \E ceiling \in Amounts : Charged(s, ceiling)
            \/ UNCHANGED <<agents, committed>>
  BY TradeStepFacts
<1>2. CASE agents'[w] = agents[w]
  BY <1>2, UntouchedTerms
<1>3. CASE agents'[w] # agents[w]
  <2>1. s = w
    BY <1>1, <1>3 DEF OwnTrade
  <2>2. PICK ceiling \in Amounts : Charged(w, ceiling)
    BY <1>1, <1>3, <2>1
  <2>3. Registered(w) /\ agents[w] \in AgentAuth
    BY <2>2, SpentTodayType DEF Charged, TradingTypeOK
  <2>4. agents' = [agents EXCEPT ![w].day = CurrentDay,
                                 ![w].spent_today = SpentToday(w) + ceiling]
    BY <2>2 DEF Charged, ChargeDailyBudget
  <2>5. agents'[w] = [agents[w] EXCEPT !.day = CurrentDay,
                                       !.spent_today = SpentToday(w) + ceiling]
    BY <2>3, <2>4 DEF TradingTypeOK, RegistryTypeOK
  <2>6. /\ agents'[w].daily_limit = agents[w].daily_limit
        /\ agents'[w].reward_bps = agents[w].reward_bps
        /\ agents'[w].fee_bps = agents[w].fee_bps
        /\ agents'[w].enabled = agents[w].enabled
        /\ agents'[w].authority_managed = agents[w].authority_managed
    BY <2>3, <2>5 DEF AgentAuth
  <2>7. Registered(w)'
    BY <2>2, <2>3, TradeOpensNoAccount DEF Registered
  <2> QED
    BY <2>3, <2>6, <2>7 DEF TermsUntouched
<1> QED
  BY <1>2, <1>3

\* Neither trades nor payouts are a way around the authority: over the whole
\* program too, only it changes the config, a rate, a share, a permission or a
\* company machine's budget (lib.rs:101).
THEOREM OnlyAuthorityDecidesAnywhere == RouterSpec => AuthorityDecides
<1>1. ASSUME RouterInv, [RouterNext]_routerVars
      PROVE  [\/ config = NoConfig
              \/ signer' = config.authority
              \/ /\ config' = config
                 /\ \A w \in Wallets : IF Registered(w) THEN TermsUntouched(w)
                                       ELSE OutsidersTerms(w)]_registryVars
  <2>1. TradingTypeOK /\ RegistryTypeOK
    BY <1>1 DEF RouterInv, TradingInv, TradingTypeOK
  <2>2. CASE TradingSide
    <3>1. CASE TradeStep
      BY <2>1, <3>1, ChargeIsNoTerm, TradeOpensNoAccount
    <3>2. CASE WalletStep \/ Graduate
      BY <2>1, <3>2, WalletStepFacts, GraduateFacts, UntouchedTerms
    <3>3. CASE Administer \/ PassTime
      <4>1. RegistryNext
        BY <3>3 DEF Administer, PassTime, RegistryNext
      <4> QED
        BY <2>1, <4>1, AuthorityStep
    <3> QED
      BY <2>2, <3>1, <3>2, <3>3 DEF TradingSide, TradingNext
  <2>3. CASE RewardsSide
    BY <1>1, <2>3, RewardsSideFacts, UntouchedTerms
  <2>4. CASE UNCHANGED routerVars
    BY <2>4 DEF routerVars, tradingVars
  <2> QED
    BY <1>1, <2>2, <2>3, <2>4 DEF RouterNext
<1> QED
  BY <1>1, RouterInvariant, PTL DEF RouterSpec, AuthorityDecides

\* No instruction of the whole program closes an agent's account or runs over
\* it (lib.rs:341): its budget of the day is not renewed that way.
THEOREM OnceRegisteredAnywhere == RouterSpec => RegistrationIsForever
<1>1. ASSUME RouterInv, [RouterNext]_routerVars
      PROVE  [\A w \in Wallets : Registered(w) =>
                 /\ Registered(w)'
                 /\ agents'[w].authority_managed = agents[w].authority_managed
             ]_registryVars
  <2>1. TradingTypeOK /\ RegistryTypeOK
    BY <1>1 DEF RouterInv, TradingInv, TradingTypeOK
  <2>2. CASE agents' = agents
    BY <2>2 DEF Registered
  <2>3. CASE TradingSide
    <3>1. CASE TradeStep
      BY <2>1, <3>1, ChargeIsNoTerm DEF TermsUntouched
    <3>2. CASE WalletStep \/ Graduate
      BY <2>1, <2>2, <3>2, WalletStepFacts, GraduateFacts
    <3>3. CASE Administer \/ PassTime
      <4>1. RegistryNext
        BY <3>3 DEF Administer, PassTime, RegistryNext
      <4> QED
        BY <2>1, <4>1, RegistrationStep
    <3> QED
      BY <2>3, <3>1, <3>2, <3>3 DEF TradingSide, TradingNext
  <2>4. CASE RewardsSide
    BY <1>1, <2>2, <2>4, RewardsSideFacts
  <2>5. CASE UNCHANGED routerVars
    BY <2>5 DEF routerVars, tradingVars
  <2> QED
    BY <1>1, <2>3, <2>4, <2>5 DEF RouterNext
<1> QED
  BY <1>1, RouterInvariant, PTL DEF RouterSpec, RegistrationIsForever

\* With payouts between trades, a trade still costs its wallet no more than the
\* budget it took and one rent, with the fee's hard ceiling on both
\* (state.rs:17): a payout cannot be mistaken for a move of the venue's.
THEOREM LossesAreBoundedAnywhere == RouterSpec => LossBounded
<1>1. ASSUME RouterInv, [RouterNext]_routerVars
      PROVE  [Trades => Bounded]_tradingVars
  <2>1. TradingInv /\ RegistryInv
    BY <1>1 DEF RouterInv, VaultInv
  <2>2. CASE TradingSide /\ TradeStep
    BY <2>1, <2>2, TradeStepBounded
  <2>3. CASE TradingSide /\ ~ TradeStep
    BY <2>1, <2>3, WalletStepFacts, GraduateFacts, AdministerType, PassTimeType
       DEF Trades, TradingInv, TradingSide, TradingNext
  <2>4. CASE RewardsSide
    BY <2>4 DEF RewardsSide, Trades
  <2>5. CASE UNCHANGED routerVars
    BY <2>5 DEF routerVars
  <2> QED
    BY <1>1, <2>2, <2>3, <2>4, <2>5 DEF RouterNext
<1> QED
  BY <1>1, RouterInvariant, PTL DEF RouterSpec, LossBounded, Bounded

\* A trade of the whole program is settled as its event says (guards.rs:40).
THEOREM TradesSettleAnywhere == RouterSpec => TradeSettles
<1>1. ASSUME RouterInv, [RouterNext]_routerVars
      PROVE  [Trades => Agreed]_tradingVars
  <2>1. TradingInv /\ TradingTypeOK
    BY <1>1 DEF RouterInv, TradingInv
  <2>2. CASE TradingSide /\ TradeStep
    BY <2>1, <2>2, TradeStepAgrees
  <2>3. CASE TradingSide /\ ~ TradeStep
    BY <2>1, <2>3, WalletStepFacts, GraduateFacts, AdministerType, PassTimeType
       DEF Trades, TradingSide, TradingNext
  <2>4. CASE RewardsSide
    BY <2>4 DEF RewardsSide, Trades
  <2>5. CASE UNCHANGED routerVars
    BY <2>5 DEF routerVars
  <2> QED
    BY <1>1, <2>2, <2>3, <2>4, <2>5 DEF RouterNext
<1> QED
  BY <1>1, RouterInvariant, PTL DEF RouterSpec, TradeSettles, Agreed

-------------------------------------------------------------------------------
(***************************************************************************)
(* The drills.  A list of checks fails with the first of them that does    *)
(* not hold; the drills then are a matter of cases.                        *)
(***************************************************************************)

LEMMA FirstFails ==
  ASSUME NEW checks, Len(checks) \in Nat,
         NEW k \in 1 .. Len(checks), ~ checks[k].holds,
         \A i \in 1 .. k - 1 : checks[i].holds
  PROVE  FirstError(checks) = checks[k].error
<1> DEFINE failing == {i \in 1 .. Len(checks) : ~ checks[i].holds}
<1>1. k \in failing /\ failing \subseteq Int
  OBVIOUS
<1>2. ASSUME NEW i \in failing PROVE k <= i
  <2>1. i \in 1 .. Len(checks) /\ ~ checks[i].holds
    OBVIOUS
  <2> QED
    BY <2>1
<1>3. ASSUME NEW i \in failing, \A j \in failing : i <= j PROVE i = k
  BY <1>1, <1>2, <1>3
<1>4. Min(failing) = k
  <2> HIDE DEF failing
  <2> QED
    BY <1>1, <1>2, <1>3 DEF Min
<1>5. SelectInSeq(checks, LAMBDA c : ~ c.holds) = k
  <2>1. SelectInSeq(checks, LAMBDA c : ~ c.holds)
          = IF failing # {} THEN Min(failing) ELSE 0
    BY DEF SelectInSeq
  <2> HIDE DEF failing
  <2> QED
    BY <1>1, <1>4, <2>1
<1> QED
  BY <1>5 DEF FirstError

LEMMA NoneFails ==
  ASSUME NEW checks, Len(checks) \in Nat,
         \A i \in 1 .. Len(checks) : checks[i].holds
  PROVE  FirstError(checks) = "clean"
<1>1. {i \in 1 .. Len(checks) : ~ checks[i].holds} = {}
  OBVIOUS
<1>2. SelectInSeq(checks, LAMBDA c : ~ c.holds) = 0
  BY <1>1 DEF SelectInSeq
<1> QED
  BY <1>2 DEF FirstError

Calls == [config : BOOLEAN, budget : BOOLEAN, fee_vault : Keys,
          program : {"amm", "curve", "token"}, ceiling : U64]

\* What buy_amm says to the clerk, as a tree of cases.
LEMMA BuyAmmErrorIs ==
  ASSUME TradingTypeOK, Deployed, NEW call \in Calls, CLERK \in Wallets
  PROVE  BuyAmmError(call) =
           IF ~ (call.config /\ call.budget) THEN "ConstraintSeeds"
           ELSE IF call.fee_vault # config.fee_vault THEN "WrongFeeVault"
           ELSE IF call.program # "amm" THEN "WrongProgram"
           ELSE IF config.paused THEN "Paused"
           ELSE IF ~ agents[CLERK].enabled THEN "AgentDisabled"
           ELSE IF call.ceiling = 0 THEN "ZeroAmount"
           ELSE IF call.ceiling > config.max_lamports_per_trade THEN "TradeTooLarge"
           ELSE IF SpentToday(CLERK) + call.ceiling > U64_MAX THEN "MathOverflow"
           ELSE IF SpentToday(CLERK) + call.ceiling > agents[CLERK].daily_limit
                THEN "DailyLimitExceeded"
           ELSE IF wsol[CLERK] = NoAccount THEN "BadTokenAccount" ELSE "clean"
<1> DEFINE spent == SpentToday(CLERK) + call.ceiling
           checks ==
             <<Check("ConstraintSeeds", call.config),
               Check("ConstraintSeeds", call.budget),
               Check("WrongFeeVault", call.fee_vault = config.fee_vault),
               Check("WrongProgram", call.program = "amm"),
               Check("Paused", ~ config.paused),
               Check("AgentDisabled", agents[CLERK].enabled),
               Check("ZeroAmount", call.ceiling > 0),
               Check("TradeTooLarge", call.ceiling <= config.max_lamports_per_trade),
               Check("MathOverflow", spent <= U64_MAX),
               Check("DailyLimitExceeded", spent <= agents[CLERK].daily_limit),
               Check("BadTokenAccount", wsol[CLERK] # NoAccount)>>
<1>1. /\ call.config \in BOOLEAN /\ call.budget \in BOOLEAN
      /\ call.ceiling \in Nat
      /\ config.paused \in BOOLEAN /\ config.max_lamports_per_trade \in Nat
      /\ agents[CLERK].enabled \in BOOLEAN /\ agents[CLERK].daily_limit \in Nat
      /\ U64_MAX \in Nat
  BY RouterAssumption
     DEF Calls, TradingTypeOK, RegistryTypeOK, Deployed, Registered, Config,
         AgentAuth, U64
<1>2. spent \in Nat
  <2>1. SpentToday(CLERK) \in Nat
    BY SpentTodayType, RouterAssumption DEF TradingTypeOK, Deployed, U64
  <2> QED
    BY <1>1, <2>1
<1>3. BuyAmmError(call) = FirstError(checks)
  BY DEF BuyAmmError
<1>4. /\ Len(checks) = 11
      /\ checks[1].error = "ConstraintSeeds" /\ checks[2].error = "ConstraintSeeds"
      /\ checks[3].error = "WrongFeeVault" /\ checks[4].error = "WrongProgram"
      /\ checks[5].error = "Paused" /\ checks[6].error = "AgentDisabled"
      /\ checks[7].error = "ZeroAmount" /\ checks[8].error = "TradeTooLarge"
      /\ checks[9].error = "MathOverflow" /\ checks[10].error = "DailyLimitExceeded"
      /\ checks[11].error = "BadTokenAccount"
  BY DEF Check
<1>5. /\ checks[1].holds <=> call.config
      /\ checks[2].holds <=> call.budget
      /\ checks[3].holds <=> call.fee_vault = config.fee_vault
      /\ checks[4].holds <=> call.program = "amm"
      /\ checks[5].holds <=> ~ config.paused
      /\ checks[6].holds <=> agents[CLERK].enabled
      /\ checks[7].holds <=> call.ceiling > 0
      /\ checks[8].holds <=> call.ceiling <= config.max_lamports_per_trade
      /\ checks[9].holds <=> spent <= U64_MAX
      /\ checks[10].holds <=> spent <= agents[CLERK].daily_limit
      /\ checks[11].holds <=> wsol[CLERK] # NoAccount
  BY <1>1 DEF Check
<1> HIDE DEF checks
<1>6. ASSUME NEW k \in 1 .. 11,
             ~ checks[k].holds, \A i \in 1 .. k - 1 : checks[i].holds
      PROVE  FirstError(checks) = checks[k].error
  <2>1. Len(checks) \in Nat /\ k \in 1 .. Len(checks)
    BY <1>4
  <2> QED
    BY <1>6, <2>1, FirstFails
<1>7. ASSUME \A i \in 1 .. 11 : checks[i].holds PROVE FirstError(checks) = "clean"
  <2>1. Len(checks) \in Nat /\ \A i \in 1 .. Len(checks) : checks[i].holds
    BY <1>4, <1>7
  <2> QED
    BY <2>1, NoneFails
<1> QED
  BY <1>1, <1>2, <1>3, <1>4, <1>5, <1>6, <1>7

\* guards-mainnet.js is right about the router exactly under what it presumes.
LEMMA MainnetVerdict ==
  ASSUME TradingTypeOK, Deployed
  PROVE  (\A case \in MainnetGuards : Passes(case)) <=> MainnetPresumes
<1> DEFINE small == Valid(Small)
           other == [small EXCEPT !.fee_vault = CLERK]
           curve == [small EXCEPT !.program = "curve"]
           token == [small EXCEPT !.program = "token"]
           budget == [small EXCEPT !.budget = FALSE]
           nothing == [small EXCEPT !.config = FALSE]
           Is(call, c, b, v, p, n) ==
             /\ call \in Calls
             /\ call.config = c /\ call.budget = b /\ call.fee_vault = v
             /\ call.program = p /\ call.ceiling = n
<1>1. /\ CLERK \in Wallets /\ CLERK \in Keys /\ VAULT \in Keys /\ CLERK # VAULT
      /\ CAP + 1 \in U64 /\ Small \in U64 /\ Tenth \in U64 /\ 0 \in U64
      /\ Small # 0 /\ Tenth # 0 /\ CAP + 1 # 0
      /\ Tenth \in Nat /\ CAP \in Int /\ Tenth <= CAP
  <2>1. U64 \subseteq Nat /\ 0 \in U64
    BY RouterAssumption DEF U64
  <2>2. /\ Tenth \in U64 \ {0} /\ Small \in U64 \ {0} /\ CAP + 1 \in U64
        /\ CAP \in Nat /\ Tenth <= CAP
    BY DrillAssumption
  <2>3. CLERK \in Wallets /\ CLERK \in Keys /\ VAULT \in Keys /\ CLERK # VAULT
    BY DrillAssumption, RouterAssumption
  <2> QED
    BY <2>1, <2>2, <2>3
<1>2. /\ Is(small, TRUE, TRUE, VAULT, "amm", Small)
      /\ Is(other, TRUE, TRUE, CLERK, "amm", Small)
      /\ Is(curve, TRUE, TRUE, VAULT, "curve", Small)
      /\ Is(token, TRUE, TRUE, VAULT, "token", Small)
      /\ Is(budget, TRUE, FALSE, VAULT, "amm", Small)
      /\ Is(nothing, FALSE, TRUE, VAULT, "amm", Small)
  BY <1>1 DEF Valid, Calls
<1>3. /\ Is(Valid(CAP + 1), TRUE, TRUE, VAULT, "amm", CAP + 1)
      /\ Is(Valid(0), TRUE, TRUE, VAULT, "amm", 0)
      /\ Is(Valid(Tenth), TRUE, TRUE, VAULT, "amm", Tenth)
  BY <1>1 DEF Valid, Calls
<1>4. (\A case \in MainnetGuards : Passes(case)) <=>
        /\ BuyAmmError(Valid(CAP + 1)) = "TradeTooLarge"
        /\ BuyAmmError(other) = "WrongFeeVault"
        /\ BuyAmmError(curve) = "WrongProgram"
        /\ BuyAmmError(token) = "WrongProgram"
        /\ BuyAmmError(budget) = "ConstraintSeeds"
        /\ BuyAmmError(Valid(0)) \in {"ZeroAmount", "TradeTooLarge"}
        /\ BuyAmmError(Valid(Tenth)) = "DailyLimitExceeded"
        /\ BuyAmmError(nothing) = "ConstraintSeeds"
  BY DEF MainnetGuards, Passes, Case
<1> HIDE DEF small, other, curve, token, budget, nothing
<1>5. /\ config.paused \in BOOLEAN /\ config.max_lamports_per_trade \in Nat
      /\ agents[CLERK].enabled \in BOOLEAN /\ agents[CLERK].daily_limit \in Nat
      /\ SpentToday(CLERK) \in Nat /\ U64_MAX \in Nat
  <2>1. config \in Config /\ agents[CLERK] \in AgentAuth
    BY <1>1 DEF TradingTypeOK, RegistryTypeOK, Deployed, Registered
  <2>2. U64 \subseteq Nat /\ U64_MAX \in Nat
    BY RouterAssumption DEF U64
  <2>3. SpentToday(CLERK) \in Nat
    BY <1>1, SpentTodayType DEF TradingTypeOK, Deployed
  <2> QED
    BY <2>1, <2>2, <2>3 DEF Config, AgentAuth
<1>6. BuyAmmError(budget) = "ConstraintSeeds" /\ BuyAmmError(nothing) = "ConstraintSeeds"
  BY <1>1, <1>2, BuyAmmErrorIs
<1>7. BuyAmmError(other) = "WrongFeeVault" <=> CLERK # config.fee_vault
  BY <1>1, <1>2, <1>5, BuyAmmErrorIs
<1>8. /\ BuyAmmError(curve) = "WrongProgram" <=> VAULT = config.fee_vault
      /\ BuyAmmError(token) = "WrongProgram" <=> VAULT = config.fee_vault
  BY <1>1, <1>2, <1>5, BuyAmmErrorIs
<1> DEFINE open == VAULT = config.fee_vault /\ ~ config.paused /\ agents[CLERK].enabled
<1>9. BuyAmmError(Valid(CAP + 1)) = "TradeTooLarge"
        <=> open /\ CAP + 1 > config.max_lamports_per_trade
  BY <1>1, <1>3, <1>5, BuyAmmErrorIs
<1>10. BuyAmmError(Valid(0)) \in {"ZeroAmount", "TradeTooLarge"} <=> open
  BY <1>1, <1>3, <1>5, BuyAmmErrorIs
<1>11. BuyAmmError(Valid(Tenth)) = "DailyLimitExceeded"
         <=> /\ open /\ Tenth <= config.max_lamports_per_trade
             /\ SpentToday(CLERK) + Tenth <= U64_MAX
             /\ SpentToday(CLERK) + Tenth > agents[CLERK].daily_limit
  BY <1>1, <1>3, <1>5, BuyAmmErrorIs
<1>12. MainnetPresumes <=>
         /\ open /\ Tenth <= config.max_lamports_per_trade
         /\ CAP + 1 > config.max_lamports_per_trade
         /\ SpentToday(CLERK) + Tenth <= U64_MAX
         /\ SpentToday(CLERK) + Tenth > agents[CLERK].daily_limit
  BY <1>1, <1>5 DEF MainnetPresumes
<1> QED
  BY <1>1, <1>4, <1>6, <1>7, <1>8, <1>9, <1>10, <1>11, <1>12

\* What the commands of the authority answer, as far as the drill gets.
LEMMA AuthorityErrorsAre ==
  ASSUME TradingTypeOK, Deployed, NEW s \in Keys, NEW args, NEW fee \in Nat,
         NEW share \in Nat, args.fee_bps \in Nat, CLERK \in Wallets
  PROVE  /\ s # config.authority => UpdateConfigError(s, args) = "Unauthorized"
         /\ s = config.authority => UpdateConfigError(s, args) # "Unauthorized"
         /\ s = config.authority /\ args.fee_bps > MAX_FEE_BPS =>
               UpdateConfigError(s, args) = "FeeTooHigh"
         /\ s # config.authority =>
               SetAgentError(s, CLERK, share, fee) = "Unauthorized"
         /\ s = config.authority /\ fee > MAX_FEE_BPS =>
               SetAgentError(s, CLERK, share, fee) = "FeeTooHigh"
         /\ s = config.authority /\ fee <= MAX_FEE_BPS /\ share > BPS_DENOMINATOR =>
               SetAgentError(s, CLERK, share, fee) = "RewardSharesTooHigh"
<1> DEFINE update ==
             <<ByAuthority(s),
               Check("FeeTooHigh", args.fee_bps <= MAX_FEE_BPS),
               Check("ZeroAmount", args.max_lamports_per_trade > 0)>>
           total == (config.total_reward_bps - agents[CLERK].reward_bps) + share
           set ==
             <<ByAuthority(s),
               Check("FeeTooHigh", fee <= MAX_FEE_BPS),
               Check("RewardSharesTooHigh", share <= BPS_DENOMINATOR),
               Check("MathOverflow", config.total_reward_bps >= agents[CLERK].reward_bps),
               Check("MathOverflow", total <= U64_MAX),
               Check("RewardSharesTooHigh", total <= BPS_DENOMINATOR)>>
<1>1. /\ UpdateConfigError(s, args) = FirstError(update)
      /\ SetAgentError(s, CLERK, share, fee) = FirstError(set)
  BY DEF UpdateConfigError, SetAgentError
<1>2. /\ Len(update) \in Nat /\ {1, 2} \subseteq 1 .. Len(update)
      /\ Len(set) \in Nat /\ {1, 2, 3} \subseteq 1 .. Len(set)
  <2>1. Len(update) = 3 /\ Len(set) = 6
    OBVIOUS
  <2> HIDE DEF update, set
  <2> QED
    BY <2>1
<1>3. MAX_FEE_BPS \in Nat /\ BPS_DENOMINATOR \in Nat
  BY RouterAssumption DEF U16, U64
<1>4. /\ update[1].error = "Unauthorized" /\ (update[1].holds <=> s = config.authority)
      /\ update[2].error = "FeeTooHigh" /\ (update[2].holds <=> args.fee_bps <= MAX_FEE_BPS)
      /\ set[1].error = "Unauthorized" /\ (set[1].holds <=> s = config.authority)
      /\ set[2].error = "FeeTooHigh" /\ (set[2].holds <=> fee <= MAX_FEE_BPS)
      /\ set[3].error = "RewardSharesTooHigh"
      /\ (set[3].holds <=> share <= BPS_DENOMINATOR)
  BY DEF ByAuthority, Check
<1> HIDE DEF update, set
<1>5. ASSUME NEW checks \in {update, set}, ~ checks[1].holds
      PROVE  FirstError(checks) = checks[1].error
  <2>1. Len(checks) \in Nat /\ 1 \in 1 .. Len(checks) /\ \A i \in 1 .. 1 - 1 : checks[i].holds
    BY <1>2
  <2> QED
    BY <1>5, <2>1, FirstFails
<1>6. ASSUME NEW checks \in {update, set}, checks[1].holds, ~ checks[2].holds
      PROVE  FirstError(checks) = checks[2].error
  <2>1. Len(checks) \in Nat /\ 2 \in 1 .. Len(checks) /\ \A i \in 1 .. 2 - 1 : checks[i].holds
    BY <1>2, <1>6
  <2> QED
    BY <1>6, <2>1, FirstFails
<1>7. ASSUME update[1].holds PROVE FirstError(update) # "Unauthorized"
  <2>1. Len(update) = 3 /\ update[3].error = "ZeroAmount"
    BY DEF update, Check
  <2>2. 3 \in 1 .. Len(update) /\ \A i \in 1 .. 3 - 1 : i \in {1, 2}
    BY <2>1
  <2>3. CASE ~ update[2].holds
    BY <1>4, <1>6, <1>7, <2>3
  <2>4. CASE update[2].holds /\ ~ update[3].holds
    <3>1. FirstError(update) = update[3].error
      BY <1>2, <1>7, <2>2, <2>4, FirstFails
    <3> QED
      BY <2>1, <3>1
  <2>5. CASE update[2].holds /\ update[3].holds
    <3>1. \A i \in 1 .. Len(update) : update[i].holds
      BY <1>7, <2>1, <2>5
    <3>2. FirstError(update) = "clean"
      BY <1>2, <3>1, NoneFails
    <3> QED
      BY <3>2
  <2> QED
    BY <2>3, <2>4, <2>5
<1>8. ASSUME set[1].holds, set[2].holds, ~ set[3].holds
      PROVE  FirstError(set) = set[3].error
  <2>1. Len(set) \in Nat /\ 3 \in 1 .. Len(set) /\ \A i \in 1 .. 3 - 1 : set[i].holds
    BY <1>2, <1>8
  <2> QED
    BY <1>8, <2>1, FirstFails
<1> QED
  BY <1>1, <1>3, <1>4, <1>5, <1>6, <1>7, <1>8

\* And what a wallet and a caller without payees are told.
LEMMA OtherErrorsAre ==
  ASSUME agents[CLERK].authority_managed \in BOOLEAN, Available \in Int,
         config.total_reward_bps \in Nat, NEW treasury
  PROVE  /\ SetOwnLimitError(CLERK) = "AuthorityManaged"
              <=> agents[CLERK].authority_managed
         /\ DistributeNobodyError(treasury) \in {"IncompletePayees", "NothingToDistribute"}
              <=> /\ treasury = config.treasury
                  /\ Available > 0 => config.total_reward_bps > 0
<1> DEFINE own == <<Check("AuthorityManaged", ~ agents[CLERK].authority_managed)>>
           nobody ==
             <<Check("WrongTreasury", treasury = config.treasury),
               Check("NothingToDistribute", Available > 0),
               Check("IncompletePayees", config.total_reward_bps = 0)>>
<1>1. /\ SetOwnLimitError(CLERK) = FirstError(own)
      /\ DistributeNobodyError(treasury) = FirstError(nobody)
  BY DEF SetOwnLimitError, DistributeNobodyError
<1>2. Len(own) = 1 /\ Len(nobody) = 3
  OBVIOUS
<1>3. /\ own[1].error = "AuthorityManaged"
      /\ own[1].holds <=> ~ agents[CLERK].authority_managed
      /\ nobody[1].error = "WrongTreasury"
      /\ nobody[1].holds <=> treasury = config.treasury
      /\ nobody[2].error = "NothingToDistribute"
      /\ nobody[2].holds <=> Available > 0
      /\ nobody[3].error = "IncompletePayees"
      /\ nobody[3].holds <=> config.total_reward_bps = 0
  BY DEF Check
<1> HIDE DEF own, nobody
<1>4. ASSUME NEW checks \in {own, nobody}, NEW k \in 1 .. Len(checks),
             ~ checks[k].holds, \A i \in 1 .. k - 1 : checks[i].holds
      PROVE  FirstError(checks) = checks[k].error
  <2>1. Len(checks) \in Nat
    BY <1>2
  <2> QED
    BY <1>4, <2>1, FirstFails
<1>5. ASSUME NEW checks \in {own, nobody}, \A i \in 1 .. Len(checks) : checks[i].holds
      PROVE  FirstError(checks) = "clean"
  <2>1. Len(checks) \in Nat
    BY <1>2
  <2> QED
    BY <1>5, <2>1, NoneFails
<1>6. FirstError(own) = IF own[1].holds THEN "clean" ELSE own[1].error
  <2>1. /\ 1 \in 1 .. Len(own) /\ \A i \in 1 .. Len(own) : i = 1
        /\ \A i \in 1 .. 1 - 1 : own[i].holds
    BY <1>2
  <2> QED
    BY <1>4, <1>5, <2>1
<1>7. FirstError(nobody) =
        IF ~ nobody[1].holds THEN nobody[1].error
        ELSE IF ~ nobody[2].holds THEN nobody[2].error
        ELSE IF ~ nobody[3].holds THEN nobody[3].error ELSE "clean"
  <2>1. /\ {1, 2, 3} \subseteq 1 .. Len(nobody)
        /\ \A i \in 1 .. Len(nobody) : i \in {1, 2, 3}
        /\ \A i \in 1 .. 1 - 1 : nobody[i].holds
        /\ \A i \in 1 .. 2 - 1 : i = 1
        /\ \A i \in 1 .. 3 - 1 : i \in {1, 2}
    BY <1>2
  <2>2. CASE ~ nobody[1].holds
    BY <1>4, <2>1, <2>2
  <2>3. CASE nobody[1].holds /\ ~ nobody[2].holds
    BY <1>4, <2>1, <2>3
  <2>4. CASE nobody[1].holds /\ nobody[2].holds /\ ~ nobody[3].holds
    BY <1>4, <2>1, <2>4
  <2>5. CASE nobody[1].holds /\ nobody[2].holds /\ nobody[3].holds
    BY <1>5, <2>1, <2>5
  <2> QED
    BY <2>2, <2>3, <2>4, <2>5
<1> QED
  BY <1>1, <1>3, <1>6, <1>7

\* `admin-mainnet.js guards` likewise, with any key at all in FUNDER_KEY.
LEMMA AdminVerdict ==
  ASSUME TradingTypeOK, Deployed, Available \in Int, NEW s \in Keys
  PROVE  (\A case \in AdminGuards(s) : Passes(case)) <=> AdminPresumes(s)
<1> DEFINE terms == [fee_bps |-> 0,
                     max_lamports_per_trade |-> config.max_lamports_per_trade,
                     default_daily_limit |-> config.default_daily_limit]
           high == [terms EXCEPT !.fee_bps = MAX_FEE_BPS + 1]
<1>1. /\ CLERK \in Wallets /\ CLERK \in Keys
      /\ MAX_FEE_BPS \in Nat /\ BPS_DENOMINATOR \in Nat
  BY DrillAssumption, RouterAssumption DEF U16, U64
<1>2. /\ agents[CLERK].authority_managed \in BOOLEAN
      /\ agents[CLERK].reward_bps \in Nat
      /\ config.total_reward_bps \in Nat
  <2>1. config \in Config /\ agents[CLERK] \in AgentAuth
    BY <1>1 DEF TradingTypeOK, RegistryTypeOK, Deployed, Registered
  <2>2. U16 \subseteq Nat /\ U64 \subseteq Nat
    BY RouterAssumption DEF U16, U64
  <2> QED
    BY <2>1, <2>2 DEF Config, AgentAuth
<1>3. terms.fee_bps = 0 /\ high.fee_bps = MAX_FEE_BPS + 1
  OBVIOUS
<1>4. (\A case \in AdminGuards(s) : Passes(case)) <=>
        /\ SetOwnLimitError(CLERK) = "AuthorityManaged"
        /\ UpdateConfigError(CLERK, terms) = "Unauthorized"
        /\ UpdateConfigError(s, high) = "FeeTooHigh"
        /\ SetAgentError(s, CLERK, agents[CLERK].reward_bps, MAX_FEE_BPS + 1) = "FeeTooHigh"
        /\ SetAgentError(s, CLERK, BPS_DENOMINATOR + 1, 0) = "RewardSharesTooHigh"
        /\ DistributeNobodyError(VAULT) \in {"IncompletePayees", "NothingToDistribute"}
  BY DEF AdminGuards, Passes, Case
<1> HIDE DEF terms, high
<1>5. UpdateConfigError(CLERK, terms) = "Unauthorized" <=> CLERK # config.authority
  <2>1. 0 \in Nat /\ terms.fee_bps \in Nat
    BY <1>3
  <2> QED
    BY <1>1, <2>1, AuthorityErrorsAre
<1>6. UpdateConfigError(s, high) = "FeeTooHigh" <=> s = config.authority
  <2>1. 0 \in Nat /\ high.fee_bps \in Nat /\ high.fee_bps > MAX_FEE_BPS
    BY <1>1, <1>3
  <2> QED
    BY <1>1, <2>1, AuthorityErrorsAre
<1>7. SetAgentError(s, CLERK, agents[CLERK].reward_bps, MAX_FEE_BPS + 1) = "FeeTooHigh"
        <=> s = config.authority
  <2>1. /\ MAX_FEE_BPS + 1 \in Nat /\ MAX_FEE_BPS + 1 > MAX_FEE_BPS
        /\ terms.fee_bps \in Nat
    BY <1>1, <1>3
  <2> QED
    BY <1>1, <1>2, <2>1, AuthorityErrorsAre
<1>8. SetAgentError(s, CLERK, BPS_DENOMINATOR + 1, 0) = "RewardSharesTooHigh"
        <=> s = config.authority
  <2>1. /\ BPS_DENOMINATOR + 1 \in Nat /\ BPS_DENOMINATOR + 1 > BPS_DENOMINATOR
        /\ 0 \in Nat /\ 0 <= MAX_FEE_BPS /\ terms.fee_bps \in Nat
    BY <1>1, <1>3
  <2> QED
    BY <1>1, <2>1, AuthorityErrorsAre
<1>9. /\ SetOwnLimitError(CLERK) = "AuthorityManaged" <=> agents[CLERK].authority_managed
      /\ DistributeNobodyError(VAULT) \in {"IncompletePayees", "NothingToDistribute"}
           <=> /\ VAULT = config.treasury
               /\ Available > 0 => config.total_reward_bps > 0
  BY <1>2, OtherErrorsAre
<1> QED
  BY <1>4, <1>5, <1>6, <1>7, <1>8, <1>9 DEF AdminPresumes

\* "The cheapest honest evidence that the invariants hold on the binary"
\* (guards-mainnet.js:5): for every key, cap and offer, whatever was traded,
\* administered and paid out since the deployment, each drill passes exactly
\* if what it takes for granted is still so.
THEOREM DrillsSayWhatTheyPresume == RouterSpec => []DrillVerdict
<1>1. RouterInv => DrillVerdict
  <2> SUFFICES ASSUME RouterInv, Deployed
               PROVE  /\ \A s \in Keys :
                            (\A case \in AdminGuards(s) : Passes(case)) <=> AdminPresumes(s)
                      /\ (\A case \in MainnetGuards : Passes(case)) <=> MainnetPresumes
    BY DEF DrillVerdict
  <2>1. TradingTypeOK /\ RewardsTypeOK
    BY DEF RouterInv, TradingInv, VaultInv
  <2>2. Available \in Int
    BY <2>1, AvailableType
  <2> QED
    BY <2>1, <2>2, AdminVerdict, MainnetVerdict
<1> QED
  BY <1>1, RouterInvariant, PTL

\* A call that runs answers with no error: the safety half of ErrorsAgree, which
\* compares the errors with what is ENABLED.
CallsThatRunAreClean ==
    Deployed =>
        /\ SetOwnLimit(CLERK, 0) => SetOwnLimitError(CLERK) = "clean"
        /\ \A s \in Keys, args \in ConfigArgs :
              UpdateConfig(s, VAULT, VAULT, args) => UpdateConfigError(s, args) = "clean"
        /\ \A s \in Keys, share \in ShareArgs, fee \in FeeArgs :
              SetAgent(s, CLERK, TRUE, 0, share, fee)
                 => SetAgentError(s, CLERK, share, fee) = "clean"
        /\ DistributeRewards(<< >>, VAULT) => DistributeNobodyError(VAULT) = "clean"
        /\ \A v \in Vaults, ceiling, cost \in Amounts :
              BuyAmm(CLERK, CLERK, v, ceiling, cost, 0)
                 => BuyAmmError([Valid(ceiling) EXCEPT !.fee_vault = v]) = "clean"

LEMMA CallsAreClean ==
  ASSUME TradingTypeOK
  PROVE  CallsThatRunAreClean
<1> SUFFICES ASSUME Deployed
             PROVE  CallsThatRunAreClean
  BY DEF CallsThatRunAreClean
<1>1. ASSUME SetOwnLimit(CLERK, 0) PROVE SetOwnLimitError(CLERK) = "clean"
  <2> DEFINE own == <<Check("AuthorityManaged", ~ agents[CLERK].authority_managed)>>
  <2>1. Len(own) = 1
    OBVIOUS
  <2>2. own[1].holds
    BY <1>1 DEF SetOwnLimit, Check
  <2>3. SetOwnLimitError(CLERK) = FirstError(own)
    BY DEF SetOwnLimitError
  <2> HIDE DEF own
  <2>4. Len(own) \in Nat /\ \A i \in 1 .. Len(own) : own[i].holds
    BY <2>1, <2>2
  <2> QED
    BY <2>3, <2>4, NoneFails
<1>2. ASSUME NEW s, NEW args, UpdateConfig(s, VAULT, VAULT, args)
      PROVE  UpdateConfigError(s, args) = "clean"
  <2> DEFINE update ==
               <<ByAuthority(s),
                 Check("FeeTooHigh", args.fee_bps <= MAX_FEE_BPS),
                 Check("ZeroAmount", args.max_lamports_per_trade > 0)>>
  <2>1. Len(update) = 3
    OBVIOUS
  <2>2. update[1].holds /\ update[2].holds /\ update[3].holds
    BY <1>2 DEF UpdateConfig, HasOneAuthority, Validate, ByAuthority, Check
  <2>3. UpdateConfigError(s, args) = FirstError(update)
    BY DEF UpdateConfigError
  <2> HIDE DEF update
  <2>4. Len(update) \in Nat /\ \A i \in 1 .. Len(update) : update[i].holds
    BY <2>1, <2>2
  <2> QED
    BY <2>3, <2>4, NoneFails
<1>3. ASSUME NEW s, NEW share, NEW fee, SetAgent(s, CLERK, TRUE, 0, share, fee)
      PROVE  SetAgentError(s, CLERK, share, fee) = "clean"
  <2> DEFINE total == (config.total_reward_bps - agents[CLERK].reward_bps) + share
             set ==
               <<ByAuthority(s),
                 Check("FeeTooHigh", fee <= MAX_FEE_BPS),
                 Check("RewardSharesTooHigh", share <= BPS_DENOMINATOR),
                 Check("MathOverflow", config.total_reward_bps >= agents[CLERK].reward_bps),
                 Check("MathOverflow", total <= U64_MAX),
                 Check("RewardSharesTooHigh", total <= BPS_DENOMINATOR)>>
  <2>1. Len(set) = 6
    OBVIOUS
  <2>2. /\ s = config.authority /\ fee <= MAX_FEE_BPS /\ share <= BPS_DENOMINATOR
        /\ config.total_reward_bps >= agents[CLERK].reward_bps
        /\ total <= U64_MAX /\ total <= BPS_DENOMINATOR
    BY <1>3 DEF SetAgent, HasOneAuthority, AddShares
  <2>3. /\ set[1].holds /\ set[2].holds /\ set[3].holds
        /\ set[4].holds /\ set[5].holds /\ set[6].holds
    BY <2>2 DEF ByAuthority, Check
  <2>4. SetAgentError(s, CLERK, share, fee) = FirstError(set)
    BY DEF SetAgentError
  <2> HIDE DEF set
  <2>5. Len(set) \in Nat /\ \A i \in 1 .. Len(set) : set[i].holds
    BY <2>1, <2>3
  <2> QED
    BY <2>4, <2>5, NoneFails
<1>4. ASSUME DistributeRewards(<< >>, VAULT)
      PROVE  DistributeNobodyError(VAULT) = "clean"
  <2> DEFINE nobody ==
               <<Check("WrongTreasury", VAULT = config.treasury),
                 Check("NothingToDistribute", Available > 0),
                 Check("IncompletePayees", config.total_reward_bps = 0)>>
             bps == [i \in DOMAIN << >> |-> agents[(<< >>)[i].auth].reward_bps]
  <2>1. BpsTotal(<< >>) = 0
    <3>1. Sharing(<< >>) = {} /\ BpsTotal(<< >>) = Sum(bps, Sharing(<< >>))
      BY DEF Sharing, BpsTotal, Sum
    <3> HIDE DEF bps
    <3> QED
      BY <3>1, FS_EmptySet, SumStep
  <2>2. VAULT = config.treasury /\ Available > 0 /\ config.total_reward_bps = 0
    BY <1>4, <2>1 DEF DistributeRewards, DistributeAccounts, Accepted
  <2>3. Len(nobody) = 3 /\ nobody[1].holds /\ nobody[2].holds /\ nobody[3].holds
    BY <2>2 DEF Check
  <2>4. DistributeNobodyError(VAULT) = FirstError(nobody)
    BY DEF DistributeNobodyError
  <2> HIDE DEF nobody
  <2>5. Len(nobody) \in Nat /\ \A i \in 1 .. Len(nobody) : nobody[i].holds
    BY <2>3
  <2> QED
    BY <2>4, <2>5, NoneFails
<1>5. ASSUME NEW v \in Vaults, NEW ceiling \in Amounts, NEW cost,
             BuyAmm(CLERK, CLERK, v, ceiling, cost, 0)
      PROVE  BuyAmmError([Valid(ceiling) EXCEPT !.fee_vault = v]) = "clean"
  <2> DEFINE call == [Valid(ceiling) EXCEPT !.fee_vault = v]
  <2>1. /\ v = config.fee_vault /\ wsol[CLERK] # NoAccount
        /\ ~ config.paused /\ agents[CLERK].enabled
        /\ ceiling > 0 /\ ceiling <= config.max_lamports_per_trade
        /\ SpentToday(CLERK) + ceiling <= U64_MAX
        /\ SpentToday(CLERK) + ceiling <= agents[CLERK].daily_limit
    BY <1>5 DEF BuyAmm, TradeAmmAccounts, TradeCurveAccounts, MayTrade, CheckBuy,
                ChargeDailyBudget
  <2>2. CLERK \in Wallets /\ VAULT \in Keys /\ v \in Keys /\ ceiling \in U64
    BY DrillAssumption, RouterAssumption, TradingAssumption
  <2>3. /\ call \in Calls /\ call.config = TRUE /\ call.budget = TRUE
        /\ call.fee_vault = v /\ call.program = "amm" /\ call.ceiling = ceiling
    BY <2>2 DEF Valid, Calls
  <2> HIDE DEF call
  <2>4. /\ ceiling \in Nat /\ config.max_lamports_per_trade \in Nat
        /\ agents[CLERK].daily_limit \in Nat /\ U64_MAX \in Nat
        /\ SpentToday(CLERK) \in Nat
    <3>1. config \in Config /\ agents[CLERK] \in AgentAuth
      BY <2>2 DEF TradingTypeOK, RegistryTypeOK, Deployed, Registered
    <3>2. SpentToday(CLERK) \in Nat
      BY <2>2, SpentTodayType DEF TradingTypeOK, Deployed
    <3> QED
      BY <2>2, <3>1, <3>2, RouterAssumption DEF Config, AgentAuth, U64
  <2>5. BuyAmmError(call) = "clean"
    BY <2>1, <2>2, <2>3, <2>4, BuyAmmErrorIs
  <2> QED
    BY <2>5 DEF call
<1> QED
  BY <1>1, <1>2, <1>3, <1>4, <1>5 DEF CallsThatRunAreClean

\* The errors the drills look for are the program's: no check is listed that the
\* instruction does not make (lib.rs:71, 157, 191, rewards.rs:40, guards.rs).
THEOREM NoCheckIsInvented == RouterSpec => [][CallsThatRunAreClean]_routerVars
<1>1. RouterInv => TradingTypeOK
  BY DEF RouterInv, TradingInv
<1>2. RouterInv => CallsThatRunAreClean
  BY <1>1, CallsAreClean
<1>3. RouterInv /\ [RouterNext]_routerVars => [CallsThatRunAreClean]_routerVars
  BY <1>2
<1> QED
  BY <1>3, RouterInvariant, PTL DEF RouterSpec
===============================================================================
