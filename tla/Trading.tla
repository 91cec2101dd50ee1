-------------------------------- MODULE Trading --------------------------------
(***************************************************************************)
(* The four trades of lib.rs, routed by curve.rs and amm.rs through the    *)
(* guards of guards.rs to a venue.  The venues are external: they decide   *)
(* the price, never take more than the ceiling they are given, and may     *)
(* make the buyer pay rent for an account of theirs.                       *)
(***************************************************************************)
EXTENDS Registry

CONSTANTS
    Amounts,          \* ceilings and quote amounts, in lamports
    VenueRent,        \* rent of an account the venue opens for a buyer
    InitialReserves,  \* what the curve and the pool hold at the start
    NoEvent           \* the last step routed no trade

VARIABLES
    wsol,             \* wallet -> amount in its WSOL account, or NoAccount
    reserves,         \* what the venues hold: quote, and buyers' rent
    complete,         \* the bonding curve has graduated
    event,            \* the last TradeRouted, if the last step emitted one
    committed         \* history: wallet -> ceilings of the buys routed today

Reserves == [curve : Nat, pool : Nat, rent : Nat]

ASSUME TradingAssumption ==
    /\ Amounts \subseteq U64
    /\ VenueRent \in Nat
    /\ InitialReserves \in Reserves

venueVars == <<wsol, reserves, complete>>
tradingVars == <<registryVars, venueVars, event, committed>>

Sides == {"Buy", "Sell"}

TradeRouted ==
    [agent : Wallets, side : Sides, on_amm : BOOLEAN,
     quote_moved : Nat, fee_lamports : Nat]

ASSUME EventAssumption == NoEvent \notin TradeRouted /\ NoAgent \notin U64

TradingTypeOK ==
    /\ RegistryTypeOK
    /\ wsol \in [Wallets -> Nat \cup {NoAccount}]
    /\ reserves \in Reserves
    /\ complete \in BOOLEAN
    /\ event \in TradeRouted \cup {NoEvent}
    /\ committed \in [Wallets -> Nat]

TradingInit ==
    /\ RegistryInit
    /\ wsol = [w \in Wallets |-> NoAccount]
    /\ reserves = InitialReserves
    /\ complete = FALSE
    /\ event = NoEvent
    /\ committed = [w \in Wallets |-> 0]

-------------------------------------------------------------------------------
(***************************************************************************)
(* Guards.                                                                 *)
(***************************************************************************)

\* Mutant of TradeCurveAccounts: a registered wallet may name any AgentAuth.
TradeCurveUnseeded(s, w, vault) ==
    /\ config # NoConfig
    /\ Registered(w) /\ Registered(s)
    /\ vault = config.fee_vault
    /\ signer' = s

\* Accounts the caller names and the program pins: the AgentAuth of the
\* wallet that signs, and the configured fee vault.
TradeCurveAccounts(s, w, vault) ==
    /\ config # NoConfig
    /\ Registered(w)
    /\ w = s
    /\ vault = config.fee_vault
    /\ signer' = s

\* On the AMM also a quote account, whose amount must be readable.
TradeAmmAccounts(s, w, vault) ==
    /\ TradeCurveAccounts(s, w, vault)
    /\ wsol[s] # NoAccount

MayTrade(w) == ~ config.paused /\ agents[w].enabled

\* What is on record as spent today: nothing, if the record is of another day.
SpentToday(w) ==
    IF agents[w].day # CurrentDay THEN 0 ELSE agents[w].spent_today

\* Mutant of ChargeDailyBudget: the record keeps its old day.
ChargeForgettingDay(w, amount) ==
    LET spent == SpentToday(w) + amount
    IN  /\ spent <= agents[w].daily_limit
        /\ agents' = [agents EXCEPT ![w].spent_today = spent]

\* Mutant of ChargeDailyBudget: the addition wraps.
ChargeWrapping(w, amount) ==
    LET spent == (SpentToday(w) + amount) % (U64_MAX + 1)
    IN  /\ spent <= agents[w].daily_limit
        /\ agents' = [agents EXCEPT ![w].day = CurrentDay,
                                    ![w].spent_today = spent]

\* Mutant of ChargeDailyBudget: what was spent before is overwritten.
ChargeOverwriting(w, amount) ==
    /\ amount <= agents[w].daily_limit
    /\ agents' = [agents EXCEPT ![w].day = CurrentDay,
                                ![w].spent_today = amount]

ChargeDailyBudget(w, amount) ==
    LET spent == SpentToday(w) + amount
    IN  /\ spent <= U64_MAX
        /\ spent <= agents[w].daily_limit
        /\ agents' = [agents EXCEPT ![w].day = CurrentDay,
                                    ![w].spent_today = spent]

CheckBuy(w, ceiling) ==
    /\ ceiling > 0
    /\ ceiling <= config.max_lamports_per_trade
    /\ ChargeDailyBudget(w, ceiling)
    /\ committed' = [committed EXCEPT ![w] = @ + ceiling]

\* u64::saturating_sub
SaturatingSub(a, b) == IF a > b THEN a - b ELSE 0

\* Mutant of Moved: one sign for both sides, and no saturation.
MovedOneWay(side, before, after) == before - after

Moved(side, before, after) ==
    IF side = "Buy" THEN SaturatingSub(before, after)
                    ELSE SaturatingSub(after, before)

\* Taken in native SOL from what the agent has after the CPI.
TakeFee(balances, w, vault, fee) ==
    /\ balances[w] >= fee
    /\ Commit(Move(balances, w, vault, fee))

Emit(w, side, on_amm, moved, fee) ==
    event' = [agent |-> w, side |-> side, on_amm |-> on_amm,
              quote_moved |-> moved, fee_lamports |-> fee]

-------------------------------------------------------------------------------
(***************************************************************************)
(* Routes.  `balances` and `quote` are lamports and the agent's WSOL after *)
(* the CPI.                                                                *)
(***************************************************************************)

SettleCurve(w, vault, side, balances) ==
    LET moved == Moved(side, lamports[w], balances[w])
        fee == BpsOf(moved, agents[w].fee_bps)
    IN  /\ TakeFee(balances, w, vault, fee)
        /\ Emit(w, side, FALSE, moved, fee)
        /\ UNCHANGED <<config, clock, wsol, complete>>

\* Mutant of SettleAmm: measures lamports, as on the curve (amm.rs:5).
SettleAmmInLamports(w, vault, side, balances, quote) ==
    LET moved == Moved(side, lamports[w], balances[w])
        fee == BpsOf(moved, agents[w].fee_bps)
    IN  /\ TakeFee(balances, w, vault, fee)
        /\ Emit(w, side, TRUE, moved, fee)
        /\ wsol' = [wsol EXCEPT ![w] = quote]
        /\ UNCHANGED <<config, clock, complete>>

SettleAmm(w, vault, side, balances, quote) ==
    LET moved == Moved(side, wsol[w], quote)
        fee == BpsOf(moved, agents[w].fee_bps)
    IN  /\ TakeFee(balances, w, vault, fee)
        /\ Emit(w, side, TRUE, moved, fee)
        /\ wsol' = [wsol EXCEPT ![w] = quote]
        /\ UNCHANGED <<config, clock, complete>>

Buy(s, w, vault, ceiling, cost, rent) ==
    /\ TradeCurveAccounts(s, w, vault)
    /\ MayTrade(w)
    /\ ~ complete
    /\ CheckBuy(w, ceiling)
    /\ cost <= ceiling
    /\ SettleCurve(s, vault, "Buy", Debit(lamports, s, cost + rent))
    /\ reserves' = [reserves EXCEPT !.curve = @ + cost, !.rent = @ + rent]

Sell(s, w, vault, out) ==
    /\ TradeCurveAccounts(s, w, vault)
    /\ MayTrade(w)
    /\ ~ complete
    /\ out <= reserves.curve
    /\ SettleCurve(s, vault, "Sell", Debit(lamports, s, -out))
    /\ reserves' = [reserves EXCEPT !.curve = @ - out]
    /\ UNCHANGED <<agents, committed>>

\* Rent for an account of the venue is paid in lamports, outside `moved`.
BuyAmm(s, w, vault, ceiling, cost, rent) ==
    /\ TradeAmmAccounts(s, w, vault)
    /\ MayTrade(w)
    /\ CheckBuy(w, ceiling)
    /\ cost <= ceiling
    /\ cost <= wsol[s]
    /\ SettleAmm(s, vault, "Buy", Debit(lamports, s, rent), wsol[s] - cost)
    /\ reserves' = [reserves EXCEPT !.pool = @ + cost, !.rent = @ + rent]

SellAmm(s, w, vault, out) ==
    /\ TradeAmmAccounts(s, w, vault)
    /\ MayTrade(w)
    /\ out <= reserves.pool
    /\ SettleAmm(s, vault, "Sell", lamports, wsol[s] + out)
    /\ reserves' = [reserves EXCEPT !.pool = @ - out]
    /\ UNCHANGED <<agents, committed>>

-------------------------------------------------------------------------------
(***************************************************************************)
(* The surroundings: what wallets do for themselves around an AMM trade    *)
(* (client/wsol.js), the venue, and time.                                  *)
(***************************************************************************)

\* Open the WSOL account if there is none, and move lamports into it.
Wrap(w, amount) ==
    /\ signer' = w
    /\ IF wsol[w] = NoAccount
       THEN /\ Commit(Debit(lamports, w, TokenRent + amount))
            /\ wsol' = [wsol EXCEPT ![w] = amount]
       ELSE /\ amount > 0
            /\ Commit(Debit(lamports, w, amount))
            /\ wsol' = [wsol EXCEPT ![w] = @ + amount]
    /\ event' = NoEvent
    /\ UNCHANGED <<clock, config, agents, reserves, complete, committed>>

\* Close it: the balance and the rent come back as lamports.
Unwrap(w) ==
    /\ wsol[w] # NoAccount
    /\ signer' = w
    /\ Commit(Debit(lamports, w, -(wsol[w] + TokenRent)))
    /\ wsol' = [wsol EXCEPT ![w] = NoAccount]
    /\ event' = NoEvent
    /\ UNCHANGED <<clock, config, agents, reserves, complete, committed>>

\* pump.fun completes the curve and moves what it holds to the pool.
Graduate ==
    /\ ~ complete
    /\ complete' = TRUE
    /\ reserves' = [reserves EXCEPT !.curve = 0, !.pool = @ + reserves.curve]
    /\ signer' = NoKey
    /\ event' = NoEvent
    /\ UNCHANGED <<chainVars, config, agents, wsol, committed>>

Administer ==
    /\ ConfigStep \/ AgentStep
    /\ event' = NoEvent
    /\ UNCHANGED <<venueVars, committed>>

PassTime ==
    /\ TimePasses
    /\ committed' = IF CurrentDay' = CurrentDay
                    THEN committed ELSE [w \in Wallets |-> 0]
    /\ event' = NoEvent
    /\ UNCHANGED venueVars

TradeStep ==
    \E s, w \in Wallets, vault \in Vaults, amount \in Amounts :
        \/ \E cost \in Amounts \ {0}, rent \in {0, VenueRent} :
              \/ Buy(s, w, vault, amount, cost, rent)
              \/ BuyAmm(s, w, vault, amount, cost, rent)
        \/ Sell(s, w, vault, amount)
        \/ SellAmm(s, w, vault, amount)

WalletStep ==
    \E w \in Wallets : Unwrap(w) \/ \E amount \in Amounts : Wrap(w, amount)

TradingNext ==
    TradeStep \/ WalletStep \/ Graduate \/ Administer \/ PassTime

TradingSpec == TradingInit /\ [][TradingNext]_tradingVars

-------------------------------------------------------------------------------
(***************************************************************************)
(* Properties.                                                             *)
(***************************************************************************)

\* The record an agent carries, rolled to the current day lazily and only when
\* it buys (guards.rs:17), is at every moment what it committed today: no buy
\* is forgotten, none is charged twice, no change of terms launders it.
BudgetOnRecord ==
    \A w \in Wallets :
        committed[w] = IF Registered(w) THEN SpentToday(w) ELSE 0

\* The daily budget as the reader of SECURITY.md:16 expects it, with the days
\* rolled eagerly: the detailed module implements the abstract Allowance.
Budget == INSTANCE Allowance WITH
    Holders <- Wallets,
    Lamports <- U64,
    Closed <- NoAgent,
    limit <- [w \in Wallets |-> IF Registered(w) THEN agents[w].daily_limit
                                                 ELSE NoAgent],
    spent <- committed,
    day <- CurrentDay

ImplementsAllowance == Budget!Spec

Trades == event' # NoEvent

\* "Cannot spend another agent's budget" (SECURITY.md:14): a trade is routed
\* for the wallet that signs it, and no other wallet loses lamports or WSOL,
\* or has anything charged to it.
OwnBudgetOnly ==
    [][Trades =>
          /\ event'.agent = signer'
          /\ \A w \in Wallets \ {signer'} :
                /\ agents'[w] = agents[w]
                /\ wsol'[w] = wsol[w]
                /\ lamports'[w] >= lamports[w]]_tradingVars

\* What the venue received in a step (its loss counts as negative).  On the
\* curve the rent it made the buyer pay is part of it (SECURITY.md:117).
VenueGain(on_amm) ==
    IF on_amm THEN reserves'.pool - reserves.pool
              ELSE (reserves'.curve + reserves'.rent)
                      - (reserves.curve + reserves.rent)

\* The event, the venue and the vault agree on every trade, on both venues:
\* quote_moved is what the venue saw move, the fee is the agent's rate of it,
\* and the vault received that fee in lamports (guards.rs:40).
TradeSettles ==
    [][Trades =>
          LET e == event'
              gain == VenueGain(e.on_amm)
          IN  /\ e.quote_moved = IF e.side = "Buy" THEN gain ELSE - gain
              /\ e.fee_lamports = BpsOf(e.quote_moved, agents[e.agent].fee_bps)
              /\ config.fee_vault # e.agent =>
                    lamports'[config.fee_vault] =
                       lamports[config.fee_vault] + e.fee_lamports]_tradingVars

Holdings(w) ==
    lamports[w] + (IF wsol[w] = NoAccount THEN 0 ELSE wsol[w])

\* A trade costs its wallet no more than the budget it took, the rent of one
\* venue account and the hard ceiling of the fee on both; a sale never costs
\* anything at all (state.rs:17).
LossBounded ==
    [][Trades =>
          \A w \in Wallets : event'.agent = w =>
             LET lost == Holdings(w) - Holdings(w)'
                 charged == committed'[w] - committed[w]
                 rent == reserves'.rent - reserves.rent
             IN  lost * BPS_DENOMINATOR <=
                    (charged + rent) * (BPS_DENOMINATOR + MAX_FEE_BPS)]_tradingVars
===============================================================================
