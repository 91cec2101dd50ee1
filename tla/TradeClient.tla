------------------------------ MODULE TradeClient ------------------------------
(***************************************************************************)
(* client/trade.js and scripts/trade.js: runs that trade for one agent     *)
(* while others administer the router, the mint graduates and days pass.   *)
(* Every await is a point where the chain may move on: what was read       *)
(* before it is stale after it.  A trade that was sent may land late, fail,*)
(* or never land, and its process may be gone by then.  A run takes one    *)
(* element of Runs until the chain is done with what it sent: a caller who *)
(* does not wait for that just takes another one, so that Runs bounds how  *)
(* many attempts are under way at once.                                    *)
(***************************************************************************)
EXTENDS Trading, Sizing

CONSTANTS
    Agent,            \* the wallet all runs trade for
    Runs,             \* bound: attempts under way at once
    BuySizes,         \* sizes of buys, in lamports
    Skews,            \* seconds by which Date.now() may be off the chain's clock
    LongLived,        \* one process makes all attempts, and keeps its cache
    MaxBuys,          \* bound: buys begun
    MaxTroubles,      \* bound: changes of terms, attempts broken off, lost transactions
    NoVault,          \* nothing cached
    NoTrade,          \* no trade planned, or none in flight
    Unread            \* a read that was not answered yet

VARIABLES
    pool,             \* the PumpSwap pool exists
    step,             \* run -> where in its attempt it is
    plan,             \* run -> the trade it is building, or NoTrade
    seen,             \* run -> what the reads of readLimits have answered
    cachedFeeVault,   \* process -> module variable of trade.js
    inflight,         \* run -> the trade it sent and that has not landed
    fresh,            \* history: run -> what still is as it was at Begin
    richest,          \* history: the most lamports the agent has held
    buys, troubles    \* counters of the two bounds

ASSUME ClientAssumption ==
    /\ Agent \in Wallets
    /\ IsFiniteSet(Runs) /\ Runs # {}
    /\ BuySizes \subseteq Amounts \ {0}
    /\ Skews \subseteq Int
    /\ LongLived \in BOOLEAN
    /\ MaxBuys \in Nat /\ MaxTroubles \in Nat
    /\ NoVault \notin Vaults

attemptVars == <<step, plan, seen, cachedFeeVault, inflight>>
clientVars ==
    <<tradingVars, pool, attemptVars, fresh, richest, buys, troubles>>

Steps == {"idle", "limits", "venue", "pool", "vault", "build", "prep",
          "simulate", "sent"}

Venues == {"unresolved", "curve", "amm"}

Trade ==
    [side : Sides, size : BuySizes \cup {0}, venue : Venues,
     fee_vault : Vaults \cup {NoVault}]

\* The fields of AgentAuth that sizing.js decodes.
Allotment == [daily_limit : Nat, spent_today : Nat, day : Int]

ASSUME TradeAssumption ==
    NoTrade \notin Trade /\ Unread \notin Nat \cup Allotment

Seen ==
    [balance : Nat \cup {Unread}, cap : Nat \cup {Unread},
     agent : Allotment \cup {Unread}]

NothingSeen == [balance |-> Unread, cap |-> Unread, agent |-> Unread]

ClientTypeOK ==
    /\ TradingTypeOK
    /\ pool \in BOOLEAN
    /\ step \in [Runs -> Steps]
    /\ plan \in [Runs -> Trade \cup {NoTrade}]
    /\ seen \in [Runs -> Seen]
    /\ cachedFeeVault \in [Runs -> Vaults \cup {NoVault}]
    /\ inflight \in [Runs -> Trade \cup {NoTrade}]
    /\ fresh \in [Runs -> [limits : BOOLEAN, vault : BOOLEAN]]
    /\ richest \in Nat
    /\ buys \in 0 .. MaxBuys /\ troubles \in 0 .. MaxTroubles
    /\ \A c \in Runs :
          /\ step[c] = "idle" <=> plan[c] = NoTrade
          /\ step[c] \in {"build", "prep", "simulate", "sent"} =>
                plan[c].venue # "unresolved" /\ plan[c].fee_vault # NoVault
          /\ step[c] = "sent" => inflight[c] = plan[c]
          /\ step[c] # "limits" => seen[c] = NothingSeen

\* Deployed by scripts/init-mainnet.js: config exists, the agent is registered.
Deployed ==
    \E s \in Officials, v \in Vaults, limit \in LimitArgs, args \in ConfigArgs :
        /\ Validate(args)
        /\ config = [authority |-> s, treasury |-> v, fee_vault |-> v,
                     fee_bps |-> args.fee_bps,
                     max_lamports_per_trade |-> args.max_lamports_per_trade,
                     default_daily_limit |-> args.default_daily_limit,
                     total_reward_bps |-> 0, paused |-> FALSE]
        /\ agents = [w \in Wallets |->
                        [daily_limit |-> limit, spent_today |-> 0, day |-> 0,
                         reward_bps |-> 0, fee_bps |-> args.fee_bps,
                         enabled |-> TRUE, authority_managed |-> TRUE]]

ClientInit ==
    /\ ChainInit /\ Deployed /\ signer = NoKey
    /\ wsol = [w \in Wallets |-> NoAccount]
    /\ reserves = InitialReserves
    /\ complete = FALSE /\ pool = FALSE
    /\ event = NoEvent
    /\ committed = [w \in Wallets |-> 0]
    /\ step = [c \in Runs |-> "idle"]
    /\ plan = [c \in Runs |-> NoTrade]
    /\ seen = [c \in Runs |-> NothingSeen]
    /\ cachedFeeVault = [c \in Runs |-> NoVault]
    /\ inflight = [c \in Runs |-> NoTrade]
    /\ fresh = [c \in Runs |-> [limits |-> FALSE, vault |-> FALSE]]
    /\ richest = InitialLamports[Agent]
    /\ buys = 0 /\ troubles = 0

-------------------------------------------------------------------------------
(***************************************************************************)
(* The chain's side: what the transactions of the client do.               *)
(***************************************************************************)

\* Mutant of AmmTrade: the wrapped account is left open, with what is in it.
AmmTradeUnclosed(vault, side, wrapped, quote, rent) ==
    LET native == Debit(lamports, Agent, (wrapped - wsol[Agent]) + rent)
        moved == Moved(side, wrapped, quote)
        fee == BpsOf(moved, agents[Agent].fee_bps)
    IN  /\ native[Agent] >= fee
        /\ Commit(Move(native, Agent, vault, fee))
        /\ Emit(Agent, side, TRUE, moved, fee)
        /\ wsol' = [wsol EXCEPT ![Agent] = quote]

\* transfer and syncNative, the router's trade, closeAccount: one transaction.
\* The fee leaves the native balance before the close returns the rest.
AmmTrade(vault, side, wrapped, quote, rent) ==
    LET native == Debit(lamports, Agent, (wrapped - wsol[Agent]) + rent)
        moved == Moved(side, wrapped, quote)
        fee == BpsOf(moved, agents[Agent].fee_bps)
    IN  /\ native[Agent] >= fee
        /\ Commit(Debit(Move(native, Agent, vault, fee), Agent,
                        -(quote + TokenRent)))
        /\ Emit(Agent, side, TRUE, moved, fee)
        /\ wsol' = [wsol EXCEPT ![Agent] = NoAccount]

AmmBuy(vault, size, cost, rent) ==
    /\ TradeAmmAccounts(Agent, Agent, vault)
    /\ MayTrade(Agent)
    /\ CheckBuy(Agent, size)
    /\ cost <= size
    /\ AmmTrade(vault, "Buy", wsol[Agent] + size, wsol[Agent] + size - cost, rent)
    /\ reserves' = [reserves EXCEPT !.pool = @ + cost, !.rent = @ + rent]
    /\ UNCHANGED <<config, clock, complete>>

AmmSell(vault, out) ==
    /\ TradeAmmAccounts(Agent, Agent, vault)
    /\ MayTrade(Agent)
    /\ out <= reserves.pool
    /\ AmmTrade(vault, "Sell", wsol[Agent], wsol[Agent] + out, 0)
    /\ reserves' = [reserves EXCEPT !.pool = @ - out]
    /\ UNCHANGED <<config, clock, complete, agents, committed>>

\* The trade transaction executes, at whatever price the venue makes.
Executes(t) ==
    \/ /\ t.side = "Buy"
       /\ \E cost \in Amounts \ {0}, rent \in {0, VenueRent} :
             \/ t.venue = "curve" /\ Buy(Agent, Agent, t.fee_vault, t.size, cost, rent)
             \/ t.venue = "amm" /\ AmmBuy(t.fee_vault, t.size, cost, rent)
    \/ /\ t.side = "Sell"
       /\ \E out \in Amounts :
             \/ t.venue = "curve" /\ Sell(Agent, Agent, t.fee_vault, out)
             \/ t.venue = "amm" /\ AmmSell(t.fee_vault, out)

\* What the guards of the program demand of a buy of this size.
BudgetAllows(size) ==
    /\ size <= config.max_lamports_per_trade
    /\ SpentToday(Agent) + size <= agents[Agent].daily_limit

\* Everything that decides over the transaction but the price.
Acceptable(t) ==
    /\ t.fee_vault = config.fee_vault
    /\ MayTrade(Agent)
    /\ t.venue = "curve" => ~ complete
    /\ t.venue = "amm" => wsol[Agent] # NoAccount
    /\ t.side = "Buy" => BudgetAllows(t.size)

\* A sale on the AMM for more than the fee on it can be paid from.
FeeBeyondMeans(t) ==
    /\ t.side = "Sell" /\ t.venue = "amm"
    /\ \E out \in Amounts : /\ out <= reserves.pool
                            /\ BpsOf(out, agents[Agent].fee_bps) > lamports[Agent]

\* A buy may also fail on its price: it asks for an exact output.
MayFail(t) == t.side = "Buy" \/ ~ Acceptable(t) \/ FeeBeyondMeans(t)

-------------------------------------------------------------------------------
(***************************************************************************)
(* The attempt, from one await to the next.                                *)
(***************************************************************************)

chainUnchanged == UNCHANGED <<tradingVars, pool>>

Goto(c, s) == step' = [step EXCEPT ![c] = s]

\* Whose cache an attempt uses: that of its script, or of the one process that
\* makes all attempts.
Process(c) == IF LongLived THEN CHOOSE d \in Runs : TRUE ELSE c

\* Mutant of Ends: a failure is not noticed, and its process goes on waiting.
EndsWaiting(c) == UNCHANGED <<step, plan, seen, cachedFeeVault>>

\* The attempt is over, well or not.  A script exits and takes its cache along.
Ends(c) ==
    /\ Goto(c, "idle")
    /\ plan' = [plan EXCEPT ![c] = NoTrade]
    /\ seen' = [seen EXCEPT ![c] = NothingSeen]
    /\ cachedFeeVault' = IF LongLived THEN cachedFeeVault
                         ELSE [cachedFeeVault EXCEPT ![c] = NoVault]

\* A new attempt takes an element of Runs that no other one has.
Begin(c, side, size, first) ==
    /\ step[c] = "idle" /\ inflight[c] = NoTrade
    /\ plan' = [plan EXCEPT ![c] =
                  [side |-> side, size |-> size, venue |-> "unresolved",
                   fee_vault |-> NoVault]]
    /\ Goto(c, first)
    /\ UNCHANGED <<seen, cachedFeeVault, inflight, troubles>>
    /\ chainUnchanged

BeginBuy(c, size) ==
    /\ buys < MaxBuys /\ buys' = buys + 1
    /\ Begin(c, "Buy", size, "limits")

\* Never refused here, and always for the whole position.
BeginSell(c) ==
    /\ Begin(c, "Sell", 0, "venue")
    /\ UNCHANGED buys

\* readLimits sends three reads at once: the config, the agent, its balance.
\* Each is answered from the state of a moment of its own, in any order.
ReadLimits(c) ==
    /\ step[c] = "limits"
    /\ \/ /\ seen[c].balance = Unread
          /\ seen' = [seen EXCEPT ![c].balance = lamports[Agent]]
       \/ /\ seen[c].cap = Unread
          /\ seen' = [seen EXCEPT ![c].cap = config.max_lamports_per_trade]
       \/ /\ seen[c].agent = Unread
          /\ seen' = [seen EXCEPT ![c].agent =
                         [daily_limit |-> agents[Agent].daily_limit,
                          spent_today |-> agents[Agent].spent_today,
                          day |-> agents[Agent].day]]
    /\ UNCHANGED <<step, plan, cachedFeeVault, inflight, buys, troubles>>
    /\ chainUnchanged

\* Mutant of SeenLimits: yesterday's spending is not told from today's.
SeenLimitsOfAnyDay(c, skew) ==
    [balance |-> seen[c].balance,
     absoluteCap |-> seen[c].cap,
     dailyCap |-> seen[c].agent.daily_limit,
     spentToday |-> 0]

\* What readLimits returns.  Its clock is read when all its reads are answered.
SeenLimits(c, skew) ==
    LET today == (clock + skew) \div SECONDS_PER_DAY
        agent == seen[c].agent
    IN  [balance |-> seen[c].balance,
         absoluteCap |-> seen[c].cap,
         dailyCap |-> agent.daily_limit,
         spentToday |-> IF agent.day = today THEN agent.spent_today ELSE 0]

\* Sized before anything else; a buy beyond the limits is never built.
AssertWithinBudget(c) ==
    /\ step[c] = "limits"
    /\ Unread \notin {seen[c].balance, seen[c].cap, seen[c].agent}
    /\ \E skew \in Skews :
          IF WithinBudget(SeenLimits(c, skew), plan[c].size)
          THEN /\ Goto(c, "venue")
               /\ seen' = [seen EXCEPT ![c] = NothingSeen]
               /\ UNCHANGED <<plan, cachedFeeVault>>
          ELSE Ends(c)
    /\ UNCHANGED <<inflight, buys, troubles>>
    /\ chainUnchanged

\* resolveVenue, its first read.
ReadCurve(c) ==
    /\ step[c] = "venue"
    /\ IF complete
       THEN Goto(c, "pool") /\ UNCHANGED plan
       ELSE Goto(c, "vault") /\ plan' = [plan EXCEPT ![c].venue = "curve"]
    /\ UNCHANGED <<seen, cachedFeeVault, inflight, buys, troubles>>
    /\ chainUnchanged

\* Its second: a complete curve may not have a pool yet.
ReadPool(c) ==
    /\ step[c] = "pool"
    /\ IF pool
       THEN /\ Goto(c, "vault")
            /\ plan' = [plan EXCEPT ![c].venue = "amm"]
            /\ UNCHANGED <<seen, cachedFeeVault>>
       ELSE Ends(c)
    /\ UNCHANGED <<inflight, buys, troubles>>
    /\ chainUnchanged

\* feeVault: read once in the life of the process.
FeeVault(c) ==
    /\ step[c] = "vault"
    /\ LET cached == cachedFeeVault[Process(c)]
           vault == IF cached # NoVault THEN cached ELSE config.fee_vault
       IN  /\ cachedFeeVault' = [cachedFeeVault EXCEPT ![Process(c)] = vault]
           /\ plan' = [plan EXCEPT ![c].fee_vault = vault]
    /\ Goto(c, "build")
    /\ UNCHANGED <<seen, inflight, buys, troubles>>
    /\ chainUnchanged

\* Mutant of Build: only a buy is prepared.
BuildPreparingBuys(c) ==
    /\ step[c] = "build"
    /\ Goto(c, IF plan[c].venue = "amm" /\ plan[c].side = "Buy"
                  /\ wsol[Agent] = NoAccount
               THEN "prep" ELSE "simulate")
    /\ UNCHANGED <<plan, seen, cachedFeeVault, inflight, buys, troubles>>
    /\ chainUnchanged

\* On the AMM a missing wrapped account is created first, on its own.
Build(c) ==
    /\ step[c] = "build"
    /\ Goto(c, IF plan[c].venue = "amm" /\ wsol[Agent] = NoAccount
               THEN "prep" ELSE "simulate")
    /\ UNCHANGED <<plan, seen, cachedFeeVault, inflight, buys, troubles>>
    /\ chainUnchanged

\* The idempotent create: somebody else may have been first.
Prep(c) ==
    /\ step[c] = "prep"
    /\ Goto(c, "simulate")
    /\ IF wsol[Agent] = NoAccount
       THEN /\ Commit(Debit(lamports, Agent, TokenRent))
            /\ wsol' = [wsol EXCEPT ![Agent] = 0]
       ELSE UNCHANGED <<lamports, wsol>>
    /\ signer' = Agent /\ event' = NoEvent
    /\ UNCHANGED <<clock, config, agents, reserves, complete, committed, pool>>
    /\ UNCHANGED <<plan, seen, cachedFeeVault, inflight, buys, troubles>>

PrepFails(c) ==
    /\ step[c] = "prep"
    /\ wsol[Agent] = NoAccount
    /\ lamports[Agent] - TokenRent \notin {0} \cup {n \in Nat : n >= SystemRent}
    /\ Ends(c)
    /\ UNCHANGED <<inflight, buys, troubles>>
    /\ chainUnchanged

\* Simulated against the state of the moment, then signed and sent.
SimulateAndSend(c) ==
    /\ step[c] = "simulate"
    /\ IF Acceptable(plan[c])
       THEN /\ Goto(c, "sent")
            /\ inflight' = [inflight EXCEPT ![c] = plan[c]]
            /\ UNCHANGED <<plan, seen, cachedFeeVault>>
       ELSE Ends(c) /\ UNCHANGED inflight
    /\ UNCHANGED <<buys, troubles>>
    /\ chainUnchanged

\* Mutant of Confirmed: the wait for it is taken for a failure, and the same trade
\* is sent once more.
ConfirmedResending(c) == UNCHANGED attemptVars

\* The chain is done with the trade of c; its process hears of it, if it lives.
Confirmed(c) ==
    /\ inflight' = [inflight EXCEPT ![c] = NoTrade]
    /\ IF step[c] = "sent" THEN Ends(c)
                           ELSE UNCHANGED <<step, plan, seen, cachedFeeVault>>

Lands(c) ==
    /\ inflight[c] # NoTrade
    /\ Executes(inflight[c])
    /\ Confirmed(c)
    /\ UNCHANGED <<pool, buys, troubles>>

Fails(c) ==
    /\ inflight[c] # NoTrade
    /\ MayFail(inflight[c])
    /\ Confirmed(c)
    /\ UNCHANGED <<buys, troubles>>
    /\ chainUnchanged

-------------------------------------------------------------------------------
(***************************************************************************)
(* What else happens, as often as MaxTroubles allows where it hurts.       *)
(***************************************************************************)

Trouble == troubles < MaxTroubles /\ troubles' = troubles + 1

\* Its blockhash expires before anybody includes it.
Expires(c) ==
    /\ Trouble
    /\ inflight[c] # NoTrade
    /\ Confirmed(c)
    /\ UNCHANGED buys
    /\ chainUnchanged

\* A call throws, the wait is given up, or the process dies.  What was sent is
\* still on its way.
BreaksOff(c) ==
    /\ Trouble
    /\ step[c] # "idle"
    /\ Ends(c)
    /\ UNCHANGED <<inflight, buys>>
    /\ chainUnchanged

\* The authority moves the vault and the cap, pauses, or changes the agent.
Governs ==
    /\ Trouble
    /\ \E s \in Officials :
          \/ \E v \in Vaults, cap \in CapArgs :
                UpdateConfig(s, config.treasury, v,
                   [fee_bps |-> config.fee_bps, max_lamports_per_trade |-> cap,
                    default_daily_limit |-> config.default_daily_limit])
          \/ \E p \in BOOLEAN : SetPaused(s, p)
          \/ \E e \in BOOLEAN, limit \in LimitArgs :
                SetAgent(s, Agent, e, limit, agents[Agent].reward_bps,
                         agents[Agent].fee_bps)
    /\ event' = NoEvent
    /\ UNCHANGED <<venueVars, committed, pool, attemptVars, buys>>

\* The curve completes; the pool is there only once somebody migrates it.
Graduates ==
    /\ Graduate
    /\ UNCHANGED <<pool, attemptVars, buys, troubles>>

Migrates ==
    /\ complete /\ ~ pool
    /\ pool' = TRUE
    /\ UNCHANGED <<tradingVars, attemptVars, buys, troubles>>

Ages ==
    /\ PassTime
    /\ UNCHANGED <<pool, attemptVars, buys, troubles>>

-------------------------------------------------------------------------------

Busy(c) == step[c] # "idle" \/ inflight[c] # NoTrade

\* What an attempt relies on, and whether it is still what it was at Begin; and
\* what the agent has held.
Remembers ==
    /\ richest' = IF lamports'[Agent] > richest THEN lamports'[Agent] ELSE richest
    /\ fresh' = [c \in Runs |->
                   [limits |-> /\ Busy(c)'
                               /\ Busy(c) => fresh[c].limits
                               /\ agents' = agents /\ CurrentDay' = CurrentDay
                               /\ config'.max_lamports_per_trade =
                                     config.max_lamports_per_trade,
                    vault |-> /\ Busy(c)'
                              /\ Busy(c) => fresh[c].vault
                              /\ config'.fee_vault = config.fee_vault]]

Attempts(c) ==
    /\ \/ BeginSell(c) \/ ReadLimits(c) \/ AssertWithinBudget(c)
       \/ ReadCurve(c) \/ ReadPool(c) \/ FeeVault(c) \/ Build(c)
       \/ Prep(c) \/ PrepFails(c) \/ SimulateAndSend(c)
    /\ Remembers

Settles(c) == (Lands(c) \/ Fails(c)) /\ Remembers

ClientNext ==
    \/ \E c \in Runs : Attempts(c) \/ Settles(c)
    \/ /\ \/ \E c \in Runs :
                \/ Expires(c) \/ BreaksOff(c)
                \/ \E size \in BuySizes : BeginBuy(c, size)
          \/ Governs \/ Graduates \/ Migrates \/ Ages
       /\ Remembers

ClientSpec == ClientInit /\ [][ClientNext]_clientVars

\* Whoever wants out keeps trying, and the chain gets to what is sent.
\* Nobody has to graduate, migrate, govern or buy anything.
ClientFairness ==
    \A c \in Runs : WF_clientVars(Attempts(c)) /\ WF_clientVars(Settles(c))

FairClientSpec == ClientSpec /\ ClientFairness

-------------------------------------------------------------------------------
(***************************************************************************)
(* Properties.                                                             *)
(***************************************************************************)

\* The client's sizing and the program's guards are two implementations of one
\* budget (sizing.js:48, guards.rs:12).  They agree: with its clock right (Skews = {0}),
\* and as long as no budget, cap or day changed since its attempt began, a buy that
\* is being built or on its way is one the program takes.
FreshBuyFits ==
    \A c \in Runs : \A t \in {plan[c], inflight[c]} \ {NoTrade} :
        t.side = "Buy" /\ step[c] # "limits" /\ fresh[c].limits =>
            BudgetAllows(t.size)

\* "Returns unspent slippage and the account rent as native SOL"
\* (trade.js:178): however attempts overlap, fail and die, between transactions
\* no lamport of the agent is ever left wrapped.
NothingLeftWrapped == wsol[Agent] \in {NoAccount, 0}

\* What a run may still add to the agent's day.
Pending(c) ==
    IF inflight[c] # NoTrade THEN inflight[c].size
    ELSE IF step[c] \notin {"idle", "limits"} THEN plan[c].size ELSE 0

\* What a run takes for spent today, once it has read the agent.
View(c) ==
    IF seen[c].agent = Unread THEN Unread
    ELSE IF seen[c].agent.day = CurrentDay THEN seen[c].agent.spent_today ELSE 0

\* The client's own day ("a day's worth of risk", sizing.js:24), in which only
\* what was seen, decided and paid and what the agent holds can be told apart.
Own == INSTANCE OwnDay WITH
    Traders <- Runs,
    Sizes <- BuySizes,
    Nothing <- Unread,
    purse <- lamports[Agent],
    spent <- committed[Agent],
    view <- [c \in Runs |-> View(c)],
    held <- [c \in Runs |-> Pending(c)]

\* The three reads are answered at three moments (sizing.js:51), the size is checked
\* before the trade is built (trade.js:286), and the trade may land much later, or
\* never, when others have long been decided.  Still, no buy is decided but on a day
\* that was as it was read and a balance the agent had, no reading survives its
\* midnight, and none is charged that was not decided, and none twice.
ImplementsOwnDay == Own!Spec

\* Overlapping runs overrun the client's own day together, whatever the agent
\* gains or loses meanwhile, but each only by one position of its own.
OverrunBounded == Own!Bounded

\* The clients' transactions, which wrap, trade and close in one, stay within the
\* budget of the chain (sizing.js:11), whatever day the clients' clocks show.
AllowanceKept == [][Budget!Next]_(Budget!allowanceVars)

\* "Read from config rather than hardcoded, so update_config is honoured"
\* (trade.js:254): the vault a trade names was configured when its attempt
\* began, or became so later.
UpdateConfigHonoured ==
    \A c \in Runs :
        ( /\ plan[c] # NoTrade
          /\ plan[c].fee_vault # NoVault
          /\ fresh[c].vault ) => plan[c].fee_vault = config.fee_vault

CanExit == MayTrade(Agent) /\ (complete => pool)

Exited == event # NoEvent /\ event.side = "Sell"

\* "Blocking an exit is the worse failure" (trade.js:274): an agent that may
\* trade, on a mint with a venue, gets a sale through however it was disturbed,
\* while buys for the same wallet close the account it wraps in.
ExitsLand == []<>CanExit => <>Exited
===============================================================================
