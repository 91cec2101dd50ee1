# A verification project for the pumpco router

The router is a Solana program (`src/programs/pumpco-router`) through which the
trading agents of one company, and anyone who registers, buy and sell on
pump.fun. It exists so that spending limits are enforced by the chain and not by
the process that talks to a language model. Around it stand a JavaScript client
that sizes and builds trades (`src/client`), a signer that inspects a
transaction before it signs (`src/signer`) and operator scripts
(`src/scripts`).

This directory models the program in TLA+, checks it with TLC on small instances
and proves about it with TLAPS.

## 1. Inventory

### The program

| Component | State | Operations | Makes it correct |
|---|---|---|---|
| Accounts and administration: `lib.rs`, `state.rs` | `config` (authority, treasury, fee vault, rates, caps, `total_reward_bps`, `paused`); one `AgentAuth` per wallet (limit, `spent_today`, `day`, share, fee, `enabled`, `authority_managed`) | `initialize`, `update_config`, `set_paused`, `set_authority`, `register_agent`, `self_register`, `set_agent`, `set_own_limit` | the running total of shares is the sum of the shares; no rate above the ceiling; only the authority of the moment changes what it decides; a registration is final |
| Trading: `curve.rs`, `amm.rs`, `guards.rs` | the agent's record of the day; lamports and wrapped SOL move | `buy`, `sell`, `buy_amm`, `sell_amm` | the daily budget holds through lazy resets, changed limits and overflow; a trade touches only its signer; fee, event, venue and vault agree; a trade never costs more than it charged, plus rent and the capped fee |
| Creator rewards: `rewards.rs` | the creator vault's lamports, its wrapped SOL account | `init_creator_vault`, `unwrap_creator_fees`, `distribute_rewards` | a permissionless caller decides nothing; no lamport is made or lost; the vault keeps its rent; what is there can be paid out |

Every instruction is one transaction step: the runtime locks the accounts an
instruction writes, and a failed instruction leaves no trace. Concurrency is
therefore the interleaving of whole instructions of many signers, in any order.
The interactions are shared state: trading and rewards read what administration
writes (`fee_bps`, `paused`, `total_reward_bps`, each agent's terms), and
trading writes the record that administration leaves alone. The calls out of the
program (CPIs to pump.fun, PumpSwap, the System program, SPL Token) are
synchronous; their failure is the failure of the instruction.

### Around it

| Component | State | Operations | Hard |
|---|---|---|---|
| `client/trade.js`, `client/venue.js` | one cached fee vault for the life of the process | `resolveVenue`, `buildTrade`: a `prep` and a `trade` transaction | everything is read before it is used: venue, reserves, budget, balances, fee vault |
| `client/wsol.js` | the agent's wrapped SOL account | wrap before an AMM trade, close after it | two trades share the account |
| `client/sizing.js` | none | `readLimits`, `maxBuy`, `assertWithinBudget` | the client's day against the chain's; two roundings |
| `client/fees.js` | none; the RPC node's list of recent fees | `estimatePriorityFee`, `priorityCostLamports` | ends of the list, slots that paid nothing |
| `signer/intent.js` | none | `parseIntent`, `assertIsMint`: what the language model may say | fields of the wrong type, sizes between the limits |
| `signer/policy.js` | none | `assertOnlyPumpcoTrade`: which transactions may be signed | agreement with what the builder builds, and with what a wrong builder might |
| `scripts/trade.js` | none | one trade typed on the command line, from builder to chain | every part assumes the one before it may be wrong |
| `scripts/init-mainnet.js` | none | three steps, each a look and a transaction | deaths, lost transactions, reruns, two at a time |
| `scripts/admin-mainnet.js` | none | reads, changes one field, writes all of them back; `guards`, a drill | somebody else's change in between; what the drill takes for granted |
| `scripts/guards-mainnet.js` | none | eight calls that must be refused, each for its reason | the order of the checks; what it takes for granted |
| `scripts/creator-path-mainnet.js` | balances read on the way | stage, unwrap, distribute, report | stops half way; others do its steps |
| `scripts/outsider-mainnet.js` | config as read at first | registers itself, compares, lowers its limit | terms that change meanwhile; a second run |
| `tests/`, `idl/`, `scripts/fork-*.sh` | | | not the program; read as documentation |

### What is hard

No crash and no message loss inside the program. What is hard there is: state
that is brought up to date only when next used (the day of a budget); two fields
of two accounts kept equal one change at a time (`total_reward_bps` and the
shares); values copied at one moment and used later (`fee_bps`); arguments chosen
by anyone (payee lists, accounts); amounts measured in one asset and paid in
another; rounding; rent; and long sequences of legal instructions by two
authorities.

Around the program there are processes: each of them reads, waits and writes, may
die at any `await`, may have its transaction lost or landed after it gave up,
and is run again. `PROJECT.json` lists each hazard at its line with the
properties that would catch it.

## 2. Modules

```
Solana          balances, rent, the clock: what the chain provides   (external)
  RouterState   Config, AgentAuth, validation, fee_for, current_day
    Registry    the eight administrative instructions
      Trading   the four trades, the venues, wrapping         --> Allowance
        BuyWindow   Trading with a history of when ceilings were committed
        TradeClient runs that size, build and send trades (with Sizing)
                                                    --> OwnDay, Allowance
      Rewards   the creator vault and its payout
      Router    Trading and Rewards: the whole program        --> Allowance
        GuardDrill  guards-mainnet.js and `admin-mainnet.js guards`
      Operations    what the scripts share: keys, agreed values, the deployment
        AdminScript   the other commands of admin-mainnet.js
        Outsider      outsider-mainnet.js
        CreatorPath   creator-path-mainnet.js   (with Rewards)
        Deploy        init-mainnet.js           (with Rewards)

PolicyGate, Intent --> Signer   one trade, typed or parsed, to the chain
Quote                           what a buy asks for, and what becomes of it
Fees                            the priority fee
```

* **Solana** (external). `Commit` is the rule that makes an instruction atomic:
  the new balances are taken only if nobody is overdrawn and nobody is left
  between zero and the rent minimum. Solana applies that rule to whole
  transactions; the model has one instruction per transaction, which is how the
  program's tests send them.
* **RouterState**. The records of `state.rs` field by field (bumps left out,
  the wallet is the index of the table), `ConfigArgs::validate`, `fee_for`
  (`BpsOf`, also used for payees' cuts, which round the same way) and
  `current_day`.
* **Registry**. One action per instruction. Its `...Accounts` operators are the
  Anchor account structs (who signs, `has_one`, `init`), the rest is the handler.
  `signer` is a history variable: who signed the last instruction.
* **Trading**. `CheckBuy` and `ChargeDailyBudget` are the buy side guards in
  their order, `Buy`/`Sell`/`BuyAmm`/`SellAmm` the instructions,
  `SettleCurve`/`SettleAmm` what both `route` functions do from the CPI on:
  measure, compute the fee, transfer it, emit. The venue chooses any cost up to
  the ceiling and may charge rent for an account of its own. `~ complete` in the
  curve trades is `require_curve_open`. A caller may name any agent account
  (`w`) beside the signer (`s`) and any vault; the account constraints decide.
  `committed` is a history variable: ceilings committed by each wallet since
  midnight. `Wrap` and `Unwrap` are `client/wsol.js`, as separate steps.
* **Allowance**. The abstract promise: each holder may spend up to its limit on
  each day, and a new day frees everybody at once. `Trading` implements it
  (`ImplementsAllowance`), with `committed` for what was spent; so the lazy
  reset in `charge_daily_budget` cannot be told from an eager one.
* **BuyWindow**. For the question whether the budget is one of a rolling day.
* **Rewards**. `Accepted` is everything the loop of `distribute` and the check
  after it demand of a payee list, `PaidTo`, `Paid`, `Remainder` and `Balances`
  what it moves. Revenue arrives natively (`CollectCurveFee`) or wrapped
  (`CollectAmmFee`), before or after the vault is initialised.
* **Sizing**. `client/sizing.js` as operators: `MaxBuy` is the smallest of four
  ceilings, `WithinBudget` what `assertWithinBudget` lets pass. The source's
  optional arguments are the constants.
* **OwnDay**. The abstract promise of the sizing about a day: several traders decide
  buys against one purse. Each looks at what was paid today (`Look`) and decides later
  (`Decide`), on that and on what the purse held at a moment of its own; it sees nothing
  of what the others have decided and not paid, what it saw yesterday is nothing today,
  and what it decided may be paid after midnight. `TradeClient` implements it
  (`ImplementsOwnDay`), with `View` for what a run has read of its day and `Pending` for
  what it has decided and not paid: what it has sent, or else what it is building.
* **TradeClient**. Several runs of `scripts/trade.js` or of a loop like it trade for one
  agent. An attempt is cut at every `await` that reads something others change:

  | Step | Code | Reads |
  |---|---|---|
  | `BeginBuy`, `BeginSell` | `buildTrade`, its arguments | |
  | `ReadLimits`, three times | `readLimits`, three reads sent at once | config, agent, balance, in any order |
  | `AssertWithinBudget` | the rest of `readLimits`, `assertWithinBudget` | its clock |
  | `ReadCurve`, `ReadPool` | `resolveVenue` | the curve, the pool |
  | `FeeVault` | `feeVault` | its cache, else config |
  | `Build` | `buildAmm`, from the reads of `prep` on | the wrapped account |
  | `Prep`, `PrepFails` | `scripts/trade.js`, the setup transaction | |
  | `SimulateAndSend` | `scripts/trade.js` | simulation at that moment |
  | `Lands`, `Fails` | the chain | everything, again |

  Nothing in the code keeps a caller from starting an attempt while an earlier trade is
  on its way, and nothing does here: an attempt takes an element of `Runs` that is free,
  that is, one that neither an attempt nor a trade under way occupies, and `Runs` bounds
  how many there are at once. `Process` says whose cache an attempt uses: its own, or,
  with `LongLived`, that of the one process that makes them all. `BreaksOff` is a call
  that throws, a wait that is given up, or a process that dies; what it sent goes on.

  What the trade transaction does on the curve is `Trading!Buy` and `Sell`; on
  the AMM it is `AmmBuy` and `AmmSell`, which bind transfer, sync, the router's
  instruction and the close into one step, because they are one transaction. The
  pump.fun curve, its migration, the authority, time, the loss of a transaction
  and an attempt that breaks off are actions of their own. `fresh` is a history
  variable: what an attempt relies on and has not changed since it began. It
  only serves to state `FreshBuyFits` and `UpdateConfigHonoured`; another, `richest`,
  is the most the agent has held, for `OwnDay`.
* **Router**. Every instruction of `lib.rs` in one next-state relation, over one
  config, one table of agents and one set of lamports. It adds no action of its
  own; `TradingSide` and `RewardsSide` say what each side leaves alone.
* **PolicyGate**. `signer/policy.js` branch by branch. Of an instruction it keeps
  the program, what it asks, and the one account the gate looks at.
* **Intent**. `signer/intent.js`. A reply is no JSON, no object, or a table of
  fields with the types JSON gave them. Sizes are in parts of a lamport
  (`Units`), so that rounding to lamports is real.
* **Signer**. The path of one trade as stages: `Command` or `Receive`, `Build`,
  `Inspect` (the gate, then the setup transaction), `Send`, or `GiveUp` at any of them.
  `Command` is `scripts/trade.js` with what is typed by hand, any size included.
  `Receive` is a reply that `parseIntent` and `assertIsMint` accepted. No file of the
  repository passes one on to the builder: the loop that `scripts/trade.js:7` announces
  would, and the contract of parser and builder (`IntentsAreBuildable`) is about it.
  `PrepOf` and `TradeOf` are the instructions that `trade.js` pushes, in its order;
  `After` runs them on the agent's accounts, whole or not at all. `Slip` is the wrong
  builder that `policy.js:7` assumes: an instruction is lost or repeated, the setup comes
  inline, or one of `Mistakes` stands in the place of any other or beside it, and these
  may be of any program, for any account and amount. What the gate does not look at is
  here too: ceilings, the bid of the compute budget (`Bid`), accounts created for others.
  Of the router's own guards there is one number, `ChainCap`, what they let a buy take;
  its fee is left out (both are Trading's). The price of a buy is up to the instruction's
  ceiling and that cap, and not up to the size that was asked for. `sunk` is a history
  variable: what the trade at hand spent on bids and on the rent of accounts that are not
  the agent's.
* **Quote**. `quoteOut` and the order `buildAmm` makes of it. The venue is a constant
  product rounding in its own favour, with `VenueFee` on top of the cost and
  `VirtualQuote` for reserves that no account shows; others buy, sell and withdraw
  between quote and trade. `expected`, in the order, is history: what the reading of the
  reserves says the size buys. `Covered` says that a tolerance is enough for the fee and
  the virtual reserves.
* **Fees**. `estimatePriorityFee` over slots that come and go, and an RPC node
  that may be out of reach. The sort gives every paid slot its place (`Place`),
  which can be reasoned about; for the library's sort the provers have no
  definition.
* **Operations**. The keys and values the scripts hard-code (`AgreedConfig`,
  `AgreedClerk`) and the router as `init-mainnet.js` leaves it (`Deployed`), where
  the other scripts and the drills begin.
* **AdminScript**. A command reads config (`Start`), then the agent, and sends
  (`SendFee`, `SendAgentFee`, ...); its transaction lands whenever it does
  (`Land`) or never (`Drop`). `OthersGoOn` is everybody else, any `MaxOthers` steps: the
  clerk's trades, outsiders, rotations, days, and another session of the authority
  (`OthersRewrite`), which writes any of the fields that a command has read and sends
  back. `since` is history kept with each command and transaction: the fields that were
  written since it read them, each as it was then.
* **GuardDrill**. For each call of the two drills, the checks of the program in
  the order in which they are made, accounts first; `FirstError` is what the logs
  show. `ErrorsAgree` ties these lists to the actions of Router, so that a list
  cannot drift from the instruction; one half of it, `NoCheckIsInvented`, is proved.
* **CreatorPath, Outsider, Deploy**. One action per `await` of the script.
  `path`, `trial` and `at` hold where a run is and what it has read, `report`,
  `verdict` and `reported` what it printed. `PathStops`, `TrialStops`, `Dies` and
  `Refused` end a run at any await; in Deploy a transaction may also land after
  its process died. `alone` and `quiet` are history variables: nobody else
  interfered. CreatorPath tracks in `rents` the token accounts that others opened
  and the unwrap closed. In Deploy `Opened` is an account as the program opens
  it, `Exists` what `getAccountInfo` finds at its address: lamports there are
  enough.
* **RegistryMC, TradingMC, BuyWindowMC, RewardsMC, TradeClientMC, RouterMC**.
  Starting balances and symmetry for the runs. `MCClientSpec` is `ClientSpec` from one
  default limit, which no action of a client reads, and `MCView` leaves out of a state who
  signed last and the last event, which none reads either. RouterMC runs the drills in every
  state that Router reaches from the start of the program.
* **DeskMC, ScriptsMC**. Parts that do not meet, in one run: a behaviour of DeskMC
  moves Signer, Quote or Fees, one of ScriptsMC runs one of the scripts or, with
  no script, the instructions of Registry by hand. The choice is made in the
  initial state and the variables of the rest stay as they began, so the state
  space is the sum and not the product. `PathMoneyStaysOurs` and `SetupRunEnds`
  say of which behaviours `MoneyStaysOurs` and `SetupEnds` speak;
  `ScriptsTypeOK` and `DeskTypeOK` collect the type invariants.
* **NumberLemmas** (division and sums), **RegistryProofs**, **TradingProofs** (with the
  rolling window), **RewardsProofs**, **RouterProofs** (with the drills),
  **ClientProofs** (with sizing), **DeskProofs** (quote, fees and signer),
  **ScriptProofs**. See section 4.

Each module keeps, directly before the definition it concerns, the mutants of
that definition (comment "Mutant of"): plausible bugs which the run named in
`PROJECT.json` must catch.

## 3. Runs

| Run | Instance | Shows |
|---|---|---|
| `OutsiderFee.cfg` | 2 wallets, 2 keys that may hold the authority, the real rates | **violation** of `OutsidersFollowConfigFee` (finding 1) |
| `Trading.cfg` | 1 wallet with 4 lamports, ceilings 0..2, limits 1 and 3 with u64 ending at 3, a fee of one half, 2 days | `BudgetOnRecord`, `ImplementsAllowance`, `TradeSettles`, `LossBounded` |
| `Window.cfg` | 2 wallets, limit 1, a midnight between 3 seconds, a day of 2 | `TwoBudgetsAtMost`, `OwnBudgetOnly` |
| `RollingWindow.cfg` | 1 wallet, 3 days of 2 seconds | **violation** of `RollingWindow` (finding 2) |
| `Rewards.cfg` | 2 wallets, shares of 0, 1 and 3 quarters, revenue 2 and 5, lists of up to 3 payees | `NothingLost`, `PayoutReachable`, `PayoutIsFixed`, `VaultKeepsReserve` |
| `Router.cfg` | 1 wallet, 2 vaults, ceilings of 2, revenue 3, 2 days, terms in and out of range | `EveryLamport`, `RevenueStays`, `DrillVerdict`, `ErrorsAgree` |
| `Client.cfg` | 2 attempts at once, 2 buys of 4 or 6 lamports from a wallet of 10, limits 6 and 12, a fee of one quarter, 4 lamports of somebody else on the curve, 2 days, 1 trouble | `FreshBuyFits`, `NothingLeftWrapped`, `OverrunBounded`, `ImplementsOwnDay` |
| `ClientExits.cfg` | 2 attempts at once, 1 buy, a fee of one half, 2 fee vaults, 2 troubles, 1 day | `ExitsLand` |
| `ClientCache.cfg` | 1 process that makes all attempts, 2 fee vaults | **violation** of `UpdateConfigHonoured` (finding 3) |
| `Desk.cfg` | commands and replies of every kind, sizes on both sides of every limit, 26 mistakes of the builder; 5 slots of fees; pools and orders of a few tokens, a fee of one tenth and virtual reserves of 2 | `IntentsAreBuildable`, `GateKnowsTheBuilder`, `SetupSuffices`, `SignedIsTheTrade`; `RoomToMove`, `AsksForItsWorth`; `EstimateIsPercentile` |
| `Scripts.cfg` | the clerk and one outsider, 2 keys that may hold the authority, 2 operators, 2 steps of everybody else around admin-mainnet.js, 2 deaths or lost transactions, revenue 2 and 3 | Registry by hand and all scripts: `SharesAddUp`, `FeesCapped`, `AuthorityDecides`, `RegistrationIsForever`; `OneFieldEach`; `PathMoneyStaysOurs`, `QuietReport`; `FreshRunPasses`; `QuietRunDeploys`, `SetupRunEnds` |
| `SkippedVault.cfg` | the same | **violation** of `SkipsOnlyOpened` (finding 4) |

**Bounds, and why they are enough.** `MaxClock` stops time in the second
day, or the third: the program compares days only for equality, so two suffice,
and a stretch of one day meets two at most. Two wallets: no handler reads a
third. Two authorities: one rotation and back. The widths are small where an
overflow matters (`U64_MAX = 3` with a limit of 3, so that adding may pass the
width) and larger than anything where it does not. In `OutsiderFee.cfg` the
rates are the real ones; elsewhere they are scaled so that amounts of a few
lamports show rounding, with rates and shares out of range among the arguments.
`MaxEarned` bounds revenue to two or three collections. `MaxPayees` is the
transaction size: three entries for two wallets allow every omission, repeat and
surplus.

In the client runs `MaxBuys` bounds the buys begun and `MaxTroubles` the
transactions lost, attempts broken off and terms changed. `Runs` bounds the attempts
under way at once: a retry beside a trade that is still on its way is the other one.
Position and day are 4 and 6 of the 8 lamports the wallet may trade, so that a buy of 4
is within both, two overrun the day, and one of 6 is a position too large unless the
wallet has earned; a second buy no longer fits a wallet that paid for the first. With 4
lamports on the curve beforehand the agent may sell for more than it paid, so that it
may decide a second buy against a larger purse than the first, or against a balance from
before a trade and a record from after it. Setting up a wrapped account costs 3
lamports, which the wallet may not have (`PrepFails`).

In `Desk.cfg` `MaxNative` stops the agent from earning without end; 7 lamports
buy every size once with all rents, and not twice. `Slip` makes one mistake per trade,
out of `MCMistakes`: of each program what it may do, for the agent and for a stranger,
with a trade of its own for the whole of the chain's cap. The gate looks at instructions
one by one and counts the router's, so two mistakes in different instructions are refused
for either; the proof allows any set of mistakes. `MaxBase` and
`MaxQuote` close the pool's range; the proofs need neither. `MaxSlots` is the
node's memory (150 in reality): five slots hold every order of the five kinds of
fees, and the memory forgets. `MaxSent` bounds the transactions of the scripts
under way: two, so that one may land between the reads and the landing of the
other. One wallet stands beside the clerk, since the scripts name no other.
`MaxOthers` allows two
steps of everybody else around the commands: one between the reads and the landing, and
one to change the same field again, or to undo it. `MaxTroubles` in `Scripts.cfg` allows two deaths, each in any shell and at any
await; the step after a restart depends on the accounts alone.

**Fairness.** The safety properties need none. Two properties are about
liveness.

`ExitsLand` assumes weak fairness of each run that wants to sell
(`Attempts`: it takes its next step and begins again when an attempt fails;
`scripts/trade.js` stops after one attempt and whoever wants out runs it again)
and of the chain (`Settles`: what was sent lands or fails). Nobody has to
graduate, migrate, govern or buy. `MaxTroubles` and `MaxBuys` make lost
transactions, attempts broken off and competing buys finitely many: against endlessly
many no run could promise an exit. Each attempt of this run is a process of its own
(`LongLived = FALSE`, as `scripts/trade.js` is), so the cache of finding 3 is not met.

`SetupEnds` assumes weak fairness of each shell's `SetupStep`: a run that has
begun goes on to its next await, and a run that ended is begun again, as the
header of `init-mainnet.js` asks of its operator. Deaths are not fair and
finitely many. Its premise, that no other key ever holds the router, is
necessary: `initialize` is open to anybody until it was called. What it promises
is that an account is at every address; that the vault's may be nobody's is
finding 4.

Deadlock is checked in every run but the client's three, where the bounds let
everything end: a mint whose curve is complete and whose pool nobody creates
leaves a run nothing but failed attempts, and an empty wallet not even these.

**Findings.**

1. `lib.rs:149` says outsiders pay whatever config says. `self_register` copies
   the rate; `update_config` changes only config; so outsiders keep the rate of
   the day they registered.
2. `SECURITY.md:16` calls the daily budget a rolling window. It is a calendar
   day of UTC; one rolling day can hold two budgets, and never more
   (`TwoBudgetsAtMost`).
3. `trade.js:254` says the fee vault is read from config "so update_config is
   honoured". It is read once in the life of a process; one that lives on names
   the old vault in every later trade, which the program refuses with
   `WrongFeeVault`. `scripts/trade.js` exits after one trade and is not affected;
   the automated loop it stands in for (`scripts/trade.js:7`) would be.
4. `init-mainnet.js:2` calls the script idempotent by inspection. It skips
   `init_creator_vault` when `getAccountInfo` finds an account at the vault's
   address. Anyone may have pump.fun collect creator fees for that address, and
   lamports there are an account, of the System program. A run then reports
   success without a vault, and so does every later one; `unwrap_creator_fees`
   and `distribute_rewards` are refused until somebody runs the instruction by
   other means, which works (`InitCreatorVault` tops the address up).

Other disagreements were read in the source and have no run of their own:

* `sizing.js:45` calls what `readLimits` returns the live picture; it compares the
  record's day with the day of the client's own clock.
* `intent.js:18` says the parser throws rather than coerces; `Number` takes a size
  written as text, `toLowerCase` an action in capitals (`MCReplies` has both).
* `client/README.md:29` says that quoting must not use a local constant product
  formula, because of virtual reserves that shift the price (by 3.3% in its example);
  `quoteOut` is one, and reads neither them nor the venue's fee. `QuietBuyFits` says when
  the tolerance makes up for that (`Covered`): 3.3% is more than the 1% of
  `trade.js:276`, and such a buy fails also when nobody trades in between.
* `admin-mainnet.js:8` presents `agent-fee` as setting the clerk's own rate, and line 7
  `fee` as setting the config's; each writes back the other fields as it read them. What
  another session has written since is undone: a clerk disabled in between is enabled
  again. `OneFieldEach` says which fields are lost that way, and that no others are.
* `creator-path-mainnet.js:118` prints the percentage it expects, from figures read
  in awaits of their own; `QuietReport` is about runs that nobody disturbs.
* `outsider-mainnet.js:73` checks that the limit is the ceiling, also on a wallet
  whose limit an earlier run of the same script lowered at line 90;
  `FreshRunPasses` is about the first run.
* `init-mainnet.js:105` reports constants of the script as the config, also when
  every step was skipped because the accounts were there.

## 4. Proofs

`tlapm` checks the theorems below for every set of keys, wallets, runs, shells
and operators, and every rate, width, limit, amount and bound the named assumptions
on the constants allow. TLC evaluates each assumption in the runs. Most say that
constants are numbers, that an argument's set fits its width, or that a value standing
for "nothing" is none of the values it stands beside (`SentinelAssumption`,
`EventAssumption`, `PayoutAssumption`, `OrderAssumption`, `TradeAssumption`,
`CommandAssumption`; `NoAccount` in `ChainAssumption` and `SignerAssumption`). The
others:

| Assumption | Demands | In the code |
|---|---|---|
| `ChainAssumption` | finitely many keys; no first balance below the rent minimum | what the chain guarantees |
| `RouterAssumption` | rates and limits within u16 and u64 | their types in `state.rs` |
| `RewardsAssumption` | the vault's rent is at least that of an empty account | rent grows with size |
| `WindowAssumption` | there is a limit to ask for | the window is about the highest |
| `QuoteAssumption` | a pool with both tokens; tolerances below everything; any fee and virtual reserves | `slippageBps` of `trade.js` |
| `ClientAssumption` | sizes fit u64; the agent is a wallet | |
| `SignerAssumption` | the agent is not the stranger | |
| `ReplyAssumption`, `CommandAssumption` | a size is a number of parts of a lamport | `Number` in `intent.js`, `parseFloat` in `scripts/trade.js` |
| `MistakesAssumption` | a mistake is an instruction: a program, what it asks, an account and an amount | what the gate tells apart |
| `FeesAssumption` | a percentile is a part of 1; the fallback is within the range of bids | `fees.js:20-24` |
| `OperationsAssumption` | the values `init-mainnet.js` writes pass the program's own checks; the clerk is a wallet | its constants; `validate` refuses others |
| `DrillAssumption` | the clerk is not the treasury; one above `CAP` still is a u64; the drill's buys are positive and within `CAP` | `guards-mainnet.js` hard-codes them |
| `PathAssumption` | clerk and treasury differ, and neither pays the rents of others; a list may name one payee | two addresses, `creator-path-mainnet.js:31` |
| `TrialAssumption` | the outsider is not the clerk | a key file of its own |
| `DeployAssumption` | the rival is not the funder | |

| Theorem | States |
|---|---|
| `RegistryTypeCorrect`, `SharesAlwaysAddUp`, `FeesAlwaysCapped` | `RegistrySpec => []RegistryTypeOK`, `[]SharesAddUp`, `[]FeesCapped` |
| `OnlyAuthorityDecides`, `OnceRegistered` | `RegistrySpec => AuthorityDecides`, `RegistrationIsForever` |
| `TradingTypeCorrect`, `BudgetAlwaysOnRecord` | `TradingSpec => []TradingTypeOK`, `[]BudgetOnRecord` |
| `TradesAreOwn`, `TradesAlwaysSettle`, `LossesAreBounded` | `TradingSpec => OwnBudgetOnly`, `TradeSettles`, `LossBounded` |
| `RouterImplementsAllowance` | `TradingSpec => ImplementsAllowance` |
| `TwoBudgetsAtMostAlways`, `WindowTradesAreOwn` | `WindowSpec => []TwoBudgetsAtMost`, `OwnBudgetOnly` |
| `RewardsTypeCorrect`, `NothingIsLost`, `PayoutAlwaysReachable` | `RewardsSpec => []RewardsTypeOK`, `[]NothingLost`, `[]PayoutReachable` |
| `PayoutsAreFixed`, `ReserveAlwaysKept` | `RewardsSpec => PayoutIsFixed`, `VaultKeepsReserve` |
| `NoLamportIsLost`, `RevenueAlwaysStays` | `RouterSpec => []EveryLamport`, `RevenueStays` |
| `RouterBudgetOnRecord`, `WholeRouterImplementsAllowance`, `RouterPayoutsAreFixed`, `OnlyAuthorityDecidesAnywhere`, `OnceRegisteredAnywhere`, `LossesAreBoundedAnywhere`, `TradesSettleAnywhere` | `RouterSpec` promises what its parts promise |
| `DrillsSayWhatTheyPresume`, `NoCheckIsInvented` | `RouterSpec => []DrillVerdict`, and one half of `ErrorsAgree` |
| `WithinEveryCeiling`, `ReserveIsKept`, `LosingRunShrinks` | what `maxBuy` promises for every balance, cap and share |
| `ClientTypeCorrect`, `NothingStaysWrapped` | `ClientSpec => []ClientTypeOK`, `[]NothingLeftWrapped` |
| `FreshBuysAlwaysFit` | `Skews = {0}` and `ClientSpec` imply `[]FreshBuyFits` |
| `ClientImplementsOwnDay`, `OverrunIsBounded` | `Skews = {0}` and `ClientSpec` imply `ImplementsOwnDay`, `[]OverrunBounded` |
| `ClientsKeepAllowance`, `ClientsKeepTerms` | `ClientSpec => AllowanceKept`, `[](ClientInv /\ RegistryInv)`, for any `Skews` |
| `ClientTradesSettle`, `ClientLossesAreBounded` | `ClientSpec => TradeSettles`, `LossBounded` |
| `ScriptsHonourConfig` | `~ LongLived` and `ClientSpec` imply `[]UpdateConfigHonoured`, which finding 3 refutes for others |
| `QuoteIsExact` | a venue sells a number of tokens within a size exactly if the quote says so |
| `QuoteTypeCorrect`, `AlwaysRoomToMove`, `OrdersAskTheirWorth` | `QuoteSpec => []QuoteTypeOK`, `[]RoomToMove`, `[]AsksForItsWorth` |
| `UndisturbedBuysFit` | `QuoteSpec => []QuietBuyFits`, which has `Covered` for its premise |
| `SignerTypeCorrect`, `RepliesAreBuildable`, `BuilderSatisfiesGate`, `SetupAlwaysSuffices` | `SignerSpec => []SignerTypeOK`, `[]IntentsAreBuildable`, `[]GateKnowsTheBuilder`, `[]SetupSuffices` |
| `EstimatesArePercentiles` | `FeesSpec => []EstimateIsPercentile` |
| `SignedIsAlwaysTheTrade` | `SignerSpec => SignedIsTheTrade` |
| `DeskTypeCorrect`, `DeskIsThree`, `DeskKeepsItsWord` | `DeskSpec => []DeskTypeOK`, `SignerSpec /\ QuoteSpec /\ FeesSpec`, and what these promise |
| `OneFieldEachTime` | `ScriptSpec => OneFieldEach` |
| `FreshRunsPass`, `QuietRunsDeploy` | `TrialSpec => []FreshRunPasses`, `DeploySpec => []QuietRunDeploys` |
| `MoneyAlwaysStaysOurs`, `QuietReportsAreRight` | `PathSpec => []MoneyStaysOurs`, `[]QuietReport` |
| `ScriptsTypeCorrect`, `PathMoneyAlwaysStays`, `QuietScriptsKeepTheirWord` | the same of `ScriptsSpec`, where any of the scripts runs: `[]ScriptsTypeOK`, `[]PathMoneyStaysOurs`, `[](QuietReport /\ FreshRunPasses /\ QuietRunDeploys)` |
| `ScriptsKeepTheTerms`, `OnlyAuthorityRunsScripts`, `ScriptsRegisterOnce`, `ScriptsChangeOneField` | `ScriptsSpec => [](SharesAddUp /\ FeesCapped)`, `AuthorityDecides`, `RegistrationIsForever`, `OneFieldEach` |

**Sums and divisions** (`NumberLemmas`). The sum is a fold over a set
(`SumFunctionOnSet`), defined by recursion, about which the provers know nothing. What
is needed follows from its definition without induction over an operator: a table of
partial sums exists on the subsets of a finite set (shown by a minimal counterexample,
using that a nonempty family of subsets of a finite set has a minimal member), any two
tables agree, so the fold obeys the equation of one step. From that: a sum of numbers
is a number, depends only on the values summed, and changes by as much as one value
does. `\div` is unfolded once into the two inequalities that define it.

**Registry.** `RegistryInv == RegistryTypeOK /\ SharesAddUp /\ FeesCapped` is
inductive. The sum is what the rest hangs on: `set_agent` takes an agent's old share
out of the total, and that this cannot fail or underflow is the sum being right before.
The action properties need the types alone: each handler is compared with the terms
that only the authority decides (`UntouchedTerms`). All this is proved of `Instruction`,
any of the eight by any signer with any argument of its width: the arguments that a run
enumerates are among those (`StepsAreInstructions`), and so are those of the scripts.

**Trading.** `TradingInv == TradingTypeOK /\ BudgetOnRecord /\ RecordsNotAhead` is
inductive. `BudgetOnRecord` alone is not: when a day begins, what was committed today
becomes nothing, and the record must not happen to be dated to the new day already.
Every trade is reduced to a few facts about what it changes (`BuyFacts`, `SellFacts`,
...), shared by all the theorems. For the refinement, `committed` stands for what was
spent and an agent without an account for a holder without a limit: each trade is a
`Spend`, each administrative step a `SetLimit` or a stutter, the first second of a day
is `NewDay`. `TradeSettles` needs that a trade's own transfers are all there is between
two measurements (`BuyMoves`, `SellAmmMoves`, ...), `LossBounded` that the fee an agent
pays is capped, hence `TradingKeepsTerms`: no trade touches what `FeesCapped` is about.
(`Move` is written with LET: the prover reads `@` in the second of two EXCEPT updates as
the value before both.)

**The rolling window.** `TwoBudgetsAtMost` is about any stretch as long as a day, but
not inductive: nothing in it ties the history to the budget. `WindowInv` is about
calendar days instead. The history of today adds up to `committed`, nothing is dated to
the future, and no calendar day holds more than the highest limit there is. A stretch
of one day meets two calendar days, and a sum over it is at most the sum over both.
That today's `committed` is below the highest limit is a conjunct of its own, as a
limit may be lowered after the buy.

**Rewards.** `VaultInv == RewardsTypeOK /\ RegistryInv /\ VaultReserved` is inductive:
an open vault holds its rent and there is a config. What a payout does rests on two
sums. The payees of an accepted list have distinct names, and their shares add up to
the running total, which `SharesAddUp` says is the sum of all shares; equal sums of a
part and the whole leave nothing for the rest, so nobody with a share is missing
(`SumOfRest`), and the sum over a list without repeats is the sum over the set of its
names (`SumOverImage`). Hence `PayoutIsFixed`. That the vault can pay all cuts is
`SumOfShares`: rounded-down parts of an amount, in shares of at most everything, are at
most the amount. `NothingLost` follows by what every instruction takes from one sum and
adds to another. `PayoutReachable` needs `PursesInv` besides: no purse is between zero
and the rent minimum, or the payout would not commit; and a list as long as the set it
covers has no repeats (a counting argument on its positions).

**Router.** `RouterInv == TradingInv /\ VaultInv`. Each side leaves the variables of
the other's invariant alone, except for the lamports and agents they share; of these a
step of trading preserves what rewards need through `RegistryInv`, and a step of rewards
changes no agent, so it stutters in the allowance. `TradingStepIsAllowed` and
`RewardsStepPays` carry the arguments of Trading and Rewards over. `EveryLamport` alone
is not inductive: `LamportsInv` adds that no purse is between zero
and the rent minimum, and that what is wrapped and what the venues hold makes up the rest.

**The drills.** `FirstError` selects the first check that fails, so `FirstFails` and
`NoneFails` turn each list of checks into a tree of cases (`BuyAmmErrorIs`), and a drill
passes exactly if each of its calls takes the branch it is meant to take. The attempt
found the model wrong: where the day's spending and the drill's size pass u64, the
program says `MathOverflow` and not `DailyLimitExceeded`, so `MainnetPresumes` now says
that the sum is between the limit and `U64_MAX`. TLC had not met it, as the limits of
the run leave no such sum.

**Client.** `ClientInv` says of each run, at each await, what its trade, its cache
and what it sent must be (`Fits`), and that nothing is left in the wrapped account.
Most actions are one of a few kinds (`ClientKind`: work on an attempt, a read, a
decision, a landing, the beginning of a sale, of a buy), and `FreshBuyFits` needs only
the kinds and `SeenIsFresh`: as long as nothing changed, what was read of the budget, at
whichever moment, is what it is. It is stated with the client's
clock right (`Skews = {0}`); a wrong one proposes what the program refuses.
`ScriptsHonourConfig` is about attempts that are processes of their own, and finding 3
shows why.

Of what a run decides and pays, `OwnDay` keeps what was paid, `View` and `Pending`. The
read of the agent is `Look`; `AssertWithinBudget` is `Decide` (what it lets pass is within
a position and the day, `WithinEveryCeiling`), a buy that lands is `Pay`, an attempt that
is given up `Drop`, midnight `NewDay`, and everything else that moves the agent's
lamports `Drift`. The reads of config and balance are no steps of OwnDay, so what was
read must be shown to be something that was: `SeenIsPast` says that a balance that was
read is at most the richest, and the day of a record that was read has begun. That an
earlier trade of the same run is done with follows from `Fits`, since an attempt takes an
element of `Runs` that is free; of other elements nothing is asked. `SalesAreWhole` says
that a sale holds nothing.
`DayInv` then is about the abstract day. A run that has looked, and not decided, may
still add the rest of its day, or a position, whichever is less; one that has decided may
add that; and the sum of what all may add (`Pots`) and what was paid is within a day of
the richest purse and one position for each run but one. A run that
looks may add the rest of the day at most, and each other one a position: so looking keeps
the bound; deciding is within the pot, and paying moves it to what was paid. The day and the position grow with the purse
(`SharesGrow`), so the bound is stated for the richest purse and every larger one, which
is what makes it inductive; no trade needs to be one that loses.

`AllowanceKept` is the budget of the chain under the clients' own transactions, which
wrap, trade and close in one. It needs nothing of the clients, and so nothing of their
clocks: what lands passes `CheckBuy` by the clock of the chain, and a record dated today
holds what was committed today (`BudgetOnRecord`, part of `ClientInv`). `ClientsKeepTerms`
adds `RegistryInv`, since the terms also change beside the clients; with its ceiling on
fees, `ClientLossesAreBounded` follows from what a transaction moves in all.

**Sizing.** Both roundings are monotone (`DivMonotone`), so each ceiling falls with the
balance and so does the smallest.

**Quote.** `QuoteIsExact` says that a venue sells a number of tokens within a size exactly
if the quote, at the venue's own reserves, says so: two roundings of one product, both
linear once the two products are named. `FeeIsPaid` is the same for a cost and the fee on
it. So an order is within its size if it asks for no more than the size buys net of the
fee, `BuysNow`; what remains of `RoomToMove` is that the builder asked for no more than
the tolerance leaves of what it read (`LessTolerance`, an invariant, since an order does
not change while the market does), against what the market has left. `QuietBuyFits`
needs that a quiet pool is the one that was read (`ReadAtRest`), and that `Covered`, an
inequality without divisions, survives the three roundings between the reading and the
price. `AsksForItsWorth` is the converse bound: the two roundings lose less than a token
each, so two more would cost the size less the tolerance (`TwoTokensMore`).

**Signer.** `After` runs a list of instructions by a fold. `Course` is the table of what
the instructions at a set of positions make of the money; it exists (`CourseExists`) and
is unique (`CoursesAgree`), again by minimal counterexamples, so running one more
instruction is one more step (`AfterOneMore`). `Outcome` lists what an instruction that
the gate lets through may do, whoever built it, and `Kept` what it may cost. By the
length of the list, `Sound`: after any prefix the agent's worth, with the rents of its own
new accounts and with what is sunk (bids, accounts of others), is what it was less what
the router took, and nobody else has been given anything. One instruction of the router
at most, which the gate counts, makes that at most the ceiling which that instruction
names, within the cap of the chain (`WholeTransaction`, `SignedCeiling`): of the size that
was asked for nothing is used, as the gate knows nothing of it. `PathInv` says what each stage of the
path may count on; `SetupSuffices` adds `PreparedInv`: unless the builder slipped, or
the mint graduated since, the trade is the one for the venue of the moment and the setup
has prepared for it.

**Fees.** The sorted list of `fees.js` is given by places: a slot's place is the number of
paid slots that go before it or are it. Two slots never share a place, so as many places
are taken as there are (`PaidAt`, a counting argument); and the set that makes up the
place of the slot bid for is the set that the bid reaches, at least, and without the slot
itself all that a lower bid would (`BidReaches`). `Index` is bounded by one division.

**Scripts.** Each script has an invariant that says what a run may rely on from one
await to the next. In `QuietInv` (init) it is that the accounts behind it exist, opened as
agreed and paid for once; in `TrialInv` (outsider) that what it read still holds and the
record is what `self_register` makes of it; in `AdminInv` that whatever a command read, and
whatever is on its way, carries the terms on record, but for those that were written
since, which it carries as they were (`HoldsConfig`, `HoldsClerk`, kept by every step of
others through `SinceTells`); in `PathInv` (creator path) that the treasury has grown by what left
the vault less the clerk's cut. `ScriptsInv` says that the script of the behaviour keeps
its own and the others are idle. What the program promises of its instructions holds
under the scripts because each of their steps is an `Instruction` of Registry, a trade
charged to the clerk's record, or leaves config and agents alone (`ScriptsMove`): a script
can send stale terms, but nothing that the program would not check.

**The runs that put parts together.** `DeskMC` and `ScriptsMC` choose one part at the
start. `DeskIsThree` shows that a behaviour of DeskMC is one of each of its parts, two of
them at rest, and `ScriptsInv` is the same idea for the scripts; so what is proved of a
part is proved of the specification that the run checks.

**Only model-checked.** Liveness and ENABLED are out of the prover's reach: `ExitsLand`
and `SetupRunEnds` are liveness, and the half of `ErrorsAgree` that says that a call with
no failing check can run is about ENABLED (the other half is `NoCheckIsInvented`). Every other property of a passing run is a
theorem under the specification of that run.
`AllowanceKept` and `DeskTypeOK` are proved and no run states them: what the clients do to
the budget of the chain, `Trading.cfg` asks of callers in general, and the properties of
`Desk.cfg` would not evaluate on values of another type.
No module declares a recursive operator.

## 5. Not modelled

* pump.fun, PumpSwap, SPL Token and the System program beyond what is said
  above; the accounts handed on to the venue and their order; instruction bytes.
* A pool quoted in another mint than WSOL, for which `SECURITY.md` itself says
  that cap and budget lose their meaning.
* An agent or treasury whose address is the creator vault or another account of
  the program.
* Lamports sent to a program address before the program creates it, except for
  the creator vault, where revenue may arrive early.
* Account layouts and migration between versions of the program.
* In the client: the order of the accounts handed on and the derivation of their
  addresses, the decoding of account data, an account that needs an extension
  (`extend_account`). TradeClient leaves to Quote and Signer the quote (a buy may
  fail on its price at any time), accounts whose creation disturbs nobody (the
  volume accumulator, the token account of the bought mint) and the policy gate.
  Quotes on the curve ask the venue's own account; Quote is about pools. The refusal to
  sell nothing is in Signer; in TradeClient a sale is never refused for it, so `ExitsLand` is about
  a wallet that holds the token. In
  Quote, a venue's fee is of the cost and on top of it.
* A failed instruction, as a step: that it leaves no trace is the runtime's guarantee, and
  a premise of every module. Where a trade is refused, no property sees it.
* The death of a process that makes many attempts: with `LongLived`, an attempt that
  breaks off leaves the cache in place. A trade that fails on the chain pays its bid and
  its signature all the same; signatures are not modelled, and bids only in Signer, where
  what was sent and failed pays none.
* What a client with a wrong clock proposes. `FreshBuyFits`, `ImplementsOwnDay` and
  `OverrunBounded` are stated with the clock right (`Skews = {0}`): one that is wrong
  about the day proposes a buy that the program refuses, or less than it might, or
  takes its own day to have begun. Every run has `Skews = {0}`. The budget of the chain
  holds whatever the clocks show: `Trading` lets anybody propose any buy at any time, and
  of the clients `AllowanceKept` is proved for any `Skews`.
* `priorityCostLamports` and `computeBudgetInstructions` of `fees.js`: one
  multiplication, and two instructions to wrap the result.
* Sharing agents that no longer fit into one transaction: the number of
  accounts a transaction may name bounds the agents that can share, and nothing in
  the program bounds them. `PayoutReachable` is stated for lists within
  `MaxPayees`.
* In the scripts: command line, key files, printing (`admin-mainnet.js read`), and
  the shell scripts that start forks. In Signer the venue's prices are any up to
  the cap of the chain, and a sale pays any price; what the gate does not look at
  (ceilings, the bid, accounts created for others) is bounded there by nothing but the
  cap and the agent's lamports, as in the code. No code of the repository connects the
  parser to the builder.

## 6. Plan

1. Done: the program (Solana, RouterState, Registry, Allowance, Trading,
   BuyWindow, Rewards, Router), the client (Sizing, OwnDay, TradeClient, Quote, Fees), the
   signer (PolicyGate, Intent, Signer) and the scripts (AdminScript, GuardDrill,
   CreatorPath, Outsider, Deploy).
2. Done: proofs of every safety property that a passing run checks, under the
   specification of that run, except for one half of `ErrorsAgree`.
3. Left, out of the prover's reach: `ExitsLand`, `SetupRunEnds` and that half, which stay
   with TLC.
