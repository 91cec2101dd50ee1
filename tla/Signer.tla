-------------------------------- MODULE Signer --------------------------------
(***************************************************************************)
(* The path of one trade to the chain: the builder of client/trade.js, the *)
(* gate, the setup transaction and the trade, as scripts/trade.js strings  *)
(* them together.  A trade is typed by hand, which is all that this script *)
(* does, or is a reply that the parser accepted: the automated loop that   *)
(* scripts/trade.js:7 announces, of which the repository has the parts     *)
(* only.  Every part assumes that the one before it may be wrong: the      *)
(* builder may slip here.                                                  *)
(***************************************************************************)
EXTENDS PolicyGate, Intent, SequencesExt

CONSTANTS
    Agent, Stranger,  \* two of the Parties
    Replies,          \* what the model may say
    Commands,         \* what may be typed
    DefaultSol,       \* the size of a buy that names none, or zero
    MaxSolPerTrade,   \* limits.maxSolPerTrade, in lamports
    ChainCap,         \* what the router's guards let a buy take, in lamports
    Bid,              \* lamports a trade of the builder bids for its place
    Mistakes,         \* instructions a mistaken builder may put into a trade
    MaxNative,        \* lamports of the agent at first; bound: and ever
    Rent,             \* of any account
    NoAccount,        \* the wrapped account does not exist
    Nothing           \* no reply, no intent, no slip

VARIABLES
    venue,            \* where the mint trades
    accounts,         \* what exists beside the wrapped account
    native, wrapped,  \* the agent's lamports, and its wrapped SOL
    given,            \* lamports that were paid to a stranger
    sunk,             \* history: what the trade at hand spent on bids, and on
                      \* the rent of accounts that are not the agent's
    held,             \* the agent holds the token
    stage, reply, intent,
    prep, trade,      \* the two transactions, sequences of instructions
    slipped           \* the builder made a mistake

ASSUME SignerAssumption ==
    /\ {Agent, Stranger} \subseteq Parties /\ Agent # Stranger
    /\ MaxSolPerTrade \in Nat /\ ChainCap \in Nat
    /\ MaxNative \in Nat /\ Rent \in Nat /\ Bid \in Nat
    /\ DefaultSol \in Int
    /\ NoAccount \notin Int

\* Whatever Number() makes of a size is compared with the limits.
ASSUME ReplyAssumption ==
    \A r \in Replies : r \in {NotJson, NotObject} \/ Number(Field(r, "sol")) \in Int

Intents ==
    [action : {"sell"}, mint : Mints]
    \cup [action : {"buy"}, mint : Mints, sol : Int]

ASSUME CommandAssumption == Commands \subseteq Intents /\ Nothing \notin Intents

worldVars == <<venue, accounts, held>>
moneyVars == <<native, wrapped, given, sunk>>
deskVars == <<stage, reply, intent, prep, trade, slipped>>
signerVars == <<worldVars, moneyVars, deskVars>>

Stages == {"idle", "parsed", "built", "prepared"}

SignerInit ==
    /\ venue \in {"curve", "amm"}
    /\ accounts = {} /\ held = FALSE
    /\ native = MaxNative /\ wrapped = NoAccount
    /\ given = 0 /\ sunk = 0
    /\ stage = "idle" /\ reply = Nothing /\ intent = Nothing
    /\ prep = <<>> /\ trade = <<>> /\ slipped = FALSE

-------------------------------------------------------------------------------
(***************************************************************************)
(* What buildTrade builds.                                                 *)
(***************************************************************************)

\* What the gate tells apart of the programs and what they are asked to do.
Programs ==
    {"compute_budget", "system", "token", "associated_token", "router",
     "curve", "amm", "other"}

Ops ==
    {"limit", "price", "transfer", "sync_native", "close_account",
     "create_idempotent", "init_user_volume_accumulator",
     "buy", "sell", "buy_amm", "sell_amm", "other"}

Keys == [owner : Parties, wrapped : BOOLEAN]

\* A trade's amount is the most it may take, a price's what is bid in all.
Instructions == [program : Programs, op : Ops, key : Keys, amount : Nat]

ASSUME MistakesAssumption == Mistakes \subseteq Instructions

Instruction(program, op, key, amount) ==
    [program |-> program, op |-> op, key |-> key, amount |-> amount]

ComputeBudget ==
    <<Instruction("compute_budget", "limit", Wallet(Agent), 0),
      Instruction("compute_budget", "price", Wallet(Agent), Bid)>>

CreateAccount(key) ==
    Instruction("associated_token", "create_idempotent", key, 0)

\* The user's volume accumulator at a venue goes by the name of the venue.
VolumeOf(v) == v

\* A list of one, or none.
When(needed, ix) == IF needed THEN <<ix>> ELSE <<>>

\* Mutant of PrepOf: a sale is not prepared for.
PrepOfBuys(side) ==
    When(side = "buy" /\ VolumeOf(venue) \notin accounts,
         Instruction(venue, "init_user_volume_accumulator", Wallet(Agent), 0))
    \o When(side = "buy" /\ "base" \notin accounts, CreateAccount(Wallet(Agent)))
    \o When(side = "buy" /\ venue = "amm" /\ wrapped = NoAccount,
            CreateAccount(Wsol(Agent)))

\* The accounts a venue insists already exist.
PrepOf(side) ==
    When(VolumeOf(venue) \notin accounts,
         Instruction(venue, "init_user_volume_accumulator", Wallet(Agent), 0))
    \o When(side = "buy" /\ "base" \notin accounts, CreateAccount(Wallet(Agent)))
    \o When(venue = "amm" /\ wrapped = NoAccount, CreateAccount(Wsol(Agent)))

RouterName(side) ==
    IF venue = "curve" THEN side
    ELSE IF side = "buy" THEN "buy_amm" ELSE "sell_amm"

Wrap(lamports) ==
    <<Instruction("system", "transfer", Wsol(Agent), lamports),
      Instruction("token", "sync_native", Wsol(Agent), 0)>>

Unwrap == Instruction("token", "close_account", Wallet(Agent), 0)

TradeOf(side, lamports) ==
    ComputeBudget
    \o (IF venue = "amm" /\ side = "buy" THEN Wrap(lamports) ELSE <<>>)
    \o <<Instruction("router", RouterName(side), Wallet(Agent), lamports)>>
    \o When(venue = "amm", Unwrap)

\* Size of an intent: none on a sell, which closes the whole position.
Size(i) == IF i.action = "buy" THEN Lamports(i.sol) ELSE 0

\* buildTrade's checks of its arguments.
Buildable(i) ==
    /\ i.action \in {"buy", "sell"}
    /\ i.action = "buy" => Lamports(i.sol) > 0

-------------------------------------------------------------------------------
(***************************************************************************)
(* What a transaction does.  It happens whole or not at all.               *)
(***************************************************************************)

Money ==
    [native |-> native, wrapped |-> wrapped, given |-> given, sunk |-> sunk,
     made |-> accounts]

Broke == [native |-> -1, wrapped |-> 0, given |-> 0, sunk |-> 0, made |-> {}]

\* Lamports reach the account at `key`.
Reaches(m, key, amount) ==
    CASE key = Wallet(Agent) -> [m EXCEPT !.native = @ + amount]
      [] key = Wsol(Agent) -> [m EXCEPT !.wrapped = @ + amount]
      [] OTHER -> [m EXCEPT !.given = @ + amount]

Opens(m, account) ==
    [m EXCEPT !.native = @ - Rent, !.made = @ \cup {account}]

Sinks(m, amount) == [m EXCEPT !.native = @ - amount, !.sunk = @ + amount]

\* The agent pays for an account that is missing, whosever it is.
Creates(m, key) ==
    CASE key = Wsol(Agent) ->
            IF m.wrapped = NoAccount
            THEN [m EXCEPT !.native = @ - Rent, !.wrapped = 0] ELSE m
      [] key = Wallet(Agent) -> IF "base" \notin m.made THEN Opens(m, "base") ELSE m
      [] OTHER -> Sinks(m, Rent)

\* The router takes what the venue asks from the asset the venue settles in; a
\* sale pays out in it.
Routed(m, ix, price) ==
    CASE ix.op = "buy" -> [m EXCEPT !.native = @ - price]
      [] ix.op = "sell" -> [m EXCEPT !.native = @ + price]
      [] ix.op = "buy_amm" -> [m EXCEPT !.wrapped = @ - price]
      [] ix.op = "sell_amm" -> [m EXCEPT !.wrapped = @ + price]

\* Of what a gate lets through: anything of the two programs it does not look
\* into, and one thing of each other.
Effect(m, ix, price) ==
    CASE ix.program = "compute_budget" ->
            IF ix.op = "price" THEN Sinks(m, ix.amount) ELSE m
      [] ix.program = "associated_token" -> Creates(m, ix.key)
      [] ix.program = "router" -> Routed(m, ix, price)
      [] ix.program \in {"curve", "amm"} ->
            IF ix.key = Wallet(Agent) THEN Opens(m, VolumeOf(ix.program))
            ELSE Sinks(m, Rent)
      [] ix.program = "system" ->
            Reaches([m EXCEPT !.native = @ - ix.amount], ix.key, ix.amount)
      [] ix.program = "token" /\ ix.op = "close_account" ->
            Reaches([m EXCEPT !.wrapped = NoAccount], ix.key, m.wrapped + Rent)
      [] OTHER -> m

BuyNames == {"buy", "buy_amm"}

\* What fails on the accounts it finds: anything on a wrapped account that is
\* not there, closing it into itself, a second initialization, a trade where the
\* mint is not, a buy without the accounts its venue asks for, a sale of
\* nothing; and a buy that would take more than it names, or than the router's
\* guards allow.
Possible(m, ix, price) ==
    /\ ix.op \in {"transfer", "sync_native"} => ix.key # Wsol(Agent)
                                                  \/ m.wrapped # NoAccount
    /\ ix.op \in {"close_account", "buy_amm", "sell_amm"} => m.wrapped # NoAccount
    /\ ix.op = "close_account" => ix.key # Wsol(Agent)
    /\ ix.op = "init_user_volume_accumulator" /\ ix.key = Wallet(Agent)
           => VolumeOf(ix.program) \notin m.made
    /\ ix.op \in {"buy", "sell"} => venue = "curve"
    /\ ix.op \in {"buy_amm", "sell_amm"} => venue = "amm"
    /\ ix.program = "router" => VolumeOf(venue) \in m.made
    /\ ix.op \in BuyNames =>
           "base" \in m.made /\ price <= ix.amount /\ price <= ChainCap
    /\ ix.op \in {"sell", "sell_amm"} => held

\* One instruction after another; one that overdraws fails them all.
Run(m, ix, price) ==
    IF m = Broke \/ ~ Possible(m, ix, price) THEN Broke
    ELSE LET n == Effect(m, ix, price)
         IN  IF n.native >= 0 /\ (n.wrapped # NoAccount => n.wrapped >= 0)
             THEN n ELSE Broke

After(ixs, price) == FoldLeft(LAMBDA m, ix : Run(m, ix, price), Money, ixs)

Settles(m) ==
    /\ m # Broke
    /\ native' = m.native /\ wrapped' = m.wrapped
    /\ given' = m.given /\ sunk' = m.sunk /\ accounts' = m.made

-------------------------------------------------------------------------------
(***************************************************************************)
(* The path.                                                               *)
(***************************************************************************)

Clear ==
    /\ stage' = "idle" /\ reply' = Nothing /\ intent' = Nothing
    /\ prep' = <<>> /\ trade' = <<>> /\ slipped' = FALSE

\* A new trade, of which nothing has been spent.
Begins(r, i) ==
    /\ stage = "idle" /\ stage' = "parsed"
    /\ reply' = r /\ intent' = i
    /\ sunk' = 0
    /\ UNCHANGED <<worldVars, native, wrapped, given, prep, trade, slipped>>

\* Typed by hand: `parseFloat(..) || 0.006`.
Command(c) ==
    Begins(Nothing, IF c.action = "buy" /\ c.sol = 0
                    THEN [c EXCEPT !.sol = DefaultSol] ELSE c)

\* Said by the model: parsed, and its mint looked up on the chain.
Receive(r) ==
    LET i == ParseIntent(r, MaxSolPerTrade)
    IN  /\ i # Refused /\ i.action # "hold"
        /\ AssertIsMint(i.mint)
        /\ Begins(r, i)

Build ==
    /\ stage = "parsed"
    /\ Buildable(intent)
    /\ intent.action = "sell" => held
    /\ prep' = PrepOf(intent.action)
    /\ trade' = TradeOf(intent.action, Size(intent))
    /\ stage' = "built"
    /\ UNCHANGED <<worldVars, moneyVars, reply, intent, slipped>>

\* "It assumes the builder is wrong and checks anyway" (policy.js:7): one
\* instruction of the trade is lost or repeated, any other comes instead of one
\* or in addition, or the setup comes inline, as it once did (trade.js:13).
Slip ==
    /\ stage = "built" /\ ~ slipped /\ slipped' = TRUE
    /\ \/ \E i \in DOMAIN trade, ix \in Mistakes :
             trade' = ReplaceAt(trade, i, ix) \/ trade' = InsertAt(trade, i, ix)
       \/ \E i \in DOMAIN trade :
             trade' = RemoveAt(trade, i) \/ trade' = InsertAt(trade, i, trade[i])
       \/ prep # <<>> /\ trade' = prep \o trade
    /\ UNCHANGED <<worldVars, moneyVars, stage, reply, intent, prep>>

\* The gate looks at the trade only; setup follows it unexamined.
Inspect ==
    /\ stage = "built"
    /\ IF AssertOnlyPumpcoTrade(trade, Agent) /\ After(prep, 0) # Broke
       THEN /\ Settles(After(prep, 0))
            /\ stage' = "prepared"
            /\ UNCHANGED <<reply, intent, prep, trade, slipped>>
       ELSE Clear /\ UNCHANGED <<moneyVars, accounts>>
    /\ UNCHANGED <<venue, held>>

Wealth == native + (IF wrapped = NoAccount THEN 0 ELSE wrapped + Rent)

RouterPart(ixs) == ixs[CHOOSE i \in DOMAIN ixs : ixs[i].program = "router"]

Prices == 0 .. ChainCap

\* Simulated, sent and executed; what the simulation refuses changes nothing.
Send(price) ==
    /\ stage = "prepared"
    /\ Settles(After(trade, price))
    /\ Wealth' <= MaxNative
    /\ held' = (RouterPart(trade).op \in BuyNames)
    /\ Clear
    /\ UNCHANGED venue

GiveUp ==
    /\ stage # "idle"
    /\ Clear
    /\ UNCHANGED <<worldVars, moneyVars>>

Graduate ==
    /\ venue = "curve" /\ venue' = "amm"
    /\ UNCHANGED <<accounts, held, moneyVars, deskVars>>

SignerNext ==
    \/ \E c \in Commands : Command(c)
    \/ \E r \in Replies : Receive(r)
    \/ Build \/ Slip \/ Inspect \/ GiveUp \/ Graduate
    \/ \E price \in Prices : Send(price)

SignerSpec == SignerInit /\ [][SignerNext]_signerVars

-------------------------------------------------------------------------------
(***************************************************************************)
(* Properties.                                                             *)
(***************************************************************************)

SignerTypeOK ==
    /\ venue \in {"curve", "amm"} /\ held \in BOOLEAN
    /\ accounts \subseteq {"base", VolumeOf("curve"), VolumeOf("amm")}
    /\ native \in Nat /\ wrapped \in Nat \cup {NoAccount}
    /\ given \in Nat /\ sunk \in Nat
    /\ stage \in Stages /\ slipped \in BOOLEAN
    /\ intent \in Intents \cup {Nothing} /\ reply \in Replies \cup {Nothing}
    /\ stage = "idle" <=> intent = Nothing

\* Whatever the parser accepts the builder can build (trade.js:280-282): no
\* size rounds down to nothing.
IntentsAreBuildable == reply # Nothing => Buildable(intent)

\* "The gate demands exactly one router trade, so it would reject a setup
\* transaction outright" (trade.js:17), and "the gate sees the same shape every
\* time" (trade.js:298): the two files agree on every trade and every setup, on
\* both venues, both sides and whatever accounts are missing.
GateKnowsTheBuilder ==
    stage = "built" /\ ~ slipped =>
        /\ AssertOnlyPumpcoTrade(trade, Agent)
        /\ ~ AssertOnlyPumpcoTrade(prep, Agent)

\* After its setup the trade of a builder without mistakes runs, at any price
\* within its size and the chain's cap that leaves it its bid, unless the mint has
\* graduated since.
SetupSuffices ==
    ( /\ stage = "prepared" /\ ~ slipped
      /\ \E i \in DOMAIN trade : trade[i].op = RouterName(intent.action)
      /\ native >= Bid + Size(intent) )
    => \A price \in 0 .. Size(intent) :
           price <= ChainCap => After(trade, price) # Broke

\* The most that the trade of a transaction may take: a buy's own ceiling, within
\* the chain's cap.
Ceiling(ix) ==
    IF ix.op \notin BuyNames THEN 0
    ELSE IF ix.amount <= ChainCap THEN ix.amount ELSE ChainCap

\* "Refuses to let the key touch anything that is not a pumpco trade"
\* (policy.js:5): whatever instruction the builder put in the place of another, a
\* transaction that was signed pays nobody but the venue, and takes from the agent
\* what one trade may take.  Beside it go only the rent of the agent's own
\* accounts, and what the gate does not look at: the bid, and the rent of accounts
\* made for others.
SignedIsTheTrade ==
    [][stage = "prepared" =>
          /\ given' = given
          /\ Wealth' + Rent * Cardinality(accounts' \ accounts) + (sunk' - sunk)
                >= Wealth - Ceiling(RouterPart(trade))]_signerVars
===============================================================================
