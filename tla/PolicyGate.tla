------------------------------ MODULE PolicyGate ------------------------------
(***************************************************************************)
(* signer/policy.js: the last gate before a signature.  It looks at a      *)
(* finished transaction, instruction by instruction.  Of an instruction    *)
(* the model keeps the program, what it asks of it, and the one account    *)
(* the gate looks at: who signs a trade, who is paid by a transfer or a    *)
(* close, for whom an account is made.                                     *)
(***************************************************************************)
EXTENDS Integers, FiniteSets, Sequences

CONSTANT Parties      \* owners of keys: the agent and others

\* An address: a wallet, or the wrapped SOL account derived from it.
Wallet(p) == [owner |-> p, wrapped |-> FALSE]

Wsol(p) == [owner |-> p, wrapped |-> TRUE]

\* Mutant of TradeNames: the curve is refused, as it used to be.
AmmTradeNames == {"buy_amm", "sell_amm"}

TradeNames == {"buy", "sell", "buy_amm", "sell_amm"}

\* The one trade, signed by the agent itself.
RouterTrade(ix, agent) ==
    /\ ix.program = "router"
    /\ ix.op \in TradeNames
    /\ ix.key = Wallet(agent)

VenueSetup(ix) ==
    /\ ix.program \in {"amm", "curve"}
    /\ ix.op = "init_user_volume_accumulator"

\* Mutant of TokenHousekeeping: a close may pay anybody.
TokenHousekeepingAnywhere(ix, agent) ==
    /\ ix.program \in {"token", "token_2022"}
    /\ ix.op \in {"sync_native", "close_account"}

TokenHousekeeping(ix, agent) ==
    /\ ix.program \in {"token", "token_2022"}
    /\ \/ ix.op = "sync_native"
       \/ ix.op = "close_account" /\ ix.key = Wallet(agent)

Wrapping(ix, agent) ==
    /\ ix.program = "system" /\ ix.op = "transfer"
    /\ ix.key = Wsol(agent)

Allowed(ix, agent) ==
    \/ ix.program \in {"compute_budget", "associated_token"}
    \/ RouterTrade(ix, agent)
    \/ VenueSetup(ix)
    \/ TokenHousekeeping(ix, agent)
    \/ Wrapping(ix, agent)

TradeCount(ixs) == Cardinality({i \in DOMAIN ixs : ixs[i].program = "router"})

\* It throws unless this holds.
AssertOnlyPumpcoTrade(ixs, agent) ==
    /\ \A i \in DOMAIN ixs : Allowed(ixs[i], agent)
    /\ TradeCount(ixs) = 1
===============================================================================
