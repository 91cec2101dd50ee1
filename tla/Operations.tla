------------------------------ MODULE Operations ------------------------------
(***************************************************************************)
(* What the operator scripts have in common: the keys they hard-code, the  *)
(* values agreed for the deployment (scripts/init-mainnet.js), and the     *)
(* router as the deployment leaves it, where the other scripts begin.      *)
(***************************************************************************)
EXTENDS Registry

CONSTANTS
    FUNDER,           \* our authority, FUNDER_KEY
    CLERK,            \* the company's own machine
    VAULT,            \* fee vault and treasury
    FEE_BPS, MAX_PER_TRADE, DEFAULT_DAILY,
    CLERK_DAILY, CLERK_REWARD_BPS, CLERK_FEE_BPS,
    NotRunning        \* no run of a script, or no report of one

AgreedConfig ==
    [authority |-> FUNDER, treasury |-> VAULT, fee_vault |-> VAULT,
     fee_bps |-> FEE_BPS, max_lamports_per_trade |-> MAX_PER_TRADE,
     default_daily_limit |-> DEFAULT_DAILY,
     total_reward_bps |-> CLERK_REWARD_BPS, paused |-> FALSE]

AgreedClerk ==
    [daily_limit |-> CLERK_DAILY, spent_today |-> 0, day |-> 0,
     reward_bps |-> CLERK_REWARD_BPS, fee_bps |-> CLERK_FEE_BPS,
     enabled |-> TRUE, authority_managed |-> TRUE]

\* The agreed values are values that the program accepts.
ASSUME OperationsAssumption ==
    /\ FUNDER \in Officials /\ CLERK \in Wallets /\ VAULT \in Vaults
    /\ AgreedConfig \in Config /\ AgreedClerk \in AgentAuth
    /\ CLERK_REWARD_BPS <= BPS_DENOMINATOR
    /\ FEE_BPS <= MAX_FEE_BPS /\ CLERK_FEE_BPS <= MAX_FEE_BPS

Deployed ==
    /\ ChainInit
    /\ config = AgreedConfig
    /\ agents = [w \in Wallets |-> IF w = CLERK THEN AgreedClerk ELSE NoAgent]
    /\ signer = NoKey
===============================================================================
