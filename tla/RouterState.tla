------------------------------ MODULE RouterState ------------------------------
(***************************************************************************)
(* state.rs and the arithmetic of guards.rs: the two accounts the program  *)
(* keeps, the arguments it validates, and what it computes from them.      *)
(* Keys and hashes are model values; the widths of the integers are kept.  *)
(***************************************************************************)
EXTENDS Solana

CONSTANTS
    Wallets,          \* keys that trade, registered or not
    Officials,        \* keys that are ever made authority
    Vaults,           \* keys passed as fee_vault or treasury
    FeeArgs,          \* fee_bps a caller may pass
    ShareArgs,        \* reward_bps a caller may pass
    LimitArgs,        \* daily limits a caller may pass
    CapArgs,          \* per-trade caps a caller may pass
    MAX_FEE_BPS,
    BPS_DENOMINATOR,
    SECONDS_PER_DAY,
    U16_MAX,
    U64_MAX,
    NoConfig,         \* the config account does not exist
    NoAgent           \* the wallet's AgentAuth account does not exist

U16 == 0 .. U16_MAX
U64 == 0 .. U64_MAX

ASSUME RouterAssumption ==
    /\ Wallets \subseteq Keys
    /\ Officials \subseteq Keys
    /\ Vaults \subseteq Keys
    /\ U16_MAX \in Nat /\ U64_MAX \in Nat /\ U16_MAX <= U64_MAX
    /\ FeeArgs \subseteq U16 /\ ShareArgs \subseteq U16
    /\ LimitArgs \subseteq U64 /\ CapArgs \subseteq U64
    /\ MAX_FEE_BPS \in U16
    /\ BPS_DENOMINATOR \in U64 \ {0}
    /\ MAX_FEE_BPS <= BPS_DENOMINATOR
    /\ SECONDS_PER_DAY \in Nat \ {0}

ConfigArgs ==
    [fee_bps : FeeArgs, max_lamports_per_trade : CapArgs,
     default_daily_limit : LimitArgs]

\* Mutant of Validate: the fee is not checked.
ValidateCapOnly(args) == args.max_lamports_per_trade > 0

Validate(args) ==
    /\ args.fee_bps <= MAX_FEE_BPS
    /\ args.max_lamports_per_trade > 0

\* The bump seeds are left out: they are functions of the addresses.
Config ==
    [authority : Keys, treasury : Keys, fee_vault : Keys, fee_bps : U16,
     max_lamports_per_trade : U64, default_daily_limit : U64,
     total_reward_bps : U64, paused : BOOLEAN]

\* The account of wallet w is found at the address derived from w, so the
\* wallet field is the index of the table of agents.
AgentAuth ==
    [daily_limit : U64, spent_today : U64, day : Nat, reward_bps : U16,
     fee_bps : U16, enabled : BOOLEAN, authority_managed : BOOLEAN]

ASSUME SentinelAssumption == NoConfig \notin Config /\ NoAgent \notin AgentAuth

\* guards::current_day.  The clock is never negative, so truncation is \div.
CurrentDay == clock \div SECONDS_PER_DAY

\* Mutant of BpsOf: rounded up.
BpsRoundedUp(amount, bps) ==
    (amount * bps + BPS_DENOMINATOR - 1) \div BPS_DENOMINATOR

\* What part of an amount `bps` basis points are: rounded down, computed in
\* u128 so that it never overflows.  The fee and the payees' cuts use it.
BpsOf(amount, bps) == (amount * bps) \div BPS_DENOMINATOR
===============================================================================
