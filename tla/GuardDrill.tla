------------------------------ MODULE GuardDrill ------------------------------
(***************************************************************************)
(* The two drills that simulate calls which the deployed program ought to  *)
(* refuse, `admin-mainnet.js guards` and guards-mainnet.js.  What they     *)
(* look at is the error in the logs: the first check that fails, in the    *)
(* order of the accounts and then of the handler.                          *)
(***************************************************************************)
EXTENDS Router, SequencesExt

CONSTANTS
    CLERK, VAULT,     \* the machine and the vault the scripts hard-code
    CAP,              \* guards-mainnet.js, the per-trade cap it expects
    Small, Tenth      \* what it offers: 1000 lamports, 0.01 SOL

ASSUME DrillAssumption ==
    /\ CLERK \in Wallets /\ VAULT \in Vaults \ {CLERK}
    /\ CAP \in Nat /\ CAP + 1 \in U64 /\ {Small, Tenth} \subseteq U64 \ {0}
    /\ Small <= Tenth /\ Tenth <= CAP

\* The router as init-mainnet.js leaves it, or as it came to be since.
Deployed == config # NoConfig /\ vaultOpen /\ Registered(CLERK)

-------------------------------------------------------------------------------
(***************************************************************************)
(* The error of a call.                                                    *)
(***************************************************************************)

Check(error, holds) == [error |-> error, holds |-> holds]

FirstError(checks) ==
    LET i == SelectInSeq(checks, LAMBDA c : ~ c.holds)
    IN  IF i = 0 THEN "clean" ELSE checks[i].error

SetOwnLimitError(w) ==
    FirstError(<<Check("AuthorityManaged", ~ agents[w].authority_managed)>>)

ByAuthority(s) == Check("Unauthorized", s = config.authority)

UpdateConfigError(s, args) ==
    FirstError(<<ByAuthority(s),
                 Check("FeeTooHigh", args.fee_bps <= MAX_FEE_BPS),
                 Check("ZeroAmount", args.max_lamports_per_trade > 0)>>)

SetAgentError(s, w, share, fee) ==
    LET total == (config.total_reward_bps - agents[w].reward_bps) + share
    IN  FirstError(<<ByAuthority(s),
                     Check("FeeTooHigh", fee <= MAX_FEE_BPS),
                     Check("RewardSharesTooHigh", share <= BPS_DENOMINATOR),
                     Check("MathOverflow", config.total_reward_bps >= agents[w].reward_bps),
                     Check("MathOverflow", total <= U64_MAX),
                     Check("RewardSharesTooHigh", total <= BPS_DENOMINATOR)>>)

\* Of a list of payees that is empty.
DistributeNobodyError(treasury) ==
    FirstError(<<Check("WrongTreasury", treasury = config.treasury),
                 Check("NothingToDistribute", Available > 0),
                 Check("IncompletePayees", config.total_reward_bps = 0)>>)

\* The valid call that guards-mainnet.js changes one thing of: the accounts
\* that the program looks at, and what is offered.
Valid(ceiling) ==
    [config |-> TRUE, budget |-> TRUE, fee_vault |-> VAULT, program |-> "amm",
     ceiling |-> ceiling]

\* Mutant of BuyAmmError: the budget is charged before the size is checked.
BuyAmmErrorBudgetFirst(call) ==
    FirstError(<<Check("ConstraintSeeds", call.config /\ call.budget),
                 Check("WrongFeeVault", call.fee_vault = config.fee_vault),
                 Check("WrongProgram", call.program = "amm"),
                 Check("Paused", ~ config.paused),
                 Check("AgentDisabled", agents[CLERK].enabled),
                 Check("DailyLimitExceeded",
                       SpentToday(CLERK) + call.ceiling <= agents[CLERK].daily_limit),
                 Check("ZeroAmount", call.ceiling > 0),
                 Check("TradeTooLarge", call.ceiling <= config.max_lamports_per_trade)>>)

\* Signed by the clerk; an account that does not exist is no config or budget.
BuyAmmError(call) ==
    LET spent == SpentToday(CLERK) + call.ceiling
    IN  FirstError(<<Check("ConstraintSeeds", call.config),
                     Check("ConstraintSeeds", call.budget),
                     Check("WrongFeeVault", call.fee_vault = config.fee_vault),
                     Check("WrongProgram", call.program = "amm"),
                     Check("Paused", ~ config.paused),
                     Check("AgentDisabled", agents[CLERK].enabled),
                     Check("ZeroAmount", call.ceiling > 0),
                     Check("TradeTooLarge", call.ceiling <= config.max_lamports_per_trade),
                     Check("MathOverflow", spent <= U64_MAX),
                     Check("DailyLimitExceeded", spent <= agents[CLERK].daily_limit),
                     Check("BadTokenAccount", wsol[CLERK] # NoAccount)>>)

-------------------------------------------------------------------------------
(***************************************************************************)
(* The drills: label, error, and the pattern it has to match.              *)
(***************************************************************************)

Case(label, error, pattern) == [label |-> label, error |-> error, pattern |-> pattern]

\* admin-mainnet.js guards, with the key of s in FUNDER_KEY.
AdminGuards(s) ==
    LET terms == [fee_bps |-> 0, max_lamports_per_trade |-> config.max_lamports_per_trade,
                  default_daily_limit |-> config.default_daily_limit]
    IN  {Case("own limit", SetOwnLimitError(CLERK), {"AuthorityManaged"}),
         Case("outsider", UpdateConfigError(CLERK, terms), {"Unauthorized"}),
         Case("config fee",
              UpdateConfigError(s, [terms EXCEPT !.fee_bps = MAX_FEE_BPS + 1]),
              {"FeeTooHigh"}),
         Case("agent fee",
              SetAgentError(s, CLERK, agents[CLERK].reward_bps, MAX_FEE_BPS + 1),
              {"FeeTooHigh"}),
         Case("reward share", SetAgentError(s, CLERK, BPS_DENOMINATOR + 1, 0),
              {"RewardSharesTooHigh"}),
         Case("distribute", DistributeNobodyError(VAULT),
              {"IncompletePayees", "NothingToDistribute"})}

\* guards-mainnet.js: one valid buy_amm, one thing changed.
MainnetGuards ==
    {Case("cap", BuyAmmError(Valid(CAP + 1)), {"TradeTooLarge"}),
     Case("vault", BuyAmmError([Valid(Small) EXCEPT !.fee_vault = CLERK]),
          {"WrongFeeVault"}),
     Case("curve program", BuyAmmError([Valid(Small) EXCEPT !.program = "curve"]),
          {"WrongProgram"}),
     Case("token program", BuyAmmError([Valid(Small) EXCEPT !.program = "token"]),
          {"WrongProgram"}),
     Case("budget", BuyAmmError([Valid(Small) EXCEPT !.budget = FALSE]),
          {"ConstraintSeeds"}),
     Case("zero", BuyAmmError(Valid(0)), {"ZeroAmount", "TradeTooLarge"}),
     Case("daily", BuyAmmError(Valid(Tenth)), {"DailyLimitExceeded"}),
     Case("config", BuyAmmError([Valid(Small) EXCEPT !.config = FALSE]),
          {"ConstraintSeeds"})}

Passes(case) == case.error \in case.pattern

-------------------------------------------------------------------------------
(***************************************************************************)
(* Properties.                                                             *)
(***************************************************************************)

\* The errors are the program's: a call is refused by the checks listed here
\* exactly if the instruction refuses it (lib.rs:71, 157, 191, rewards.rs:40); a
\* buy that passes the checks of guards.rs may still fail in the venue.
ErrorsAgree ==
    Deployed =>
        /\ SetOwnLimitError(CLERK) = "clean" <=> ENABLED SetOwnLimit(CLERK, 0)
        /\ \A s \in Keys, args \in ConfigArgs :
              UpdateConfigError(s, args) = "clean"
                 <=> ENABLED UpdateConfig(s, VAULT, VAULT, args)
        /\ \A s \in Keys, share \in ShareArgs, fee \in FeeArgs :
              SetAgentError(s, CLERK, share, fee) = "clean"
                 <=> ENABLED SetAgent(s, CLERK, TRUE, 0, share, fee)
        /\ DistributeNobodyError(VAULT) = "clean"
              <=> ENABLED DistributeRewards(<< >>, VAULT)
        /\ \A v \in Vaults, ceiling, cost \in Amounts :
              ENABLED BuyAmm(CLERK, CLERK, v, ceiling, cost, 0)
                 => BuyAmmError([Valid(ceiling) EXCEPT !.fee_vault = v]) = "clean"

AdminPresumes(s) ==
    /\ s = config.authority /\ s # CLERK
    /\ agents[CLERK].authority_managed
    /\ config.treasury = VAULT
    /\ Available > 0 => config.total_reward_bps > 0

MainnetPresumes ==
    /\ config.fee_vault = VAULT
    /\ ~ config.paused /\ agents[CLERK].enabled
    /\ config.max_lamports_per_trade \in Tenth .. CAP
    /\ SpentToday(CLERK) + Tenth \in agents[CLERK].daily_limit + 1 .. U64_MAX

\* "The cheapest honest evidence that the invariants hold on the binary"
\* (guards-mainnet.js:5): whatever was traded, administered and paid out since
\* the deployment, a drill fails exactly if what it takes for granted is no
\* longer so, be it that the day's budget is not spent yet (line 159).
DrillVerdict ==
    Deployed =>
        /\ \A s \in Keys :
              (\A case \in AdminGuards(s) : Passes(case)) <=> AdminPresumes(s)
        /\ (\A case \in MainnetGuards : Passes(case)) <=> MainnetPresumes
===============================================================================
