------------------------------- MODULE Outsider -------------------------------
(***************************************************************************)
(* scripts/outsider-mainnet.js: a wallet that the authority never touched  *)
(* registers itself, asking for more than it may get, and compares what it *)
(* got with what config said when the script began; then it lowers its own *)
(* limit.  The authority, and the wallet itself from elsewhere, may act    *)
(* between any two of its calls.                                           *)
(***************************************************************************)
EXTENDS Operations

CONSTANTS
    OUTSIDER,
    ASKED, LOWER      \* the limits it asks for: 10 SOL, then 0.1 SOL

VARIABLES
    trial,            \* the run of the script: what it has read, or NotRunning
    verdict           \* what the last run printed, or NotRunning

ASSUME TrialAssumption ==
    /\ OUTSIDER \in Wallets \ {CLERK}
    /\ {ASKED, LOWER} \subseteq U64

outsiderVars == <<registryVars, trial, verdict>>

TrialIdle == trial = NotRunning /\ verdict = NotRunning

TrialInit == Deployed /\ TrialIdle

-------------------------------------------------------------------------------
(***************************************************************************)
(* The script.                                                             *)
(***************************************************************************)

TrialAt(step) == trial # NotRunning /\ trial.at = step

Own == agents[OUTSIDER]

\* Config, and what the checks expect from now on.
ReadConfig ==
    /\ trial = NotRunning
    /\ config # NoConfig
    /\ trial' = [at |-> "look", configFee |-> config.fee_bps,
                 defaultDaily |-> config.default_daily_limit,
                 totalRewardBefore |-> config.total_reward_bps,
                 failed |-> {}, fresh |-> FALSE, alone |-> TRUE]
    /\ verdict' = NotRunning
    /\ UNCHANGED registryVars

\* Who is registered already is not registered again.
LookUp ==
    /\ TrialAt("look")
    /\ trial' = [trial EXCEPT !.at = IF Registered(OUTSIDER) THEN "inspect"
                                                             ELSE "register"]
    /\ UNCHANGED <<registryVars, verdict>>

Register ==
    /\ TrialAt("register")
    /\ SelfRegister(OUTSIDER, ASKED)
    /\ trial' = [trial EXCEPT !.at = "inspect", !.fresh = TRUE]
    /\ UNCHANGED verdict

Failing(checks) == {label \in DOMAIN checks : ~ checks[label]}

\* The checks of the agent, then of the total of all shares.
InspectAgent ==
    /\ TrialAt("inspect")
    /\ trial' = [trial EXCEPT
          !.at = "total",
          !.failed = Failing([limit |-> Own.daily_limit = trial.defaultDaily,
                              reward |-> Own.reward_bps = 0,
                              fee |-> Own.fee_bps = trial.configFee,
                              enabled |-> Own.enabled,
                              managed |-> ~ Own.authority_managed])]
    /\ UNCHANGED <<registryVars, verdict>>

InspectTotal ==
    /\ TrialAt("total")
    /\ trial' = [trial EXCEPT
          !.at = "lower",
          !.failed = @ \cup Failing([total |->
                config.total_reward_bps = trial.totalRewardBefore])]
    /\ UNCHANGED <<registryVars, verdict>>

Lower ==
    /\ TrialAt("lower")
    /\ SetOwnLimit(OUTSIDER, LOWER)
    /\ trial' = [trial EXCEPT !.at = "confirm"]
    /\ UNCHANGED verdict

Confirm ==
    /\ TrialAt("confirm")
    /\ verdict' = [failed |-> trial.failed \cup
                                Failing([lowered |-> Own.daily_limit = LOWER]),
                   clamps |-> trial.defaultDaily \in 1 .. ASKED,
                   fresh |-> trial.fresh, alone |-> trial.alone]
    /\ trial' = NotRunning
    /\ UNCHANGED registryVars

\* A transaction is refused, or the process dies.
TrialStops ==
    /\ trial # NotRunning
    /\ trial' = NotRunning
    /\ UNCHANGED <<registryVars, verdict>>

TrialStep ==
    \/ ReadConfig \/ LookUp \/ Register \/ InspectAgent
    \/ InspectTotal \/ Lower \/ Confirm \/ TrialStops

\* The authority governs, and the wallet is used elsewhere.  What other wallets do
\* shows in config alone, where the shares granted to this one show as well.
OthersMeddle ==
    /\ \/ \E s \in Officials :
             \/ \E t, v \in Vaults, args \in ConfigArgs : UpdateConfig(s, t, v, args)
             \/ \E on \in BOOLEAN : SetPaused(s, on)
             \/ \E limit \in LimitArgs, share \in ShareArgs, fee \in FeeArgs :
                   \/ RegisterAgent(s, OUTSIDER, limit, share, fee)
                   \/ \E e \in BOOLEAN : SetAgent(s, OUTSIDER, e, limit, share, fee)
       \/ \E limit \in LimitArgs :
             SelfRegister(OUTSIDER, limit) \/ SetOwnLimit(OUTSIDER, limit)
    /\ trial' = IF trial = NotRunning THEN trial ELSE [trial EXCEPT !.alone = FALSE]
    /\ UNCHANGED verdict

TrialNext == TrialStep \/ OthersMeddle

TrialSpec == TrialInit /\ [][TrialNext]_outsiderVars

-------------------------------------------------------------------------------
(***************************************************************************)
(* Properties.                                                             *)
(***************************************************************************)

Labels == {"limit", "reward", "fee", "enabled", "managed", "total", "lowered"}

\* Types; a run is at one of its seven awaits.
TrialTypeOK ==
    /\ RegistryTypeOK
    /\ trial # NotRunning =>
          /\ trial.at \in {"look", "register", "inspect", "total", "lower", "confirm"}
          /\ trial.configFee \in U16 /\ trial.defaultDaily \in U64
          /\ trial.failed \subseteq Labels
    /\ verdict # NotRunning => verdict.failed \subseteq Labels

\* "The three things that are supposed to be different" (outsider-mainnet.js:5):
\* whatever config said and whoever registered before, a wallet that registers
\* in a run nobody interferes with passes every check, if there is a ceiling and
\* it asks for at least as much (line 54).
FreshRunPasses ==
    verdict # NotRunning /\ verdict.fresh /\ verdict.alone /\ verdict.clamps =>
        verdict.failed = {}
===============================================================================
