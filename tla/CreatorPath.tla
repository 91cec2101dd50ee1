----------------------------- MODULE CreatorPath -----------------------------
(***************************************************************************)
(* scripts/creator-path-mainnet.js: the clerk stages wrapped SOL at the    *)
(* creator vault as pump.fun would, unwraps it and has it distributed, in  *)
(* three transactions with reads of balances in between.  All three steps  *)
(* are open to everybody, and revenue may arrive at any time.              *)
(***************************************************************************)
EXTENDS Rewards, Operations

CONSTANT
    STAGE             \* lamports that are staged

VARIABLES
    path,             \* the run of the script: what it has read, or NotRunning
    report,           \* what the last run printed, or NotRunning
    rents             \* history: rent of token accounts that others opened

\* Clerk and treasury are two addresses, and neither pays for what others do.
ASSUME PathAssumption ==
    /\ STAGE \in Nat \ {0}
    /\ CLERK # VAULT /\ {CLERK, VAULT} \cap Officials = {}
    /\ MaxPayees # 0

runVars == <<path, report, rents>>
pathVars == <<rewardsVars, runVars>>

PathIdle == path = NotRunning /\ report = NotRunning /\ rents = 0

\* The deployment, with the clerk's the only share.
DeployedWithVault ==
    /\ Deployed
    /\ vaultOpen = TRUE /\ vault = VaultRent
    /\ vaultWsol = NoAccount /\ earned = 0
    /\ payout = NoPayout

PathInit == DeployedWithVault /\ PathIdle

-------------------------------------------------------------------------------
(***************************************************************************)
(* The script.                                                             *)
(***************************************************************************)

PathAt(step) == path # NotRunning /\ path.at = step

PathReaches(step) == path' = [path EXCEPT !.at = step]

\* The balances before.
ReadBefore ==
    /\ path = NotRunning
    /\ path' = [at |-> "stage", treasury |-> lamports[VAULT], vault |-> 0,
                alone |-> TRUE]
    /\ report' = NotRunning
    /\ UNCHANGED <<rewardsVars, rents>>

\* Mutant of Stage: the rent is paid even if the account is there.
StagePayingRentTwice ==
    /\ PathAt("stage")
    /\ Commit(Debit(lamports, CLERK, TokenRent + STAGE))
    /\ vaultWsol' = STAGE + (IF vaultWsol = NoAccount THEN 0 ELSE vaultWsol)
    /\ signer' = CLERK
    /\ PathReaches("unwrap")
    /\ payout' = NoPayout
    /\ UNCHANGED <<clock, config, agents, vaultOpen, vault, earned, report, rents>>

\* One transaction: open the account if there is none, transfer, sync.
Stage ==
    /\ PathAt("stage")
    /\ IF vaultWsol = NoAccount
       THEN /\ Commit(Debit(lamports, CLERK, TokenRent + STAGE))
            /\ vaultWsol' = STAGE
       ELSE /\ Commit(Debit(lamports, CLERK, STAGE))
            /\ vaultWsol' = vaultWsol + STAGE
    /\ signer' = CLERK
    /\ PathReaches("unwrap")
    /\ payout' = NoPayout
    /\ UNCHANGED <<clock, config, agents, vaultOpen, vault, earned, report, rents>>

Unwrap ==
    /\ PathAt("unwrap")
    /\ UnwrapCreatorFees
    /\ PathReaches("read")
    /\ UNCHANGED <<report, rents>>

\* Mutant of ReadUnwrapped: the balance from before is kept.
ReadUnwrappedNever ==
    /\ PathAt("read")
    /\ PathReaches("distribute")
    /\ UNCHANGED <<rewardsVars, report, rents>>

\* The vault's balance after the unwrap.
ReadUnwrapped ==
    /\ PathAt("read")
    /\ path' = [path EXCEPT !.at = "distribute", !.vault = vault]
    /\ UNCHANGED <<rewardsVars, report, rents>>

OnlyClerk == <<[auth |-> CLERK, wallet |-> CLERK]>>

Distribute ==
    /\ PathAt("distribute")
    /\ DistributeRewards(OnlyClerk, VAULT)
    /\ PathReaches("report")
    /\ UNCHANGED <<report, rents>>

\* What moved out of the vault, and the treasury's part of it.
ReadAfter ==
    /\ PathAt("report")
    /\ report' = [distributed |-> path.vault - vault,
                  toTreasury |-> lamports[VAULT] - path.treasury,
                  alone |-> path.alone]
    /\ path' = NotRunning
    /\ UNCHANGED <<rewardsVars, rents>>

\* A transaction is refused, or the process dies.
PathStops ==
    /\ path # NotRunning
    /\ path' = NotRunning
    /\ UNCHANGED <<rewardsVars, report, rents>>

PathStep ==
    ReadBefore \/ Stage \/ Unwrap \/ ReadUnwrapped \/ Distribute \/ ReadAfter \/ PathStops

-------------------------------------------------------------------------------
(***************************************************************************)
(* Others.                                                                 *)
(***************************************************************************)

\* Anyone unwraps or distributes.
OthersRun ==
    /\ \/ UnwrapCreatorFees
       \/ \E payees \in PayeeLists, t \in Vaults : DistributeRewards(payees, t)
    /\ UNCHANGED rents

FeesArrive ==
    \E amount \in Revenue :
        \/ CollectCurveFee(amount) /\ UNCHANGED rents
        \/ \E payer \in Officials :
              /\ CollectAmmFee(payer, amount)
              /\ rents' = rents + (IF vaultWsol = NoAccount THEN TokenRent ELSE 0)

Others ==
    /\ OthersRun \/ FeesArrive
    /\ path' = IF path = NotRunning THEN path ELSE [path EXCEPT !.alone = FALSE]
    /\ UNCHANGED report

PathNext == PathStep \/ Others

PathSpec == PathInit /\ [][PathNext]_pathVars

-------------------------------------------------------------------------------
(***************************************************************************)
(* Properties.                                                             *)
(***************************************************************************)

\* Types; a run is at one of its five awaits.
PathTypeOK ==
    /\ RewardsTypeOK
    /\ path # NotRunning =>
          path \in [at : {"stage", "unwrap", "read", "distribute", "report"},
                    treasury : Nat, vault : Nat, alone : BOOLEAN]
    /\ report # NotRunning =>
          report \in [distributed : Int, toTreasury : Int, alone : BOOLEAN]

InTheSystem ==
    lamports[CLERK] + lamports[VAULT] + vault
        + (IF vaultWsol = NoAccount THEN 0 ELSE vaultWsol + TokenRent)

\* "The money does not leave the system" (creator-path-mainnet.js:10): whatever
\* step the script stops at, and whoever runs the next one instead, what was
\* staged is with the clerk, the treasury or the vault.
MoneyStaysOurs ==
    InTheSystem = InitialLamports[CLERK] + InitialLamports[VAULT] + VaultRent
                     + earned + rents

TreasuryPart ==
    report.toTreasury =
       report.distributed - BpsOf(report.distributed, CLERK_REWARD_BPS)

\* If nobody else acts while the script runs, its arithmetic is right: also when
\* an earlier run stopped half way and left its money behind (line 114).
QuietReport == report # NotRunning /\ report.alone => TreasuryPart
===============================================================================
