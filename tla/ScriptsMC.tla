------------------------------- MODULE ScriptsMC -------------------------------
\* A small instance for TLC of the operator scripts.  In a behaviour one of them is
\* run, by one operator or several, among what others do meanwhile; the rest of the
\* scripts stay idle.  All but init-mainnet.js begin with the router as deployed.
\* In one kind of behaviour no script runs: every instruction of Registry is issued
\* by hand, in any order and with any argument, on a program just deployed.
EXTENDS AdminScript, CreatorPath, Outsider, Deploy

CONSTANT o1

VARIABLE script

vaultSide == <<vaultVars, payout>>

trialVars == <<trial, verdict>>

scriptsVars == <<rewardsVars, shellVars, runVars, trialVars, setupVars, script>>

ScriptsInit ==
    /\ script \in {"admin", "creator-path", "outsider", "init", "none"}
    /\ IF script \in {"init", "none"} THEN RewardsInit ELSE DeployedWithVault
    /\ ShellsIdle /\ PathIdle /\ TrialIdle /\ SetupIdle

AdminRuns ==
    script = "admin" /\ ScriptNext /\ UNCHANGED <<vaultSide, runVars, trialVars, setupVars>>

PathRuns ==
    script = "creator-path" /\ PathNext /\ UNCHANGED <<shellVars, trialVars, setupVars>>

TrialRuns ==
    script = "outsider" /\ TrialNext /\ UNCHANGED <<vaultSide, runVars, shellVars, setupVars>>

SetupRuns ==
    script = "init" /\ DeployNext /\ UNCHANGED <<shellVars, runVars, trialVars>>

ByHand ==
    /\ script = "none" /\ RegistryNext
    /\ UNCHANGED <<vaultSide, shellVars, runVars, trialVars, setupVars>>

ScriptsNext ==
    /\ AdminRuns \/ PathRuns \/ TrialRuns \/ SetupRuns \/ ByHand
    /\ UNCHANGED script

\* The fairness of FairDeploySpec, where init-mainnet.js is what is run.
SetupStepRuns(h) ==
    /\ script = "init" /\ SetupStep(h)
    /\ UNCHANGED <<shellVars, runVars, trialVars, script>>

ScriptsSpec ==
    /\ ScriptsInit /\ [][ScriptsNext]_scriptsVars
    /\ \A h \in Shells : WF_scriptsVars(SetupStepRuns(h))

\* The types of what every script holds.
ScriptsTypeOK == ScriptTypeOK /\ PathTypeOK /\ TrialTypeOK /\ DeployTypeOK

\* MoneyStaysOurs of CreatorPath (creator-path-mainnet.js:10), where that script is
\* what is run.
PathMoneyStaysOurs == script = "creator-path" => MoneyStaysOurs

\* SetupEnds of Deploy (init-mainnet.js:1), where that script is what is run.
SetupRunEnds == script = "init" => SetupEnds

\* Two operators; one holds the key that the other's may be rotated to.
MCKeyOf == [o \in Operators |-> IF o = o1 THEN FUNDER ELSE RIVAL]

MCLamports == [k \in Keys |-> IF k = CLERK THEN 9 ELSE IF k \in Officials THEN 8 ELSE 3]
===============================================================================
