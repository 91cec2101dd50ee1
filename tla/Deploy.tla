-------------------------------- MODULE Deploy --------------------------------
(***************************************************************************)
(* scripts/init-mainnet.js: three transactions that set the router up, each *)
(* skipped if its account is there.  The script dies, loses a transaction,  *)
(* is refused, and is run again, maybe by two operators at a time; a key    *)
(* that is not ours may be the first to initialize, the clerk may register  *)
(* itself, and revenue may arrive before there is a vault.                  *)
(***************************************************************************)
EXTENDS Rewards, Operations

CONSTANTS
    Shells,           \* where the script runs
    RIVAL,            \* a key that is not ours
    NoReport,
    MaxTroubles       \* bound: deaths and lost transactions

VARIABLES
    at,               \* shell -> the await its run is at, or Off
    reported,         \* shell whose run just printed its report, or NoReport
    quiet,            \* history: nobody but the script touched config or clerk
    troubles          \* counter of the bound

ASSUME DeployAssumption ==
    /\ RIVAL \in Officials \ {FUNDER}
    /\ NoReport \notin Shells
    /\ MaxTroubles \in Nat

setupVars == <<at, reported, quiet, troubles>>
deployVars == <<rewardsVars, setupVars>>

Steps == 1 .. 3

Off == <<"off", 0>>

Awaits == {Off} \cup ({"look", "send"} \X Steps)

SetupIdle ==
    /\ at = [h \in Shells |-> Off]
    /\ reported = NoReport /\ quiet = TRUE /\ troubles = 0

DeployInit == RewardsInit /\ SetupIdle

-------------------------------------------------------------------------------

\* The account of a step, as the program opens it.
Opened(k) ==
    CASE k = 1 -> config # NoConfig
      [] k = 2 -> vaultOpen
      [] k = 3 -> Registered(CLERK)

\* Revenue came before its vault.
VaultTaken == vault > 0 /\ ~ vaultOpen

\* Mutant of Exists: what is initialized is taken for set up.
ExistsAtAll(k) == config # NoConfig

\* What getAccountInfo finds at its address, whoever put it there.
Exists(k) == Opened(k) \/ (k = 2 /\ VaultTaken)

AgreedArgs ==
    [fee_bps |-> FEE_BPS, max_lamports_per_trade |-> MAX_PER_TRADE,
     default_daily_limit |-> DEFAULT_DAILY]

\* Its instruction, signed by the funder.
SetUp(k) ==
    \/ /\ k = 1
       /\ Initialize(FUNDER, VAULT, VAULT, AgreedArgs)
       /\ payout' = NoPayout /\ UNCHANGED vaultVars
    \/ k = 2 /\ InitCreatorVault(FUNDER)
    \/ /\ k = 3
       /\ RegisterAgent(FUNDER, CLERK, CLERK_DAILY, CLERK_REWARD_BPS, CLERK_FEE_BPS)
       /\ payout' = NoPayout /\ UNCHANGED vaultVars

Reaches(h, await) == at' = [at EXCEPT ![h] = await]

\* After a step comes the next one; after the last, the report.
Proceeds(h, k) ==
    IF k = 3 THEN Reaches(h, Off) /\ reported' = h
             ELSE Reaches(h, <<"look", k + 1>>) /\ reported' = NoReport

Begin(h) ==
    /\ at[h] = Off
    /\ Reaches(h, <<"look", 1>>)
    /\ reported' = NoReport
    /\ UNCHANGED <<rewardsVars, quiet, troubles>>

\* Mutant of Look: the step is taken in any case.
LookAndSend(h, k) ==
    /\ at[h] = <<"look", k>>
    /\ Reaches(h, <<"send", k>>) /\ reported' = NoReport
    /\ UNCHANGED <<rewardsVars, quiet, troubles>>

Look(h, k) ==
    /\ at[h] = <<"look", k>>
    /\ IF Exists(k) THEN Proceeds(h, k)
                    ELSE Reaches(h, <<"send", k>>) /\ reported' = NoReport
    /\ UNCHANGED <<rewardsVars, quiet, troubles>>

Send(h, k) ==
    /\ at[h] = <<"send", k>>
    /\ SetUp(k)
    /\ Proceeds(h, k)
    /\ UNCHANGED <<quiet, troubles>>

Stops(h) ==
    /\ Reaches(h, Off) /\ reported' = NoReport
    /\ UNCHANGED <<rewardsVars, quiet>>

\* Somebody else was first, with the account or with the whole router.
Refused(h, k) ==
    /\ at[h] = <<"send", k>>
    /\ Opened(k) \/ (k > 1 /\ config.authority # FUNDER)
    /\ Stops(h)
    /\ UNCHANGED troubles

\* The process dies, or what it sent is lost or outlives its patience.
Dies(h) ==
    /\ at[h] # Off
    /\ troubles < MaxTroubles /\ troubles' = troubles + 1
    /\ \/ Stops(h)
       \/ \E k \in Steps :
             /\ at[h] = <<"send", k>>
             /\ SetUp(k)
             /\ Reaches(h, Off) /\ reported' = NoReport
             /\ UNCHANGED quiet

SetupStep(h) ==
    Begin(h) \/ \E k \in Steps : Look(h, k) \/ Send(h, k) \/ Refused(h, k)

\* Accounts are opened and terms changed by others than the script.
OthersInterfere ==
    /\ \/ \E v \in Vaults : Initialize(RIVAL, v, v, AgreedArgs)
       \/ \E limit \in LimitArgs : SelfRegister(CLERK, limit)
       \/ \E args \in ConfigArgs : UpdateConfig(FUNDER, VAULT, VAULT, args)
    /\ quiet' = FALSE
    /\ payout' = NoPayout /\ reported' = NoReport
    /\ UNCHANGED <<vaultVars, at, troubles>>

EarlyRevenue ==
    /\ \E amount \in Revenue :
          CollectCurveFee(amount) \/ CollectAmmFee(RIVAL, amount)
    /\ reported' = NoReport
    /\ UNCHANGED <<at, quiet, troubles>>

DeployNext ==
    \/ \E h \in Shells : SetupStep(h) \/ Dies(h)
    \/ OthersInterfere \/ EarlyRevenue

DeploySpec == DeployInit /\ [][DeployNext]_deployVars

\* Somebody goes on running the script.
FairDeploySpec ==
    DeploySpec /\ \A h \in Shells : WF_deployVars(SetupStep(h))

-------------------------------------------------------------------------------
(***************************************************************************)
(* Properties.                                                             *)
(***************************************************************************)

DeployTypeOK ==
    /\ RewardsTypeOK
    /\ at \in [Shells -> Awaits]
    /\ reported \in Shells \cup {NoReport}
    /\ quiet \in BOOLEAN /\ troubles \in 0 .. MaxTroubles

\* "Idempotent by inspection" (init-mainnet.js:2): however often the script
\* died, lost a transaction or ran beside itself, a run that comes to its end
\* leaves the router as agreed (line 18), with everything paid once and opened,
\* but for a vault that revenue came before.
QuietRunDeploys ==
    reported # NoReport /\ quiet =>
        /\ config = AgreedConfig /\ agents[CLERK] = AgreedClerk
        /\ VaultTaken \/ (vaultOpen /\ vault >= VaultRent)
        /\ lamports[FUNDER] >=
              InitialLamports[FUNDER] - ConfigRent - AgentRent - VaultRent

\* "Skips whichever account already exists" (init-mainnet.js:2), and so leaves none
\* out: the account of each step is there, as the program opens it, when a run that
\* nobody interferes with comes to its end.
SkipsOnlyOpened ==
    reported # NoReport /\ quiet => \A k \in Steps : Opened(k)

\* "Setup" (init-mainnet.js:1) gets done, as long as nobody else takes the router:
\* after crashes at any await every account is there, opened or, the vault, taken.
SetupEnds ==
    [](config # NoConfig => config.authority = FUNDER)
        => <>(\A k \in Steps : Exists(k))
===============================================================================
