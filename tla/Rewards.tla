-------------------------------- MODULE Rewards --------------------------------
(***************************************************************************)
(* rewards.rs: creator revenue collects at a PDA of the program, natively  *)
(* while the mint is on the curve and as wrapped SOL after it graduates,   *)
(* and anyone may unwrap it and have it shared out.  The caller names the  *)
(* payees; the program makes sure that the list decides nothing.           *)
(***************************************************************************)
EXTENDS Registry, Sequences

CONSTANTS
    VaultRent,        \* rent of the creator vault, its reserve
    Revenue,          \* amounts of creator fees collected at once
    MaxEarned,        \* bound: creator fees collected in all
    MaxPayees,        \* bound: payees one call can name
    NoPayout          \* the last step distributed nothing

VARIABLES
    vaultOpen,        \* init_creator_vault has run
    vault,            \* lamports at the vault's address
    vaultWsol,        \* amount in the vault's WSOL account, or NoAccount
    earned,           \* history: creator fees collected so far
    payout            \* the last RewardsDistributed, if the last step emitted one

ASSUME RewardsAssumption ==
    /\ VaultRent \in Nat
    /\ SystemRent <= VaultRent
    /\ Revenue \subseteq Nat \ {0}
    /\ MaxEarned \in Nat /\ MaxPayees \in Nat

vaultVars == <<vaultOpen, vault, vaultWsol, earned>>
rewardsVars == <<registryVars, vaultVars, payout>>

RewardsDistributed == [total : Nat, to_agents : Nat, to_treasury : Nat]

ASSUME PayoutAssumption == NoPayout \notin RewardsDistributed

RewardsTypeOK ==
    /\ RegistryTypeOK
    /\ vaultOpen \in BOOLEAN
    /\ vault \in Nat
    /\ vaultWsol \in Nat \cup {NoAccount}
    /\ earned \in 0 .. MaxEarned
    /\ payout \in RewardsDistributed \cup {NoPayout}

RewardsInit ==
    /\ RegistryInit
    /\ vaultOpen = FALSE
    /\ vault = 0
    /\ vaultWsol = NoAccount
    /\ earned = 0
    /\ payout = NoPayout

-------------------------------------------------------------------------------
(***************************************************************************)
(* Money coming in.  Collection is pump.fun's, permissionless, and pays    *)
(* the address whether or not the vault is initialized there.              *)
(***************************************************************************)

Collect(amount) ==
    /\ earned + amount <= MaxEarned
    /\ earned' = earned + amount
    /\ signer' = NoKey
    /\ payout' = NoPayout

CollectCurveFee(amount) ==
    /\ Collect(amount)
    /\ vault + amount >= SystemRent
    /\ vault' = vault + amount
    /\ UNCHANGED <<chainVars, config, agents, vaultOpen, vaultWsol>>

\* Whoever triggers it opens the vault's WSOL account if there is none.
CollectAmmFee(payer, amount) ==
    /\ Collect(amount)
    /\ IF vaultWsol = NoAccount
       THEN /\ Commit(Debit(lamports, payer, TokenRent))
            /\ vaultWsol' = amount
       ELSE /\ vaultWsol' = vaultWsol + amount
            /\ UNCHANGED lamports
    /\ UNCHANGED <<clock, config, agents, vaultOpen, vault>>

-------------------------------------------------------------------------------
(***************************************************************************)
(* The program's instructions.                                             *)
(***************************************************************************)

\* `init` on an address that may hold lamports already: the payer tops them
\* up to the rent.
InitCreatorVaultAccounts(s) ==
    /\ HasOneAuthority(s)
    /\ ~ vaultOpen
    /\ LET missing == IF vault < VaultRent THEN VaultRent - vault ELSE 0
       IN  /\ Commit(Debit(lamports, s, missing))
           /\ vault' = vault + missing

InitCreatorVault(s) ==
    /\ InitCreatorVaultAccounts(s)
    /\ vaultOpen' = TRUE
    /\ payout' = NoPayout
    /\ UNCHANGED <<clock, config, agents, vaultWsol, earned>>

\* No signature is asked for: config and vault must exist, and the vault must
\* own the token account, which SPL Token checks on the close.
UnwrapAccounts ==
    /\ config # NoConfig
    /\ vaultOpen
    /\ vaultWsol # NoAccount
    /\ signer' = NoKey

\* CloseAccount: the balance and the rent both end in the vault.
UnwrapCreatorFees ==
    /\ UnwrapAccounts
    /\ vault' = vault + vaultWsol + TokenRent
    /\ vaultWsol' = NoAccount
    /\ payout' = NoPayout
    /\ UNCHANGED <<chainVars, config, agents, vaultOpen, earned>>

DistributeAccounts(treasury) ==
    /\ config # NoConfig
    /\ vaultOpen
    /\ treasury = config.treasury
    /\ signer' = NoKey

\* Mutant of Available: no reserve.
AvailableAll == vault

\* What the vault holds beyond the reserve that keeps it alive.
Available == IF vault > VaultRent THEN vault - VaultRent ELSE 0

Cut(w) == BpsOf(Available, agents[w].reward_bps)

\* The remaining accounts: pairs of an AgentAuth, named by the wallet it is
\* derived from, and a wallet to pay.
Pairs == [auth : Wallets, wallet : Wallets]

PayeeLists == UNION {[1 .. n -> Pairs] : n \in 0 .. MaxPayees}

\* read_agent succeeds only on an AgentAuth the program owns.
WellPaired(payees) ==
    \A i \in DOMAIN payees :
        /\ Registered(payees[i].auth)
        /\ payees[i].auth = payees[i].wallet

\* An agent without a share is skipped, before the check for repeats.
Sharing(payees) ==
    {i \in DOMAIN payees : agents[payees[i].auth].reward_bps > 0}

\* Mutant of NoRepeats: an entry is compared with itself as well.
NoRepeatsOffByOne(payees) ==
    \A i \in Sharing(payees), j \in DOMAIN payees :
        j <= i => payees[j].auth # payees[i].auth

NoRepeats(payees) ==
    \A i \in Sharing(payees), j \in DOMAIN payees :
        j < i => payees[j].auth # payees[i].auth

BpsTotal(payees) ==
    SumFunctionOnSet([i \in DOMAIN payees |-> agents[payees[i].auth].reward_bps],
                     Sharing(payees))

\* Mutant of Accepted: the hole of rewards.rs:91, any subset of the sharing
\* agents will do.
AcceptedAnySubset(payees) ==
    /\ WellPaired(payees)
    /\ NoRepeats(payees)
    /\ BpsTotal(payees) <= BPS_DENOMINATOR

\* All that the loop and the check after it demand of the list.
Accepted(payees) ==
    /\ WellPaired(payees)
    /\ NoRepeats(payees)
    /\ BpsTotal(payees) <= BPS_DENOMINATOR
    /\ BpsTotal(payees) = config.total_reward_bps

\* What the loop moves to wallet w, entry after entry.
PaidTo(payees, w) ==
    SumFunctionOnSet([i \in DOMAIN payees |-> Cut(payees[i].auth)],
                     {i \in Sharing(payees) : payees[i].wallet = w})

Paid(payees) ==
    SumFunctionOnSet([i \in DOMAIN payees |-> Cut(payees[i].auth)],
                     Sharing(payees))

\* Mutant of Remainder: the treasury gets everything again.
RemainderOfAll(payees) == Available

\* Rounding dust stays with what nobody was entitled to, for the treasury.
Remainder(payees) ==
    IF Available > Paid(payees) THEN Available - Paid(payees) ELSE 0

\* Mutant of Balances: what the treasury held is overwritten.
BalancesOverwritten(payees, treasury) ==
    [k \in Keys |->
        IF k = treasury THEN Remainder(payees)
        ELSE lamports[k] + (IF k \in Wallets THEN PaidTo(payees, k) ELSE 0)]

Balances(payees, treasury) ==
    [k \in Keys |->
        lamports[k] + (IF k \in Wallets THEN PaidTo(payees, k) ELSE 0)
                    + (IF k = treasury THEN Remainder(payees) ELSE 0)]

DistributeRewards(payees, treasury) ==
    /\ DistributeAccounts(treasury)
    /\ Available > 0
    /\ Accepted(payees)
    /\ vault >= Paid(payees)
    /\ Commit(Balances(payees, treasury))
    /\ vault' = vault - Paid(payees) - Remainder(payees)
    /\ payout' = [total |-> Available, to_agents |-> Paid(payees),
                  to_treasury |-> Remainder(payees)]
    /\ UNCHANGED <<clock, config, agents, vaultOpen, vaultWsol, earned>>

-------------------------------------------------------------------------------

Administration ==
    /\ RegistryNext
    /\ payout' = NoPayout
    /\ UNCHANGED vaultVars

RewardsStep ==
    \/ \E s \in Officials : InitCreatorVault(s)
    \/ \E amount \in Revenue :
          \/ CollectCurveFee(amount)
          \/ \E payer \in Officials : CollectAmmFee(payer, amount)
    \/ UnwrapCreatorFees
    \/ \E payees \in PayeeLists, treasury \in Vaults :
          DistributeRewards(payees, treasury)

RewardsNext == Administration \/ RewardsStep

RewardsSpec == RewardsInit /\ [][RewardsNext]_rewardsVars

-------------------------------------------------------------------------------
(***************************************************************************)
(* Properties.                                                             *)
(***************************************************************************)

Distributes == payout' # NoPayout

Entitled(k) ==
    IF k \in Wallets /\ Registered(k) THEN Cut(k) ELSE 0

\* "Anyone can trigger a payout; nobody can change where it goes" (rewards.rs:8):
\* every wallet gains exactly the cut its registered share entitles it to and
\* the treasury everything else, whatever list of payees the caller brought.
PayoutIsFixed ==
    [][Distributes =>
          LET all == SumFunctionOnSet([w \in Wallets |-> Entitled(w)], Wallets)
          IN  \A k \in Keys :
                 lamports'[k] - lamports[k] =
                    Entitled(k) + (IF k = config.treasury
                                   THEN Available - all ELSE 0)]_rewardsVars

\* "Never spend the account out of existence" (rewards.rs:37): the vault keeps
\* its rent, and a payout leaves nothing else behind.
VaultKeepsReserve ==
    [][/\ vaultOpen => vaultOpen' /\ vault' >= VaultRent
       /\ Distributes => vault' = VaultRent]_rewardsVars

Rents ==
    (IF config = NoConfig THEN 0 ELSE ConfigRent)
        + AgentRent * Cardinality({w \in Wallets : Registered(w)})

\* Lamports move by direct adjustment, so the program itself must not make or
\* lose any (rewards.rs:164): all there is, is what there was and what was earned.
NothingLost ==
    SumFunction(lamports) + Rents + vault
        + (IF vaultWsol = NoAccount THEN 0 ELSE vaultWsol + TokenRent)
    = SumFunction(InitialLamports) + earned

Sharers == {w \in Wallets : Registered(w) /\ agents[w].reward_bps > 0}

\* A recipient that is empty and stays below the rent of an account.
Starved(k) ==
    LET gain == Entitled(k) + (IF k = config.treasury
                  THEN Available - SumFunctionOnSet(
                          [w \in Wallets |-> Entitled(w)], Wallets)
                  ELSE 0)
    IN  lamports[k] = 0 /\ gain > 0 /\ gain < SystemRent

\* Whatever is in the vault can be paid out: the shares on record are such that
\* the list of all sharing agents is accepted, in any order, and the transfer
\* commits, unless some recipient is too poor to be paid so little.
PayoutReachable ==
    (vaultOpen /\ Available > 0) =>
        \A payees \in PayeeLists :
            ( /\ WellPaired(payees)
              /\ Sharing(payees) = DOMAIN payees
              /\ Len(payees) = Cardinality(Sharers)
              /\ {payees[i].auth : i \in DOMAIN payees} = Sharers )
            => /\ Accepted(payees)
               /\ vault >= Paid(payees) + Remainder(payees) + VaultRent
               /\ (\A k \in Keys : ~ Starved(k)) =>
                     RentExempt(Balances(payees, config.treasury))
===============================================================================
