-------------------------------- MODULE Solana --------------------------------
(***************************************************************************)
(* What the router takes from the chain it runs on, as src/ relies on it:  *)
(* the lamports every key holds, the clock a program reads, and the        *)
(* runtime's rule that an instruction happens whole or not at all.  An     *)
(* instruction that fails leaves no trace, so it is a disabled action.     *)
(***************************************************************************)
EXTENDS Integers, FiniteSets, Functions

CONSTANTS
    Keys,             \* addresses of system accounts: people, wallets, vaults
    InitialLamports,  \* what each of them holds at the start
    SystemRent,       \* least balance of a rent exempt account with no data
    TokenRent,        \* rent of an SPL token account
    NoAccount,        \* the balance of a token account that does not exist
    MaxClock          \* bound: the last second the model reaches

VARIABLES
    lamports,         \* key -> balance
    clock             \* Clock::get()?.unix_timestamp

RentExempt(balances) ==
    \A k \in Keys : balances[k] = 0 \/ balances[k] >= SystemRent

ASSUME ChainAssumption ==
    /\ IsFiniteSet(Keys)
    /\ SystemRent \in Nat /\ TokenRent \in Nat
    /\ NoAccount \notin Nat
    /\ MaxClock \in Nat
    /\ InitialLamports \in [Keys -> Nat]
    /\ RentExempt(InitialLamports)

chainVars == <<lamports, clock>>

ChainTypeOK ==
    /\ lamports \in [Keys -> Nat]
    /\ clock \in 0 .. MaxClock

ChainInit ==
    /\ lamports = InitialLamports
    /\ clock = 0

\* The System program's transfer, on a table of balances: first one account,
\* then the other, so that a transfer to oneself changes nothing.
Move(balances, from, to, amount) ==
    LET taken == [balances EXCEPT ![from] = @ - amount]
    IN  [taken EXCEPT ![to] = @ + amount]

\* Lamports leave k for an account outside Keys.
Debit(balances, k, amount) == [balances EXCEPT ![k] = @ - amount]

\* A transaction commits only if nobody ends overdrawn, or left with an
\* amount that is neither nothing nor rent exempt.
Commit(balances) ==
    /\ \A k \in Keys : balances[k] >= 0
    /\ RentExempt(balances)
    /\ lamports' = balances

Tick ==
    /\ clock < MaxClock
    /\ clock' = clock + 1
    /\ UNCHANGED lamports
===============================================================================
