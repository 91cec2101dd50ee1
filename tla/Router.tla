-------------------------------- MODULE Router --------------------------------
(***************************************************************************)
(* The whole program of lib.rs: trading and creator rewards over the same  *)
(* config, the same agents and the same lamports.                          *)
(***************************************************************************)
EXTENDS Trading, Rewards

routerVars == <<tradingVars, vaultVars, payout>>

RouterInit == TradingInit /\ RewardsInit

\* Buying, selling, wrapping, administration, and time.
TradingSide ==
    /\ TradingNext
    /\ payout' = NoPayout
    /\ UNCHANGED vaultVars

\* Revenue, and its way out.
RewardsSide ==
    /\ RewardsStep
    /\ event' = NoEvent
    /\ UNCHANGED <<venueVars, committed>>

RouterNext == TradingSide \/ RewardsSide

RouterSpec == RouterInit /\ [][RouterNext]_routerVars

-------------------------------------------------------------------------------
(***************************************************************************)
(* Properties.                                                             *)
(***************************************************************************)

Wrapped(w) == IF wsol[w] = NoAccount THEN 0 ELSE wsol[w] + TokenRent

\* Trading measures what others moved, rewards move lamports by hand, and both
\* pay out of and into the same accounts (rewards.rs:164, guards.rs:42): all that
\* wallets, venues, the vault and the rent of accounts hold, is what there was
\* and what was earned.
EveryLamport ==
    SumFunction(lamports) + Rents
        + vault + (IF vaultWsol = NoAccount THEN 0 ELSE vaultWsol + TokenRent)
        + SumFunction([w \in Wallets |-> Wrapped(w)])
        + reserves.curve + reserves.pool + reserves.rent
    = SumFunction(InitialLamports) + InitialReserves.curve + InitialReserves.pool
        + InitialReserves.rent + earned

\* Router fees and the unassigned rewards reach a key that signs nothing
\* (state.rs:57): whatever arrived there stays, whatever instruction of the
\* program runs, and in whatever order.
RevenueStays ==
    [][\A v \in Vaults \ (Wallets \cup Officials) : lamports'[v] >= lamports[v]]_routerVars
===============================================================================
