---------------------------- MODULE TradeClientMC ----------------------------
\* A small instance of TradeClient for TLC: shares of quarters, a position is
\* half of what is tradable and a day three quarters of it.
EXTENDS TradeClient, TLC

MCLamports == [k \in Keys |-> IF k = Agent THEN 10 ELSE 1]

MCReserves == [curve |-> 0, pool |-> 0, rent |-> 0]

\* A curve on which somebody else has left a profit.
MCStocked == [curve |-> 4, pool |-> 0, rent |-> 0]

\* The limit of those who register themselves is read by no action of a client:
\* one value stands for all.  That of the agent starts at its largest, and may be
\* lowered.  The vaults are alike: one of them is the first.
MCClientInit ==
    /\ ClientInit
    /\ config.default_daily_limit = CHOOSE l \in LimitArgs : TRUE
    /\ \A l \in LimitArgs : agents[Agent].daily_limit >= l
    /\ config.fee_vault = CHOOSE v \in Vaults : TRUE

MCClientSpec == MCClientInit /\ [][ClientNext]_clientVars

MCFairClientSpec == MCClientSpec /\ ClientFairness

\* No action reads who signed last or what the last trade emitted.
MCView ==
    <<clock, lamports, config, agents, wsol, reserves, complete, committed, pool,
      attemptVars, fresh, richest, buys, troubles>>

MCSymmetry == Permutations(Runs)
===============================================================================
