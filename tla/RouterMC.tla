------------------------------- MODULE RouterMC -------------------------------
\* A small instance of Router for TLC, with the drills: the clerk trades and may
\* share in the rewards, and two vaults take fees and what is left of the rewards.
\* Some of the terms asked for are ones the program refuses.
EXTENDS GuardDrill

MCLamports == [k \in Keys |-> IF k \in Wallets THEN 3
                              ELSE IF k \in Officials THEN 3 ELSE 0]

MCReserves == [curve |-> 1, pool |-> 0, rent |-> 0]
===============================================================================
