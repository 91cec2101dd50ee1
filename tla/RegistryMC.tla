------------------------------ MODULE RegistryMC ------------------------------
\* A small instance of Registry for TLC: two wallets, two keys that may hold
\* the authority, one vault, the rates of the deployed program.
EXTENDS Registry, TLC

\* Enough for each key to pay the rents it may have to, or one short.
MCLamports == [k \in Keys |-> IF k \in Officials THEN 4
                              ELSE IF k \in Wallets THEN 2 ELSE 0]

MCSymmetry == Permutations(Wallets)
===============================================================================
