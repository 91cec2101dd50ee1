------------------------------ MODULE BuyWindowMC ------------------------------
\* A small instance of BuyWindow for TLC: days of two seconds, and one limit, so
\* that nothing but the clock decides.
EXTENDS BuyWindow, TLC

MCLamports == [k \in Keys |-> IF k \in Wallets THEN 3 ELSE 1]

MCReserves == [curve |-> 0, pool |-> 0, rent |-> 0]

MCSymmetry == Permutations(Wallets)
===============================================================================
