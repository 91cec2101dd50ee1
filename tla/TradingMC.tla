------------------------------- MODULE TradingMC -------------------------------
\* A small instance of Trading for TLC: rates are scaled down (a fee of one
\* half at most) so that amounts of one and two lamports show the rounding.
EXTENDS Trading

MCLamports == [k \in Keys |-> IF k \in Wallets THEN 4 ELSE 1]

MCReserves == [curve |-> 1, pool |-> 0, rent |-> 0]
===============================================================================
