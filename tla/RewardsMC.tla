------------------------------- MODULE RewardsMC -------------------------------
\* A small instance of Rewards for TLC.  Shares are quarters; revenue of one
\* and three lamports leaves dust; wallet balances start empty, so that a
\* small cut may not be payable.
EXTENDS Rewards, TLC

MCLamports == [k \in Keys |-> IF k \in Officials THEN 9 ELSE 0]

MCSymmetry == Permutations(Wallets)
===============================================================================
