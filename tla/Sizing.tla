-------------------------------- MODULE Sizing --------------------------------
(***************************************************************************)
(* client/sizing.js: how large a buy the client allows itself, the         *)
(* smallest of four ceilings.  All amounts are lamports, BigInt in the     *)
(* source, so nothing overflows and division truncates.                    *)
(***************************************************************************)
EXTENDS Integers

CONSTANTS
    TradeBps,         \* share of the tradable balance for one trade
    DailyBps,         \* share of the tradable balance for one day
    ReserveLamports,  \* what is never traded
    BPS               \* the whole, in basis points

ASSUME SizingAssumption ==
    /\ TradeBps \in Nat /\ DailyBps \in Nat /\ ReserveLamports \in Nat
    /\ BPS \in Nat \ {0}

Limits ==
    [balance : Nat, absoluteCap : Nat, dailyCap : Nat, spentToday : Nat]

Smaller(a, b) == IF a < b THEN a ELSE b

ClampZero(v) == IF v < 0 THEN 0 ELSE v

Tradable(l) == ClampZero(l.balance - ReserveLamports)

\* A share of the tradable balance, rounded down.
ShareOfTradable(l, bps) == (Tradable(l) * bps) \div BPS

PerTrade(l) == ShareOfTradable(l, TradeBps)

DailyAllowance(l) == ShareOfTradable(l, DailyBps)

\* What is left today of a daily ceiling.
LeftOf(ceiling, l) == ClampZero(ceiling - l.spentToday)

\* Mutant of MaxBuy: no trade is held to its share of the balance.
MaxBuyOfADay(l) ==
    Smaller(l.absoluteCap,
            Smaller(LeftOf(l.dailyCap, l), LeftOf(DailyAllowance(l), l)))

MaxBuy(l) ==
    Smaller(Smaller(l.absoluteCap, PerTrade(l)),
            Smaller(LeftOf(l.dailyCap, l), LeftOf(DailyAllowance(l), l)))

\* assertWithinBudget throws unless this holds.
WithinBudget(l, size) == size <= MaxBuy(l)
===============================================================================
