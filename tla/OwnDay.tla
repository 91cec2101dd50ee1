-------------------------------- MODULE OwnDay --------------------------------
(***************************************************************************)
(* What the client's sizing promises about a day, with nothing of how a    *)
(* trade is built, sent or refused.  Several traders size against one      *)
(* purse.  Each looks at what was paid today, and decides later, on that   *)
(* and on what the purse held at a moment of its own; it sees nothing of   *)
(* what the others have decided and not paid, and what is decided before   *)
(* midnight may be paid after it.  The purse changes by itself.            *)
(***************************************************************************)
EXTENDS Sizing, FiniteSets

CONSTANTS
    Traders,
    Sizes,            \* sizes of buys, a set of naturals
    Nothing           \* a trader has not looked

VARIABLES
    purse,            \* what the agent holds
    richest,          \* the most it has ever held
    spent,            \* what was paid today
    view,             \* trader -> what it takes for spent today, or Nothing
    held              \* trader -> what it has decided and not paid, or 0

ownDayVars == <<purse, richest, spent, view, held>>

\* Limits as far as the two shares of the balance depend on them.
Holding(amount) ==
    [balance |-> amount, absoluteCap |-> 0, dailyCap |-> 0, spentToday |-> 0]

ADay(amount) == DailyAllowance(Holding(amount))

APosition(amount) == PerTrade(Holding(amount))

Init ==
    /\ purse \in Nat /\ richest = purse
    /\ spent = 0
    /\ view = [t \in Traders |-> Nothing]
    /\ held = [t \in Traders |-> 0]

Sees(t, amount) == view' = [view EXCEPT ![t] = amount]

Holds(t, size) == held' = [held EXCEPT ![t] = size]

Look(t) ==
    /\ held[t] = 0 /\ view[t] = Nothing
    /\ Sees(t, spent)
    /\ UNCHANGED <<purse, spent, held>>

Decide(t, size) ==
    /\ view[t] # Nothing
    /\ \E balance \in 0 .. richest :
          /\ size <= APosition(balance)
          /\ view[t] + size <= ADay(balance)
    /\ Sees(t, Nothing) /\ Holds(t, size)
    /\ UNCHANGED <<purse, spent>>

Drop(t) == Sees(t, Nothing) /\ Holds(t, 0) /\ UNCHANGED <<purse, spent>>

Pay(t) ==
    /\ Holds(t, 0) /\ spent' = spent + held[t]
    /\ purse' \in Nat
    /\ UNCHANGED view

Drift == purse' \in Nat /\ UNCHANGED <<spent, view, held>>

\* What was seen yesterday is nothing today.
NewDay ==
    /\ spent' = 0
    /\ view' = [t \in Traders |-> IF view[t] = Nothing THEN Nothing ELSE 0]
    /\ UNCHANGED <<purse, held>>

Next ==
    /\ \/ \E t \in Traders :
             \/ Look(t) \/ Drop(t) \/ Pay(t)
             \/ \E size \in Sizes : Decide(t, size)
       \/ Drift
       \/ NewDay
    /\ richest' = IF purse' > richest THEN purse' ELSE richest

Spec == Init /\ [][Next]_ownDayVars

\* Together the traders overrun a day of the purse at its best, but each of
\* them only by one position, and one of them not at all.
Bounded ==
    spent <= ADay(richest) + (Cardinality(Traders) - 1) * APosition(richest)
===============================================================================
