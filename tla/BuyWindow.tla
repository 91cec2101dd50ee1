------------------------------- MODULE BuyWindow -------------------------------
(***************************************************************************)
(* Trading with a history of when each ceiling was committed, to ask what  *)
(* an agent can spend in any stretch of one day, whenever it starts.       *)
(***************************************************************************)
EXTENDS Trading

VARIABLE
    bought            \* history: wallet -> second -> ceilings committed then

\* Somebody may ask for some limit, or no agent is ever registered.
ASSUME WindowAssumption == LimitArgs # {}

windowVars == <<tradingVars, bought>>

WindowInit ==
    /\ TradingInit
    /\ bought = [w \in Wallets |-> [t \in 0 .. MaxClock |-> 0]]

\* Midnight resets what is committed; only a trade adds to it.
BoughtNow(w) == IF event' = NoEvent THEN 0 ELSE committed'[w] - committed[w]

WindowNext ==
    /\ TradingNext
    /\ bought' = [w \in Wallets |->
                    [bought[w] EXCEPT ![clock] = @ + BoughtNow(w)]]

WindowSpec == WindowInit /\ [][WindowNext]_windowVars

\* The day that starts at second t.
Stretch(t) == {u \in 0 .. MaxClock : t <= u /\ u < t + SECONDS_PER_DAY}

BoughtFrom(w, t) == SumFunctionOnSet(bought[w], Stretch(t))

\* No limit anybody set was higher than this.
HighestLimit == CHOOSE l \in LimitArgs : \A m \in LimitArgs : m <= l

\* "Cannot exceed a daily budget on a buy: rolling window on AgentAuth"
\* (SECURITY.md:16): no stretch of one day holds more than a day's budget.
RollingWindow ==
    \A w \in Wallets, t \in 0 .. MaxClock : BoughtFrom(w, t) <= HighestLimit

\* What the calendar days of guards.rs:17 do ensure: a stretch of one day meets
\* two calendar days, and never holds more than two budgets.
TwoBudgetsAtMost ==
    \A w \in Wallets, t \in 0 .. MaxClock :
        BoughtFrom(w, t) <= 2 * HighestLimit
===============================================================================
