------------------------------- MODULE Allowance -------------------------------
(***************************************************************************)
(* What the router promises about spending, with nothing of how it keeps   *)
(* the promise: every account may spend up to its limit on each day, and a *)
(* new day gives everybody a fresh allowance at once.  Limits may be moved *)
(* at any time; one lowered below what was already spent stops spending.   *)
(***************************************************************************)
EXTENDS Integers

CONSTANTS
    Holders,
    Lamports,         \* limits and amounts, a set of naturals
    Closed            \* the limit of a holder that has no account yet

VARIABLES
    limit,            \* holder -> its daily limit, or Closed
    spent,            \* holder -> what it spent today
    day

allowanceVars == <<limit, spent, day>>

Init ==
    /\ limit = [h \in Holders |-> Closed]
    /\ spent = [h \in Holders |-> 0]
    /\ day = 0

SetLimit(h, l) ==
    /\ limit' = [limit EXCEPT ![h] = l]
    /\ UNCHANGED <<spent, day>>

Spend(h, amount) ==
    /\ limit[h] # Closed
    /\ spent[h] + amount <= limit[h]
    /\ spent' = [spent EXCEPT ![h] = @ + amount]
    /\ UNCHANGED <<limit, day>>

NewDay ==
    /\ day' = day + 1
    /\ spent' = [h \in Holders |-> 0]
    /\ UNCHANGED limit

Next ==
    \/ \E h \in Holders :
          \/ \E l \in Lamports : SetLimit(h, l)
          \/ \E amount \in Lamports \ {0} : Spend(h, amount)
    \/ NewDay

Spec == Init /\ [][Next]_allowanceVars
===============================================================================
