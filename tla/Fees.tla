--------------------------------- MODULE Fees ---------------------------------
(***************************************************************************)
(* client/fees.js: the price a transaction bids per compute unit, from the *)
(* prioritization fees of recent slots.  The chain adds a slot at a time   *)
(* and forgets the oldest; the RPC node may be out of reach.               *)
(***************************************************************************)
EXTENDS Integers, Sequences, FiniteSets

CONSTANTS
    SlotFees,         \* what a slot may report, in microlamports
    MaxSlots,         \* slots the RPC node remembers
    Percentiles,      \* pairs <<a, b>> for a / b: what a caller may ask for
    FALLBACK_MICROLAMPORTS,
    MAX_MICROLAMPORTS

VARIABLES
    samples,          \* prioritizationFee of the recent slots, oldest first
    reachable         \* the RPC call succeeds

ASSUME FeesAssumption ==
    /\ SlotFees \subseteq Nat
    /\ MaxSlots \in Nat \ {0}
    /\ \A p \in Percentiles : p \in Nat \X (Nat \ {0}) /\ p[1] <= p[2]
    /\ MAX_MICROLAMPORTS \in Nat
    /\ FALLBACK_MICROLAMPORTS \in 1 .. MAX_MICROLAMPORTS

feesVars == <<samples, reachable>>

FeesInit == samples = <<>> /\ reachable \in BOOLEAN

\* The slots that paid anything.
PaidIn(list) == {i \in DOMAIN list : list[i] > 0}

\* Where slot i is among them from low to high; the sort keeps the order of equals.
Place(list, i) ==
    Cardinality({j \in PaidIn(list) :
                    list[j] < list[i] \/ (list[j] = list[i] /\ j <= i)})

\* What they paid, from low to high.
Paid(list) ==
    [k \in 1 .. Cardinality(PaidIn(list)) |->
        list[CHOOSE i \in PaidIn(list) : Place(list, i) = k]]

\* Mutant of Index: the nearest rank below.
IndexBelow(n, p) ==
    LET i == (n * p[1]) \div p[2] - 1
    IN  IF i > 0 THEN i ELSE 0

\* Counted from zero.
Index(n, p) ==
    LET i == (n * p[1]) \div p[2]
    IN  IF i < n - 1 THEN i ELSE n - 1

Clamp(fee) ==
    IF fee > MAX_MICROLAMPORTS THEN MAX_MICROLAMPORTS
    ELSE IF fee < 1 THEN 1 ELSE fee

EstimatePriorityFee(p) ==
    LET paid == Paid(samples)
    IN  IF ~ reachable \/ paid = <<>> THEN FALLBACK_MICROLAMPORTS
        ELSE Clamp(paid[Index(Len(paid), p) + 1])

NewSlot(fee) ==
    /\ samples' = IF Len(samples) < MaxSlots THEN Append(samples, fee)
                  ELSE Append(Tail(samples), fee)
    /\ UNCHANGED reachable

Network == reachable' = ~ reachable /\ UNCHANGED samples

FeesNext == Network \/ \E fee \in SlotFees : NewSlot(fee)

FeesSpec == FeesInit /\ [][FeesNext]_feesVars

-------------------------------------------------------------------------------
(***************************************************************************)
(* Properties.                                                             *)
(***************************************************************************)

\* Types; the node remembers no more than it can.
FeesTypeOK ==
    /\ samples \in Seq(SlotFees) /\ Len(samples) <= MaxSlots
    /\ reachable \in BOOLEAN

Slots(Test(_)) == Cardinality({i \in DOMAIN samples : Test(samples[i])})

PaidSlots == Slots(LAMBDA fee : fee > 0)

\* What a percentile is, without sorting: more than a / b of the slots that paid
\* anything (or all of them) paid no more than the estimate, and no lower bid
\* would reach as many (fees.js:46).
EstimateIsPercentile ==
    reachable /\ PaidSlots > 0 =>
        \A p \in Percentiles :
            LET bid == EstimatePriorityFee(p)
                reached == Slots(LAMBDA fee : fee > 0 /\ fee <= bid)
                below == Slots(LAMBDA fee : fee > 0 /\ fee < bid)
            IN  /\ \/ bid = MAX_MICROLAMPORTS \/ reached = PaidSlots
                   \/ reached * p[2] > PaidSlots * p[1]
                /\ below < PaidSlots
                /\ below * p[2] <= PaidSlots * p[1]
===============================================================================
