-------------------------------- MODULE Quote --------------------------------
(***************************************************************************)
(* How client/trade.js turns a size into the exact amount of tokens a buy  *)
(* asks for, and what becomes of the order while others trade.  The venue  *)
(* is a constant product that rounds in its own favour, charges a fee on   *)
(* top of the cost, and may count quote reserves that its token accounts   *)
(* do not show: the tolerance of an order has to cover all of it.          *)
(***************************************************************************)
EXTENDS Integers

CONSTANTS
    InitialBase, InitialQuote,
    MaxBase,          \* bound: tokens in the pool
    MaxQuote,         \* bound: lamports in the pool
    Steps,            \* amounts of tokens others trade at once
    Spends,           \* sizes of buys, in lamports
    Slippages,        \* tolerances, in basis points
    BPS,
    VirtualQuote,     \* quote reserves that no token account holds
    VenueFee,         \* what the venue keeps of a buy, in basis points of its cost
    NoOrder

VARIABLES
    base, quote,      \* what the venue's two accounts hold
    order,            \* the buy that is on its way, or NoOrder
    quiet             \* history: nobody traded since the order was made

ASSUME QuoteAssumption ==
    /\ InitialBase \in 1 .. MaxBase /\ MaxBase \in Nat
    /\ InitialQuote \in 1 .. MaxQuote /\ MaxQuote \in Nat
    /\ Steps \subseteq Nat \ {0} /\ Spends \subseteq Nat \ {0}
    /\ BPS \in Nat \ {0}
    /\ Slippages \subseteq 0 .. BPS - 1
    /\ VirtualQuote \in Nat /\ VenueFee \in Nat

\* `expected` is history: what the reserves that were read say the size buys.
Order == [out : Nat, expected : Nat, spend : Spends, slippage : Slippages]

ASSUME OrderAssumption == NoOrder \notin Order

quoteVars == <<base, quote, order, quiet>>

QuoteTypeOK ==
    /\ base \in 1 .. MaxBase
    /\ quote \in Nat \ {0}
    /\ order \in Order \cup {NoOrder}
    /\ quiet \in BOOLEAN

QuoteInit ==
    /\ base = InitialBase /\ quote = InitialQuote
    /\ order = NoOrder
    /\ quiet = TRUE

-------------------------------------------------------------------------------

Expected(b, q, spend) == (b * spend) \div (q + spend)

\* Mutant of QuoteOut: half the quote, as tests/forked-amm.js:156 asks for.
QuoteOutHalved(b, q, spend, slippage) == Expected(b, q, spend) \div 2

\* Mutant of QuoteOut: the tolerance is taken off the size, not off what it buys.
QuoteOutOfLess(b, q, spend, slippage) ==
    Expected(b, q, (spend * (BPS - slippage)) \div BPS)

QuoteOut(b, q, spend, slippage) ==
    (Expected(b, q, spend) * (BPS - slippage)) \div BPS

\* What the venue asks for exactly `out` tokens, and what it pays for them.
Cost(b, q, out) == (q * out + (b - out) - 1) \div (b - out)

Proceeds(b, q, n) == (q * n) \div (b + n)

\* A cost and the fee on it, and the largest cost that a size pays with its fee.
WithFee(cost) == cost + (cost * VenueFee + BPS - 1) \div BPS

Net(spend) == (spend * BPS) \div (BPS + VenueFee)

Priced == quote + VirtualQuote

\* The reserves are read off the two accounts.
Ask(spend, slippage) ==
    /\ order = NoOrder
    /\ quote + spend <= MaxQuote
    /\ order' = [out |-> QuoteOut(base, quote, spend, slippage),
                 expected |-> Expected(base, quote, spend),
                 spend |-> spend, slippage |-> slippage]
    /\ quiet' = TRUE
    /\ UNCHANGED <<base, quote>>

Bought(n) ==
    /\ base' = base - n
    /\ quote' = quote + Cost(base, Priced, n)

Fits == order.out < base /\ WithFee(Cost(base, Priced, order.out)) <= order.spend

\* Exactly what was asked for, at no more than the size; else it fails.
Fill ==
    /\ order # NoOrder
    /\ order' = NoOrder
    /\ IF order.out > 0 /\ Fits
       THEN Bought(order.out)
       ELSE UNCHANGED <<base, quote>>
    /\ UNCHANGED quiet

OthersBuy(n) ==
    /\ n < base /\ quote + Cost(base, Priced, n) <= MaxQuote
    /\ Bought(n)
    /\ quiet' = FALSE
    /\ UNCHANGED order

OthersSell(n) ==
    /\ base + n <= MaxBase
    /\ Proceeds(base, Priced, n) < quote
    /\ base' = base + n
    /\ quote' = quote - Proceeds(base, Priced, n)
    /\ quiet' = FALSE
    /\ UNCHANGED order

\* Somebody takes out a share of both reserves.
OthersWithdraw(n) ==
    /\ n < quote
    /\ quote' = quote - n
    /\ base' = base - (base * n) \div quote
    /\ quiet' = FALSE
    /\ UNCHANGED order

QuoteNext ==
    \/ \E spend \in Spends, slippage \in Slippages : Ask(spend, slippage)
    \/ Fill
    \/ \E n \in Steps : OthersBuy(n) \/ OthersSell(n) \/ OthersWithdraw(n)

QuoteSpec == QuoteInit /\ [][QuoteNext]_quoteVars

-------------------------------------------------------------------------------
(***************************************************************************)
(* Properties.                                                             *)
(***************************************************************************)

\* What the size buys at the venue now, of which its fee has gone.
BuysNow == Expected(base, Priced, Net(order.spend))

\* "Asking for less than the quote is what creates room for the price to move"
\* (trade.js:71): whatever others trade, withdraw and charge between the reading
\* of the reserves and the order's turn, it is filled as long as they and the
\* reserves that were not read take no more than the tolerance off what was read.
RoomToMove ==
    ( /\ order # NoOrder /\ order.out > 0
      /\ BuysNow * BPS >= order.expected * (BPS - order.slippage) )
    => Fits

\* The tolerance covers the fee and the reserves that no account holds.
Covered ==
    (BPS - order.slippage) * order.spend * (Priced + Net(order.spend))
        <= BPS * Net(order.spend) * (quote + order.spend)

\* "Ask for what the reserves say the money buys" (trade.js:165): where the
\* tolerance covers what the reading does not show, a buy is within its size if
\* nobody trades in between.
QuietBuyFits ==
    order # NoOrder /\ order.out > 0 /\ quiet /\ Covered => Fits

\* "Halving the output instead would spend about half the size asked for"
\* (trade.js:166): both roundings together lose two tokens at most.  With two
\* more, an order at rest would cost all of its size but the tolerance.
AsksForItsWorth ==
    order # NoOrder /\ quiet /\ order.out + 2 < base =>
        Cost(base, quote, order.out + 2)
           * (quote * BPS + order.slippage * order.spend)
        >= (BPS - order.slippage) * order.spend * quote
===============================================================================
