------------------------------ MODULE DeskProofs ------------------------------
(***************************************************************************)
(* What happens off the chain to one trade.  The amount it asks for: the   *)
(* quote of client/trade.js and the price of a venue that rounds the other *)
(* way are two roundings of one exchange, and agree for all reserves, sizes *)
(* and tolerances.  Its path to a signature: what the parser, the builder  *)
(* and the gate promise each other, for every reply and every size.  And   *)
(* the fee it bids, for every list of fees and every percentile.           *)
(***************************************************************************)
EXTENDS DeskMC, NumberLemmas

\* What rounding up means.
LEMMA CostIsCeiling ==
  ASSUME NEW b \in Nat, NEW q \in Nat, NEW s \in Nat, NEW o \in Nat, o < b
  PROVE  /\ Cost(b, q, o) \in Nat
         /\ Cost(b, q, o) <= s <=> q * o <= s * (b - o)
<1> DEFINE d == b - o
           n == q * o + d - 1
           c == n \div d
<1>1. d \in Nat \ {0} /\ q * o \in Nat
  OBVIOUS
<1>2. n \in Nat
  BY <1>1
<1> HIDE DEF d
<1>3. c \in Nat /\ c * d <= n /\ n < (c + 1) * d
  BY <1>1, <1>2, DivBounds
<1>4. ASSUME c <= s PROVE q * o <= s * d
  <2>1. q * o <= c * d
    <3>1. (c + 1) * d = c * d + d
      BY <1>1, <1>3
    <3>2. c * d \in Nat
      BY <1>1, <1>3
    <3> QED
      BY <1>1, <1>3, <3>1, <3>2
  <2>2. c * d <= s * d
    BY <1>1, <1>3, <1>4, TimesMonotone
  <2>3. c * d \in Nat /\ s * d \in Nat
    BY <1>1, <1>3
  <2> QED
    BY <1>1, <2>1, <2>2, <2>3
<1>5. ASSUME q * o <= s * d PROVE c <= s
  <2>1. c * d < (s + 1) * d
    <3>1. (s + 1) * d = s * d + d
      BY <1>1
    <3>2. c * d \in Nat /\ s * d \in Nat
      BY <1>1, <1>3
    <3> QED
      BY <1>1, <1>3, <1>5, <3>1, <3>2
  <2>2. c < s + 1
    BY <1>1, <1>3, <2>1, TimesLess
  <2> QED
    BY <1>3, <2>2
<1>6. Cost(b, q, o) = c
  BY DEF Cost, d
<1> QED
  BY <1>3, <1>4, <1>5, <1>6 DEF d

\* What rounding down means.
LEMMA ExpectedIsFloor ==
  ASSUME NEW b \in Nat, NEW q \in Nat \ {0}, NEW s \in Nat, NEW o \in Nat
  PROVE  /\ Expected(b, q, s) \in Nat
         /\ o <= Expected(b, q, s) <=> o * (q + s) <= b * s
<1> DEFINE d == q + s
           n == b * s
           e == n \div d
<1>1. d \in Nat \ {0} /\ n \in Nat
  OBVIOUS
<1> HIDE DEF d, n
<1>2. e \in Nat /\ e * d <= n /\ n < (e + 1) * d
  BY <1>1, DivBounds
<1>3. ASSUME o <= e PROVE o * d <= n
  <2>1. o * d <= e * d
    BY <1>1, <1>2, <1>3, TimesMonotone
  <2>2. o * d \in Nat /\ e * d \in Nat
    BY <1>1, <1>2
  <2> QED
    BY <1>1, <1>2, <2>1, <2>2
<1>4. ASSUME o * d <= n PROVE o <= e
  <2>1. o * d < (e + 1) * d
    <3>1. o * d \in Nat /\ (e + 1) * d \in Nat
      BY <1>1, <1>2
    <3> QED
      BY <1>1, <1>2, <1>4, <3>1
  <2>2. o < e + 1
    BY <1>1, <1>2, <2>1, TimesLess
  <2> QED
    BY <1>2, <2>2
<1>5. Expected(b, q, s) = e
  BY DEF Expected, d, n
<1> QED
  BY <1>2, <1>3, <1>4, <1>5 DEF d, n

\* A venue sells `o` tokens within `s` lamports exactly if the quote says that
\* `s` lamports buy that many (trade.js:74).
THEOREM QuoteIsExact ==
  ASSUME NEW b \in Nat, NEW q \in Nat \ {0}, NEW s \in Nat, NEW o \in Nat \ {0}
  PROVE  (o < b /\ Cost(b, q, o) <= s) <=> o <= Expected(b, q, s)
<1>1. /\ q * o \in Nat /\ o * s \in Nat /\ b * s \in Nat
      /\ o * (q + s) = q * o + o * s
  OBVIOUS
<1>2. o < b => s * (b - o) = b * s - o * s
  OBVIOUS
<1>3. ASSUME o * (q + s) <= b * s PROVE o < b
  <2>1. ASSUME o >= b PROVE FALSE
    <3>1. b * s <= o * s
      BY <2>1, TimesMonotone
    <3>2. q * o > 0
      OBVIOUS
    <3> QED
      BY <1>1, <1>3, <3>1, <3>2
  <2> QED
    BY <2>1
<1>4. o <= Expected(b, q, s) <=> o * (q + s) <= b * s
  BY ExpectedIsFloor
<1>5. CASE o < b
  <2>1. Cost(b, q, o) <= s <=> q * o <= s * (b - o)
    BY <1>5, CostIsCeiling
  <2> QED
    BY <1>1, <1>2, <1>4, <1>5, <2>1
<1>6. CASE ~ (o < b)
  BY <1>3, <1>4, <1>6
<1> QED
  BY <1>5, <1>6

\* A size pays a cost and the venue's fee on it exactly if the cost is within
\* what the fee leaves of the size.
LEMMA FeeIsPaid ==
  ASSUME NEW n \in Nat, NEW s \in Nat
  PROVE  /\ Net(s) \in Nat
         /\ WithFee(n) <= s <=> n <= Net(s)
<1>1. BPS \in Nat \ {0} /\ VenueFee \in Nat /\ BPS + VenueFee \in Nat \ {0}
  BY QuoteAssumption
<1> DEFINE fee == (n * VenueFee + BPS - 1) \div BPS
           d == BPS + VenueFee
           net == (s * BPS) \div d
<1>2. fee = Cost(d, n, VenueFee) /\ VenueFee < d /\ d \in Nat /\ d - VenueFee = BPS
  BY <1>1 DEF Cost
<1>3. s * BPS \in Nat
  BY <1>1
<1>4. net \in Nat /\ net * d <= s * BPS /\ s * BPS < (net + 1) * d
  BY <1>1, <1>3, DivBounds
<1>5. n * d = n * BPS + n * VenueFee /\ n * BPS \in Nat /\ n * VenueFee \in Nat
  BY <1>1
<1>6. Net(s) = net /\ WithFee(n) = n + fee
  BY DEF Net, WithFee
<1>7. fee \in Nat
  BY <1>1, <1>2, CostIsCeiling
<1> HIDE DEF d, fee, net
<1>8. n * d <= s * BPS <=> n <= net
  <2>1. ASSUME n <= net PROVE n * d <= s * BPS
    <3>1. n * d <= net * d
      BY <1>1, <1>4, <2>1, TimesMonotone DEF d
    <3>2. n * d \in Nat /\ net * d \in Nat
      BY <1>1, <1>4 DEF d
    <3> QED
      BY <1>3, <1>4, <3>1, <3>2
  <2>2. ASSUME n * d <= s * BPS PROVE n <= net
    <3>1. n * d < (net + 1) * d
      <4>1. n * d \in Nat /\ (net + 1) * d \in Nat
        BY <1>1, <1>4 DEF d
      <4> QED
        BY <1>3, <1>4, <2>2, <4>1
    <3>2. n < net + 1
      BY <1>1, <1>4, <3>1, TimesLess DEF d
    <3> QED
      BY <1>4, <3>2
  <2> QED
    BY <2>1, <2>2
<1>9. CASE n <= s
  <2>1. s - n \in Nat /\ (s - n) * BPS = s * BPS - n * BPS
    BY <1>1, <1>9
  <2>2. fee <= s - n <=> n * VenueFee <= (s - n) * BPS
    BY <1>1, <1>2, <2>1, CostIsCeiling
  <2> QED
    BY <1>3, <1>4, <1>5, <1>6, <1>7, <1>8, <2>1, <2>2
<1>10. CASE n > s
  <2>1. ~ (n + fee <= s)
    BY <1>7, <1>10
  <2>2. n * BPS > s * BPS
    <3>1. (n - s) * BPS > 0
      BY <1>1, <1>10
    <3>2. (n - s) * BPS = n * BPS - s * BPS
      BY <1>1
    <3> QED
      BY <1>3, <1>5, <3>1, <3>2
  <2> QED
    BY <1>3, <1>4, <1>5, <1>6, <1>8, <2>1, <2>2
<1> QED
  BY <1>9, <1>10

-------------------------------------------------------------------------------

\* The tolerance is taken off what the reserves say, and only ever lowers it.
LEMMA OutAtMostExpected ==
  ASSUME QuoteTypeOK, NEW spend \in Spends, NEW slippage \in Slippages
  PROVE  /\ QuoteOut(base, quote, spend, slippage) \in Nat
         /\ Expected(base, quote, spend) \in Nat
         /\ QuoteOut(base, quote, spend, slippage) * BPS
              <= Expected(base, quote, spend) * (BPS - slippage)
<1>1. base \in Nat /\ quote \in Nat \ {0} /\ spend \in Nat
  BY QuoteAssumption DEF QuoteTypeOK
<1>2. Expected(base, quote, spend) \in Nat
  BY <1>1, ExpectedIsFloor
<1>3. BPS - slippage \in Nat /\ BPS - slippage <= BPS /\ BPS \in Nat \ {0}
  BY QuoteAssumption
<1>4. Expected(base, quote, spend) * (BPS - slippage) \in Nat
  BY <1>2, <1>3
<1> QED
  BY <1>2, <1>3, <1>4, DivBounds DEF QuoteOut

\* While nobody trades, an order asks for what the reserves of the moment say.
OrderAtRest ==
    order # NoOrder /\ quiet =>
        order.out = QuoteOut(base, quote, order.spend, order.slippage)

\* No order asks for more than the tolerance leaves of what was read.
LessTolerance ==
    order # NoOrder =>
        order.out * BPS <= order.expected * (BPS - order.slippage)

ReadAtRest ==
    order # NoOrder /\ quiet =>
        order.expected = Expected(base, quote, order.spend)

QuoteInv == QuoteTypeOK /\ OrderAtRest /\ ReadAtRest /\ LessTolerance

\* The fields of an order that is on its way.
LEMMA OrderFields ==
  ASSUME NEW o \in Order
  PROVE  /\ o.out \in Nat /\ o.expected \in Nat
         /\ o.spend \in Spends /\ o.spend \in Nat \ {0}
         /\ o.slippage \in Slippages /\ o.slippage \in Nat
         /\ BPS - o.slippage \in Nat \ {0}
<1>1. o.out \in Nat /\ o.expected \in Nat
  BY DEF Order
<1>2. o.spend \in Spends /\ o.slippage \in Slippages
  BY DEF Order
<1> DEFINE t == o.slippage
<1>3. t \in 0 .. BPS - 1
  BY <1>2, QuoteAssumption
<1>4. o.spend \in Nat \ {0} /\ BPS \in Nat \ {0}
  BY <1>2, QuoteAssumption
<1> HIDE DEF t
<1>5. t \in Nat /\ BPS - t \in Nat \ {0}
  BY <1>3, <1>4
<1> QED
  BY <1>1, <1>2, <1>4, <1>5 DEF t

LEMMA BoughtTypes ==
  ASSUME QuoteTypeOK, NEW n \in Nat \ {0}, n < base, Bought(n)
  PROVE  base' \in 1 .. MaxBase /\ quote' \in Nat \ {0}
<1>1. base \in 1 .. MaxBase /\ quote \in Nat \ {0} /\ Priced \in Nat /\ MaxBase \in Nat
  BY QuoteAssumption DEF QuoteTypeOK, Priced
<1>2. Cost(base, Priced, n) \in Nat
  BY <1>1, CostIsCeiling
<1> QED
  BY <1>1, <1>2 DEF Bought

LEMMA InitQuoteInv == QuoteInit => QuoteInv
BY QuoteAssumption
   DEF QuoteInit, QuoteInv, QuoteTypeOK, OrderAtRest, ReadAtRest, LessTolerance

LEMMA NextQuoteInv == QuoteInv /\ [QuoteNext]_quoteVars => QuoteInv'
<1> SUFFICES ASSUME QuoteInv, [QuoteNext]_quoteVars PROVE QuoteInv'
  OBVIOUS
<1> USE QuoteAssumption, OrderAssumption
<1>t. /\ QuoteTypeOK /\ OrderAtRest /\ ReadAtRest /\ LessTolerance
      /\ base \in 1 .. MaxBase /\ MaxBase \in Nat /\ quote \in Nat \ {0}
      /\ Priced \in Nat /\ Steps \subseteq Nat \ {0}
  BY DEF QuoteInv, QuoteTypeOK, Priced
<1>1. ASSUME NEW spend \in Spends, NEW slippage \in Slippages, Ask(spend, slippage)
      PROVE QuoteInv'
  <2> DEFINE out == QuoteOut(base, quote, spend, slippage)
             expected == Expected(base, quote, spend)
  <2>1. out \in Nat /\ expected \in Nat /\ out * BPS <= expected * (BPS - slippage)
    BY <1>t, OutAtMostExpected
  <2>2. /\ order' = [out |-> out, expected |-> expected,
                     spend |-> spend, slippage |-> slippage]
        /\ quiet' = TRUE /\ base' = base /\ quote' = quote
    BY <1>1 DEF Ask
  <2> HIDE DEF out, expected
  <2>3. order' \in Order
    BY <2>1, <2>2 DEF Order
  <2>4. OrderAtRest'
    BY <2>2 DEF OrderAtRest, QuoteOut, Expected, out
  <2>5. ReadAtRest'
    BY <2>2 DEF ReadAtRest, Expected, expected
  <2>6. LessTolerance'
    BY <2>1, <2>2 DEF LessTolerance
  <2> QED
    BY <1>t, <2>2, <2>3, <2>4, <2>5, <2>6 DEF QuoteInv, QuoteTypeOK
<1>2. CASE Fill
  <2>1. order' = NoOrder /\ quiet' = quiet
    BY <1>2 DEF Fill
  <2>2. base' \in 1 .. MaxBase /\ quote' \in Nat \ {0}
    <3>1. CASE order.out \in 1 .. base - 1 /\ Bought(order.out)
      BY <1>t, <3>1, BoughtTypes
    <3>2. CASE base' = base /\ quote' = quote
      BY <1>t, <3>2
    <3>3. order.out > 0 /\ Fits => order.out \in 1 .. base - 1
      <4>1. order \in Order
        BY <1>t, <1>2 DEF Fill, QuoteTypeOK
      <4>2. order.out \in Nat
        BY <4>1, OrderFields
      <4> QED
        BY <1>t, <4>2 DEF Fits
    <3> QED
      BY <1>2, <3>1, <3>2, <3>3 DEF Fill
  <2> QED
    BY <1>t, <2>1, <2>2
       DEF QuoteInv, QuoteTypeOK, OrderAtRest, ReadAtRest, LessTolerance
<1>3. ASSUME NEW n \in Steps, OthersBuy(n) PROVE QuoteInv'
  <2>1. base' \in 1 .. MaxBase /\ quote' \in Nat \ {0}
    BY <1>t, <1>3, BoughtTypes DEF OthersBuy
  <2> QED
    BY <1>t, <1>3, <2>1
       DEF OthersBuy, QuoteInv, QuoteTypeOK, OrderAtRest, ReadAtRest, LessTolerance
<1>4. ASSUME NEW n \in Steps, OthersSell(n) PROVE QuoteInv'
  <2>1. Priced * n \in Nat /\ base + n \in Nat \ {0}
    BY <1>t
  <2>2. Proceeds(base, Priced, n) \in Nat
    BY <2>1, DivBounds DEF Proceeds
  <2>3. base' \in 1 .. MaxBase /\ quote' \in Nat \ {0}
    BY <1>t, <1>4, <2>2 DEF OthersSell
  <2> QED
    BY <1>t, <1>4, <2>3
       DEF OthersSell, QuoteInv, QuoteTypeOK, OrderAtRest, ReadAtRest, LessTolerance
<1>5. ASSUME NEW n \in Steps, OthersWithdraw(n) PROVE QuoteInv'
  <2> DEFINE taken == (base * n) \div quote
  <2>1. base * n \in Nat /\ n \in Nat /\ n < quote
    BY <1>t, <1>5 DEF OthersWithdraw
  <2>2. taken \in Nat /\ taken * quote <= base * n
    BY <1>t, <2>1, DivBounds
  <2>3. base * n < base * quote
    <3>1. base * (quote - n) > 0
      BY <1>t, <2>1
    <3>2. base * (quote - n) = base * quote - base * n
      BY <1>t, <2>1
    <3> QED
      BY <1>t, <2>1, <3>1, <3>2
  <2>4. taken < base
    <3>1. taken * quote < base * quote
      BY <1>t, <2>1, <2>2, <2>3
    <3> QED
      BY <1>t, <2>2, <3>1, TimesLess
  <2>5. base' = base - taken /\ quote' = quote - n
    BY <1>5 DEF OthersWithdraw
  <2> HIDE DEF taken
  <2>6. base' \in 1 .. MaxBase /\ quote' \in Nat \ {0}
    BY <1>t, <2>1, <2>2, <2>4, <2>5
  <2> QED
    BY <1>t, <1>5, <2>6
       DEF OthersWithdraw, QuoteInv, QuoteTypeOK, OrderAtRest, ReadAtRest, LessTolerance
<1>6. CASE UNCHANGED quoteVars
  BY <1>6
     DEF quoteVars, QuoteInv, QuoteTypeOK, OrderAtRest, ReadAtRest, LessTolerance,
         QuoteOut, Expected
<1> QED
  BY <1>1, <1>2, <1>3, <1>4, <1>5, <1>6 DEF QuoteNext

LEMMA QuoteInvariant == QuoteSpec => []QuoteInv
<1> QED
  BY InitQuoteInv, NextQuoteInv, PTL DEF QuoteSpec

-------------------------------------------------------------------------------

\* The reserves and the order keep their types: no trade of others and no
\* withdrawal empties a pool that rounds in its favour.
THEOREM QuoteTypeCorrect == QuoteSpec => []QuoteTypeOK
<1>1. QuoteInv => QuoteTypeOK
  BY DEF QuoteInv
<1> QED
  BY <1>1, QuoteInvariant, PTL

\* An order that the size still buys, after the venue's fee, is filled.
LEMMA BoughtNow ==
  ASSUME QuoteTypeOK, order # NoOrder, order.out > 0, order.out <= BuysNow
  PROVE  Fits
<1>1. base \in Nat /\ Priced \in Nat \ {0} /\ order \in Order
  BY QuoteAssumption DEF QuoteTypeOK, Priced
<1>2. order.out \in Nat \ {0} /\ order.spend \in Nat
  BY <1>1, OrderFields
<1>3. Net(order.spend) \in Nat
  BY <1>2, FeeIsPaid
<1>4. order.out < base /\ Cost(base, Priced, order.out) <= Net(order.spend)
  BY <1>1, <1>2, <1>3, QuoteIsExact DEF BuysNow
<1>5. Cost(base, Priced, order.out) \in Nat
  BY <1>1, <1>2, <1>4, CostIsCeiling
<1> QED
  BY <1>2, <1>4, <1>5, FeeIsPaid DEF Fits

\* Whatever others trade, withdraw and charge while an order is on its way, it
\* is filled as long as they take no more than its tolerance off what its size
\* buys (trade.js:71): for all reserves, virtual reserves, fees and tolerances.
THEOREM AlwaysRoomToMove == QuoteSpec => []RoomToMove
<1>1. ASSUME QuoteInv PROVE RoomToMove
  <2> SUFFICES ASSUME order # NoOrder, order.out > 0,
                      BuysNow * BPS >= order.expected * (BPS - order.slippage)
               PROVE  Fits
    BY DEF RoomToMove
  <2>1. QuoteTypeOK /\ LessTolerance
    BY <1>1 DEF QuoteInv
  <2>2. base \in Nat /\ Priced \in Nat \ {0} /\ order \in Order
        /\ BPS \in Nat \ {0}
    BY <2>1, QuoteAssumption DEF QuoteTypeOK, Priced
  <2>3. /\ order.out \in Nat \ {0} /\ order.expected \in Nat
        /\ order.spend \in Nat /\ BPS - order.slippage \in Nat
    BY <2>2, OrderFields
  <2>4. Net(order.spend) \in Nat
    BY <2>3, FeeIsPaid
  <2>5. BuysNow \in Nat
    BY <2>2, <2>4, ExpectedIsFloor DEF BuysNow
  <2>6. order.out * BPS <= BuysNow * BPS
    <3>1. /\ order.out * BPS \in Nat /\ BuysNow * BPS \in Nat
          /\ order.expected * (BPS - order.slippage) \in Nat
      BY <2>2, <2>3, <2>5
    <3> QED
      BY <2>1, <3>1 DEF LessTolerance
  <2>7. order.out <= BuysNow
    <3>1. order.out * BPS < (BuysNow + 1) * BPS
      <4>1. (BuysNow + 1) * BPS = BuysNow * BPS + BPS
        BY <2>2, <2>5
      <4>2. order.out * BPS \in Nat /\ BuysNow * BPS \in Nat
        BY <2>2, <2>3, <2>5
      <4> QED
        BY <2>2, <2>6, <4>1, <4>2
    <3>2. order.out < BuysNow + 1
      BY <2>2, <2>3, <2>5, <3>1, TimesLess
    <3> QED
      BY <2>3, <2>5, <3>2
  <2> QED
    BY <2>1, <2>7, BoughtNow
<1> QED
  BY <1>1, QuoteInvariant, PTL

\* A buy that nobody disturbs is within its size (trade.js:165) wherever its
\* tolerance covers the venue's fee and the reserves that its accounts do not
\* show; where a venue has neither, at every tolerance, zero included.
THEOREM UndisturbedBuysFit == QuoteSpec => []QuietBuyFits
<1>1. ASSUME QuoteInv PROVE QuietBuyFits
  <2> SUFFICES ASSUME order # NoOrder, order.out > 0, quiet, Covered PROVE Fits
    BY DEF QuietBuyFits
  <2> DEFINE o == order.out
             e == order.expected
             s == order.spend
             u == BPS - order.slippage
             n == Net(s)
             c == quote + s
             p == Priced + n
  <2>1. /\ QuoteTypeOK
        /\ o * BPS <= e * u
        /\ e = Expected(base, quote, s)
        /\ u * s * p <= BPS * n * c
    BY <1>1 DEF QuoteInv, LessTolerance, ReadAtRest, Covered
  <2>2. base \in Nat \ {0} /\ quote \in Nat \ {0} /\ Priced \in Nat \ {0}
        /\ order \in Order /\ BPS \in Nat \ {0}
    BY <2>1, QuoteAssumption DEF QuoteTypeOK, Priced
  <2>3. /\ o \in Nat \ {0} /\ e \in Nat /\ s \in Nat \ {0} /\ u \in Nat \ {0}
    BY <2>2, OrderFields
  <2>4. n \in Nat
    BY <2>3, FeeIsPaid
  <2>5. c \in Nat \ {0} /\ p \in Nat \ {0}
    BY <2>2, <2>3, <2>4
  <2>6. e * c <= base * s
    <3>1. base \in Nat /\ s \in Nat /\ e = Expected(base, quote, s)
      BY <2>1, <2>2, <2>3
    <3> HIDE DEF s, e
    <3>2. e <= Expected(base, quote, s) <=> e * (quote + s) <= base * s
      BY <2>2, <2>3, <3>1, ExpectedIsFloor
    <3>3. e <= Expected(base, quote, s)
      BY <2>3, <3>1
    <3> QED
      BY <3>2, <3>3
  <2>7. BuysNow = Expected(base, Priced, n)
    BY DEF BuysNow
  <2>8. o * p <= base * n => o <= Expected(base, Priced, n)
    BY <2>2, <2>3, <2>4, ExpectedIsFloor
  <2> HIDE DEF o, e, s, u, n, c, p
  <2>9. (o * BPS) * (c * p) <= ((base * s) * u) * p
    <3>1. (o * BPS) * (c * p) <= (e * u) * (c * p)
      <4>1. o * BPS \in Nat /\ e * u \in Nat /\ c * p \in Nat
        BY <2>2, <2>3, <2>5
      <4> QED
        BY <2>1, <4>1, TimesMonotone
    <3>2. (e * c) * (u * p) <= (base * s) * (u * p)
      <4>1. e * c \in Nat /\ base * s \in Nat /\ u * p \in Nat
        BY <2>2, <2>3, <2>5
      <4> QED
        BY <2>6, <4>1, TimesMonotone
    <3>3. /\ (e * u) * (c * p) = (e * c) * (u * p)
          /\ (base * s) * (u * p) = ((base * s) * u) * p
      BY <2>2, <2>3, <2>5
    <3>4. /\ (o * BPS) * (c * p) \in Nat /\ (e * c) * (u * p) \in Nat
          /\ ((base * s) * u) * p \in Nat
      BY <2>2, <2>3, <2>5
    <3> QED
      BY <3>1, <3>2, <3>3, <3>4
  <2>10. ((base * s) * u) * p <= (base * n) * (BPS * c)
    <3>1. (u * s * p) * base <= (BPS * n * c) * base
      <4>1. u * s * p \in Nat /\ BPS * n * c \in Nat
        BY <2>2, <2>3, <2>4, <2>5
      <4> QED
        BY <2>1, <2>2, <4>1, TimesMonotone
    <3>2. /\ (u * s * p) * base = ((base * s) * u) * p
          /\ (BPS * n * c) * base = (base * n) * (BPS * c)
      BY <2>2, <2>3, <2>4, <2>5
    <3> QED
      BY <3>1, <3>2
  <2>11. (o * p) * (BPS * c) <= (base * n) * (BPS * c)
    <3>1. (o * BPS) * (c * p) = (o * p) * (BPS * c)
      BY <2>2, <2>3, <2>5
    <3>2. /\ (o * p) * (BPS * c) \in Nat /\ ((base * s) * u) * p \in Nat
          /\ (base * n) * (BPS * c) \in Nat
      BY <2>2, <2>3, <2>4, <2>5
    <3> QED
      BY <2>9, <2>10, <3>1, <3>2
  <2>12. o * p <= base * n
    <3> DEFINE x == o * p
               y == base * n
               k == BPS * c
    <3>1. x \in Nat /\ y \in Nat /\ k \in Nat \ {0}
      BY <2>2, <2>3, <2>4, <2>5
    <3>2. x * k <= y * k
      BY <2>11
    <3> HIDE DEF x, y, k
    <3>3. x * k < (y + 1) * k
      <4>1. (y + 1) * k = y * k + k /\ x * k \in Nat /\ y * k \in Nat
        BY <3>1
      <4> QED
        BY <3>1, <3>2, <4>1
    <3>4. x < y + 1
      BY <3>1, <3>3, TimesLess
    <3>5. x <= y
      BY <3>1, <3>4
    <3> QED
      BY <3>5 DEF x, y
  <2>13. o <= BuysNow
    BY <2>7, <2>8, <2>12
  <2> QED
    BY <2>1, <2>13, BoughtNow DEF o
<1> QED
  BY <1>1, QuoteInvariant, PTL

\* What an order lacks of its size: its two roundings take a token each.
LEMMA TwoTokensMore ==
  ASSUME NEW b \in Nat, NEW q \in Nat \ {0}, NEW s \in Nat \ {0},
         NEW t \in Nat, BPS - t \in Nat \ {0}, BPS \in Nat \ {0}
  PROVE  ((QuoteOut(b, q, s, t) + 2) * BPS) * (q + s) >= ((BPS - t) * s) * b
<1> DEFINE e == Expected(b, q, s)
           o == QuoteOut(b, q, s, t)
           u == BPS - t
<1>1. u \in Nat \ {0} /\ q + s \in Nat \ {0} /\ b * s \in Nat
  OBVIOUS
<1>2. e \in Nat /\ b * s < (e + 1) * (q + s)
  BY <1>1, DivBounds DEF Expected
<1> HIDE DEF u, e
<1>3. e * u \in Nat
  BY <1>1, <1>2
<1>4. o \in Nat /\ e * u < (o + 1) * BPS
  BY <1>1, <1>2, <1>3, DivBounds DEF QuoteOut, e, u
<1> HIDE DEF o
<1>5. u * (e + 1) <= (o + 2) * BPS
  <2>1. u * (e + 1) = e * u + u /\ (o + 2) * BPS = (o + 1) * BPS + BPS
    BY <1>1, <1>2, <1>4
  <2>2. u <= BPS
    BY DEF u
  <2>3. (o + 1) * BPS \in Nat
    BY <1>4
  <2> QED
    BY <1>1, <1>3, <1>4, <2>1, <2>2, <2>3
<1>6. (u * (e + 1)) * (q + s) <= ((o + 2) * BPS) * (q + s)
  <2>1. u * (e + 1) \in Nat /\ (o + 2) * BPS \in Nat
    BY <1>1, <1>2, <1>4
  <2> QED
    BY <1>1, <1>5, <2>1, TimesMonotone
<1>7. (b * s) * u <= ((e + 1) * (q + s)) * u
  <2>1. (e + 1) * (q + s) \in Nat
    BY <1>1, <1>2
  <2> QED
    BY <1>1, <1>2, <2>1, TimesMonotone
<1>8. /\ ((e + 1) * (q + s)) * u = (u * (e + 1)) * (q + s)
      /\ (b * s) * u = (u * s) * b
  BY <1>1, <1>2
<1>9. /\ (u * s) * b \in Nat
      /\ (u * (e + 1)) * (q + s) \in Nat
      /\ ((o + 2) * BPS) * (q + s) \in Nat
  BY <1>1, <1>2, <1>4
<1>10. ((o + 2) * BPS) * (q + s) >= (u * s) * b
  BY <1>6, <1>7, <1>8, <1>9
<1> QED
  BY <1>10 DEF u, o

\* "Halving the output instead would spend about half the size asked for"
\* (trade.js:166): with two tokens more, an undisturbed order would cost its
\* whole size less the tolerance, whatever the reserves.
THEOREM OrdersAskTheirWorth == QuoteSpec => []AsksForItsWorth
<1>1. ASSUME QuoteInv PROVE AsksForItsWorth
  <2> SUFFICES ASSUME order # NoOrder, quiet, order.out + 2 < base
               PROVE  Cost(base, quote, order.out + 2)
                         * (quote * BPS + order.slippage * order.spend)
                      >= (BPS - order.slippage) * order.spend * quote
    BY DEF AsksForItsWorth
  <2> DEFINE s == order.spend
             t == order.slippage
             o == order.out + 2
             c == Cost(base, quote, o)
             u == BPS - t
             p == quote * BPS + t * s
             d == base - o
  <2>1. base \in Nat /\ quote \in Nat \ {0} /\ order \in Order
        /\ BPS \in Nat \ {0}
    BY <1>1, QuoteAssumption DEF QuoteInv, QuoteTypeOK
  <2>2. /\ order.out \in Nat /\ s \in Nat \ {0} /\ t \in Nat
        /\ u \in Nat \ {0}
    BY <2>1, OrderFields
  <2>3. o \in Nat
    BY <2>2
  <2>4. d \in Nat \ {0}
    BY <2>1, <2>3
  <2>5. (o * BPS) * (quote + s) >= (u * s) * base
    <3>1. order.out = QuoteOut(base, quote, s, t)
      BY <1>1 DEF QuoteInv, OrderAtRest
    <3> QED
      BY <2>1, <2>2, <3>1, TwoTokensMore
  <2>6. c \in Nat /\ quote * o <= c * d
    <3>1. base \in Nat /\ quote \in Nat /\ s \in Nat /\ o < base
      BY <2>1, <2>2
    <3> HIDE DEF c, o, s
    <3>2. c \in Nat
      BY <2>3, <3>1, CostIsCeiling DEF c
    <3>3. c <= c <=> quote * o <= c * (base - o)
      BY <2>3, <3>1, <3>2, CostIsCeiling DEF c
    <3> QED
      BY <3>2, <3>3
  <2> HIDE DEF c, d, o, s, t, u
  <2>7. p \in Nat \ {0} /\ p = quote * BPS + t * s
    <3>1. quote * BPS \in Nat \ {0} /\ t * s \in Nat
      BY <2>1, <2>2, <2>3
    <3> QED
      BY <3>1
  <2>8. o * p >= (u * s) * d
    <3>1. u = BPS - t /\ d = base - o
      BY DEF u, d
    <3>2. (o * BPS) * (quote + s) = o * p + (u * s) * o
      BY <2>1, <2>2, <2>3, <2>7, <3>1
    <3>3. (u * s) * base = (u * s) * d + (u * s) * o
      BY <2>1, <2>2, <2>3, <2>4, <3>1
    <3>4. /\ o * p \in Nat /\ (u * s) * o \in Nat /\ (u * s) * d \in Nat
      BY <2>2, <2>3, <2>4, <2>7
    <3> QED
      BY <2>5, <3>2, <3>3, <3>4
  <2> HIDE DEF p
  <2>9. ((u * s) * quote) * d <= (c * p) * d
    <3>1. ((u * s) * d) * quote <= (o * p) * quote
      <4>1. (u * s) * d \in Nat /\ o * p \in Nat
        BY <2>2, <2>3, <2>4, <2>7
      <4> QED
        BY <2>1, <2>8, <4>1, TimesMonotone
    <3>2. (quote * o) * p <= (c * d) * p
      <4>1. quote * o \in Nat /\ c * d \in Nat
        BY <2>1, <2>3, <2>4, <2>6
      <4> QED
        BY <2>6, <2>7, <4>1, TimesMonotone
    <3>3. /\ ((u * s) * d) * quote = ((u * s) * quote) * d
          /\ (o * p) * quote = (quote * o) * p
          /\ (c * d) * p = (c * p) * d
      BY <2>1, <2>2, <2>3, <2>4, <2>6, <2>7
    <3>4. /\ ((u * s) * quote) * d \in Nat /\ (quote * o) * p \in Nat
          /\ (c * p) * d \in Nat
      BY <2>1, <2>2, <2>3, <2>4, <2>6, <2>7
    <3> QED
      BY <3>1, <3>2, <3>3, <3>4
  <2>10. (u * s) * quote <= c * p
    <3>1. (u * s) * quote \in Nat /\ c * p \in Nat
      BY <2>1, <2>2, <2>6, <2>7
    <3>2. ASSUME c * p < (u * s) * quote PROVE FALSE
      <4>1. ((u * s) * quote - c * p) * d > 0
        BY <2>4, <3>1, <3>2
      <4>2. ((u * s) * quote - c * p) * d
              = ((u * s) * quote) * d - (c * p) * d
        BY <2>4, <3>1
      <4>3. ((u * s) * quote) * d \in Nat /\ (c * p) * d \in Nat
        BY <2>4, <3>1
      <4> QED
        BY <2>9, <4>1, <4>2, <4>3
    <3> QED
      BY <3>1, <3>2
  <2>11. c * p \in Nat /\ (u * s) * quote \in Nat
    BY <2>1, <2>2, <2>6, <2>7
  <2> QED
    BY <2>10, <2>11 DEF c, p, u, s, t, o
<1> QED
  BY <1>1, QuoteInvariant, PTL

-------------------------------------------------------------------------------
(***************************************************************************)
(* What a transaction does, one instruction at a time.  After folds over   *)
(* the set of positions; the lemmas below turn that into a recursion from  *)
(* the left.                                                               *)
(***************************************************************************)

\* g tabulates what the instructions at the positions in each part of S make
\* of the money.
Tells(g, ixs, price, S) ==
    g = [s \in SUBSET S |->
            IF s = {} THEN Money
            ELSE Run(g[s \ {Max(s)}], ixs[Max(s)], price)]

Course(ixs, price, S) == CHOOSE g : Tells(g, ixs, price, S)

LEMMA AfterIsCourse ==
  ASSUME NEW ixs, NEW price
  PROVE  After(ixs, price) = Course(ixs, price, DOMAIN ixs)[DOMAIN ixs]
BY DEF After, FoldLeft, MapThenFoldSet, Course, Tells

LEMMA LastIn ==
  ASSUME NEW s, IsFiniteSet(s), s # {}, \A x \in s : x \in Nat
  PROVE  Max(s) \in s /\ \A x \in s : x <= Max(s)
<1>1. \A x \in s : x \in Int
  OBVIOUS
<1>2. \E l \in s : \A m \in s : m <= l
  BY <1>1, GreatestExists
<1>3. \E l \in s : \A m \in s : l >= m
  BY <1>1, <1>2
<1>4. Max(s) \in s /\ \A m \in s : Max(s) >= m
  BY <1>3 DEF Max
<1> QED
  BY <1>1, <1>4

Alike(ixs, jxs, T) == \A i \in T : jxs[i] = ixs[i]

\* Two courses agree on the positions where their transactions are alike.
LEMMA CoursesAgree ==
  ASSUME NEW price, NEW S, IsFiniteSet(S), \A x \in S : x \in Nat,
         NEW ixs, NEW g, Tells(g, ixs, price, S),
         NEW T \in SUBSET S, NEW jxs, NEW h, Tells(h, jxs, price, T),
         Alike(ixs, jxs, T)
  PROVE  \A s \in SUBSET T : g[s] = h[s]
<1> DEFINE C == {s \in SUBSET T : g[s] # h[s]}
<1> SUFFICES ASSUME C # {}
             PROVE  FALSE
  OBVIOUS
<1>1. IsFiniteSet(T)
  BY FS_Subset
<1>2. C \in SUBSET SUBSET T
  OBVIOUS
<1>3. PICK s \in C : \A u \in C : u \subseteq s => u = s
  <2> HIDE DEF C
  <2> QED
    BY <1>1, <1>2, MinimalSubset
<1>4. s \in SUBSET T /\ s \in SUBSET S
  OBVIOUS
<1> DEFINE l == Max(s)
<1>5. g[s] = IF s = {} THEN Money ELSE Run(g[s \ {l}], ixs[l], price)
  BY <1>4 DEF Tells
<1>6. h[s] = IF s = {} THEN Money ELSE Run(h[s \ {l}], jxs[l], price)
  BY <1>4 DEF Tells
<1>7. s # {}
  BY <1>5, <1>6
<1>8. l \in s
  <2>1. IsFiniteSet(s)
    BY <1>1, <1>4, FS_Subset
  <2> QED
    BY <1>4, <1>7, <2>1, LastIn
<1>9. s \ {l} \in SUBSET T /\ s \ {l} # s
  BY <1>4, <1>8
<1>10. g[s \ {l}] = h[s \ {l}]
  BY <1>3, <1>9
<1>11. jxs[l] = ixs[l]
  BY <1>4, <1>8 DEF Alike
<1> HIDE DEF l
<1> QED
  BY <1>5, <1>6, <1>7, <1>10, <1>11

\* Every transaction has a course.
LEMMA CourseExists ==
  ASSUME NEW ixs, NEW price, NEW S, IsFiniteSet(S), \A x \in S : x \in Nat
  PROVE  Tells(Course(ixs, price, S), ixs, price, S)
<1> DEFINE Of(T) == Course(ixs, price, T)
           C == {T \in SUBSET S : \A g : ~ Tells(g, ixs, price, T)}
<1>1. SUFFICES C = {}
  <2>1. S \notin C
    BY <1>1
  <2>2. \E g : Tells(g, ixs, price, S)
    BY <2>1
  <2> QED
    BY <2>2 DEF Course
<1>2. SUFFICES ASSUME C # {}
               PROVE  FALSE
  OBVIOUS
<1>3. PICK T \in C : \A U \in C : U \subseteq T => U = T
  <2>1. C \in SUBSET SUBSET S
    OBVIOUS
  <2> HIDE DEF C
  <2> QED
    BY <1>2, <2>1, MinimalSubset
<1>4. T \in SUBSET S /\ IsFiniteSet(T)
  BY FS_Subset
<1>5. \A U \in SUBSET T : U # T => Tells(Of(U), ixs, price, U)
  <2> SUFFICES ASSUME NEW U \in SUBSET T, U # T
               PROVE  Tells(Of(U), ixs, price, U)
    OBVIOUS
  <2>1. U \in SUBSET S /\ U \notin C
    BY <1>3, <1>4
  <2>2. \E g : Tells(g, ixs, price, U)
    BY <2>1
  <2> QED
    BY <2>2 DEF Course
<1>6. ASSUME NEW s \in SUBSET T, s # {}
      PROVE  Max(s) \in s /\ IsFiniteSet(s) /\ \A x \in s : x \in Nat
  <2>1. IsFiniteSet(s) /\ \A x \in s : x \in Nat
    BY <1>4, FS_Subset
  <2> QED
    BY <1>6, <2>1, LastIn
<1> DEFINE Rest(s) == s \ {Max(s)}
           Step(s, m) == IF s = {} THEN Money ELSE Run(m, ixs[Max(s)], price)
           g == [s \in SUBSET T |-> Step(s, Of(Rest(s))[Rest(s)])]
<1>7. ASSUME NEW s \in SUBSET T, s # {}
      PROVE  g[Rest(s)] = Of(Rest(s))[Rest(s)]
  <2> DEFINE u == Rest(s)
  <2>1. u \in SUBSET T /\ u # T
    BY <1>6, <1>7
  <2>2. Tells(Of(u), ixs, price, u)
    BY <2>1, <1>5
  <2>3. Of(u)[u] = Step(u, Of(u)[Rest(u)])
    <3> HIDE DEF u
    <3> QED
      BY <2>2 DEF Tells
  <2>4. g[u] = Step(u, Of(Rest(u))[Rest(u)])
    BY <2>1
  <2>5. CASE u = {}
    BY <2>3, <2>4, <2>5
  <2>6. CASE u # {}
    <3> DEFINE w == Rest(u)
    <3>1. w \in SUBSET u /\ w \in SUBSET T /\ w # T
      BY <1>6, <2>1, <2>6
    <3>2. Tells(Of(w), ixs, price, w)
      BY <3>1, <1>5
    <3>3. IsFiniteSet(u) /\ \A x \in u : x \in Nat
      BY <1>6, <2>1, <2>6
    <3>4. Of(u)[w] = Of(w)[w]
      <4> HIDE DEF u, w, Of
      <4> QED
        <5>1. Alike(ixs, ixs, w)
          BY DEF Alike
        <5> QED
          BY <2>2, <3>1, <3>2, <3>3, <5>1, CoursesAgree
    <3> QED
      BY <2>3, <2>4, <3>4
  <2> QED
    BY <2>5, <2>6
<1>8. \A s \in SUBSET T : g[s] = Step(s, g[Rest(s)])
  <2> SUFFICES ASSUME NEW s \in SUBSET T
               PROVE  g[s] = Step(s, g[Rest(s)])
    OBVIOUS
  <2>1. CASE s = {}
    BY <2>1
  <2>2. CASE s # {}
    <3>1. g[Rest(s)] = Of(Rest(s))[Rest(s)]
      BY <1>7, <2>2
    <3> QED
      BY <3>1
  <2> QED
    BY <2>1, <2>2
<1>9. g = [s \in SUBSET T |-> Step(s, g[Rest(s)])]
  <2>1. g = [s \in SUBSET T |-> g[s]]
    OBVIOUS
  <2> HIDE DEF g
  <2> QED
    BY <1>8, <2>1
<1>10. Tells(g, ixs, price, T)
  BY <1>9 DEF Tells
<1> QED
  BY <1>3, <1>10

LEMMA AfterNone ==
  ASSUME NEW price
  PROVE  After(<<>>, price) = Money
<1> DEFINE c == Course(<<>>, price, {})
<1>1. DOMAIN <<>> = {}
  OBVIOUS
<1>2. Tells(c, <<>>, price, {})
  BY FS_EmptySet, CourseExists
<1> HIDE DEF c
<1>3. c[{}] = Money
  BY <1>2 DEF Tells
<1> QED
  BY <1>1, <1>3, AfterIsCourse DEF c

\* One more instruction runs on what the ones before it left.
LEMMA AfterOneMore ==
  ASSUME NEW X, NEW ixs \in Seq(X), NEW ix \in X, NEW price
  PROVE  After(Append(ixs, ix), price) = Run(After(ixs, price), ix, price)
<1> DEFINE n == Len(ixs)
           jxs == Append(ixs, ix)
           S == 1 .. n
           T == 1 .. n + 1
           c == Course(ixs, price, S)
           d == Course(jxs, price, T)
<1>1. n \in Nat /\ DOMAIN ixs = S /\ DOMAIN jxs = T
  OBVIOUS
<1>2. (\A i \in S : jxs[i] = ixs[i]) /\ jxs[n + 1] = ix
  OBVIOUS
<1> HIDE DEF n, jxs
<1>3. /\ IsFiniteSet(S) /\ \A x \in S : x \in Nat
      /\ IsFiniteSet(T) /\ \A x \in T : x \in Nat
  BY <1>1, FS_Interval
<1>4. S \in SUBSET T /\ T # {} /\ n + 1 \in T
  <2>1. n + 1 \in T
    BY <1>1
  <2>2. ASSUME NEW i \in S PROVE i \in T
    BY <1>1
  <2> QED
    BY <2>1, <2>2
<1> HIDE DEF S
<1>5. Tells(c, ixs, price, S) /\ Tells(d, jxs, price, T)
  BY <1>3, CourseExists
<1>6. Max(T) = n + 1
  <2>1. Max(T) \in T /\ \A x \in T : x <= Max(T)
    BY <1>3, <1>4, LastIn
  <2> QED
    BY <1>1, <1>4, <2>1
<1>7. T \ {n + 1} = S
  BY <1>1 DEF S
<1> HIDE DEF T, c, d
<1>8. d[T] = Run(d[S], ix, price)
  <2>1. d[T] = Run(d[T \ {Max(T)}], jxs[Max(T)], price)
    BY <1>4, <1>5 DEF Tells
  <2> QED
    BY <1>2, <1>6, <1>7, <2>1
<1>9. d[S] = c[S]
  <2>1. Alike(jxs, ixs, S)
    BY <1>2 DEF Alike
  <2>2. S \in SUBSET S
    OBVIOUS
  <2> QED
    BY <1>3, <1>4, <1>5, <2>1, <2>2, CoursesAgree
<1>10. After(ixs, price) = c[S]
  BY <1>1, AfterIsCourse DEF c
<1>11. After(jxs, price) = d[T]
  BY <1>1, AfterIsCourse DEF d
<1> QED
  BY <1>8, <1>9, <1>10, <1>11 DEF jxs

-------------------------------------------------------------------------------
(***************************************************************************)
(* What the parts of the path hand to each other.                          *)
(***************************************************************************)

\* What the parser accepts: a buy is never below the smallest size.
Wanted ==
    [action : {"sell"}, mint : Mints]
    \cup [action : {"buy"}, mint : Mints,
          sol : MIN_SOL * Units .. MaxSolPerTrade * Units]

LEMMA ParsedIsWanted ==
  ASSUME NEW r \in Replies,
         ParseIntent(r, MaxSolPerTrade) # Refused,
         ParseIntent(r, MaxSolPerTrade).action # "hold",
         AssertIsMint(ParseIntent(r, MaxSolPerTrade).mint)
  PROVE  ParseIntent(r, MaxSolPerTrade) \in Wanted
<1> DEFINE i == ParseIntent(r, MaxSolPerTrade)
           mint == Field(r, "mint").value
           sol == Number(Field(r, "sol"))
<1>1. ~ (r \in {NotJson, NotObject})
  BY DEF ParseIntent
<1>2. sol \in Int
  BY <1>1, ReplyAssumption
<1>3. \/ i = Refused
      \/ i = [action |-> "hold"]
      \/ i = [action |-> "sell", mint |-> mint]
      \/ i = [action |-> "buy", mint |-> mint, sol |-> sol]
         /\ Sized(sol, MaxSolPerTrade)
  BY <1>1 DEF ParseIntent
<1> HIDE DEF i, mint, sol
<1>4. CASE i = [action |-> "sell", mint |-> mint]
  <2>1. mint \in Mints
    BY <1>4 DEF AssertIsMint, i
  <2> QED
    BY <1>4, <2>1 DEF Wanted, i
<1>5. CASE i = [action |-> "buy", mint |-> mint, sol |-> sol]
           /\ Sized(sol, MaxSolPerTrade)
  <2>1. mint \in Mints
    BY <1>5 DEF AssertIsMint, i
  <2>2. MIN_SOL * Units \in Int /\ MaxSolPerTrade * Units \in Int
    BY IntentAssumption, SignerAssumption
  <2>3. sol \in MIN_SOL * Units .. MaxSolPerTrade * Units
    BY <1>2, <1>5, <2>2 DEF Sized
  <2> QED
    BY <1>5, <2>1, <2>3 DEF Wanted, i
<1>6. i # [action |-> "hold"] /\ i # Refused
  BY DEF i
<1> QED
  BY <1>3, <1>4, <1>5, <1>6 DEF i

LEMMA WantedFields ==
  ASSUME NEW i \in Wanted
  PROVE  /\ i \in Intents
         /\ i.action \in {"buy", "sell"}
         /\ Buildable(i)
         /\ Size(i) \in Nat /\ (i.action = "buy" => Size(i) > 0)
<1>1. CASE i \in [action : {"sell"}, mint : Mints]
  BY <1>1 DEF Intents, Buildable, Size
<1>2. CASE i \in [action : {"buy"}, mint : Mints,
                  sol : MIN_SOL * Units .. MaxSolPerTrade * Units]
  <2>1. i.action = "buy" /\ i.mint \in Mints
        /\ i.sol \in MIN_SOL * Units .. MaxSolPerTrade * Units
    BY <1>2
  <2>2. MIN_SOL * Units \in Nat \ {0} /\ MaxSolPerTrade * Units \in Int
        /\ Units \in Nat \ {0} /\ MIN_SOL \in Nat \ {0}
    BY IntentAssumption, SignerAssumption
  <2>3. i.sol \in Nat \ {0} /\ MIN_SOL * Units <= i.sol
        /\ i.sol \in 1 .. MaxSolPerTrade * Units
    BY <2>1, <2>2
  <2>4. Lamports(i.sol) \in Nat /\ i.sol < (Lamports(i.sol) + 1) * Units
    BY <2>2, <2>3, DivBounds DEF Lamports
  <2>5. MIN_SOL < Lamports(i.sol) + 1
    <3>1. MIN_SOL * Units < (Lamports(i.sol) + 1) * Units
      BY <2>2, <2>3, <2>4
    <3> QED
      BY <2>2, <2>4, <3>1, TimesLess
  <2>6. Lamports(i.sol) > 0
    BY <2>2, <2>4, <2>5
  <2>7. i \in Intents
    BY <1>2, <2>3 DEF Intents
  <2> QED
    BY <2>1, <2>4, <2>6, <2>7 DEF Buildable, Size
<1> QED
  BY <1>1, <1>2 DEF Wanted

Setup(ix) ==
    \/ ix.program = "associated_token" /\ ix.op = "create_idempotent"
    \/ ix.program \in {"curve", "amm"} /\ ix.op = "init_user_volume_accumulator"

\* The instructions that pass the gate beside a trade, and those of a setup.
Harmless ==
    {ix \in Instructions : ix.program # "router" /\ Allowed(ix, Agent)}

Setups == {ix \in Instructions : Setup(ix)}

Sides == {"buy", "sell"}

LEMMA AgentKeys ==
  ASSUME NEW p \in Parties
  PROVE  Wallet(p) \in Keys /\ Wsol(p) \in Keys
BY DEF Wallet, Wsol, Keys

LEMMA AgentIsParty == Agent \in Parties /\ Stranger \in Parties
BY SignerAssumption

LEMMA SetupsAreHarmless ==
  /\ Setups \subseteq Harmless
  /\ Harmless \subseteq Instructions
<1>1. ASSUME NEW ix \in Setups PROVE ix \in Harmless
  BY DEF Setups, Setup, Harmless, Allowed, VenueSetup
<1> QED
  BY <1>1 DEF Harmless

\* The pieces a trade is put together from.
LEMMA Pieces ==
  ASSUME NEW lamports \in Nat
  PROVE  /\ ComputeBudget \in Seq(Harmless)
         /\ Wrap(lamports) \in Seq(Harmless)
         /\ <<>> \in Seq(Harmless)
         /\ \A needed \in BOOLEAN : When(needed, Unwrap) \in Seq(Harmless)
<1>1. Wallet(Agent) \in Keys /\ Wsol(Agent) \in Keys
  BY AgentKeys, AgentIsParty
<1> DEFINE H == Harmless
<1>2. /\ Instruction("compute_budget", "limit", Wallet(Agent), 0) \in H
      /\ Instruction("compute_budget", "price", Wallet(Agent), Bid) \in H
  BY <1>1, SignerAssumption DEF Instruction, Harmless, Instructions, Programs, Ops, Allowed
<1>3. /\ Instruction("system", "transfer", Wsol(Agent), lamports) \in H
      /\ Instruction("token", "sync_native", Wsol(Agent), 0) \in H
  BY <1>1 DEF Instruction, Harmless, Instructions, Programs, Ops, Allowed, Wrapping,
     TokenHousekeeping
<1>4. Unwrap \in H
  BY <1>1 DEF Unwrap, Instruction, Harmless, Instructions, Programs, Ops, Allowed,
     TokenHousekeeping
<1> HIDE DEF H
<1>5. ComputeBudget \in Seq(H)
  BY <1>2 DEF ComputeBudget
<1>6. Wrap(lamports) \in Seq(H)
  BY <1>3 DEF Wrap
<1>7. \A needed \in BOOLEAN : When(needed, Unwrap) \in Seq(H)
  BY <1>4 DEF When
<1>8. <<>> \in Seq(H)
  OBVIOUS
<1> QED
  BY <1>5, <1>6, <1>7, <1>8 DEF H

LEMMA RouterPiece ==
  ASSUME NEW side \in Sides, NEW lamports \in Nat, venue \in {"curve", "amm"}
  PROVE  LET r == Instruction("router", RouterName(side), Wallet(Agent), lamports)
         IN  r \in Instructions /\ r.program = "router" /\ Allowed(r, Agent)
<1>1. Wallet(Agent) \in Keys
  BY AgentKeys, AgentIsParty
<1> DEFINE r == Instruction("router", RouterName(side), Wallet(Agent), lamports)
<1>2. RouterName(side) \in TradeNames
  BY DEF RouterName, TradeNames, Sides
<1>3. RouterName(side) \in Ops
  BY DEF RouterName, Sides, Ops
<1>4. r \in Instructions
  BY <1>1, <1>3 DEF Instructions, Programs, Instruction
<1>5. r.program = "router" /\ Allowed(r, Agent)
  BY <1>2 DEF Allowed, RouterTrade, Instruction
<1> QED
  BY <1>4, <1>5

\* The gate lets one trade through, among whatever is harmless.
LEMMA GateOnTrade ==
  ASSUME NEW p \in Seq(Harmless),
         NEW q \in Seq(Harmless), NEW r \in Instructions,
         r.program = "router", Allowed(r, Agent)
  PROVE  /\ (p \o <<r>>) \o q \in Seq(Instructions)
         /\ AssertOnlyPumpcoTrade((p \o <<r>>) \o q, Agent)
<1> DEFINE t == (p \o <<r>>) \o q
           n == Len(p)
           C == Instructions
           H == Harmless
<1>1. H \subseteq C
  BY DEF Harmless
<1>2. \A ix \in H : ix.program # "router" /\ Allowed(ix, Agent)
  BY DEF Harmless
<1> HIDE DEF H, C
<1>3. p \in Seq(H) /\ q \in Seq(H) /\ r \in C
  BY DEF H, C
<1>4. t \in Seq(C)
  <2>1. p \in Seq(C) /\ q \in Seq(C) /\ <<r>> \in Seq(C)
    BY <1>1, <1>3
  <2> QED
    BY <2>1
<1>5. n \in Nat /\ n + 1 \in DOMAIN t /\ t[n + 1] = r
  BY <1>3
<1>6. ASSUME NEW i \in DOMAIN t, i # n + 1
      PROVE  t[i] \in H
  <2>1. i \in 1 .. n + 1 + Len(q)
    BY <1>3
  <2>2. CASE i <= n
    <3>1. i \in 1 .. Len(p) /\ t[i] = p[i]
      BY <1>3, <2>1, <2>2
    <3> QED
      BY <1>3, <3>1
  <2>3. CASE i > n
    <3>1. i - (n + 1) \in 1 .. Len(q) /\ t[i] = q[i - (n + 1)]
      BY <1>3, <1>6, <2>1, <2>3
    <3> QED
      BY <1>3, <3>1
  <2> QED
    BY <1>3, <2>1, <2>2, <2>3
<1> HIDE DEF t, n
<1>7. {i \in DOMAIN t : t[i].program = "router"} = {n + 1}
  BY <1>2, <1>5, <1>6
<1>8. TradeCount(t) = 1
  BY <1>7, FS_Singleton DEF TradeCount
<1>9. \A i \in DOMAIN t : Allowed(t[i], Agent)
  BY <1>2, <1>5, <1>6
<1> QED
  BY <1>4, <1>8, <1>9 DEF AssertOnlyPumpcoTrade, t, C

\* And nothing without one.
LEMMA GateOnSetup ==
  ASSUME NEW p \in Seq(Harmless)
  PROVE  ~ AssertOnlyPumpcoTrade(p, Agent)
<1>1. \A ix \in Harmless : ix.program # "router"
  BY DEF Harmless
<1>2. \A i \in DOMAIN p : p[i] \in Harmless
  OBVIOUS
<1>3. {i \in DOMAIN p : p[i].program = "router"} = {}
  BY <1>1, <1>2
<1>4. TradeCount(p) = 0
  BY <1>3, FS_EmptySet DEF TradeCount
<1> QED
  BY <1>4 DEF AssertOnlyPumpcoTrade

LEMMA PrepIsSetup ==
  ASSUME NEW side \in Sides, venue \in {"curve", "amm"}
  PROVE  PrepOf(side) \in Seq(Setups)
<1> DEFINE S == Setups
           init == Instruction(venue, "init_user_volume_accumulator", Wallet(Agent), 0)
<1>1. Wallet(Agent) \in Keys /\ Wsol(Agent) \in Keys
  BY AgentKeys, AgentIsParty
<1>2. init \in S
  BY <1>1 DEF Setups, Setup, Instructions, Programs, Ops, Instruction
<1>3. \A key \in Keys : CreateAccount(key) \in S
  BY DEF Setups, Setup, Instructions, Programs, Ops, Instruction, CreateAccount
<1> HIDE DEF S, init
<1>4. ASSUME NEW needed \in BOOLEAN, NEW ix \in S
      PROVE  When(needed, ix) \in Seq(S)
  BY <1>4 DEF When
<1>5. /\ When(VolumeOf(venue) \notin accounts, init) \in Seq(S)
      /\ When(side = "buy" /\ "base" \notin accounts, CreateAccount(Wallet(Agent)))
           \in Seq(S)
      /\ When(venue = "amm" /\ wrapped = NoAccount, CreateAccount(Wsol(Agent)))
           \in Seq(S)
  BY <1>1, <1>2, <1>3, <1>4
<1>6. PrepOf(side) \in Seq(S)
  BY <1>5 DEF PrepOf, init
<1> QED
  BY <1>6 DEF S

LEMMA TradePassesGate ==
  ASSUME NEW side \in Sides, NEW lamports \in Nat, venue \in {"curve", "amm"}
  PROVE  /\ TradeOf(side, lamports) \in Seq(Instructions)
         /\ AssertOnlyPumpcoTrade(TradeOf(side, lamports), Agent)
<1> DEFINE H == Harmless
           wrapping == IF venue = "amm" /\ side = "buy" THEN Wrap(lamports) ELSE <<>>
           p == ComputeBudget \o wrapping
           r == Instruction("router", RouterName(side), Wallet(Agent), lamports)
           q == When(venue = "amm", Unwrap)
<1>1. wrapping \in Seq(H) /\ q \in Seq(H) /\ ComputeBudget \in Seq(H)
  BY Pieces
<1>2. r \in Instructions /\ r.program = "router" /\ Allowed(r, Agent)
  BY RouterPiece
<1>3. TradeOf(side, lamports) = (p \o <<r>>) \o q
  BY DEF TradeOf
<1> HIDE DEF H, wrapping, q, r
<1>4. p \in Seq(H)
  BY <1>1
<1> HIDE DEF p
<1> QED
  BY <1>1, <1>2, <1>3, <1>4, GateOnTrade DEF H

\* A mistake of the builder makes a transaction of another.
LEMMA SlipsAreInstructions ==
  ASSUME NEW X, NEW t \in Seq(X), NEW i \in DOMAIN t, NEW ix \in X
  PROVE  /\ ReplaceAt(t, i, ix) \in Seq(X)
         /\ RemoveAt(t, i) \in Seq(X)
         /\ InsertAt(t, i, ix) \in Seq(X)
<1>1. i \in 1 .. Len(t) /\ Len(t) \in Nat
  OBVIOUS
<1>2. SubSeq(t, 1, i - 1) \in Seq(X) /\ SubSeq(t, i + 1, Len(t)) \in Seq(X)
      /\ SubSeq(t, i, Len(t)) \in Seq(X) /\ <<ix>> \in Seq(X)
  BY <1>1
<1>3. ReplaceAt(t, i, ix) \in Seq(X)
  BY <1>1 DEF ReplaceAt
<1>4. RemoveAt(t, i) \in Seq(X)
  BY <1>2 DEF RemoveAt
<1>5. InsertAt(t, i, ix) \in Seq(X)
  <2>1. SubSeq(t, 1, i - 1) \o <<ix>> \in Seq(X)
    BY <1>2
  <2> QED
    BY <1>2, <2>1 DEF InsertAt
<1> QED
  BY <1>3, <1>4, <1>5

\* What each stage of the path may count on.
PathInv ==
    /\ venue \in {"curve", "amm"} /\ held \in BOOLEAN
    /\ stage \in Stages /\ slipped \in BOOLEAN
    /\ reply \in Replies \cup {Nothing}
    /\ intent \in Intents \cup {Nothing}
    /\ stage = "idle" <=> intent = Nothing
    /\ reply # Nothing => intent \in Wanted
    /\ stage \in {"built", "prepared"} =>
           /\ Buildable(intent)
           /\ prep \in Seq(Setups)
           /\ trade \in Seq(Instructions)
    /\ stage = "prepared" => AssertOnlyPumpcoTrade(trade, Agent)
    /\ GateKnowsTheBuilder

\* What the builder takes, wherever it comes from.
LEMMA IntentFields ==
  ASSUME NEW i \in Intents
  PROVE  /\ i # Nothing
         /\ i.action \in Sides
         /\ Buildable(i) => Size(i) \in Nat
<1>1. i # Nothing
  BY CommandAssumption
<1>2. CASE i \in [action : {"sell"}, mint : Mints]
  BY <1>1, <1>2 DEF Size, Sides
<1>3. CASE i \in [action : {"buy"}, mint : Mints, sol : Int]
  <2>1. i.action = "buy" /\ i.sol \in Int
    BY <1>3
  <2>2. Units \in Nat \ {0}
    BY IntentAssumption
  <2>3. Lamports(i.sol) \in Int
    BY <2>1, <2>2 DEF Lamports
  <2> QED
    BY <1>1, <2>1, <2>3 DEF Size, Sides, Buildable
<1> QED
  BY <1>2, <1>3 DEF Intents

LEMMA InitPathInv == SignerInit => PathInv
<1>1. "idle" \in Stages
  BY DEF Stages
<1> QED
  BY <1>1 DEF SignerInit, PathInv, GateKnowsTheBuilder

\* The money plays no part in it.
LEMMA ClearKeepsPath ==
  ASSUME PathInv, Clear, venue' = venue, held' \in BOOLEAN
  PROVE  PathInv'
<1>1. stage' \in Stages /\ slipped' \in BOOLEAN
  BY DEF Clear, Stages
<1>2. /\ stage' = "idle" /\ intent' = Nothing /\ reply' = Nothing
  BY DEF Clear
<1>3. GateKnowsTheBuilder'
  BY <1>2 DEF GateKnowsTheBuilder
<1> QED
  BY <1>1, <1>2, <1>3 DEF PathInv

LEMMA NextPathInv == PathInv /\ [SignerNext]_signerVars => PathInv'
<1> SUFFICES ASSUME PathInv, [SignerNext]_signerVars PROVE PathInv'
  OBVIOUS
<1>t. /\ venue \in {"curve", "amm"} /\ held \in BOOLEAN
      /\ stage \in Stages /\ slipped \in BOOLEAN
      /\ reply \in Replies \cup {Nothing}
      /\ intent \in Intents \cup {Nothing}
      /\ stage # "idle" => intent \in Intents
      /\ reply # Nothing => intent \in Wanted
      /\ GateKnowsTheBuilder
  BY DEF PathInv
<1>b. ASSUME NEW r \in Replies \cup {Nothing}, NEW i \in Intents, Begins(r, i),
             r # Nothing => i \in Wanted
      PROVE  PathInv'
  <2>1. /\ stage' = "parsed" /\ reply' = r /\ intent' = i
        /\ UNCHANGED <<venue, held, slipped>>
    BY <1>b DEF Begins, worldVars
  <2>2. stage' \in Stages /\ i # Nothing
    BY <2>1, IntentFields DEF Stages
  <2>3. GateKnowsTheBuilder'
    BY <2>1 DEF GateKnowsTheBuilder
  <2> QED
    BY <1>t, <1>b, <2>1, <2>2, <2>3 DEF PathInv
<1>0. ASSUME NEW c \in Commands, Command(c) PROVE PathInv'
  <2> DEFINE i == IF c.action = "buy" /\ c.sol = 0
                  THEN [c EXCEPT !.sol = DefaultSol] ELSE c
  <2>1. c \in Intents
    BY CommandAssumption
  <2>2. i \in Intents
    <3>1. CASE c \in [action : {"buy"}, mint : Mints, sol : Int]
      <4>1. [c EXCEPT !.sol = DefaultSol] \in [action : {"buy"}, mint : Mints, sol : Int]
        BY <3>1, SignerAssumption
      <4> QED
        BY <2>1, <4>1 DEF Intents
    <3>2. CASE c \in [action : {"sell"}, mint : Mints]
      BY <2>1, <3>2
    <3> QED
      BY <2>1, <3>1, <3>2 DEF Intents
  <2>3. Begins(Nothing, i)
    BY <1>0 DEF Command
  <2> HIDE DEF i
  <2> QED
    BY <1>b, <2>2, <2>3
<1>1. ASSUME NEW r \in Replies, Receive(r) PROVE PathInv'
  <2> DEFINE i == ParseIntent(r, MaxSolPerTrade)
  <2>1. i \in Wanted /\ Begins(r, i)
    BY <1>1, ParsedIsWanted DEF Receive
  <2> HIDE DEF i
  <2>2. i \in Intents
    BY <2>1, WantedFields
  <2> QED
    BY <1>b, <2>1, <2>2
<1>2. CASE Build
  <2> DEFINE side == intent.action
  <2>1. stage = "parsed" /\ stage' = "built" /\ Buildable(intent)
        /\ UNCHANGED <<venue, held, reply, intent, slipped>>
        /\ prep' = PrepOf(side) /\ trade' = TradeOf(side, Size(intent))
    BY <1>2 DEF Build, worldVars
  <2>2. intent \in Intents /\ side \in Sides /\ Size(intent) \in Nat
        /\ intent # Nothing
    BY <1>t, <2>1, IntentFields
  <2>3. prep' \in Seq(Setups)
    BY <1>t, <2>1, <2>2, PrepIsSetup
  <2>4. /\ trade' \in Seq(Instructions)
        /\ AssertOnlyPumpcoTrade(trade', Agent)
    BY <1>t, <2>1, <2>2, TradePassesGate
  <2>5. ~ AssertOnlyPumpcoTrade(prep', Agent)
    <3>1. prep' \in Seq(Harmless)
      <4>1. Setups \subseteq Harmless
        BY SetupsAreHarmless
      <4> QED
        BY <2>3, <4>1
    <3> QED
      BY <3>1, GateOnSetup
  <2>6. GateKnowsTheBuilder'
    BY <2>4, <2>5 DEF GateKnowsTheBuilder
  <2>7. stage' \in Stages /\ Buildable(intent)'
    BY <2>1 DEF Stages, Buildable
  <2> QED
    BY <1>t, <2>1, <2>2, <2>3, <2>4, <2>6, <2>7 DEF PathInv
<1>3. CASE Slip
  <2> DEFINE seqs == Seq(Instructions)
  <2>1. /\ stage = "built" /\ slipped' = TRUE
        /\ UNCHANGED <<venue, held, stage, reply, intent, prep>>
    BY <1>3 DEF Slip, worldVars
  <2>2. prep \in Seq(Setups) /\ trade \in seqs /\ Buildable(intent)
    BY <2>1 DEF PathInv
  <2>3. ASSUME NEW i \in DOMAIN trade, NEW ix \in Mistakes \cup {trade[i]},
               \/ trade' = ReplaceAt(trade, i, ix)
               \/ trade' = InsertAt(trade, i, ix)
               \/ trade' = RemoveAt(trade, i)
        PROVE  trade' \in seqs
    <3>1. trade \in Seq(Instructions) /\ i \in DOMAIN trade
      BY <2>2
    <3>2. trade[i] \in Instructions
      BY <3>1
    <3>3. ix \in Instructions
      BY <3>2, MistakesAssumption
    <3> QED
      BY <2>3, <3>1, <3>3, SlipsAreInstructions
  <2>4. ASSUME trade' = prep \o trade
        PROVE  trade' \in seqs
    <3>1. Setups \subseteq Instructions
      BY DEF Setups
    <3>2. prep \in seqs
      BY <2>2, <3>1
    <3> QED
      BY <2>2, <2>4, <3>2
  <2>5. trade' \in seqs
    BY <1>3, <2>3, <2>4 DEF Slip
  <2>6. GateKnowsTheBuilder' /\ Buildable(intent)'
    BY <2>1, <2>2 DEF GateKnowsTheBuilder, Buildable
  <2> QED
    BY <1>t, <2>1, <2>2, <2>5, <2>6 DEF PathInv
<1>4. CASE Inspect
  <2>1. venue' = venue /\ held' = held /\ stage = "built"
    BY <1>4 DEF Inspect
  <2>2. CASE Clear
    BY <1>t, <2>1, <2>2, ClearKeepsPath
  <2>3. CASE /\ AssertOnlyPumpcoTrade(trade, Agent) /\ stage' = "prepared"
             /\ UNCHANGED <<reply, intent, prep, trade, slipped>>
    <3>1. stage' \in Stages /\ GateKnowsTheBuilder'
      BY <2>3 DEF Stages, GateKnowsTheBuilder
    <3>2. prep \in Seq(Setups) /\ trade \in Seq(Instructions)
          /\ intent # Nothing /\ Buildable(intent)
      BY <2>1 DEF PathInv
    <3>4. Buildable(intent)'
      BY <2>3, <3>2 DEF Buildable
    <3>3. AssertOnlyPumpcoTrade(trade, Agent)' <=> AssertOnlyPumpcoTrade(trade, Agent)
      BY <2>3 DEF AssertOnlyPumpcoTrade, TradeCount
    <3> QED
      BY <1>t, <2>1, <2>3, <3>1, <3>2, <3>3, <3>4 DEF PathInv
  <2> QED
    BY <1>4, <2>2, <2>3 DEF Inspect
<1>5. ASSUME NEW price \in Prices, Send(price) PROVE PathInv'
  <2>1. Clear /\ venue' = venue /\ held' = (RouterPart(trade).op \in BuyNames)
    BY <1>5 DEF Send
  <2>2. held' \in BOOLEAN
    BY <2>1
  <2> QED
    BY <2>1, <2>2, ClearKeepsPath
<1>6. CASE GiveUp
  <2>1. Clear /\ venue' = venue /\ held' = held
    BY <1>6 DEF GiveUp, worldVars
  <2> QED
    BY <1>t, <2>1, ClearKeepsPath
<1>7. CASE Graduate
  <2>1. /\ venue' = "amm"
        /\ UNCHANGED <<held, stage, reply, intent, prep, trade, slipped>>
    BY <1>7 DEF Graduate, deskVars
  <2> QED
    BY <2>1 DEF PathInv, GateKnowsTheBuilder, AssertOnlyPumpcoTrade, TradeCount, Buildable
<1>8. CASE UNCHANGED signerVars
  <2>1. UNCHANGED <<venue, held, stage, reply, intent, prep, trade, slipped>>
    BY <1>8 DEF signerVars, worldVars, deskVars
  <2> QED
    BY <2>1 DEF PathInv, GateKnowsTheBuilder, AssertOnlyPumpcoTrade, TradeCount, Buildable
<1> QED
  BY <1>0, <1>1, <1>2, <1>3, <1>4, <1>5, <1>6, <1>7, <1>8 DEF SignerNext

LEMMA PathInvariant == SignerSpec => []PathInv
<1> QED
  BY InitPathInv, NextPathInv, PTL DEF SignerSpec

\* Nothing the parser accepts is refused for its size by the builder
\* (trade.js:280-282), however small a part of a lamport a reply may name.
THEOREM RepliesAreBuildable == SignerSpec => []IntentsAreBuildable
<1>1. PathInv => IntentsAreBuildable
  BY WantedFields DEF PathInv, IntentsAreBuildable
<1> QED
  BY <1>1, PathInvariant, PTL

\* "The gate demands exactly one router trade, so it would reject a setup
\* transaction outright" (trade.js:17): builder and gate agree on every trade and
\* every setup, and the agreement outlives a graduation in between.
THEOREM BuilderSatisfiesGate == SignerSpec => []GateKnowsTheBuilder
<1>1. PathInv => GateKnowsTheBuilder
  BY DEF PathInv
<1> QED
  BY <1>1, PathInvariant, PTL

-------------------------------------------------------------------------------
(***************************************************************************)
(* What a signed transaction costs.                                        *)
(***************************************************************************)

Owned == {"base", "curve", "amm"}

Moneys ==
    [native : Nat, wrapped : Nat \cup {NoAccount}, given : Nat, sunk : Nat,
     made : SUBSET Owned]

\* What the agent has, and what it spent on bids and on the rent of others.
Worth(m) ==
    m.native + m.sunk + (IF m.wrapped = NoAccount THEN 0 ELSE m.wrapped + Rent)

\* What an instruction may cost beside that, and the rent of an account.
Charge(ix) == IF ix.program = "router" THEN Ceiling(ix) ELSE 0

LEMMA MoneyFields ==
  ASSUME NEW m \in Moneys
  PROVE  /\ m.native \in Nat /\ m.given \in Nat /\ m.sunk \in Nat
         /\ m.made \subseteq Owned
         /\ m.wrapped \in Nat \/ m.wrapped = NoAccount
         /\ m.wrapped # NoAccount => m.wrapped \in Nat
BY DEF Moneys

LEMMA AgentsTwoKeys == Wallet(Agent) # Wsol(Agent)
<1>1. Wallet(Agent).wrapped = FALSE /\ Wsol(Agent).wrapped = TRUE
  BY DEF Wallet, Wsol
<1> QED
  BY <1>1

\* The effects of the instructions that pass the gate.
Outcome(m, ix, price, n) ==
    \/ /\ ix.program = "compute_budget"
       /\ n = IF ix.op = "price" THEN Sinks(m, ix.amount) ELSE m
    \/ /\ ix.program = "associated_token"
       /\ n = Creates(m, ix.key)
    \/ /\ ix.program = "router" /\ ix.op \in TradeNames
       /\ n = Routed(m, ix, price)
    \/ /\ ix.program \in {"curve", "amm"}
       /\ ix.op = "init_user_volume_accumulator"
       /\ n = IF ix.key = Wallet(Agent) THEN Opens(m, ix.program) ELSE Sinks(m, Rent)
    \/ /\ ix.program = "system" /\ ix.op = "transfer" /\ ix.key = Wsol(Agent)
       /\ n = Reaches([m EXCEPT !.native = @ - ix.amount], ix.key, ix.amount)
    \/ /\ ix.program = "token" /\ ix.op = "close_account" /\ ix.key = Wallet(Agent)
       /\ n = Reaches([m EXCEPT !.wrapped = NoAccount], ix.key, m.wrapped + Rent)
    \/ /\ ix.program = "token" /\ ix.op = "sync_native"
       /\ n = m

LEMMA Effects ==
  ASSUME NEW ix \in Instructions, Allowed(ix, Agent), NEW m, NEW price
  PROVE  Outcome(m, ix, price, Effect(m, ix, price))
<1> DEFINE n == Effect(m, ix, price)
<1> USE DEF Outcome
<1>1. CASE ix.program = "compute_budget"
  <2>1. n = IF ix.op = "price" THEN Sinks(m, ix.amount) ELSE m
    BY <1>1 DEF Effect
  <2> QED
    BY <1>1, <2>1
<1>2. CASE ix.program = "associated_token"
  <2>1. n = Creates(m, ix.key)
    BY <1>2 DEF Effect
  <2> QED
    BY <1>2, <2>1
<1>3. CASE RouterTrade(ix, Agent)
  <2>1. n = Routed(m, ix, price)
    BY <1>3 DEF Effect, RouterTrade
  <2> QED
    BY <1>3, <2>1 DEF RouterTrade
<1>4. CASE VenueSetup(ix)
  <2>1. n = IF ix.key = Wallet(Agent) THEN Opens(m, ix.program) ELSE Sinks(m, Rent)
    BY <1>4 DEF Effect, VenueSetup, VolumeOf
  <2> QED
    BY <1>4, <2>1 DEF VenueSetup
<1>5. CASE Wrapping(ix, Agent)
  <2>1. n = Reaches([m EXCEPT !.native = @ - ix.amount], ix.key, ix.amount)
    BY <1>5 DEF Effect, Wrapping
  <2> QED
    BY <1>5, <2>1 DEF Wrapping
<1>6. CASE TokenHousekeeping(ix, Agent)
  <2>1. ix.program = "token"
    BY <1>6 DEF TokenHousekeeping, Instructions, Programs
  <2>2. CASE ix.op = "close_account" /\ ix.key = Wallet(Agent)
    <3>1. n = Reaches([m EXCEPT !.wrapped = NoAccount], ix.key, m.wrapped + Rent)
      BY <2>1, <2>2 DEF Effect
    <3> QED
      BY <2>1, <2>2, <3>1
  <2>3. CASE ix.op = "sync_native"
    <3>1. n = m
      BY <2>1, <2>3 DEF Effect
    <3> QED
      BY <2>1, <2>3, <3>1
  <2> QED
    BY <1>6, <2>2, <2>3 DEF TokenHousekeeping
<1> HIDE DEF n
<1> QED
  BY <1>1, <1>2, <1>3, <1>4, <1>5, <1>6 DEF Allowed, n

\* What is left of the money after an instruction that did not fail.
Kept(m, n, charge) ==
    /\ n.given = m.given
    /\ \/ n.made = m.made /\ Worth(n) >= Worth(m) - charge
       \/ \E a \in Owned \ m.made :
              n.made = m.made \cup {a} /\ Worth(n) >= Worth(m) - Rent

LEMMA OpensKeeps ==
  ASSUME NEW m \in Moneys, NEW a \in Owned \ m.made, NEW charge,
         Opens(m, a).native >= 0
  PROVE  Opens(m, a) \in Moneys /\ Kept(m, Opens(m, a), charge)
<1> DEFINE n == Opens(m, a)
<1>1. /\ m.native \in Nat /\ m.given \in Nat /\ m.sunk \in Nat
      /\ m.made \subseteq Owned
  BY MoneyFields
<1>2. /\ n.native = m.native - Rent /\ n.made = m.made \cup {a}
      /\ n.wrapped = m.wrapped /\ n.given = m.given /\ n.sunk = m.sunk
  BY DEF Opens, Moneys
<1>3. n \in Moneys
  <2>1. m.native - Rent \in Nat
    BY <1>1, <1>2, SignerAssumption
  <2>2. m.made \cup {a} \in SUBSET Owned
    BY <1>1
  <2> QED
    BY <2>1, <2>2 DEF Opens, Moneys
<1>4. Worth(n) >= Worth(m) - Rent
  <2>1. m.wrapped \in Nat \/ m.wrapped = NoAccount
    BY MoneyFields
  <2> HIDE DEF n
  <2>2. CASE m.wrapped = NoAccount
    BY <1>1, <1>2, <2>2, SignerAssumption DEF Worth
  <2>3. CASE m.wrapped # NoAccount
    BY <1>1, <1>2, <2>1, <2>3, SignerAssumption DEF Worth
  <2> QED
    BY <2>2, <2>3
<1> QED
  BY <1>2, <1>3, <1>4 DEF Kept

LEMMA SinksKeeps ==
  ASSUME NEW m \in Moneys, NEW amount \in Nat, Sinks(m, amount).native >= 0
  PROVE  Sinks(m, amount) \in Moneys /\ Kept(m, Sinks(m, amount), 0)
<1> DEFINE n == Sinks(m, amount)
<1>1. /\ m.native \in Nat /\ m.given \in Nat /\ m.sunk \in Nat
      /\ m.made \in SUBSET Owned
      /\ m.wrapped \in Nat \/ m.wrapped = NoAccount
  BY MoneyFields
<1>2. /\ n.native = m.native - amount /\ n.sunk = m.sunk + amount
      /\ n.wrapped = m.wrapped /\ n.given = m.given /\ n.made = m.made
  BY DEF Sinks, Moneys
<1>3. m.native - amount \in Nat /\ m.sunk + amount \in Nat
  BY <1>1, <1>2
<1>4. n \in Moneys
  BY <1>3 DEF Sinks, Moneys
<1> HIDE DEF n
<1>5. Worth(n) = Worth(m) /\ Worth(m) \in Int
  BY <1>1, <1>2, <1>3, SignerAssumption DEF Worth
<1> QED
  BY <1>1, <1>2, <1>4, <1>5 DEF Kept, n

\* What arrives where.
LEMMA ReachesWhere ==
  ASSUME NEW m, NEW key, NEW amount
  PROVE  /\ key = Wallet(Agent) =>
                Reaches(m, key, amount) = [m EXCEPT !.native = @ + amount]
         /\ key = Wsol(Agent) =>
                Reaches(m, key, amount) = [m EXCEPT !.wrapped = @ + amount]
         /\ key \notin {Wallet(Agent), Wsol(Agent)} =>
                Reaches(m, key, amount) = [m EXCEPT !.given = @ + amount]
<1>1. CASE key = Wallet(Agent)
  BY <1>1, AgentsTwoKeys DEF Reaches
<1>2. CASE key = Wsol(Agent)
  BY <1>2, AgentsTwoKeys DEF Reaches
<1>3. CASE key \notin {Wallet(Agent), Wsol(Agent)}
  BY <1>3 DEF Reaches
<1> QED
  BY <1>1, <1>2, <1>3

LEMMA TransferKeeps ==
  ASSUME NEW ix \in Instructions, NEW m \in Moneys, NEW n, NEW price,
         ix.op = "transfer", ix.key = Wsol(Agent), Possible(m, ix, price),
         n = Reaches([m EXCEPT !.native = @ - ix.amount], ix.key, ix.amount),
         n.native >= 0
  PROVE  n \in Moneys /\ Kept(m, n, 0)
<1> DEFINE p == [m EXCEPT !.native = @ - ix.amount]
           a == ix.amount
<1>1. a \in Nat
  BY DEF Instructions
<1>2. /\ m.native \in Nat /\ m.given \in Nat /\ m.sunk \in Nat
      /\ m.made \in SUBSET Owned
      /\ m.wrapped # NoAccount /\ m.wrapped \in Nat
  BY MoneyFields DEF Possible
<1>3. p = [native |-> m.native - a, wrapped |-> m.wrapped,
           given |-> m.given, sunk |-> m.sunk, made |-> m.made]
  BY DEF Moneys
<1>r. n = Reaches(p, Wsol(Agent), a) /\ n.native >= 0
  OBVIOUS
<1> HIDE DEF p, a
<1>4. n = [p EXCEPT !.wrapped = @ + a] /\ n.native >= 0
  BY <1>r, ReachesWhere
<1>5. n = [native |-> m.native - a, wrapped |-> m.wrapped + a,
           given |-> m.given, sunk |-> m.sunk, made |-> m.made]
  BY <1>3, <1>4
<1>6. m.native - a \in Nat /\ m.wrapped + a \in Nat
  BY <1>1, <1>2, <1>4, <1>5
<1>7. n \in Moneys
  BY <1>2, <1>5, <1>6 DEF Moneys
<1>8. n.wrapped # NoAccount
  BY <1>5, <1>6, SignerAssumption
<1>9. Worth(n) = Worth(m) /\ Worth(m) \in Int
  BY <1>1, <1>2, <1>5, <1>8, SignerAssumption DEF Worth
<1> QED
  BY <1>5, <1>7, <1>9 DEF Kept

LEMMA CloseKeeps ==
  ASSUME NEW ix, NEW m \in Moneys, NEW n, NEW price,
         ix.op = "close_account", ix.key = Wallet(Agent), Possible(m, ix, price),
         n = Reaches([m EXCEPT !.wrapped = NoAccount], ix.key, m.wrapped + Rent)
  PROVE  n \in Moneys /\ Kept(m, n, 0)
<1> DEFINE p == [m EXCEPT !.wrapped = NoAccount]
           a == m.wrapped + Rent
<1>1. m.wrapped # NoAccount
  BY DEF Possible
<1>2. /\ m.native \in Nat /\ m.given \in Nat /\ m.sunk \in Nat
      /\ m.made \in SUBSET Owned /\ m.wrapped \in Nat
  BY <1>1, MoneyFields
<1>3. p = [native |-> m.native, wrapped |-> NoAccount,
           given |-> m.given, sunk |-> m.sunk, made |-> m.made]
  BY DEF Moneys
<1>4. a \in Nat /\ a = m.wrapped + Rent
  BY <1>2, SignerAssumption
<1>r. n = Reaches(p, Wallet(Agent), a)
  OBVIOUS
<1> HIDE DEF p, a
<1>5. n = [p EXCEPT !.native = @ + a]
  BY <1>r, ReachesWhere
<1>6. n = [native |-> m.native + a, wrapped |-> NoAccount,
           given |-> m.given, sunk |-> m.sunk, made |-> m.made]
  BY <1>3, <1>5
<1>7. n \in Moneys
  BY <1>2, <1>4, <1>6 DEF Moneys
<1>8. Worth(n) = Worth(m) /\ Worth(m) \in Int
  BY <1>1, <1>2, <1>4, <1>6, SignerAssumption DEF Worth
<1> QED
  BY <1>6, <1>7, <1>8 DEF Kept

LEMMA CreatesKeeps ==
  ASSUME NEW m \in Moneys, NEW key, Creates(m, key).native >= 0
  PROVE  Creates(m, key) \in Moneys /\ Kept(m, Creates(m, key), 0)
<1> DEFINE n == Creates(m, key)
<1>1. /\ m.native \in Nat /\ m.given \in Nat /\ m.sunk \in Nat
      /\ m.made \in SUBSET Owned
      /\ m.wrapped \in Nat \/ m.wrapped = NoAccount
  BY MoneyFields
<1>2. Kept(m, m, 0)
  <2>1. Worth(m) \in Int
    BY <1>1, SignerAssumption DEF Worth
  <2> QED
    BY <2>1 DEF Kept
<1>3. \/ key = Wsol(Agent) /\ m.wrapped = NoAccount
         /\ n = [m EXCEPT !.native = @ - Rent, !.wrapped = 0]
      \/ n = m
      \/ "base" \notin m.made /\ n = Opens(m, "base")
      \/ n = Sinks(m, Rent)
  <2>1. CASE key = Wsol(Agent)
    BY <2>1, AgentsTwoKeys DEF Creates
  <2>2. CASE key = Wallet(Agent)
    BY <2>2, AgentsTwoKeys DEF Creates
  <2>3. CASE key \notin {Wallet(Agent), Wsol(Agent)}
    BY <2>3 DEF Creates
  <2> QED
    BY <2>1, <2>2, <2>3
<1>n. n.native >= 0
  OBVIOUS
<1> HIDE DEF n
<1>4. CASE m.wrapped = NoAccount /\ n = [m EXCEPT !.native = @ - Rent, !.wrapped = 0]
  <2>1. n = [native |-> m.native - Rent, wrapped |-> 0,
             given |-> m.given, sunk |-> m.sunk, made |-> m.made]
    BY <1>4 DEF Moneys
  <2>2. m.native - Rent \in Nat /\ 0 # NoAccount
    BY <1>1, <1>n, <2>1, SignerAssumption
  <2>3. n \in Moneys
    BY <1>1, <2>1, <2>2 DEF Moneys
  <2>4. Worth(n) = Worth(m) /\ Worth(m) \in Int
    BY <1>1, <1>4, <2>1, <2>2, SignerAssumption DEF Worth
  <2> QED
    BY <2>1, <2>3, <2>4 DEF Kept, n
<1>5. CASE "base" \notin m.made /\ n = Opens(m, "base")
  <2>1. "base" \in Owned \ m.made
    BY <1>5 DEF Owned
  <2> QED
    BY <1>n, <1>5, <2>1, OpensKeeps DEF n
<1>6. CASE n = Sinks(m, Rent)
  BY <1>n, <1>6, SinksKeeps, SignerAssumption DEF n
<1>7. CASE n = m
  BY <1>2, <1>7 DEF n
<1> QED
  BY <1>3, <1>4, <1>5, <1>6, <1>7

\* A buy takes no more than its ceiling, and a sale nothing.
LEMMA RoutedKeeps ==
  ASSUME NEW ix \in Instructions, ix.op \in TradeNames,
         NEW m \in Moneys, NEW price \in Nat, NEW n,
         Possible(m, ix, price),
         n = Routed(m, ix, price), n.native >= 0,
         n.wrapped # NoAccount => n.wrapped >= 0
  PROVE  n \in Moneys /\ Kept(m, n, Ceiling(ix))
<1>1. /\ m.native \in Nat /\ m.given \in Nat /\ m.sunk \in Nat
      /\ m.made \in SUBSET Owned
      /\ m.wrapped \in Nat \/ m.wrapped = NoAccount
      /\ m.wrapped # NoAccount => m.wrapped \in Nat
  BY MoneyFields
<1>2. m = [native |-> m.native, wrapped |-> m.wrapped,
           given |-> m.given, sunk |-> m.sunk, made |-> m.made]
  BY DEF Moneys
<1> DEFINE c == Ceiling(ix)
           buys == ix.op \in BuyNames
<1>3. c \in Nat /\ (buys => price <= c)
  <2>1. ix.amount \in Nat /\ ChainCap \in Nat
    BY SignerAssumption DEF Instructions
  <2>2. buys => price <= ix.amount /\ price <= ChainCap
    BY DEF Possible
  <2> QED
    BY <2>1, <2>2 DEF Ceiling
<1>4. ix.op \in {"buy", "buy_amm", "sell", "sell_amm"}
      /\ (buys <=> ix.op \in {"buy", "buy_amm"})
  BY DEF TradeNames, BuyNames
<1> HIDE DEF c, buys
<1>5. CASE ix.op \in {"buy", "sell"}
  <2> DEFINE x == IF buys THEN m.native - price ELSE m.native + price
  <2>1. n = [m EXCEPT !.native = x]
    BY <1>4, <1>5 DEF Routed
  <2> HIDE DEF x
  <2>2. n = [native |-> x, wrapped |-> m.wrapped,
             given |-> m.given, sunk |-> m.sunk, made |-> m.made]
    BY <1>2, <2>1
  <2>3. x \in Nat /\ x >= m.native - c
    BY <1>1, <1>3, <2>2 DEF x
  <2>4. n \in Moneys
    BY <1>1, <2>2, <2>3 DEF Moneys
  <2>5. Worth(n) >= Worth(m) - c
    <3>1. CASE m.wrapped = NoAccount
      BY <1>1, <1>3, <2>2, <2>3, <3>1 DEF Worth
    <3>2. CASE m.wrapped # NoAccount
      BY <1>1, <1>3, <2>2, <2>3, <3>2, SignerAssumption DEF Worth
    <3> QED
      BY <3>1, <3>2
  <2> QED
    BY <2>2, <2>4, <2>5 DEF Kept, c
<1>6. CASE ix.op \in {"buy_amm", "sell_amm"}
  <2> DEFINE x == IF buys THEN m.wrapped - price ELSE m.wrapped + price
  <2>1. n = [m EXCEPT !.wrapped = x]
    BY <1>4, <1>6 DEF Routed
  <2>2. m.wrapped # NoAccount /\ m.wrapped \in Nat
    BY <1>1, <1>6 DEF Possible
  <2>3. x \in Int /\ x >= m.wrapped - c
    BY <1>3, <2>2
  <2> HIDE DEF x
  <2>4. n = [native |-> m.native, wrapped |-> x,
             given |-> m.given, sunk |-> m.sunk, made |-> m.made]
    BY <1>2, <2>1
  <2>5. x # NoAccount /\ x \in Nat
    BY <2>3, <2>4, SignerAssumption
  <2>6. n \in Moneys
    BY <1>1, <2>4, <2>5 DEF Moneys
  <2>7. Worth(n) >= Worth(m) - c
    BY <1>1, <1>3, <2>2, <2>3, <2>4, <2>5, SignerAssumption DEF Worth
  <2> QED
    BY <2>4, <2>6, <2>7 DEF Kept, c
<1> QED
  BY <1>4, <1>5, <1>6

\* One instruction that passes the gate pays nobody but the venue, and costs the
\* agent a ceiling, the rent of an account of its own, or what the gate does not
\* look at.
LEMMA RunKeeps ==
  ASSUME NEW ix \in Instructions, Allowed(ix, Agent),
         NEW m \in Moneys, NEW price \in Nat, Run(m, ix, price) # Broke
  PROVE  /\ Run(m, ix, price) \in Moneys
         /\ Kept(m, Run(m, ix, price), Charge(ix))
<1> DEFINE n == Effect(m, ix, price)
           c == Charge(ix)
<1>1. /\ Possible(m, ix, price) /\ Run(m, ix, price) = n
      /\ n.native >= 0
      /\ n.wrapped # NoAccount => n.wrapped >= 0
  BY DEF Run
<1>2. ix.amount \in Nat /\ Rent \in Nat
  BY SignerAssumption DEF Instructions
<1>3. ix.program # "router" => c = 0
  BY DEF Charge
<1>4. ix.program = "router" => c = Ceiling(ix)
  BY DEF Charge
<1>s. m \in Moneys /\ Kept(m, m, 0)
  <2>1. Worth(m) \in Int
    BY MoneyFields, SignerAssumption DEF Worth
  <2> QED
    BY <2>1 DEF Kept
<1> SUFFICES n \in Moneys /\ Kept(m, n, c)
  BY <1>1
<1>o. Outcome(m, ix, price, n)
  BY Effects
<1> HIDE DEF c, n
<1>5. CASE /\ ix.program = "compute_budget"
           /\ n = IF ix.op = "price" THEN Sinks(m, ix.amount) ELSE m
  BY <1>1, <1>2, <1>3, <1>s, <1>5, SinksKeeps
<1>6. CASE ix.program = "associated_token" /\ n = Creates(m, ix.key)
  BY <1>1, <1>3, <1>6, CreatesKeeps
<1>7. CASE /\ ix.program = "router" /\ ix.op \in TradeNames
           /\ n = Routed(m, ix, price)
  <2>1. n \in Moneys /\ Kept(m, n, Ceiling(ix))
    BY <1>1, <1>7, RoutedKeeps
  <2> QED
    BY <1>4, <1>7, <2>1
<1>8. CASE /\ ix.program \in {"curve", "amm"}
           /\ ix.op = "init_user_volume_accumulator"
           /\ n = IF ix.key = Wallet(Agent) THEN Opens(m, ix.program)
                  ELSE Sinks(m, Rent)
  <2>1. CASE ix.key = Wallet(Agent)
    <3>1. ix.program \in Owned \ m.made
      BY <1>1, <1>8, <2>1 DEF Possible, VolumeOf, Owned
    <3> QED
      BY <1>1, <1>8, <2>1, <3>1, OpensKeeps
  <2>2. CASE ix.key # Wallet(Agent)
    BY <1>1, <1>2, <1>3, <1>8, <2>2, SinksKeeps
  <2> QED
    BY <2>1, <2>2
<1>9. CASE /\ ix.program = "system" /\ ix.op = "transfer" /\ ix.key = Wsol(Agent)
           /\ n = Reaches([m EXCEPT !.native = @ - ix.amount], ix.key, ix.amount)
  BY <1>1, <1>3, <1>9, TransferKeeps
<1>10. CASE /\ ix.program = "token" /\ ix.op = "close_account"
            /\ ix.key = Wallet(Agent)
            /\ n = Reaches([m EXCEPT !.wrapped = NoAccount], ix.key,
                           m.wrapped + Rent)
  BY <1>1, <1>3, <1>10, CloseKeeps
<1>11. CASE ix.program = "token" /\ n = m
  BY <1>3, <1>s, <1>11
<1> QED
  BY <1>o, <1>5, <1>6, <1>7, <1>8, <1>9, <1>10, <1>11 DEF Outcome

\* The agent's worth, and the rent of the accounts made since, which is its own.
Bill(m) == Worth(m) + Rent * Cardinality(m.made \ accounts)

\* What the router may have taken by the k-th instruction.
Taken(ixs, k) ==
    IF \E j \in 1 .. k : ixs[j].program = "router"
    THEN Ceiling(RouterPart(ixs)) ELSE 0

Total == Wealth + sunk

Sound(ixs, k, price) ==
    LET m == After(SubSeq(ixs, 1, k), price)
    IN  m # Broke =>
            /\ m \in Moneys
            /\ m.given = given /\ accounts \subseteq m.made
            /\ Bill(m) >= Total - Taken(ixs, k)

OneTradeAtMost(ixs) ==
    \A i, j \in DOMAIN ixs :
        ixs[i].program = "router" /\ ixs[j].program = "router" => i = j

LEMMA BillType ==
  ASSUME NEW m \in Moneys
  PROVE  /\ Worth(m) \in Nat
         /\ IsFiniteSet(m.made \ accounts)
         /\ Cardinality(m.made \ accounts) \in Nat
         /\ Rent * Cardinality(m.made \ accounts) \in Nat
         /\ Bill(m) \in Nat
<1>1. Worth(m) \in Nat
  BY MoneyFields, SignerAssumption DEF Worth
<1>2. IsFiniteSet(Owned)
  <2>1. IsFiniteSet({"base"}) /\ IsFiniteSet({"curve"}) /\ IsFiniteSet({"amm"})
    BY FS_Singleton
  <2>2. IsFiniteSet({"base"} \cup {"curve"})
    BY <2>1, FS_Union
  <2>3. IsFiniteSet(({"base"} \cup {"curve"}) \cup {"amm"})
    BY <2>1, <2>2, FS_Union
  <2>4. Owned = ({"base"} \cup {"curve"}) \cup {"amm"}
    BY DEF Owned
  <2> QED
    BY <2>3, <2>4
<1>3. IsFiniteSet(m.made \ accounts)
  <2>1. m.made \ accounts \in SUBSET Owned
    BY MoneyFields
  <2> QED
    BY <1>2, <2>1, FS_Subset
<1>4. Cardinality(m.made \ accounts) \in Nat
  BY <1>3, FS_CardinalityType
<1>5. Rent * Cardinality(m.made \ accounts) \in Nat
  BY <1>4, SignerAssumption
<1> QED
  BY <1>1, <1>3, <1>4, <1>5 DEF Bill

LEMMA KeptBill ==
  ASSUME NEW m \in Moneys, NEW n \in Moneys, NEW charge \in Nat,
         Kept(m, n, charge), accounts \subseteq m.made
  PROVE  /\ n.given = m.given /\ accounts \subseteq n.made
         /\ Bill(n) >= Bill(m) - charge
<1>1. /\ Worth(m) \in Nat /\ Worth(n) \in Nat /\ Rent \in Nat
      /\ Rent * Cardinality(m.made \ accounts) \in Nat
      /\ Rent * Cardinality(n.made \ accounts) \in Nat
  BY BillType, SignerAssumption
<1>2. CASE n.made = m.made /\ Worth(n) >= Worth(m) - charge
  BY <1>1, <1>2 DEF Bill, Kept
<1>3. ASSUME NEW a \in Owned \ m.made, n.made = m.made \cup {a},
             Worth(n) >= Worth(m) - Rent
      PROVE  accounts \subseteq n.made /\ Bill(n) >= Bill(m) - charge
  <2> DEFINE S == m.made \ accounts
             T == n.made \ accounts
  <2>1. T = S \cup {a} /\ a \notin S
    BY <1>3
  <2>2. IsFiniteSet(S) /\ Cardinality(S) \in Nat
    BY BillType
  <2> HIDE DEF S, T
  <2>3. Cardinality(T) = Cardinality(S) + 1
    BY <2>1, <2>2, FS_AddElement
  <2>4. Rent * Cardinality(T) = Rent * Cardinality(S) + Rent
    BY <1>1, <2>2, <2>3
  <2>5. Bill(n) = Worth(n) + Rent * Cardinality(T)
        /\ Bill(m) = Worth(m) + Rent * Cardinality(S)
    BY DEF Bill, S, T
  <2>6. Rent * Cardinality(S) \in Nat
    BY <1>1, <2>2
  <2>7. Bill(n) >= Bill(m) - charge
    BY <1>1, <1>3, <2>4, <2>5, <2>6
  <2> QED
    BY <1>3, <2>7
<1>4. n.given = m.given
  BY DEF Kept
<1> QED
  BY <1>2, <1>3, <1>4 DEF Kept

LEMMA CeilingType ==
  ASSUME NEW ix \in Instructions
  PROVE  Ceiling(ix) \in Nat
<1>1. ix.amount \in Nat /\ ChainCap \in Nat
  BY SignerAssumption DEF Instructions
<1> QED
  BY <1>1 DEF Ceiling

\* The part of a transaction that is its trade.
LEMMA RouterPartIs ==
  ASSUME NEW ixs \in Seq(Instructions), OneTradeAtMost(ixs),
         NEW k \in DOMAIN ixs, ixs[k].program = "router"
  PROVE  RouterPart(ixs) = ixs[k]
<1> DEFINE i == CHOOSE i \in DOMAIN ixs : ixs[i].program = "router"
<1>1. i \in DOMAIN ixs /\ ixs[i].program = "router"
  OBVIOUS
<1> HIDE DEF i
<1>2. i = k
  BY <1>1 DEF OneTradeAtMost
<1> QED
  BY <1>2 DEF RouterPart, i

LEMMA TakenType ==
  ASSUME NEW ixs \in Seq(Instructions), OneTradeAtMost(ixs), NEW k \in 0 .. Len(ixs)
  PROVE  Taken(ixs, k) \in Nat
<1>1. CASE \E j \in 1 .. k : ixs[j].program = "router"
  <2>1. PICK j \in 1 .. k : ixs[j].program = "router"
    BY <1>1
  <2>2. j \in DOMAIN ixs
    OBVIOUS
  <2>3. RouterPart(ixs) = ixs[j] /\ ixs[j] \in Instructions
    BY <2>1, <2>2, RouterPartIs
  <2> QED
    BY <1>1, <2>3, CeilingType DEF Taken
<1>2. CASE ~ \E j \in 1 .. k : ixs[j].program = "router"
  BY <1>2 DEF Taken
<1> QED
  BY <1>1, <1>2

\* One more instruction leaves the transaction sound.
LEMMA SoundStep ==
  ASSUME NEW ixs \in Seq(Instructions), NEW price \in Nat,
         OneTradeAtMost(ixs), \A i \in DOMAIN ixs : Allowed(ixs[i], Agent),
         Total \in Int, NEW k \in 0 .. Len(ixs) - 1,
         Sound(ixs, k, price)
  PROVE  Sound(ixs, k + 1, price)
<1> DEFINE C == Instructions
           s == SubSeq(ixs, 1, k)
           ix == ixs[k + 1]
           m == After(s, price)
           n == After(SubSeq(ixs, 1, k + 1), price)
           t == Taken(ixs, k)
           u == Taken(ixs, k + 1)
           c == Charge(ix)
<1>1. /\ k \in Nat /\ k + 1 \in DOMAIN ixs /\ 1 .. k + 1 \subseteq DOMAIN ixs
      /\ ix \in C /\ Allowed(ix, Agent)
  OBVIOUS
<1>2. s \in Seq(C) /\ SubSeq(ixs, 1, k + 1) = Append(s, ix)
  OBVIOUS
<1>3. n = Run(m, ix, price)
  <2> HIDE DEF C, s, ix
  <2> QED
    BY <1>1, <1>2, AfterOneMore
<1>4. t \in Nat /\ u \in Nat /\ c \in Nat /\ u >= t + c
  <2>1. t \in Nat /\ u \in Nat
    <3>1. k \in 0 .. Len(ixs) /\ k + 1 \in 0 .. Len(ixs)
      OBVIOUS
    <3> QED
      BY <3>1, TakenType
  <2>2. CASE ix.program = "router"
    <3>1. ~ \E j \in 1 .. k : ixs[j].program = "router"
      BY <1>1, <2>2 DEF OneTradeAtMost
    <3>2. t = 0
      BY <3>1 DEF Taken
    <3>3. RouterPart(ixs) = ix
      BY <1>1, <2>2, RouterPartIs
    <3>4. u = Ceiling(ix) /\ c = Ceiling(ix)
      BY <1>1, <2>2, <3>3 DEF Taken, Charge
    <3> QED
      BY <2>1, <3>2, <3>4
  <2>3. CASE ix.program # "router"
    <3>1. c = 0
      BY <2>3 DEF Charge
    <3>2. t = u \/ t = 0
      BY <1>1 DEF Taken
    <3> QED
      BY <2>1, <3>1, <3>2
  <2> QED
    BY <2>2, <2>3
<1>5. m # Broke =>
          /\ m \in Moneys
          /\ m.given = given /\ accounts \subseteq m.made
          /\ Bill(m) >= Total - t
  BY DEF Sound
<1> HIDE DEF C, s, ix, m, n, t, u, c
<1>6. ASSUME n # Broke
      PROVE  /\ n \in Moneys
             /\ n.given = given /\ accounts \subseteq n.made
             /\ Bill(n) >= Total - u
  <2>1. m # Broke
    BY <1>3, <1>6 DEF Run
  <2>2. n \in Moneys /\ Kept(m, n, c)
    BY <1>1, <1>3, <1>5, <1>6, <2>1, RunKeeps DEF C, c
  <2>3. /\ n.given = m.given /\ accounts \subseteq n.made
        /\ Bill(n) >= Bill(m) - c
    BY <1>4, <1>5, <2>1, <2>2, KeptBill
  <2>4. Bill(n) \in Nat /\ Bill(m) \in Nat
    BY <1>5, <2>1, <2>2, BillType
  <2>5. Bill(m) >= Total - t
    BY <1>5, <2>1
  <2>6. Bill(n) >= Total - u
    BY <1>4, <2>3, <2>4, <2>5
  <2>7. n.given = given
    BY <1>5, <2>1, <2>3
  <2> QED
    BY <2>2, <2>3, <2>6, <2>7
<1> QED
  BY <1>6 DEF Sound, n, u

LEMMA TotalIs ==
  ASSUME Money \in Moneys
  PROVE  /\ Total = Worth(Money) /\ Total \in Nat
         /\ Wealth \in Nat /\ sunk \in Nat
<1>1. Money.native = native /\ Money.wrapped = wrapped /\ Money.sunk = sunk
  BY DEF Money
<1>2. /\ native \in Nat /\ sunk \in Nat
      /\ wrapped \in Nat \/ wrapped = NoAccount
  BY <1>1, MoneyFields
<1>3. Wealth \in Nat
  BY <1>2, SignerAssumption DEF Wealth
<1>4. Total = Worth(Money)
  BY <1>1, <1>2, SignerAssumption DEF Total, Wealth, Worth
<1> QED
  BY <1>2, <1>3, <1>4 DEF Total

LEMMA WholeTransaction ==
  ASSUME NEW ixs \in Seq(Instructions), NEW price \in Nat,
         OneTradeAtMost(ixs), \A i \in DOMAIN ixs : Allowed(ixs[i], Agent),
         Money \in Moneys
  PROVE  Sound(ixs, Len(ixs), price)
<1> DEFINE n == Len(ixs)
           S == {k \in 0 .. n : Sound(ixs, k, price)}
<1>1. n \in Nat /\ IsFiniteSet(0 .. n)
  BY FS_Interval
<1>2. Total = Worth(Money) /\ Total \in Int
  BY TotalIs
<1>3. Sound(ixs, 0, price)
  <2>1. SubSeq(ixs, 1, 0) = <<>>
    OBVIOUS
  <2>2. After(SubSeq(ixs, 1, 0), price) = Money
    BY <2>1, AfterNone
  <2>3. Money.given = given /\ Money.made = accounts
    BY DEF Money
  <2>4. Bill(Money) >= Total
    <3>1. Bill(Money) = Worth(Money) + Rent * Cardinality(Money.made \ accounts)
      BY DEF Bill
    <3>2. Rent * Cardinality(Money.made \ accounts) \in Nat
      BY BillType
    <3> QED
      BY <1>2, <3>1, <3>2
  <2>5. Taken(ixs, 0) = 0
    BY DEF Taken
  <2>6. Bill(Money) \in Nat
    BY BillType
  <2> QED
    BY <1>2, <2>2, <2>3, <2>4, <2>5, <2>6 DEF Sound
<1>4. 0 \in S
  BY <1>1, <1>3
<1>5. PICK k \in S : \A l \in S : l <= k
  <2>1. IsFiniteSet(S) /\ \A x \in S : x \in Int
    BY <1>1, FS_Subset
  <2> QED
    BY <1>4, <2>1, GreatestExists
<1>6. k = n
  <2> SUFFICES ASSUME k # n PROVE FALSE
    OBVIOUS
  <2>1. k \in 0 .. n - 1 /\ k + 1 \in 0 .. n /\ Sound(ixs, k, price)
    BY <1>1
  <2>2. Sound(ixs, k + 1, price)
    BY <1>2, <2>1, SoundStep
  <2>3. k + 1 \in S
    BY <2>1, <2>2
  <2> QED
    BY <1>1, <1>5, <2>1, <2>3
<1> QED
  BY <1>6

\* What a transaction that did not fail leaves behind.
LEMMA TransactionKeeps ==
  ASSUME NEW ixs \in Seq(Instructions), NEW price \in Nat,
         OneTradeAtMost(ixs), \A i \in DOMAIN ixs : Allowed(ixs[i], Agent),
         Money \in Moneys, After(ixs, price) # Broke
  PROVE  LET m == After(ixs, price)
         IN  /\ m \in Moneys
             /\ m.given = given /\ accounts \subseteq m.made
             /\ Bill(m) >= Total - Taken(ixs, Len(ixs))
<1>1. SubSeq(ixs, 1, Len(ixs)) = ixs
  OBVIOUS
<1>2. Sound(ixs, Len(ixs), price)
  BY WholeTransaction
<1> QED
  BY <1>1, <1>2 DEF Sound

LEMMA SettledIs ==
  ASSUME NEW m \in Moneys, Settles(m)
  PROVE  /\ Money' = m
         /\ given' = m.given /\ accounts' = m.made
         /\ Total' = Worth(m)
<1>1. /\ native' = m.native /\ wrapped' = m.wrapped
      /\ given' = m.given /\ sunk' = m.sunk /\ accounts' = m.made
  BY DEF Settles
<1>2. m = [native |-> m.native, wrapped |-> m.wrapped,
           given |-> m.given, sunk |-> m.sunk, made |-> m.made]
  BY DEF Moneys
<1>3. Money' = m
  BY <1>1, <1>2 DEF Money
<1>4. Total' = Worth(m)
  <2>1. /\ m.native \in Nat /\ m.sunk \in Nat /\ Rent \in Nat
        /\ m.wrapped \in Nat \/ m.wrapped = NoAccount
    BY MoneyFields, SignerAssumption
  <2> QED
    BY <1>1, <2>1 DEF Total, Wealth, Worth
<1> QED
  BY <1>1, <1>3, <1>4

\* The gate counts one trade.
LEMMA GateCounts ==
  ASSUME NEW X, NEW ixs \in Seq(X), AssertOnlyPumpcoTrade(ixs, Agent)
  PROVE  OneTradeAtMost(ixs) /\ \A i \in DOMAIN ixs : Allowed(ixs[i], Agent)
<1> DEFINE S == {i \in DOMAIN ixs : ixs[i].program = "router"}
<1>1. IsFiniteSet(S)
  <2>1. DOMAIN ixs = 1 .. Len(ixs) /\ Len(ixs) \in Nat
    OBVIOUS
  <2>2. IsFiniteSet(DOMAIN ixs)
    BY <2>1, FS_Interval
  <2>3. S \in SUBSET DOMAIN ixs
    OBVIOUS
  <2> QED
    BY <2>2, <2>3, FS_Subset
<1>2. Cardinality(S) = 1
  BY DEF AssertOnlyPumpcoTrade, TradeCount
<1> HIDE DEF S
<1>3. PICK x : S = {x}
  BY <1>1, <1>2, FS_Singleton
<1>4. OneTradeAtMost(ixs)
  BY <1>3 DEF OneTradeAtMost, S
<1> QED
  BY <1>4 DEF AssertOnlyPumpcoTrade

LEMMA SetupTrades ==
  ASSUME NEW ixs \in Seq(Setups)
  PROVE  /\ ixs \in Seq(Instructions) /\ OneTradeAtMost(ixs)
         /\ \A i \in DOMAIN ixs : Allowed(ixs[i], Agent)
<1>1. \A ix \in Setups :
          ix \in Instructions /\ ix.program # "router" /\ Allowed(ix, Agent)
  BY SetupsAreHarmless DEF Harmless
<1>2. \A i \in DOMAIN ixs : ixs[i] \in Setups
  OBVIOUS
<1>3. ixs \in Seq(Instructions)
  BY <1>1
<1> QED
  BY <1>1, <1>2, <1>3 DEF OneTradeAtMost

SignerInv == PathInv /\ Money \in Moneys

LEMMA InitSignerInv == SignerInit => SignerInv
<1> SUFFICES ASSUME SignerInit PROVE SignerInv
  OBVIOUS
<1>1. PathInv
  BY InitPathInv
<1>2. /\ native \in Nat /\ wrapped = NoAccount
      /\ given = 0 /\ sunk = 0 /\ accounts = {}
  BY SignerAssumption DEF SignerInit
<1>3. Money \in Moneys
  BY <1>2 DEF Money, Moneys
<1> QED
  BY <1>1, <1>3 DEF SignerInv

\* A setup that ran, and a trade that ran, leave money behind.
LEMMA InspectMoney ==
  ASSUME SignerInv, Inspect
  PROVE  Money' \in Moneys
<1>1. CASE Clear /\ UNCHANGED <<moneyVars, accounts>>
  <2>1. UNCHANGED <<native, wrapped, given, sunk, accounts>>
    BY <1>1 DEF moneyVars
  <2>2. Money' = Money
    BY <2>1 DEF Money
  <2> QED
    BY <2>2 DEF SignerInv
<1>2. CASE Settles(After(prep, 0))
  <2>1. stage = "built"
    BY DEF Inspect
  <2>2. prep \in Seq(Setups) /\ Money \in Moneys
    BY <2>1 DEF SignerInv, PathInv
  <2>3. /\ prep \in Seq(Instructions) /\ OneTradeAtMost(prep)
        /\ \A i \in DOMAIN prep : Allowed(prep[i], Agent)
    BY <2>2, SetupTrades
  <2>4. After(prep, 0) # Broke
    BY <1>2 DEF Settles
  <2>5. After(prep, 0) \in Moneys
    BY <2>2, <2>3, <2>4, TransactionKeeps
  <2> QED
    BY <1>2, <2>5, SettledIs
<1> QED
  BY <1>1, <1>2 DEF Inspect

\* What the trade of a signed transaction may take.
LEMMA SignedCeiling ==
  ASSUME NEW ixs \in Seq(Instructions), AssertOnlyPumpcoTrade(ixs, Agent)
  PROVE  /\ Ceiling(RouterPart(ixs)) \in Nat
         /\ Taken(ixs, Len(ixs)) \in Nat
         /\ Taken(ixs, Len(ixs)) <= Ceiling(RouterPart(ixs))
<1>1. OneTradeAtMost(ixs)
  BY GateCounts
<1>2. \E k \in DOMAIN ixs : ixs[k].program = "router"
  <2>1. TradeCount(ixs) = 1
    BY DEF AssertOnlyPumpcoTrade
  <2> DEFINE S == {i \in DOMAIN ixs : ixs[i].program = "router"}
  <2>2. Cardinality(S) = 1
    BY <2>1 DEF TradeCount
  <2> HIDE DEF S
  <2>3. S # {}
    <3>1. Cardinality({}) = 0
      BY FS_EmptySet
    <3> QED
      BY <2>2, <3>1
  <2> QED
    BY <2>3 DEF S
<1>3. PICK k \in DOMAIN ixs : ixs[k].program = "router"
  BY <1>2
<1>4. RouterPart(ixs) = ixs[k] /\ ixs[k] \in Instructions
  BY <1>1, <1>3, RouterPartIs
<1>5. Ceiling(RouterPart(ixs)) \in Nat
  BY <1>4, CeilingType
<1>6. Taken(ixs, Len(ixs)) \in {0, Ceiling(RouterPart(ixs))}
  BY DEF Taken
<1> QED
  BY <1>5, <1>6

LEMMA SendKeeps ==
  ASSUME SignerInv, NEW price \in Prices, Send(price)
  PROVE  /\ Money' \in Moneys /\ given' = given
         /\ Wealth' + Rent * Cardinality(accounts' \ accounts) + (sunk' - sunk)
               >= Wealth - Ceiling(RouterPart(trade))
<1> DEFINE m == After(trade, price)
           c == Ceiling(RouterPart(trade))
           t == Taken(trade, Len(trade))
<1>1. stage = "prepared" /\ Settles(m) /\ m # Broke
  BY DEF Send, Settles
<1>2. /\ trade \in Seq(Instructions) /\ Money \in Moneys
      /\ AssertOnlyPumpcoTrade(trade, Agent)
  BY <1>1 DEF SignerInv, PathInv
<1>3. price \in Nat
  BY SignerAssumption DEF Prices
<1>4. OneTradeAtMost(trade) /\ \A i \in DOMAIN trade : Allowed(trade[i], Agent)
  BY <1>2, GateCounts
<1>5. m \in Moneys /\ m.given = given /\ Bill(m) >= Total - t
  BY <1>1, <1>2, <1>3, <1>4, TransactionKeeps
<1>6. c \in Nat /\ t \in Nat /\ t <= c
  BY <1>2, SignedCeiling
<1> HIDE DEF m, c, t
<1>7. /\ Money' = m /\ given' = m.given /\ accounts' = m.made
      /\ Total' = Worth(m)
  BY <1>1, <1>5, SettledIs
<1>8. Bill(m) = Total' + Rent * Cardinality(accounts' \ accounts)
  BY <1>7 DEF Bill
<1>9. Bill(m) \in Nat /\ Rent * Cardinality(accounts' \ accounts) \in Nat
  BY <1>5, <1>7, BillType
<1>10. Total = Wealth + sunk /\ Wealth \in Nat /\ sunk \in Nat
  BY <1>2, TotalIs DEF Total
<1>11. Total' = Wealth' + sunk' /\ Wealth' \in Nat /\ sunk' \in Nat
  <2>1. m.native \in Nat /\ m.sunk \in Nat /\ (m.wrapped \in Nat \/ m.wrapped = NoAccount)
    BY <1>5, MoneyFields
  <2>2. native' = m.native /\ wrapped' = m.wrapped /\ sunk' = m.sunk
    BY <1>1 DEF Settles
  <2> QED
    BY <2>1, <2>2, SignerAssumption DEF Total, Wealth
<1>12. Wealth' + Rent * Cardinality(accounts' \ accounts) + (sunk' - sunk)
          >= Wealth - c
  BY <1>5, <1>6, <1>8, <1>9, <1>10, <1>11
<1> QED
  BY <1>5, <1>7, <1>12 DEF c

LEMMA NextSignerInv == SignerInv /\ [SignerNext]_signerVars => SignerInv'
<1> SUFFICES ASSUME SignerInv, [SignerNext]_signerVars PROVE SignerInv'
  OBVIOUS
<1>1. PathInv'
  BY NextPathInv DEF SignerInv
<1>2. CASE UNCHANGED <<native, wrapped, given, sunk, accounts>>
  <2>1. Money' = Money
    BY <1>2 DEF Money
  <2> QED
    BY <1>1, <2>1 DEF SignerInv
<1>3. CASE Inspect
  BY <1>1, <1>3, InspectMoney DEF SignerInv
<1>4. ASSUME NEW price \in Prices, Send(price) PROVE SignerInv'
  BY <1>1, <1>4, SendKeeps DEF SignerInv
<1>5. ASSUME NEW r, NEW i, Begins(r, i) PROVE SignerInv'
  <2>1. UNCHANGED <<native, wrapped, given, accounts>> /\ sunk' = 0
    BY <1>5 DEF Begins, worldVars
  <2>2. Money' = [Money EXCEPT !.sunk = 0]
    BY <2>1 DEF Money
  <2>3. Money \in Moneys
    BY DEF SignerInv
  <2>4. Money' \in Moneys
    BY <2>2, <2>3 DEF Moneys
  <2> QED
    BY <1>1, <2>4 DEF SignerInv
<1>6. CASE \/ \E c \in Commands : Command(c)
           \/ \E r \in Replies : Receive(r)
  BY <1>5, <1>6 DEF Command, Receive
<1>7. CASE Build \/ Slip \/ GiveUp \/ Graduate \/ UNCHANGED signerVars
  <2>1. UNCHANGED <<native, wrapped, given, sunk, accounts>>
    BY <1>7 DEF Build, Slip, GiveUp, Graduate, signerVars, worldVars, moneyVars
  <2> QED
    BY <1>2, <2>1
<1> QED
  BY <1>3, <1>4, <1>6, <1>7 DEF SignerNext

LEMMA SignerInvariant == SignerSpec => []SignerInv
<1> QED
  BY InitSignerInv, NextSignerInv, PTL DEF SignerSpec

\* The types of the path follow from the invariant.
LEMMA SignerTypes == SignerInv => SignerTypeOK
<1> SUFFICES ASSUME SignerInv PROVE SignerTypeOK
  OBVIOUS
<1>1. /\ native \in Nat /\ given \in Nat /\ sunk \in Nat
      /\ accounts \subseteq Owned /\ wrapped \in Nat \cup {NoAccount}
  BY DEF SignerInv, Money, Moneys
<1>2. accounts \subseteq {"base", VolumeOf("curve"), VolumeOf("amm")}
  BY <1>1 DEF Owned, VolumeOf
<1> QED
  BY <1>1, <1>2 DEF SignerInv, PathInv, SignerTypeOK

\* The types of the path: every amount stays a natural number, so no transaction
\* that ran overdrew an account.
THEOREM SignerTypeCorrect == SignerSpec => []SignerTypeOK
<1> QED
  BY SignerTypes, SignerInvariant, PTL

\* "Refuses to let the key touch anything that is not a pumpco trade"
\* (policy.js:5): whatever instruction the builder put in the place of another, of
\* any program and for any amount, a transaction that was signed pays nobody but
\* the venue, and takes no more than its own buy may: its ceiling, within the
\* chain's cap.  Beside it go only the rent of the agent's own accounts, and what
\* the gate does not look at: the bid, and the rent of accounts made for others.
THEOREM SignedIsAlwaysTheTrade == SignerSpec => SignedIsTheTrade
<1>1. ASSUME SignerInv, [SignerNext]_signerVars
      PROVE  [stage = "prepared" =>
                  /\ given' = given
                  /\ Wealth' + Rent * Cardinality(accounts' \ accounts)
                         + (sunk' - sunk)
                        >= Wealth - Ceiling(RouterPart(trade))]_signerVars
  <2> SUFFICES ASSUME SignerNext, stage = "prepared"
               PROVE  /\ given' = given
                      /\ Wealth' + Rent * Cardinality(accounts' \ accounts)
                             + (sunk' - sunk)
                            >= Wealth - Ceiling(RouterPart(trade))
    BY <1>1
  <2>1. ASSUME NEW price \in Prices, Send(price)
        PROVE  /\ given' = given
               /\ Wealth' + Rent * Cardinality(accounts' \ accounts)
                      + (sunk' - sunk)
                     >= Wealth - Ceiling(RouterPart(trade))
    BY <1>1, <2>1, SendKeeps
  <2>2. CASE GiveUp \/ Graduate
    <3>1. UNCHANGED <<native, wrapped, given, sunk, accounts>>
      BY <2>2 DEF GiveUp, Graduate, worldVars, moneyVars
    <3>2. Wealth' = Wealth /\ accounts' \ accounts = {}
      BY <3>1 DEF Wealth
    <3>3. Cardinality(accounts' \ accounts) = 0
      BY <3>2, FS_EmptySet
    <3>4. Money \in Moneys /\ trade \in Seq(Instructions)
          /\ AssertOnlyPumpcoTrade(trade, Agent)
      BY <1>1 DEF SignerInv, PathInv
    <3>5. Ceiling(RouterPart(trade)) \in Nat
      BY <3>4, SignedCeiling
    <3>6. Wealth \in Nat /\ sunk \in Nat
      BY <3>4, TotalIs
    <3> HIDE DEF SignerInv
    <3> QED
      BY <3>1, <3>2, <3>3, <3>5, <3>6, SignerAssumption
  <2>3. ~ (\/ \E c \in Commands : Command(c)
           \/ \E r \in Replies : Receive(r)
           \/ Build \/ Slip \/ Inspect)
    BY DEF Command, Receive, Begins, Build, Slip, Inspect
  <2> QED
    BY <2>1, <2>2, <2>3 DEF SignerNext
<1> QED
  BY <1>1, SignerInvariant, PTL DEF SignerSpec, SignedIsTheTrade

-------------------------------------------------------------------------------
(***************************************************************************)
(* What the setup is for.                                                  *)
(***************************************************************************)

\* The accounts that a trade insists on.
Ready(m, side) ==
    /\ VolumeOf(venue) \in m.made
    /\ side = "buy" => "base" \in m.made
    /\ venue = "amm" => m.wrapped # NoAccount

LEMMA AfterWhen ==
  ASSUME NEW X, NEW ixs \in Seq(X), NEW ix \in X, NEW needed \in BOOLEAN, NEW price
  PROVE  /\ When(needed, ix) \in Seq(X)
         /\ ixs \o When(needed, ix) \in Seq(X)
         /\ needed => After(ixs \o When(needed, ix), price)
                          = Run(After(ixs, price), ix, price)
         /\ ~ needed => After(ixs \o When(needed, ix), price) = After(ixs, price)
<1>1. CASE needed
  <2>1. When(needed, ix) = <<ix>> /\ ixs \o <<ix>> = Append(ixs, ix)
    BY <1>1 DEF When
  <2>2. After(Append(ixs, ix), price) = Run(After(ixs, price), ix, price)
    BY AfterOneMore
  <2>3. <<ix>> \in Seq(X) /\ Append(ixs, ix) \in Seq(X)
    OBVIOUS
  <2> QED
    BY <1>1, <2>1, <2>2, <2>3
<1>2. CASE ~ needed
  <2>1. When(needed, ix) = <<>> /\ ixs \o <<>> = ixs
    BY <1>2 DEF When
  <2> QED
    BY <1>2, <2>1
<1> QED
  BY <1>1, <1>2

LEMMA RunFails ==
  ASSUME NEW ix, NEW price
  PROVE  Run(Broke, ix, price) = Broke
BY DEF Run

LEMMA RunWorks ==
  ASSUME NEW m, NEW ix, NEW price, Run(m, ix, price) # Broke
  PROVE  /\ m # Broke /\ Possible(m, ix, price)
         /\ Run(m, ix, price) = Effect(m, ix, price)
BY DEF Run

\* The three instructions of a setup, wherever they run.
LEMMA InitVolume ==
  ASSUME venue \in {"curve", "amm"}, NEW m \in Moneys, NEW n,
         n = Run(m, Instruction(venue, "init_user_volume_accumulator",
                                Wallet(Agent), 0), 0),
         n # Broke
  PROVE  n \in Moneys /\ n.made = m.made \cup {venue} /\ n.wrapped = m.wrapped
<1> DEFINE ix == Instruction(venue, "init_user_volume_accumulator", Wallet(Agent), 0)
<1>1. /\ ix.program = venue /\ ix.op = "init_user_volume_accumulator"
      /\ ix.key = Wallet(Agent)
  BY DEF Instruction
<1>2. Wallet(Agent) \in Keys
  BY AgentKeys, AgentIsParty
<1>3. ix \in Setups
  BY <1>2 DEF Setups, Setup, Instructions, Programs, Ops, Instruction
<1>4. ix \in Instructions /\ Allowed(ix, Agent)
  BY <1>3, SetupsAreHarmless DEF Harmless
<1>5. n = Run(m, ix, 0)
  OBVIOUS
<1> HIDE DEF ix
<1>6. n = Effect(m, ix, 0) /\ n \in Moneys
  BY <1>4, <1>5, RunWorks, RunKeeps
<1>7. Outcome(m, ix, 0, n)
  BY <1>4, <1>6, Effects
<1>8. n = Opens(m, venue)
  BY <1>1, <1>7 DEF Outcome
<1> QED
  BY <1>6, <1>8 DEF Opens, Moneys

LEMMA MakeAccount ==
  ASSUME NEW m \in Moneys, NEW key \in {Wallet(Agent), Wsol(Agent)},
         NEW n, n = Run(m, CreateAccount(key), 0), n # Broke
  PROVE  /\ n \in Moneys /\ m.made \subseteq n.made
         /\ key = Wallet(Agent) => "base" \in n.made /\ n.wrapped = m.wrapped
         /\ key = Wsol(Agent) => n.wrapped # NoAccount
<1> DEFINE ix == CreateAccount(key)
<1>1. ix.program = "associated_token" /\ ix.key = key
  BY DEF CreateAccount, Instruction
<1>2. key \in Keys
  BY AgentKeys, AgentIsParty
<1>3. ix \in Setups
  BY <1>2 DEF Setups, Setup, Instructions, Programs, Ops, Instruction,
     CreateAccount
<1>4. ix \in Instructions /\ Allowed(ix, Agent)
  BY <1>3, SetupsAreHarmless DEF Harmless
<1>5. n = Run(m, ix, 0)
  OBVIOUS
<1> HIDE DEF ix
<1>6. n = Effect(m, ix, 0) /\ n \in Moneys
  BY <1>4, <1>5, RunWorks, RunKeeps
<1>7. Outcome(m, ix, 0, n)
  BY <1>4, <1>6, Effects
<1>8. n = Creates(m, key)
  BY <1>1, <1>7 DEF Outcome
<1>9. CASE key = Wsol(Agent)
  <2>1. key # Wallet(Agent)
    BY <1>9, AgentsTwoKeys
  <2>2. CASE m.wrapped = NoAccount
    <3>1. n = [m EXCEPT !.native = @ - Rent, !.wrapped = 0]
      BY <1>8, <1>9, <2>2, AgentsTwoKeys DEF Creates
    <3>2. n.wrapped = 0 /\ n.made = m.made
      BY <3>1 DEF Moneys
    <3> QED
      BY <1>6, <2>1, <3>2, SignerAssumption
  <2>3. CASE m.wrapped # NoAccount
    <3>1. n = m
      BY <1>8, <1>9, <2>3, AgentsTwoKeys DEF Creates
    <3> QED
      BY <1>6, <2>1, <2>3, <3>1
  <2> QED
    BY <2>2, <2>3
<1>10. CASE key = Wallet(Agent)
  <2>1. key # Wsol(Agent)
    BY <1>10, AgentsTwoKeys
  <2>2. n = IF "base" \notin m.made THEN Opens(m, "base") ELSE m
    BY <1>8, <1>10, <2>1 DEF Creates
  <2>3. CASE "base" \notin m.made
    <3>1. n.wrapped = m.wrapped /\ n.made = m.made \cup {"base"}
      BY <2>2, <2>3 DEF Moneys, Opens
    <3> QED
      BY <1>6, <2>1, <3>1
  <2>4. CASE "base" \in m.made
    BY <1>6, <2>1, <2>2, <2>4
  <2> QED
    BY <2>3, <2>4
<1> QED
  BY <1>9, <1>10

\* A setup that does not fail leaves nothing to be desired.
LEMMA SetupMakesReady ==
  ASSUME Money \in Moneys, venue \in {"curve", "amm"}, NEW side \in Sides,
         After(PrepOf(side), 0) # Broke
  PROVE  /\ After(PrepOf(side), 0) \in Moneys
         /\ Ready(After(PrepOf(side), 0), side)
<1> DEFINE X == Setups
           i1 == Instruction(venue, "init_user_volume_accumulator", Wallet(Agent), 0)
           i2 == CreateAccount(Wallet(Agent))
           i3 == CreateAccount(Wsol(Agent))
           A == VolumeOf(venue) \notin accounts
           B == side = "buy" /\ "base" \notin accounts
           C == venue = "amm" /\ wrapped = NoAccount
           a == When(A, i1)
           b == When(B, i2)
           c == When(C, i3)
           m1 == After(a, 0)
           m2 == After(a \o b, 0)
           m3 == After((a \o b) \o c, 0)
<1>1. Wallet(Agent) \in Keys /\ Wsol(Agent) \in Keys
  BY AgentKeys, AgentIsParty
<1>2. i1 \in X /\ i2 \in X /\ i3 \in X
  BY <1>1 DEF Setups, Setup, Instructions, Programs, Ops, Instruction,
     CreateAccount
<1>3. A \in BOOLEAN /\ B \in BOOLEAN /\ C \in BOOLEAN
  OBVIOUS
<1>4. PrepOf(side) = (a \o b) \o c
  BY DEF PrepOf
<1>5. Money.made = accounts /\ Money.wrapped = wrapped
  BY DEF Money
<1> HIDE DEF X, i1, i2, i3, A, B, C
<1>6. a \in Seq(X) /\ (A => m1 = Run(Money, i1, 0)) /\ (~ A => m1 = Money)
  <2> DEFINE e == <<>>
  <2>1. e \in Seq(X) /\ After(e, 0) = Money
    BY AfterNone
  <2>2. e \o a = a
    BY <1>2 DEF When
  <2> HIDE DEF e, a
  <2>3. i1 \in X /\ A \in BOOLEAN
    BY <1>2, <1>3
  <2>4. /\ a \in Seq(X)
        /\ A => After(e \o a, 0) = Run(After(e, 0), i1, 0)
        /\ ~ A => After(e \o a, 0) = After(e, 0)
    BY <2>1, <2>3, AfterWhen DEF a
  <2> QED
    BY <2>1, <2>2, <2>4
<1> HIDE DEF a
<1>7. a \o b \in Seq(X) /\ (B => m2 = Run(m1, i2, 0)) /\ (~ B => m2 = m1)
  BY <1>2, <1>3, <1>6, AfterWhen
<1> HIDE DEF b
<1>8. (C => m3 = Run(m2, i3, 0)) /\ (~ C => m3 = m2)
  <2> DEFINE q == a \o b
  <2>1. q \in Seq(X) /\ i3 \in X /\ C \in BOOLEAN
    BY <1>2, <1>3, <1>7
  <2> HIDE DEF q
  <2>2. (C => After(q \o c, 0) = Run(After(q, 0), i3, 0))
        /\ (~ C => After(q \o c, 0) = After(q, 0))
    BY <2>1, AfterWhen
  <2> QED
    BY <2>2 DEF q
<1>9. m3 # Broke
  BY <1>4
<1> HIDE DEF c, m1, m2, m3
<1>10. m2 # Broke /\ m1 # Broke
  BY <1>6, <1>7, <1>8, <1>9, RunFails
<1>11. /\ m1 \in Moneys /\ venue \in m1.made /\ accounts \subseteq m1.made
       /\ m1.wrapped = wrapped
  <2>1. CASE A
    <3>1. m1 \in Moneys /\ m1.made = Money.made \cup {venue}
          /\ m1.wrapped = Money.wrapped
      BY <1>6, <1>10, <2>1, InitVolume DEF i1
    <3> QED
      BY <1>5, <3>1
  <2>2. CASE ~ A
    BY <1>5, <1>6, <2>2 DEF A, VolumeOf
  <2> QED
    BY <2>1, <2>2
<1>12. /\ m2 \in Moneys /\ venue \in m2.made /\ m2.wrapped = wrapped
       /\ side = "buy" => "base" \in m2.made
  <2>1. CASE B
    <3>1. m2 \in Moneys /\ m1.made \subseteq m2.made
          /\ "base" \in m2.made /\ m2.wrapped = m1.wrapped
      BY <1>7, <1>10, <1>11, <2>1, MakeAccount DEF i2
    <3> QED
      BY <1>11, <3>1
  <2>2. CASE ~ B
    BY <1>7, <1>11, <2>2 DEF B
  <2> QED
    BY <2>1, <2>2
<1>13. /\ m3 \in Moneys /\ venue \in m3.made
       /\ side = "buy" => "base" \in m3.made
       /\ venue = "amm" => m3.wrapped # NoAccount
  <2>1. CASE C
    <3>1. m3 \in Moneys /\ m2.made \subseteq m3.made /\ m3.wrapped # NoAccount
      BY <1>8, <1>9, <1>12, <2>1, MakeAccount DEF i3
    <3> QED
      BY <1>12, <3>1
  <2>2. CASE ~ C
    BY <1>8, <1>12, <2>2 DEF C
  <2> QED
    BY <2>1, <2>2
<1> QED
  BY <1>4, <1>13 DEF Ready, VolumeOf, m3

\* An instruction that does nothing to the money.
LEMMA IdleRun ==
  ASSUME NEW ix \in Instructions, NEW m \in Moneys, NEW price,
         \/ ix.program = "compute_budget" /\ ix.op = "limit"
         \/ ix.program = "token" /\ ix.op = "sync_native" /\ m.wrapped # NoAccount
  PROVE  Run(m, ix, price) = m
<1>1. Effect(m, ix, price) = m
  BY DEF Effect
<1>2. m # Broke /\ m.native >= 0 /\ (m.wrapped # NoAccount => m.wrapped >= 0)
  BY MoneyFields DEF Broke
<1>3. Possible(m, ix, price)
  BY DEF Possible, BuyNames
<1> QED
  BY <1>1, <1>2, <1>3 DEF Run

LEMMA RunDoes ==
  ASSUME NEW m \in Moneys, NEW ix, NEW price, NEW n \in Moneys,
         Possible(m, ix, price), n = Effect(m, ix, price)
  PROVE  Run(m, ix, price) = n /\ n # Broke
<1>1. m # Broke /\ n # Broke
  BY MoneyFields DEF Broke
<1>2. n.native >= 0 /\ (n.wrapped # NoAccount => n.wrapped >= 0)
  BY MoneyFields
<1> QED
  BY <1>1, <1>2 DEF Run

LEMMA RouterRuns ==
  ASSUME venue \in {"curve", "amm"}, NEW side \in Sides, NEW lamports \in Nat,
         NEW price \in Nat, price <= lamports, price <= ChainCap,
         NEW m \in Moneys, Ready(m, side),
         side = "sell" => held,
         side = "buy" /\ venue = "curve" => m.native >= price,
         side = "buy" /\ venue = "amm" => m.wrapped >= price,
         NEW n,
         n = Run(m, Instruction("router", RouterName(side), Wallet(Agent), lamports),
                 price)
  PROVE  /\ n \in Moneys /\ n # Broke
         /\ venue = "amm" => n.wrapped # NoAccount
<1> DEFINE ix == Instruction("router", RouterName(side), Wallet(Agent), lamports)
           e == Effect(m, ix, price)
<1>1. /\ ix.program = "router" /\ ix.op = RouterName(side) /\ ix.amount = lamports
      /\ ix \in Instructions
  BY RouterPiece DEF Instruction
<1>2. /\ m.native \in Nat /\ m.given \in Nat /\ m.sunk \in Nat
      /\ m.made \in SUBSET Owned
      /\ m.wrapped \in Nat \/ m.wrapped = NoAccount
      /\ m.wrapped # NoAccount => m.wrapped \in Nat
  BY MoneyFields
<1>3. m = [native |-> m.native, wrapped |-> m.wrapped,
           given |-> m.given, sunk |-> m.sunk, made |-> m.made]
  BY DEF Moneys
<1>4. n = Run(m, ix, price)
  OBVIOUS
<1> HIDE DEF ix
<1>5. e = Routed(m, ix, price)
  BY <1>1 DEF Effect
<1> HIDE DEF e
<1>6. Possible(m, ix, price)
  BY <1>1 DEF Possible, Ready, RouterName, Sides, BuyNames
<1>7. CASE venue = "curve"
  <2> DEFINE x == IF side = "buy" THEN m.native - price ELSE m.native + price
  <2>1. ix.op = side
    BY <1>1, <1>7 DEF RouterName
  <2>2. e = [m EXCEPT !.native = x]
    BY <1>5, <2>1 DEF Routed, Sides
  <2>3. x \in Nat
    BY <1>2, <1>7
  <2> HIDE DEF x
  <2>4. e = [native |-> x, wrapped |-> m.wrapped,
             given |-> m.given, sunk |-> m.sunk, made |-> m.made]
    BY <1>3, <2>2
  <2>5. e \in Moneys
    BY <1>2, <2>3, <2>4 DEF Moneys
  <2> QED
    BY <1>4, <1>6, <1>7, <2>5, RunDoes DEF e
<1>8. CASE venue = "amm"
  <2> DEFINE x == IF side = "buy" THEN m.wrapped - price ELSE m.wrapped + price
  <2>1. ix.op = IF side = "buy" THEN "buy_amm" ELSE "sell_amm"
    BY <1>1, <1>8 DEF RouterName
  <2>2. e = [m EXCEPT !.wrapped = x]
    BY <1>5, <2>1 DEF Routed
  <2>3. m.wrapped \in Nat
    BY <1>2, <1>8 DEF Ready
  <2>4. x \in Nat
    BY <1>8, <2>3
  <2> HIDE DEF x
  <2>5. e = [native |-> m.native, wrapped |-> x,
             given |-> m.given, sunk |-> m.sunk, made |-> m.made]
    BY <1>3, <2>2
  <2>6. e \in Moneys /\ e.wrapped # NoAccount
    BY <1>2, <2>4, <2>5, SignerAssumption DEF Moneys
  <2>7. Run(m, ix, price) = e /\ e # Broke
    BY <1>6, <2>6, RunDoes DEF e
  <2> QED
    BY <1>4, <2>6, <2>7
<1> QED
  BY <1>7, <1>8

LEMMA UnwrapRuns ==
  ASSUME NEW price, NEW m \in Moneys, m.wrapped # NoAccount
  PROVE  Run(m, Unwrap, price) # Broke
<1>1. Unwrap.program = "token" /\ Unwrap.op = "close_account"
      /\ Unwrap.key = Wallet(Agent)
  BY DEF Unwrap, Instruction
<1> DEFINE e == Effect(m, Unwrap, price)
<1>2. e = Reaches([m EXCEPT !.wrapped = NoAccount], Unwrap.key, m.wrapped + Rent)
  BY <1>1 DEF Effect
<1> HIDE DEF e
<1>3. Possible(m, Unwrap, price)
  BY <1>1, AgentsTwoKeys DEF Possible, BuyNames
<1>4. e \in Moneys
  BY <1>1, <1>2, <1>3, CloseKeeps
<1> QED
  BY <1>3, <1>4, RunDoes DEF e

\* What a trade does before its router instruction: it bids.
LEMMA BudgetRuns ==
  ASSUME Money \in Moneys, NEW price, native >= Bid
  PROVE  LET m == After(ComputeBudget, price)
         IN  /\ ComputeBudget \in Seq(Instructions)
             /\ m \in Moneys
             /\ m = [native |-> native - Bid, wrapped |-> wrapped, given |-> given,
                     sunk |-> sunk + Bid, made |-> accounts]
<1> DEFINE X == Instructions
           l == Instruction("compute_budget", "limit", Wallet(Agent), 0)
           p == Instruction("compute_budget", "price", Wallet(Agent), Bid)
           e == <<>>
           f == <<l>>
           n == [native |-> native - Bid, wrapped |-> wrapped, given |-> given,
                 sunk |-> sunk + Bid, made |-> accounts]
<1>1. Wallet(Agent) \in Keys /\ Bid \in Nat
  BY AgentKeys, AgentIsParty, SignerAssumption
<1>2. l \in X /\ p \in X
  BY <1>1 DEF Instruction, Instructions, Programs, Ops
<1>3. /\ l.program = "compute_budget" /\ l.op = "limit"
      /\ p.program = "compute_budget" /\ p.op = "price" /\ p.amount = Bid
  BY DEF Instruction
<1>4. ComputeBudget = <<l, p>>
  BY DEF ComputeBudget
<1>n. n \in Moneys
  <2>1. /\ native \in Nat /\ given \in Nat /\ sunk \in Nat
        /\ accounts \in SUBSET Owned /\ wrapped \in Nat \cup {NoAccount}
    BY DEF Money, Moneys
  <2>2. native - Bid \in Nat /\ sunk + Bid \in Nat
    BY <1>1, <2>1
  <2> QED
    BY <2>1, <2>2 DEF Moneys
<1> HIDE DEF X, l, p
<1>5. /\ e \in Seq(X) /\ f = Append(e, l) /\ f \in Seq(X)
      /\ ComputeBudget = Append(f, p) /\ ComputeBudget \in Seq(X)
  BY <1>2, <1>4
<1>6. After(e, price) = Money
  BY AfterNone
<1> HIDE DEF e, f
<1>7. After(f, price) = Run(Money, l, price)
  BY <1>2, <1>5, <1>6, AfterOneMore
<1>8. Run(Money, l, price) = Money
  BY <1>2, <1>3, IdleRun DEF X
<1>9. Run(Money, p, price) = n
  <2>1. Effect(Money, p, price) = n
    BY <1>3 DEF Effect, Sinks, Money
  <2>2. Possible(Money, p, price)
    BY <1>3 DEF Possible, BuyNames
  <2> HIDE DEF n
  <2> QED
    BY <1>n, <2>1, <2>2, RunDoes
<1>10. After(ComputeBudget, price) = Run(After(f, price), p, price)
  BY <1>2, <1>5, AfterOneMore
<1> HIDE DEF n
<1>11. After(ComputeBudget, price) = n
  BY <1>7, <1>8, <1>9, <1>10
<1> QED
  BY <1>5, <1>n, <1>11 DEF X, n

LEMMA WrapRuns ==
  ASSUME Money \in Moneys, NEW lamports \in Nat, NEW price,
         native >= Bid + lamports, wrapped # NoAccount
  PROVE  LET q == ComputeBudget \o Wrap(lamports)
             m == After(q, price)
         IN  /\ q \in Seq(Instructions)
             /\ m \in Moneys /\ m.made = accounts
             /\ m.wrapped # NoAccount /\ m.wrapped >= lamports
<1> DEFINE X == Instructions
           t == Instruction("system", "transfer", Wsol(Agent), lamports)
           s == Instruction("token", "sync_native", Wsol(Agent), 0)
           b == ComputeBudget
           bt == Append(b, t)
           q == b \o Wrap(lamports)
           d == native - Bid
           o == [native |-> d, wrapped |-> wrapped,
                 given |-> given, sunk |-> sunk + Bid, made |-> accounts]
           p == [native |-> d - lamports, wrapped |-> wrapped,
                 given |-> given, sunk |-> sunk + Bid, made |-> accounts]
           n == [native |-> d - lamports, wrapped |-> wrapped + lamports,
                 given |-> given, sunk |-> sunk + Bid, made |-> accounts]
<1>1. Wsol(Agent) \in Keys /\ Bid \in Nat
  BY AgentKeys, AgentIsParty, SignerAssumption
<1>2. t \in X /\ s \in X
  BY <1>1 DEF Instruction, Instructions, Programs, Ops
<1>3. /\ t.program = "system" /\ t.op = "transfer" /\ t.key = Wsol(Agent)
      /\ t.amount = lamports
      /\ s.program = "token" /\ s.op = "sync_native"
  BY DEF Instruction
<1>4. /\ native \in Nat /\ wrapped \in Nat /\ given \in Nat /\ sunk \in Nat
      /\ accounts \in SUBSET Owned
  BY DEF Money, Moneys
<1>5. n \in Moneys /\ n.wrapped # NoAccount
  <2>1. d - lamports \in Nat /\ wrapped + lamports \in Nat /\ sunk + Bid \in Nat
    BY <1>1, <1>4
  <2> QED
    BY <1>4, <2>1, SignerAssumption DEF Moneys
<1>6. b \in Seq(X) /\ After(b, price) = o /\ o \in Moneys
  <2>1. native >= Bid
    BY <1>1, <1>4
  <2> QED
    BY <2>1, BudgetRuns
<1>7. q = Append(bt, s) /\ bt \in Seq(X) /\ q \in Seq(X)
  <2>1. Wrap(lamports) = <<t, s>>
    BY DEF Wrap
  <2> HIDE DEF b, t, s, X
  <2> QED
    BY <1>2, <1>6, <2>1
<1> HIDE DEF X, t, s, b, d
<1>8. Run(o, t, price) = n
  <2>1. Effect(o, t, price)
          = Reaches([o EXCEPT !.native = @ - lamports], Wsol(Agent), lamports)
    BY <1>3 DEF Effect
  <2>2. [o EXCEPT !.native = @ - lamports] = p
    OBVIOUS
  <2>3. Reaches(p, Wsol(Agent), lamports) = [p EXCEPT !.wrapped = @ + lamports]
    BY ReachesWhere
  <2>4. [p EXCEPT !.wrapped = @ + lamports] = n
    OBVIOUS
  <2>5. Effect(o, t, price) = n
    BY <2>1, <2>2, <2>3, <2>4
  <2>6. Possible(o, t, price)
    BY <1>3 DEF Possible, BuyNames
  <2> HIDE DEF o, n
  <2> QED
    BY <1>5, <1>6, <2>5, <2>6, RunDoes
<1>9. After(bt, price) = n
  <2>1. After(bt, price) = Run(After(b, price), t, price)
    BY <1>2, <1>6, AfterOneMore
  <2> QED
    BY <1>6, <1>8, <2>1
<1>10. n.made = accounts /\ n.wrapped >= lamports
  BY <1>4
<1> HIDE DEF n, bt, q
<1>11. Run(n, s, price) = n
  BY <1>2, <1>3, <1>5, IdleRun DEF X
<1>12. After(q, price) = n
  <2>1. After(q, price) = Run(After(bt, price), s, price)
    BY <1>2, <1>7, AfterOneMore
  <2> QED
    BY <1>9, <1>11, <2>1
<1> QED
  BY <1>5, <1>7, <1>10, <1>12 DEF q, b, X

\* A trade that finds its accounts and its money does not fail.
LEMMA TradeRuns ==
  ASSUME Money \in Moneys, venue \in {"curve", "amm"}, NEW side \in Sides,
         NEW lamports \in Nat, NEW price \in 0 .. lamports, price <= ChainCap,
         native >= Bid + lamports,
         side = "sell" => held, Ready(Money, side)
  PROVE  After(TradeOf(side, lamports), price) # Broke
<1> DEFINE X == Instructions
           b == ComputeBudget
           r == Instruction("router", RouterName(side), Wallet(Agent), lamports)
           w == IF venue = "amm" /\ side = "buy" THEN Wrap(lamports) ELSE <<>>
           q == b \o w
           qr == q \o <<r>>
           m == After(q, price)
           n == After(qr, price)
<1>1. /\ native \in Nat /\ accounts \in SUBSET Owned
      /\ wrapped \in Nat \/ wrapped = NoAccount
      /\ Money.made = accounts /\ Money.wrapped = wrapped
      /\ Money.native = native /\ Bid \in Nat
  BY SignerAssumption DEF Money, Moneys
<1>2. r \in X /\ Unwrap \in X
  <2>1. Wallet(Agent) \in Keys
    BY AgentKeys, AgentIsParty
  <2>2. Unwrap \in X
    BY <2>1 DEF Unwrap, Instruction, Instructions, Programs, Ops
  <2> QED
    BY <2>2, RouterPiece
<1>3. /\ b \in Seq(X) /\ After(b, price) \in Moneys
      /\ After(b, price).native = native - Bid
      /\ After(b, price).wrapped = wrapped /\ After(b, price).made = accounts
  <2>1. native >= Bid
    BY <1>1
  <2> QED
    BY <2>1, BudgetRuns
<1>4. price \in Nat /\ price <= lamports
  OBVIOUS
<1>5. /\ q \in Seq(X) /\ m \in Moneys /\ m.made = accounts
      /\ venue = "curve" => m.native >= lamports
      /\ venue = "amm" => m.wrapped # NoAccount
      /\ side = "buy" /\ venue = "amm" => m.wrapped >= lamports
  <2>1. CASE venue = "amm" /\ side = "buy"
    <3>1. wrapped # NoAccount
      BY <1>1, <2>1 DEF Ready
    <3>2. q = b \o Wrap(lamports)
      BY <2>1
    <3>3. /\ b \o Wrap(lamports) \in Seq(X)
          /\ After(b \o Wrap(lamports), price) \in Moneys
          /\ After(b \o Wrap(lamports), price).made = accounts
          /\ After(b \o Wrap(lamports), price).wrapped # NoAccount
          /\ After(b \o Wrap(lamports), price).wrapped >= lamports
      BY <3>1, WrapRuns
    <3> HIDE DEF b, w, q, m, X
    <3> QED
      BY <2>1, <3>2, <3>3 DEF m
  <2>2. CASE ~ (venue = "amm" /\ side = "buy")
    <3>1. w = <<>>
      BY <2>2
    <3> HIDE DEF b, w, X
    <3>2. q = b
      BY <1>3, <3>1
    <3>3. venue = "amm" => wrapped # NoAccount
      BY <1>1 DEF Ready
    <3>4. native - Bid >= lamports
      BY <1>1
    <3> HIDE DEF q
    <3> QED
      BY <1>3, <2>2, <3>2, <3>3, <3>4
  <2> QED
    BY <2>1, <2>2
<1>6. TradeOf(side, lamports) = qr \o When(venue = "amm", Unwrap)
  BY DEF TradeOf
<1> HIDE DEF b, w, q, X
<1>7. qr = Append(q, r) /\ qr \in Seq(X)
  BY <1>2, <1>5
<1>8. n = Run(m, r, price)
  <2> HIDE DEF qr, r
  <2> QED
    BY <1>2, <1>5, <1>7, AfterOneMore
<1>9. Ready(m, side)
  BY <1>1, <1>5 DEF Ready
<1> HIDE DEF qr, m, n
<1>10. n \in Moneys /\ n # Broke /\ (venue = "amm" => n.wrapped # NoAccount)
  <2>0. m.native \in Nat /\ (m.wrapped # NoAccount => m.wrapped \in Nat)
    BY <1>5, MoneyFields
  <2>1. side = "buy" /\ venue = "curve" => m.native >= price
    BY <1>4, <1>5, <2>0
  <2>2. side = "buy" /\ venue = "amm" => m.wrapped >= price
    BY <1>4, <1>5, <2>0
  <2>3. n = Run(m, Instruction("router", RouterName(side), Wallet(Agent), lamports),
                price)
    BY <1>8
  <2> QED
    BY <1>4, <1>5, <1>9, <2>1, <2>2, <2>3, RouterRuns
<1> HIDE DEF r
<1>11. /\ venue = "amm" => After(TradeOf(side, lamports), price) = Run(n, Unwrap, price)
       /\ venue # "amm" => After(TradeOf(side, lamports), price) = n
  <2> DEFINE needed == venue = "amm"
  <2>1. qr \in Seq(X) /\ Unwrap \in X /\ needed \in BOOLEAN
    BY <1>2, <1>7
  <2> HIDE DEF needed
  <2>2. /\ needed => After(qr \o When(needed, Unwrap), price)
                       = Run(After(qr, price), Unwrap, price)
        /\ ~ needed => After(qr \o When(needed, Unwrap), price) = After(qr, price)
    BY <2>1, AfterWhen DEF X
  <2> QED
    BY <1>6, <2>2 DEF needed, n
<1>12. venue = "amm" => Run(n, Unwrap, price) # Broke
  BY <1>10, UnwrapRuns
<1> QED
  BY <1>10, <1>11, <1>12

-------------------------------------------------------------------------------

\* The trade is the one built for where the mint trades now.
Current == trade = TradeOf(intent.action, Size(intent))

\* Or the mint has graduated since: no instruction is for its new venue.
Outdated ==
    venue = "amm" /\ \A i \in DOMAIN trade : trade[i].op # RouterName(intent.action)

Builts == {"built", "prepared"}

\* What a setup is for, stage by stage.
PreparedInv ==
    /\ stage \in Builts => (intent.action = "sell" => held)
    /\ stage \in Builts /\ ~ slipped => Current \/ Outdated
    /\ stage = "built" /\ ~ slipped /\ ~ Outdated => prep = PrepOf(intent.action)
    /\ stage = "prepared" /\ ~ slipped /\ ~ Outdated => Ready(Money, intent.action)

\* A trade for the curve has no instruction for the pool.
LEMMA CurveTrade ==
  ASSUME venue = "curve", NEW side \in Sides, NEW lamports
  PROVE  \A i \in DOMAIN TradeOf(side, lamports) :
             TradeOf(side, lamports)[i].op \in {"limit", "price", side}
<1> DEFINE l == Instruction("compute_budget", "limit", Wallet(Agent), 0)
           p == Instruction("compute_budget", "price", Wallet(Agent), Bid)
           r == Instruction("router", RouterName(side), Wallet(Agent), lamports)
           none == IF venue = "amm" /\ side = "buy" THEN Wrap(lamports) ELSE <<>>
           rest == When(venue = "amm", Unwrap)
<1>1. l.op = "limit" /\ p.op = "price" /\ r.op = side
  BY DEF Instruction, RouterName
<1>2. none = <<>> /\ rest = <<>>
  BY DEF When
<1>3. TradeOf(side, lamports) = <<l, p>> \o none \o <<r>> \o rest
  BY DEF TradeOf, ComputeBudget
<1> HIDE DEF l, p, r, none, rest
<1> DEFINE X == {l, p, r}
           b == <<l, p>>
<1>4. l \in X /\ p \in X /\ r \in X
  OBVIOUS
<1>5. \A x \in X : x.op \in {"limit", "price", side}
  BY <1>1
<1> HIDE DEF X
<1>6. b \in Seq(X)
  BY <1>4
<1> HIDE DEF b
<1>7. b \o <<>> = b /\ b \o <<r>> \in Seq(X)
  BY <1>4, <1>6
<1>8. TradeOf(side, lamports) = (b \o <<r>>) \o <<>>
  BY <1>2, <1>3, <1>7 DEF b
<1>9. TradeOf(side, lamports) \in Seq(X)
  BY <1>7, <1>8
<1> QED
  BY <1>5, <1>9

LEMMA GraduationOutdates ==
  ASSUME PathInv, Graduate, stage \in Builts, Current
  PROVE  Outdated'
<1>1. intent \in Intents
  BY DEF PathInv, Builts
<1>2. intent.action \in Sides
  BY <1>1, IntentFields
<1>3. /\ venue = "curve" /\ venue' = "amm"
      /\ trade' = trade /\ intent' = intent
  BY DEF Graduate, deskVars
<1>4. \A i \in DOMAIN trade : trade[i].op \in {"limit", "price", intent.action}
  BY <1>2, <1>3, CurveTrade DEF Current
<1>5. RouterName(intent.action)' = IF intent.action = "buy" THEN "buy_amm" ELSE "sell_amm"
  BY <1>3 DEF RouterName
<1>6. \A i \in DOMAIN trade' : trade'[i].op # RouterName(intent.action)'
  BY <1>2, <1>3, <1>4, <1>5 DEF Sides
<1> QED
  BY <1>3, <1>6 DEF Outdated

LEMMA InitPreparedInv == SignerInit => PreparedInv
BY DEF SignerInit, PreparedInv, Builts

\* What is built stays as it was built while the mint stays where it is.
LEMMA NextPreparedInv ==
  ASSUME SignerInv, PreparedInv, [SignerNext]_signerVars
  PROVE  PreparedInv'
<1>1. /\ PathInv /\ Money \in Moneys
      /\ venue \in {"curve", "amm"} /\ stage \in Stages
  BY DEF SignerInv, PathInv
<1>2. CASE stage' \notin Builts
  BY <1>2 DEF PreparedInv, Builts
<1>3. CASE Build
  <2>2. /\ intent.action = "sell" => held
        /\ prep' = PrepOf(intent.action)
        /\ trade' = TradeOf(intent.action, Size(intent))
        /\ stage' = "built"
        /\ intent' = intent /\ venue' = venue /\ held' = held
        /\ accounts' = accounts /\ wrapped' = wrapped
    BY <1>3 DEF Build, worldVars, moneyVars
  <2>3. Current'
    BY <2>2 DEF Current, TradeOf, RouterName
  <2>4. prep' = PrepOf(intent.action)'
    BY <2>2 DEF PrepOf
  <2> QED
    BY <2>2, <2>3, <2>4 DEF PreparedInv
<1>4. CASE Slip
  <2>1. /\ slipped' = TRUE /\ intent' = intent /\ held' = held /\ stage = "built"
        /\ stage' = stage
    BY <1>4 DEF Slip, worldVars
  <2> QED
    BY <2>1 DEF PreparedInv, Builts
<1>5. CASE Inspect /\ stage' \in Builts
  <2> DEFINE m == After(prep, 0)
  <2>1. /\ stage = "built" /\ m # Broke /\ Settles(m) /\ stage' = "prepared"
        /\ intent' = intent /\ trade' = trade /\ slipped' = slipped
        /\ prep' = prep /\ venue' = venue /\ held' = held
    BY <1>5 DEF Inspect, Clear, Builts
  <2>2. intent.action \in Sides
    BY <1>1, <2>1, IntentFields DEF PathInv
  <2>3. Outdated' = Outdated
    BY <2>1 DEF Outdated, RouterName
  <2>4. Current' = Current
    BY <2>1 DEF Current, TradeOf, RouterName
  <2>5. ASSUME ~ slipped, ~ Outdated
        PROVE  Ready(Money, intent.action)'
    <3>1. prep = PrepOf(intent.action)
      BY <2>1, <2>5 DEF PreparedInv
    <3>2. m \in Moneys /\ Ready(m, intent.action)
      BY <1>1, <2>1, <2>2, <3>1, SetupMakesReady
    <3>3. Money' = m
      BY <2>1, <3>2, SettledIs
    <3> QED
      BY <2>1, <3>2, <3>3 DEF Ready, VolumeOf
  <2> QED
    BY <2>1, <2>3, <2>4, <2>5 DEF PreparedInv, Builts
<1>6. CASE Graduate
  <2>1. /\ venue = "curve" /\ intent' = intent /\ stage' = stage /\ held' = held
        /\ slipped' = slipped
    BY <1>6 DEF Graduate, deskVars
  <2>2. ~ Outdated
    BY <2>1 DEF Outdated
  <2>3. stage \in Builts /\ ~ slipped => Outdated'
    BY <1>1, <1>6, <2>2, GraduationOutdates DEF PreparedInv
  <2> QED
    BY <2>1, <2>3 DEF PreparedInv, Builts
<1>7. CASE UNCHANGED signerVars
  <2>1. /\ venue' = venue /\ accounts' = accounts /\ held' = held
        /\ native' = native /\ wrapped' = wrapped /\ given' = given /\ sunk' = sunk
        /\ stage' = stage /\ intent' = intent
        /\ prep' = prep /\ trade' = trade /\ slipped' = slipped
    BY <1>7 DEF signerVars, worldVars, moneyVars, deskVars
  <2>2. Outdated' = Outdated /\ Current' = Current
    BY <2>1 DEF Outdated, Current, TradeOf, RouterName
  <2>3. PrepOf(intent.action)' = PrepOf(intent.action)
    BY <2>1 DEF PrepOf
  <2>4. Ready(Money, intent.action)' = Ready(Money, intent.action)
    BY <2>1 DEF Ready, Money, VolumeOf
  <2> QED
    BY <2>1, <2>2, <2>3, <2>4 DEF PreparedInv
<1>0. ASSUME NEW c \in Commands, Command(c)
      PROVE  stage' \notin Builts
  BY <1>0 DEF Command, Begins, Builts
<1>8. ASSUME NEW r \in Replies, Receive(r)
      PROVE  stage' \notin Builts
  BY <1>8 DEF Receive, Begins, Builts
<1>9. ASSUME NEW price \in Prices, Send(price)
      PROVE  stage' \notin Builts
  BY <1>9 DEF Send, Clear, Builts
<1>10. GiveUp => stage' \notin Builts
  BY DEF GiveUp, Clear, Builts
<1> QED
  BY <1>0, <1>2, <1>3, <1>4, <1>5, <1>6, <1>7, <1>8, <1>9, <1>10 DEF SignerNext

\* A trade its setup was made for runs, unless the mint has moved: a fresh
\* wallet, a missing volume account, a wrapped account an earlier trade closed
\* (trade.js:140-156) are no reason for a trade to fail.
THEOREM SetupAlwaysSuffices == SignerSpec => []SetupSuffices
<1>1. SignerInv /\ PreparedInv => SetupSuffices
  <2> SUFFICES ASSUME SignerInv, PreparedInv,
                      stage = "prepared", ~ slipped,
                      \E i \in DOMAIN trade : trade[i].op = RouterName(intent.action),
                      native >= Bid + Size(intent),
                      NEW price \in 0 .. Size(intent), price <= ChainCap
               PROVE  After(trade, price) # Broke
    BY DEF SetupSuffices
  <2>1. /\ Money \in Moneys /\ venue \in {"curve", "amm"}
        /\ intent \in Intents /\ Buildable(intent)
    BY DEF SignerInv, PathInv
  <2>2. intent.action \in Sides /\ Size(intent) \in Nat
    BY <2>1, IntentFields
  <2>3. ~ Outdated
    BY DEF Outdated
  <2>4. /\ intent.action = "sell" => held
        /\ trade = TradeOf(intent.action, Size(intent))
        /\ Ready(Money, intent.action)
    BY <2>3 DEF PreparedInv, Builts, Current
  <2> QED
    BY <2>1, <2>2, <2>4, TradeRuns
<1>2. SignerSpec => []PreparedInv
  <2>1. SignerInv /\ PreparedInv /\ [SignerNext]_signerVars => PreparedInv'
    BY NextPreparedInv
  <2> QED
    BY <2>1, InitPreparedInv, SignerInvariant, PTL DEF SignerSpec
<1> QED
  BY <1>1, <1>2, SignerInvariant, PTL

-------------------------------------------------------------------------------
(***************************************************************************)
(* The fee that is bid.  A sorted list is one in which every paid slot has *)
(* a place of its own, so each place is somebody's; the set that defines   *)
(* the place counts the slots the bid reaches.                             *)
(***************************************************************************)

\* The slots that are at most at the place of i.
UpTo(list, i) ==
    {j \in PaidIn(list) : list[j] < list[i] \/ (list[j] = list[i] /\ j <= i)}

LEMMA PaidSet ==
  ASSUME NEW list \in Seq(SlotFees)
  PROVE  /\ IsFiniteSet(PaidIn(list)) /\ Cardinality(PaidIn(list)) \in Nat
         /\ PaidIn(list) \subseteq Nat
         /\ \A i \in PaidIn(list) : list[i] \in Nat \ {0}
<1>1. DOMAIN list = 1 .. Len(list) /\ Len(list) \in Nat
  OBVIOUS
<1>2. IsFiniteSet(DOMAIN list)
  BY <1>1, FS_Interval
<1>3. PaidIn(list) \in SUBSET DOMAIN list
  BY DEF PaidIn
<1>4. IsFiniteSet(PaidIn(list))
  BY <1>2, <1>3, FS_Subset
<1>5. ASSUME NEW i \in PaidIn(list) PROVE list[i] \in Nat \ {0} /\ i \in Nat
  <2>1. i \in 1 .. Len(list) /\ list[i] > 0
    BY <1>1 DEF PaidIn
  <2>2. list[i] \in SlotFees
    BY <2>1
  <2>3. list[i] \in Nat
    BY <2>2, FeesAssumption
  <2> HIDE DEF PaidIn
  <2>4. i \in Nat
    BY <1>1, <2>1
  <2> QED
    BY <2>1, <2>3, <2>4
<1> QED
  BY <1>4, <1>5, FS_CardinalityType

LEMMA UpToSet ==
  ASSUME NEW list \in Seq(SlotFees), NEW i \in PaidIn(list)
  PROVE  /\ UpTo(list, i) \in SUBSET PaidIn(list) /\ i \in UpTo(list, i)
         /\ IsFiniteSet(UpTo(list, i))
         /\ Place(list, i) = Cardinality(UpTo(list, i))
         /\ Place(list, i) \in 1 .. Cardinality(PaidIn(list))
<1>1. UpTo(list, i) \in SUBSET PaidIn(list)
  BY DEF UpTo
<1>2. i \in UpTo(list, i)
  BY PaidSet DEF UpTo
<1>3. IsFiniteSet(UpTo(list, i))
      /\ Cardinality(UpTo(list, i)) <= Cardinality(PaidIn(list))
  BY <1>1, PaidSet, FS_Subset
<1>4. Place(list, i) = Cardinality(UpTo(list, i))
  BY DEF Place, UpTo
<1>5. Cardinality(UpTo(list, i)) \in Nat /\ Cardinality(UpTo(list, i)) # 0
  BY <1>2, <1>3, FS_CardinalityType, FS_EmptySet
<1>6. Cardinality(PaidIn(list)) \in Nat
  BY PaidSet
<1> QED
  BY <1>1, <1>2, <1>3, <1>4, <1>5, <1>6

\* Of two slots, one goes first, and its place is before the other's.
LEMMA PlacesDiffer ==
  ASSUME NEW list \in Seq(SlotFees), NEW i \in PaidIn(list), NEW j \in PaidIn(list),
         Place(list, i) = Place(list, j)
  PROVE  i = j
<1>1. ASSUME NEW a \in PaidIn(list), NEW b \in PaidIn(list), a \in UpTo(list, b),
             Place(list, a) = Place(list, b)
      PROVE  a = b
  <2>1. /\ list[a] \in Nat /\ list[b] \in Nat /\ a \in Nat /\ b \in Nat
        /\ \A c \in PaidIn(list) : list[c] \in Nat /\ c \in Nat
    BY PaidSet
  <2>2. ASSUME NEW c \in UpTo(list, a) PROVE c \in UpTo(list, b)
    <3>1. c \in PaidIn(list) /\ list[c] \in Nat /\ c \in Nat
      BY <2>1 DEF UpTo
    <3>2. list[c] < list[a] \/ (list[c] = list[a] /\ c <= a)
      BY DEF UpTo
    <3>3. list[a] < list[b] \/ (list[a] = list[b] /\ a <= b)
      BY <1>1 DEF UpTo
    <3>4. list[c] < list[b] \/ (list[c] = list[b] /\ c <= b)
      BY <2>1, <3>1, <3>2, <3>3
    <3> QED
      BY <3>1, <3>4 DEF UpTo
  <2>3. UpTo(list, a) = UpTo(list, b)
    BY <1>1, <2>2, UpToSet, FS_Subset
  <2>4. b \in UpTo(list, a)
    BY <2>3, UpToSet
  <2> QED
    BY <1>1, <2>1, <2>4 DEF UpTo
<1>2. i \in UpTo(list, j) \/ j \in UpTo(list, i)
  BY PaidSet DEF UpTo
<1> QED
  BY <1>1, <1>2

\* Whatever place is asked for, one slot has it.
LEMMA PaidAt ==
  ASSUME NEW list \in Seq(SlotFees), NEW k \in 1 .. Cardinality(PaidIn(list))
  PROVE  \E i \in PaidIn(list) : Place(list, i) = k /\ Paid(list)[k] = list[i]
<1> DEFINE P == PaidIn(list)
           n == Cardinality(P)
           f == [i \in P |-> Place(list, i)]
<1>1. IsFiniteSet(P) /\ n \in Nat
  BY PaidSet
<1>2. f \in Injection(P, 1 .. n)
  <2>1. \A i \in P : Place(list, i) \in 1 .. n
    BY UpToSet
  <2>2. \A i, j \in P : Place(list, i) = Place(list, j) => i = j
    BY PlacesDiffer
  <2> HIDE DEF P, n
  <2> QED
    BY <2>1, <2>2 DEF Injection, IsInjective
<1>3. IsFiniteSet(1 .. n) /\ Cardinality(1 .. n) = n
  <2> HIDE DEF n
  <2> QED
    BY <1>1, FS_Interval
<1>4. f \in Surjection(P, 1 .. n)
  <2> HIDE DEF f, P
  <2> QED
    BY <1>2, <1>3, FS_Injection DEF n
<1>5. \E i \in P : Place(list, i) = k
  BY <1>4 DEF Surjection
<1> DEFINE first == CHOOSE i \in P : Place(list, i) = k
<1>6. first \in P /\ Place(list, first) = k
  BY <1>5
<1>7. Paid(list)[k] = list[first]
  BY DEF Paid
<1> QED
  BY <1>6, <1>7

\* Which place is bid for: within the list, and as high as the percentile says.
LEMMA IndexFacts ==
  ASSUME NEW n \in Nat \ {0}, NEW a \in Nat, NEW b \in Nat \ {0}, NEW p, p = <<a, b>>
  PROVE  /\ Index(n, p) \in 0 .. n - 1
         /\ Index(n, p) * b <= n * a
         /\ Index(n, p) = n - 1 \/ (Index(n, p) + 1) * b > n * a
<1> DEFINE q == (n * a) \div b
           x == Index(n, p)
<1>1. n * a \in Nat
  OBVIOUS
<1>2. q \in Nat /\ q * b <= n * a /\ n * a < (q + 1) * b
  BY <1>1, DivBounds
<1>3. x = IF q < n - 1 THEN q ELSE n - 1
  BY DEF Index
<1> HIDE DEF q, x
<1>4. x \in Nat /\ x <= q /\ x <= n - 1
  BY <1>2, <1>3
<1>5. x * b <= n * a
  <2>1. x * b <= q * b
    BY <1>2, <1>4, TimesMonotone
  <2>2. x * b \in Nat /\ q * b \in Nat
    BY <1>2, <1>4
  <2> QED
    BY <1>1, <1>2, <2>1, <2>2
<1>6. x = n - 1 \/ (x + 1) * b > n * a
  BY <1>2, <1>3
<1> QED
  BY <1>4, <1>5, <1>6 DEF x

\* What a bid of the fee at a place reaches: the slots up to that place at least,
\* and what is cheaper is before it.
LEMMA BidReaches ==
  ASSUME NEW list \in Seq(SlotFees), NEW i \in PaidIn(list), NEW bid \in Nat
  PROVE  LET reached == {j \in DOMAIN list : list[j] > 0 /\ list[j] <= bid}
             below == {j \in DOMAIN list : list[j] > 0 /\ list[j] < bid}
         IN  /\ Cardinality(reached) \in Nat /\ Cardinality(below) \in Nat
             /\ Cardinality(reached) <= Cardinality(PaidIn(list))
             /\ bid >= list[i] => Cardinality(reached) >= Place(list, i)
             /\ bid <= list[i] => Cardinality(below) <= Place(list, i) - 1
<1> DEFINE reached == {j \in DOMAIN list : list[j] > 0 /\ list[j] <= bid}
           below == {j \in DOMAIN list : list[j] > 0 /\ list[j] < bid}
           u == UpTo(list, i)
<1>1. /\ reached \in SUBSET PaidIn(list) /\ below \in SUBSET PaidIn(list)
      /\ IsFiniteSet(PaidIn(list))
      /\ \A j \in PaidIn(list) : list[j] \in Nat /\ j \in Nat
  BY PaidSet DEF PaidIn
<1>2. /\ IsFiniteSet(reached) /\ IsFiniteSet(below)
      /\ Cardinality(reached) <= Cardinality(PaidIn(list))
  <2> HIDE DEF reached, below
  <2> QED
    BY <1>1, FS_Subset
<1>3. Cardinality(reached) \in Nat /\ Cardinality(below) \in Nat
  <2> HIDE DEF reached, below
  <2> QED
    BY <1>2, FS_CardinalityType
<1>4. /\ u \in SUBSET PaidIn(list) /\ i \in u /\ IsFiniteSet(u)
      /\ Place(list, i) = Cardinality(u) /\ Cardinality(u) \in Nat
  BY UpToSet, FS_CardinalityType
<1>5. ASSUME bid >= list[i] PROVE Cardinality(reached) >= Cardinality(u)
  <2>1. ASSUME NEW j \in u PROVE j \in reached
    <3>1. j \in DOMAIN list /\ list[j] > 0 /\ list[j] \in Nat /\ list[i] \in Nat
      BY <1>1, <1>4 DEF PaidIn
    <3>2. list[j] <= list[i]
      BY <3>1 DEF UpTo
    <3> QED
      BY <1>5, <3>1, <3>2
  <2> HIDE DEF u, reached
  <2>2. u \in SUBSET reached
    BY <2>1
  <2>3. Cardinality(u) <= Cardinality(reached)
    BY <1>2, <2>2, FS_Subset
  <2> QED
    BY <1>3, <1>4, <2>3
<1>6. ASSUME bid <= list[i] PROVE Cardinality(below) <= Cardinality(u) - 1
  <2>1. ASSUME NEW j \in below PROVE j \in u \ {i}
    <3>1. /\ j \in PaidIn(list) /\ list[j] < bid /\ list[j] \in Nat
          /\ list[i] \in Nat
      BY <1>1
    <3>2. list[j] < list[i]
      BY <1>6, <3>1
    <3> QED
      BY <3>1, <3>2 DEF UpTo
  <2> HIDE DEF u, below
  <2>2. below \in SUBSET (u \ {i})
    BY <2>1
  <2>3. IsFiniteSet(u \ {i}) /\ Cardinality(u \ {i}) = Cardinality(u) - 1
    BY <1>4, FS_RemoveElement
  <2>4. Cardinality(below) <= Cardinality(u \ {i})
    BY <2>2, <2>3, FS_Subset
  <2> QED
    BY <2>3, <2>4
<1> HIDE DEF reached, below, u
<1>7. /\ Cardinality(reached) \in Nat /\ Cardinality(below) \in Nat
      /\ Cardinality(reached) <= Cardinality(PaidIn(list))
      /\ bid >= list[i] => Cardinality(reached) >= Place(list, i)
      /\ bid <= list[i] => Cardinality(below) <= Place(list, i) - 1
  BY <1>2, <1>3, <1>4, <1>5, <1>6
<1> QED
  BY <1>7 DEF reached, below

\* The sorted list is as long as there are slots that paid.
LEMMA PaidLength ==
  ASSUME NEW list \in Seq(SlotFees), Cardinality(PaidIn(list)) > 0
  PROVE  Len(Paid(list)) = Cardinality(PaidIn(list)) /\ Paid(list) # <<>>
<1> DEFINE n == Cardinality(PaidIn(list))
           s == Paid(list)
<1>1. n \in Nat \ {0}
  BY PaidSet
<1>2. s = [k \in 1 .. n |-> s[k]]
  BY DEF Paid
<1> HIDE DEF n, s
<1>3. s \in Seq({s[k] : k \in 1 .. n}) /\ Len(s) = n
  BY <1>1, <1>2
<1> QED
  BY <1>1, <1>3 DEF n, s

LEMMA BidIsPercentile ==
  ASSUME FeesTypeOK, reachable, Cardinality(PaidIn(samples)) > 0,
         NEW p \in Percentiles
  PROVE  LET n == Cardinality(PaidIn(samples))
             bid == EstimatePriorityFee(p)
             reached == Cardinality({j \in DOMAIN samples :
                                        samples[j] > 0 /\ samples[j] <= bid})
             below == Cardinality({j \in DOMAIN samples :
                                      samples[j] > 0 /\ samples[j] < bid})
         IN  /\ bid = MAX_MICROLAMPORTS \/ reached = n \/ reached * p[2] > n * p[1]
             /\ below < n
             /\ below * p[2] <= n * p[1]
<1> DEFINE n == Cardinality(PaidIn(samples))
           k == Index(n, p) + 1
           bid == EstimatePriorityFee(p)
           reached == Cardinality({j \in DOMAIN samples :
                                      samples[j] > 0 /\ samples[j] <= bid})
           below == Cardinality({j \in DOMAIN samples :
                                    samples[j] > 0 /\ samples[j] < bid})
<1>1. samples \in Seq(SlotFees) /\ n \in Nat \ {0}
  BY PaidSet DEF FeesTypeOK
<1>2. p[1] \in Nat /\ p[2] \in Nat \ {0} /\ p = <<p[1], p[2]>>
  BY FeesAssumption
<1>3. /\ k \in 1 .. n
      /\ (k - 1) * p[2] <= n * p[1]
      /\ k = n \/ k * p[2] > n * p[1]
  <2> HIDE DEF n
  <2>1. /\ Index(n, p) \in 0 .. n - 1
        /\ Index(n, p) * p[2] <= n * p[1]
        /\ Index(n, p) = n - 1 \/ (Index(n, p) + 1) * p[2] > n * p[1]
    BY <1>1, <1>2, IndexFacts
  <2>2. k - 1 = Index(n, p)
    BY <2>1
  <2> QED
    BY <1>1, <2>1, <2>2
<1>4. PICK i \in PaidIn(samples) :
             Place(samples, i) = k /\ Paid(samples)[k] = samples[i]
  <2> HIDE DEF k
  <2> QED
    BY <1>1, <1>3, PaidAt DEF n
<1>5. samples[i] \in Nat \ {0} /\ MAX_MICROLAMPORTS \in Nat \ {0}
  <2>1. samples[i] \in Nat \ {0}
    BY <1>1, PaidSet
  <2>2. MAX_MICROLAMPORTS \in Nat /\ FALLBACK_MICROLAMPORTS \in 1 .. MAX_MICROLAMPORTS
    BY FeesAssumption
  <2>3. MAX_MICROLAMPORTS \in Nat \ {0}
    BY <2>2
  <2> QED
    BY <2>1, <2>3
<1>6. bid = Clamp(samples[i])
  <2>1. Len(Paid(samples)) = n /\ Paid(samples) # <<>>
    BY <1>1, PaidLength
  <2>2. bid = Clamp(Paid(samples)[Index(Len(Paid(samples)), p) + 1])
    BY <2>1 DEF EstimatePriorityFee
  <2> QED
    BY <1>4, <2>1, <2>2
<1>7. /\ bid \in Nat /\ bid <= samples[i]
      /\ bid = MAX_MICROLAMPORTS \/ bid >= samples[i]
  BY <1>5, <1>6 DEF Clamp
<1> HIDE DEF bid, k
<1>8. /\ reached \in Nat /\ below \in Nat /\ reached <= n
      /\ bid >= samples[i] => reached >= k
      /\ below <= k - 1
  BY <1>1, <1>4, <1>7, BidReaches
<1> HIDE DEF reached, below, n
<1>9. ASSUME reached >= k PROVE reached = n \/ reached * p[2] > n * p[1]
  <2>1. /\ reached \in Nat /\ k \in Nat /\ n \in Nat
        /\ p[1] \in Nat /\ p[2] \in Nat
    BY <1>1, <1>2, <1>3, <1>8
  <2>2. CASE k = n
    BY <1>8, <1>9, <2>1, <2>2
  <2>3. CASE k * p[2] > n * p[1]
    <3>1. k * p[2] <= reached * p[2]
      BY <1>9, <2>1, TimesMonotone
    <3>2. k * p[2] \in Nat /\ reached * p[2] \in Nat /\ n * p[1] \in Nat
      BY <2>1
    <3> QED
      BY <2>3, <3>1, <3>2
  <2> QED
    BY <1>3, <2>2, <2>3
<1>10. below * p[2] <= n * p[1]
  <2>1. /\ below \in Nat /\ k - 1 \in Nat /\ below <= k - 1
        /\ n \in Nat /\ p[1] \in Nat /\ p[2] \in Nat
    BY <1>1, <1>2, <1>3, <1>8
  <2>2. below * p[2] <= (k - 1) * p[2]
    BY <2>1, TimesMonotone
  <2>3. /\ below * p[2] \in Nat /\ (k - 1) * p[2] \in Nat /\ n * p[1] \in Nat
    BY <2>1
  <2> QED
    BY <1>3, <2>2, <2>3
<1>11. below < n
  BY <1>1, <1>3, <1>8
<1>12. /\ bid = MAX_MICROLAMPORTS \/ reached = n \/ reached * p[2] > n * p[1]
       /\ below < n
       /\ below * p[2] <= n * p[1]
  BY <1>7, <1>8, <1>9, <1>10, <1>11
<1> QED
  BY <1>12 DEF n, bid, reached, below

LEMMA InitFeesType == FeesInit => FeesTypeOK
<1> SUFFICES ASSUME FeesInit PROVE FeesTypeOK
  OBVIOUS
<1>1. samples \in Seq(SlotFees) /\ Len(samples) = 0
  BY DEF FeesInit
<1> QED
  BY <1>1, FeesAssumption DEF FeesInit, FeesTypeOK

LEMMA NextFeesType == FeesTypeOK /\ [FeesNext]_feesVars => FeesTypeOK'
<1> SUFFICES ASSUME FeesTypeOK, [FeesNext]_feesVars PROVE FeesTypeOK'
  OBVIOUS
<1>1. /\ samples \in Seq(SlotFees) /\ Len(samples) <= MaxSlots
      /\ reachable \in BOOLEAN /\ MaxSlots \in Nat \ {0}
  BY FeesAssumption DEF FeesTypeOK
<1>2. ASSUME NEW fee \in SlotFees, NewSlot(fee) PROVE FeesTypeOK'
  <2>1. CASE Len(samples) < MaxSlots
    <3>1. samples' = Append(samples, fee) /\ reachable' = reachable
      BY <1>2, <2>1 DEF NewSlot
    <3>2. samples' \in Seq(SlotFees) /\ Len(samples') = Len(samples) + 1
      BY <1>1, <3>1
    <3>3. Len(samples') <= MaxSlots
      BY <1>1, <2>1, <3>2
    <3> QED
      BY <1>1, <3>1, <3>2, <3>3 DEF FeesTypeOK
  <2>2. CASE ~ (Len(samples) < MaxSlots)
    <3>1. samples' = Append(Tail(samples), fee) /\ reachable' = reachable
      BY <1>2, <2>2 DEF NewSlot
    <3>2. samples # <<>>
      BY <1>1, <2>2
    <3>3. Tail(samples) \in Seq(SlotFees) /\ Len(Tail(samples)) = Len(samples) - 1
      BY <1>1, <3>2
    <3>4. samples' \in Seq(SlotFees) /\ Len(samples') = Len(samples)
      BY <1>1, <3>1, <3>3
    <3> QED
      BY <1>1, <3>1, <3>4 DEF FeesTypeOK
  <2> QED
    BY <2>1, <2>2
<1>3. CASE Network \/ UNCHANGED feesVars
  BY <1>1, <1>3 DEF Network, feesVars, FeesTypeOK
<1> QED
  BY <1>2, <1>3 DEF FeesNext

\* For any fees, any memory and any percentile: what estimatePriorityFee bids by
\* sorting and indexing (fees.js:37-47) is the percentile of the slots that paid.
THEOREM EstimatesArePercentiles == FeesSpec => []EstimateIsPercentile
<1>1. FeesTypeOK => EstimateIsPercentile
  <2> SUFFICES ASSUME FeesTypeOK, reachable, PaidSlots > 0, NEW p \in Percentiles
               PROVE  LET bid == EstimatePriorityFee(p)
                          reached == Slots(LAMBDA fee : fee > 0 /\ fee <= bid)
                          below == Slots(LAMBDA fee : fee > 0 /\ fee < bid)
                      IN  /\ \/ bid = MAX_MICROLAMPORTS \/ reached = PaidSlots
                             \/ reached * p[2] > PaidSlots * p[1]
                          /\ below < PaidSlots
                          /\ below * p[2] <= PaidSlots * p[1]
    BY DEF EstimateIsPercentile
  <2>1. PaidSlots = Cardinality(PaidIn(samples))
    BY DEF PaidSlots, Slots, PaidIn
  <2> QED
    BY <2>1, BidIsPercentile DEF Slots
<1>2. FeesSpec => []FeesTypeOK
  BY InitFeesType, NextFeesType, PTL DEF FeesSpec
<1> QED
  BY <1>1, <1>2, PTL

-------------------------------------------------------------------------------
(***************************************************************************)
(* The three beside each other.                                            *)
(***************************************************************************)

\* One trade's amount, its path to a signature and its fee keep their types in
\* the specification the run checks, where a behaviour moves one of them.
THEOREM DeskTypeCorrect == DeskSpec => []DeskTypeOK
<1>1. DeskInit => SignerInv /\ QuoteInv /\ FeesTypeOK
  BY InitSignerInv, InitQuoteInv, InitFeesType DEF DeskInit
<1>2. ASSUME SignerInv, QuoteInv, FeesTypeOK, [DeskNext]_deskMCVars
      PROVE  SignerInv' /\ QuoteInv' /\ FeesTypeOK'
  <2>1. /\ SignerNext \/ UNCHANGED signerVars
        /\ QuoteNext \/ UNCHANGED quoteVars
        /\ FeesNext \/ UNCHANGED feesVars
    BY <1>2 DEF DeskNext, SignerMoves, QuoteMoves, FeesMoves, deskMCVars
  <2> QED
    BY <1>2, <2>1, NextSignerInv, NextQuoteInv, NextFeesType
<1>3. SignerInv /\ QuoteInv /\ FeesTypeOK => DeskTypeOK
  BY SignerTypes DEF QuoteInv, DeskTypeOK
<1> QED
  BY <1>1, <1>2, <1>3, PTL DEF DeskSpec

\* Each of the three behaves, in the specification the run checks, as it does alone.
THEOREM DeskIsThree == DeskSpec => SignerSpec /\ QuoteSpec /\ FeesSpec
<1>1. DeskInit => SignerInit /\ QuoteInit /\ FeesInit
  BY DEF DeskInit
<1>2. [DeskNext]_deskMCVars =>
        /\ [SignerNext]_signerVars
        /\ [QuoteNext]_quoteVars
        /\ [FeesNext]_feesVars
  BY DEF DeskNext, SignerMoves, QuoteMoves, FeesMoves, deskMCVars
<1> QED
  BY <1>1, <1>2, PTL DEF DeskSpec, SignerSpec, QuoteSpec, FeesSpec

\* So what holds of each holds of the desk: a reply that parses can be built
\* (trade.js:280), gate and builder agree on what is built (trade.js:17), its setup is
\* enough (trade.js:12), an order asks for its size (trade.js:166) and fills in every
\* market that moved less than its tolerance (trade.js:71), its bid is a percentile
\* (fees.js:37), and what is signed of whatever the builder makes is one trade within
\* its ceiling (policy.js:5).
THEOREM DeskKeepsItsWord ==
  DeskSpec =>
    /\ [](IntentsAreBuildable /\ GateKnowsTheBuilder /\ SetupSuffices)
    /\ [](RoomToMove /\ AsksForItsWorth /\ EstimateIsPercentile)
    /\ SignedIsTheTrade
<1> QED
  BY DeskIsThree, RepliesAreBuildable, BuilderSatisfiesGate, SetupAlwaysSuffices,
     AlwaysRoomToMove, OrdersAskTheirWorth, EstimatesArePercentiles,
     SignedIsAlwaysTheTrade, PTL
===============================================================================
