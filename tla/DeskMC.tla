-------------------------------- MODULE DeskMC --------------------------------
\* A small instance for TLC of what happens off the chain to one trade: its path
\* from reply to signature (Signer), the amount it asks for (Quote) and the fee
\* it bids (Fees).  The three share no state, so that their interleavings show
\* nothing: a behaviour moves one of them and leaves the others as they began.
EXTENDS Signer, Quote, Fees

CONSTANTS coin, person

VARIABLE part

deskMCVars == <<signerVars, quoteVars, feesVars, part>>

DeskInit ==
    /\ part \in {"signer", "quote", "fees"}
    /\ SignerInit /\ QuoteInit /\ FeesInit
    /\ part # "signer" => venue = "amm"
    /\ part # "fees" => reachable

SignerMoves == part = "signer" /\ SignerNext /\ UNCHANGED <<quoteVars, feesVars>>

QuoteMoves == part = "quote" /\ QuoteNext /\ UNCHANGED <<signerVars, feesVars>>

FeesMoves == part = "fees" /\ FeesNext /\ UNCHANGED <<signerVars, quoteVars>>

DeskNext ==
    /\ SignerMoves \/ QuoteMoves \/ FeesMoves
    /\ UNCHANGED part

DeskSpec == DeskInit /\ [][DeskNext]_deskMCVars

\* The types of all three parts.
DeskTypeOK == SignerTypeOK /\ QuoteTypeOK /\ FeesTypeOK

Text(v) == [type |-> "string", value |-> v]

Sol(v) == [type |-> "number", value |-> v]

Buys(action, mint, sol) == [action |-> Text(action), mint |-> Text(mint), sol |-> sol]

\* A reply of each kind the parser tells apart; sizes in half lamports.
MCReplies ==
    {NotJson, NotObject,
     [action |-> Text("hold")],
     [action |-> Text("send"), mint |-> Text(coin)],
     [action |-> Text("buy"), mint |-> Text(coin), to |-> Text(person)],
     [action |-> Text("sell"), mint |-> Text(coin), reason |-> Text("tired")],
     [action |-> Text("buy"), mint |-> Text(coin)],
     Buys("buy", person, Sol(6)), Buys("buy", "moon", Sol(6)),
     Buys("Buy", coin, [type |-> "numeral", value |-> 4])}
    \cup {Buys("buy", coin, Sol(sol)) : sol \in {-2, 0, 1, 3, 4, 6, 7}}

\* Sizes typed by hand: none, too small, negative, and above the chain's cap.
MCCommands ==
    {[action |-> "sell", mint |-> coin]}
    \cup {[action |-> "buy", mint |-> coin, sol |-> sol] : sol \in {-2, 0, 1, 10}}

\* Instructions that the builder has no reason to make, of each program.
MCMistakes ==
    LET ours == {Wallet(Agent), Wsol(Agent)}
        theirs == {Wallet(Stranger), Wsol(Stranger)}
    IN  {Instruction("compute_budget", "price", Wallet(Agent), 2)}
        \cup {Instruction("associated_token", "create_idempotent", k, 0) :
                  k \in ours \cup theirs}
        \cup {Instruction("router", op, k, 4) :
                  op \in TradeNames \cup {"other"}, k \in {Wallet(Agent), Wallet(Stranger)}}
        \cup {Instruction(v, "init_user_volume_accumulator", Wallet(Stranger), 0) :
                  v \in {"curve", "amm"}}
        \cup {Instruction("system", "transfer", k, 2) : k \in ours \cup theirs}
        \cup {Instruction("token", "close_account", k, 0) : k \in ours \cup theirs}
        \cup {Instruction("other", "other", Wallet(Agent), 0)}

\* Both ends of the list, the default of fees.js:27 and two in between.
MCPercentiles == {<<0, 1>>, <<1, 3>>, <<1, 2>>, <<3, 4>>, <<1, 1>>}
===============================================================================
