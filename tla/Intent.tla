-------------------------------- MODULE Intent --------------------------------
(***************************************************************************)
(* signer/intent.js: what the language model is allowed to say.  A reply   *)
(* is no JSON at all, JSON that is no object, or a table of fields, each   *)
(* with the type JSON gave it and its value.  Text is left out: it is cut  *)
(* to length and goes nowhere.                                             *)
(***************************************************************************)
EXTENDS Integers

CONSTANTS
    Mints,            \* addresses of token mints
    NonMints,         \* addresses of anything else
    Units,            \* parts of a lamport that a decimal size may name
    MIN_SOL,          \* smallest buy, in lamports
    NotJson, NotObject,
    Refused           \* an IntentError

ASSUME IntentAssumption ==
    /\ Units \in Nat \ {0}
    /\ MIN_SOL \in Nat \ {0}
    /\ Mints \cap NonMints = {}

Actions == {"buy", "sell", "hold"}

KnownFields == {"action", "mint", "sol", "reason"}

Absent == [type |-> "undefined", value |-> "undefined"]

Field(reply, f) == IF f \in DOMAIN reply THEN reply[f] ELSE Absent

\* String(v).toLowerCase(), on the words a reply may contain.
LowerCase(v) == IF v.value = "Buy" THEN "buy" ELSE v.value

\* Number(v): a number written as text is a number too.  -1 is not finite.
Number(v) == IF v.type \in {"number", "numeral"} THEN v.value ELSE -1

\* Lamports of a size in parts of a lamport: Math.floor(sol * 1e9).
Lamports(sol) == sol \div Units

\* Mutant of Sized: the smallest size is not looked at.
SizedPositive(sol, maxSolPerTrade) ==
    sol > 0 /\ sol <= maxSolPerTrade * Units

Sized(sol, maxSolPerTrade) ==
    /\ sol > 0
    /\ sol >= MIN_SOL * Units
    /\ sol <= maxSolPerTrade * Units

ParseIntent(reply, maxSolPerTrade) ==
    IF reply \in {NotJson, NotObject} THEN Refused
    ELSE LET action == LowerCase(Field(reply, "action"))
             mint == Field(reply, "mint").value
             sol == Number(Field(reply, "sol"))
         IN  CASE ~ (DOMAIN reply \subseteq KnownFields) -> Refused
               [] action \notin Actions -> Refused
               [] action = "hold" -> [action |-> "hold"]
               [] mint \notin Mints \cup NonMints -> Refused
               [] action = "sell" -> [action |-> "sell", mint |-> mint]
               [] ~ Sized(sol, maxSolPerTrade) -> Refused
               [] OTHER -> [action |-> "buy", mint |-> mint, sol |-> sol]

\* assertIsMint: only a token program may own a mint.
AssertIsMint(mint) == mint \in Mints
===============================================================================
