----------------------------- MODULE AdminScript -----------------------------
(***************************************************************************)
(* scripts/admin-mainnet.js, run by several operators on the router that   *)
(* is deployed.  The program has no instruction that sets one rate alone,  *)
(* so a command reads both accounts, and sends all the terms of one of     *)
(* them back with a single one changed.  Between the reads and the moment  *)
(* the transaction lands, others act.                                      *)
(***************************************************************************)
EXTENDS Operations

CONSTANTS
    Operators,        \* shells in which the script runs
    KeyOf,            \* operator -> the key in FUNDER_KEY
    NewFees,          \* rates an operator passes on the command line
    MaxOthers,        \* bound: steps of everybody else
    Idle              \* no command runs in the shell

VARIABLES
    shell,            \* operator -> what its command has read so far, or Idle
    sent,             \* transactions that may still land
    others            \* steps of everybody else so far

ASSUME ScriptAssumption ==
    /\ KeyOf \in [Operators -> Officials]
    /\ NewFees \subseteq U16
    /\ MaxOthers \in Nat

shellVars == <<shell, sent, others>>
adminVars == <<registryVars, shellVars>>

ShellsIdle ==
    /\ shell = [o \in Operators |-> Idle]
    /\ sent = {} /\ others = 0

ScriptInit == Deployed /\ ShellsIdle

-------------------------------------------------------------------------------
(***************************************************************************)
(* The script.                                                             *)
(***************************************************************************)

\* Mutant of ConfigRead: the offsets are one byte too low.
ConfigReadShifted(c) ==
    [maxPerTrade |-> 256 * c.max_lamports_per_trade,
     defaultDaily |-> 256 * c.default_daily_limit]

\* Mutant of ConfigRead: the offsets of the two limits are swapped.
ConfigReadSwapped(c) ==
    [maxPerTrade |-> c.default_daily_limit, defaultDaily |-> c.max_lamports_per_trade]

\* What readState takes from the two accounts and a command sends back.
ConfigRead(c) ==
    [maxPerTrade |-> c.max_lamports_per_trade, defaultDaily |-> c.default_daily_limit]

AgentRead(a) ==
    [enabled |-> a.enabled, agentDaily |-> a.daily_limit,
     agentRewardBps |-> a.reward_bps]

\* History: the fields of an account that changed since a command read them, each as
\* it was then.
Since(since, terms, old, new) ==
    [f \in DOMAIN since \cup {g \in terms : new[g] # old[g]} |->
        IF f \in DOMAIN since THEN since[f] ELSE old[f]]

ConfigTerms == {"max_lamports_per_trade", "default_daily_limit"}

AgentTerms == {"enabled", "daily_limit", "reward_bps"}

\* A command, and a transaction, that a step of others overtakes.
Aged(c) ==
    IF c = Idle THEN Idle
    ELSE [c EXCEPT !.since = Since(@, ConfigTerms, config, config')]

Overtaken(tx) ==
    [tx EXCEPT !.since =
        CASE tx.cmd = "fee" -> Since(@, ConfigTerms, config, config')
          [] tx.cmd = "agent-fee" -> Since(@, AgentTerms, agents[CLERK], agents'[CLERK])
          [] OTHER -> @]

\* Whoever writes to the accounts, the commands at hand and the transactions `txs`
\* still on their way have read what was there before.
Overtakes(txs) ==
    /\ shell' = [o \in Operators |-> Aged(shell[o])]
    /\ sent' = {Overtaken(tx) : tx \in txs}

Start(o) ==
    /\ shell[o] = Idle
    /\ config # NoConfig
    /\ shell' = [shell EXCEPT ![o] = [terms |-> ConfigRead(config), since |-> <<>>]]
    /\ UNCHANGED <<registryVars, sent, others>>

\* The transaction of a command: what it names, signed with the key of o.
Transaction(o, cmd, arg, terms, since) ==
    [key |-> KeyOf[o], cmd |-> cmd, arg |-> arg, terms |-> terms, since |-> since]

Post(tx) ==
    /\ sent' = sent \cup {tx}
    /\ UNCHANGED <<registryVars, others>>

\* readState goes on to the second account and the command is sent.
SendFee(o, arg) ==
    /\ shell[o] # Idle
    /\ Registered(CLERK)
    /\ Post(Transaction(o, "fee", arg, shell[o].terms, shell[o].since))
    /\ shell' = [shell EXCEPT ![o] = Idle]

SendAgentFee(o, arg) ==
    /\ shell[o] # Idle
    /\ Registered(CLERK)
    /\ Post(Transaction(o, "agent-fee", arg, AgentRead(agents[CLERK]), <<>>))
    /\ shell' = [shell EXCEPT ![o] = Idle]

\* These two send without reading first.
SendPause(o, on) ==
    /\ shell[o] = Idle
    /\ Post(Transaction(o, "pause", on, Idle, <<>>))
    /\ UNCHANGED shell

SendRotateNoop(o) ==
    /\ shell[o] = Idle
    /\ Post(Transaction(o, "rotate-noop", KeyOf[o], Idle, <<>>))
    /\ UNCHANGED shell

\* What the program does with each of them.
Executes(tx) ==
    \/ /\ tx.cmd = "fee"
       /\ UpdateConfig(tx.key, VAULT, VAULT,
                       [fee_bps |-> tx.arg,
                        max_lamports_per_trade |-> tx.terms.maxPerTrade,
                        default_daily_limit |-> tx.terms.defaultDaily])
    \/ /\ tx.cmd = "agent-fee"
       /\ SetAgent(tx.key, CLERK, tx.terms.enabled, tx.terms.agentDaily,
                   tx.terms.agentRewardBps, tx.arg)
    \/ tx.cmd = "pause" /\ SetPaused(tx.key, tx.arg)
    \/ tx.cmd = "rotate-noop" /\ SetAuthority(tx.key, tx.arg)

Land(tx) ==
    /\ tx \in sent
    /\ Executes(tx)
    /\ Overtakes(sent \ {tx})
    /\ UNCHANGED others

\* It is refused, or its blockhash expires; the script prints an error.
Drop(tx) ==
    /\ tx \in sent
    /\ sent' = sent \ {tx}
    /\ UNCHANGED <<registryVars, shell, others>>

-------------------------------------------------------------------------------
(***************************************************************************)
(* Everybody else.                                                         *)
(***************************************************************************)

\* The clerk trades: a buy is charged to its record.
ClerkSpends(amount) ==
    LET a == agents[CLERK]
        spent == (IF a.day = CurrentDay THEN a.spent_today ELSE 0) + amount
    IN  /\ spent <= a.daily_limit
        /\ agents' = [agents EXCEPT ![CLERK].day = CurrentDay,
                                    ![CLERK].spent_today = spent]
        /\ signer' = CLERK
        /\ UNCHANGED <<config, chainVars>>

\* Another session of the authority writes what a command has read and sends back.
OthersRewrite ==
    \E s \in Officials :
       \/ \E t, v \in Vaults, args \in ConfigArgs : UpdateConfig(s, t, v, args)
       \/ \E on \in BOOLEAN, limit \in LimitArgs, share \in ShareArgs, fee \in FeeArgs :
             SetAgent(s, CLERK, on, limit, share, fee)

\* Of what other wallets do, the shares granted to them show in config.
OthersGoOn ==
    /\ others < MaxOthers /\ others' = others + 1
    /\ \/ OthersRewrite
       \/ \E s \in Officials, w \in Wallets \ {CLERK}, share \in ShareArgs :
             RegisterAgent(s, w, DEFAULT_DAILY, share, FEE_BPS)
       \/ \E s, new \in Officials : SetAuthority(s, new)
       \/ \E amount \in LimitArgs \ {0} : ClerkSpends(amount)
       \/ TimePasses
    /\ Overtakes(sent)

MaxSent == 2          \* bound: transactions on their way at a time

ScriptStep ==
    \/ \E o \in Operators :
          \/ Start(o)
          \/ /\ Cardinality(sent) < MaxSent
             /\ \/ \E arg \in NewFees : SendFee(o, arg) \/ SendAgentFee(o, arg)
                \/ \E on \in BOOLEAN : SendPause(o, on)
                \/ SendRotateNoop(o)
    \/ \E tx \in sent : Land(tx) \/ Drop(tx)

ScriptNext == ScriptStep \/ OthersGoOn

ScriptSpec == ScriptInit /\ [][ScriptNext]_adminVars

-------------------------------------------------------------------------------
(***************************************************************************)
(* Properties.                                                             *)
(***************************************************************************)

\* Types; a shell holds what a command has read of the config account.
ScriptTypeOK ==
    /\ RegistryTypeOK
    /\ \A o \in Operators :
          shell[o] # Idle => shell[o].terms \in [maxPerTrade : U64, defaultDaily : U64]
    /\ \A tx \in sent : tx.key \in Officials
    /\ others \in 0 .. MaxOthers

\* A field as the command read it.
AsRead(since, account, f) == IF f \in DOMAIN since THEN since[f] ELSE account[f]

FeeOnly(tx) ==
    /\ agents' = agents
    /\ config' = [f \in DOMAIN config |->
                    IF f = "fee_bps" THEN tx.arg
                    ELSE IF f \in {"treasury", "fee_vault"} THEN VAULT
                    ELSE AsRead(tx.since, config, f)]

AgentFeeOnly(tx) ==
    /\ agents' = [agents EXCEPT ![CLERK] =
                    [f \in DOMAIN agents[CLERK] |->
                        IF f = "fee_bps" THEN tx.arg
                        ELSE AsRead(tx.since, agents[CLERK], f)]]
    /\ config' = [config EXCEPT !.total_reward_bps =
                    (@ - agents[CLERK].reward_bps) + agents'[CLERK].reward_bps]

\* "fee <bps>: config fee", "agent-fee <bps>: the clerk's own rate", "rotate-noop:
\* set_authority to itself" (admin-mainnet.js:6-10).  Whatever lands, however late and in
\* whatever order, changes the field its command names, and every field that nobody has
\* written since the command read it stays as it is, although the command sends all of
\* them.  What another session has written since is lost: it is again as it was read.
OneFieldEach ==
    [][\A tx \in sent : Land(tx) =>
          CASE tx.cmd = "fee" -> FeeOnly(tx)
            [] tx.cmd = "agent-fee" -> AgentFeeOnly(tx)
            [] tx.cmd = "pause" ->
                  agents' = agents /\ config' = [config EXCEPT !.paused = tx.arg]
            [] tx.cmd = "rotate-noop" -> UNCHANGED <<config, agents>>]_adminVars
===============================================================================
