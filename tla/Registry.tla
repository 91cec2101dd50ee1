------------------------------- MODULE Registry -------------------------------
(***************************************************************************)
(* The handlers of lib.rs that do not trade: the config account, the       *)
(* registration of agents and the terms they trade on.  Each action is one *)
(* instruction that succeeds; its guard is the account constraints of its  *)
(* Accounts struct and the require!s of its handler.                       *)
(***************************************************************************)
EXTENDS RouterState

CONSTANTS
    ConfigRent,       \* rent of the config account
    AgentRent,        \* rent of one AgentAuth account
    NoKey             \* no signature that the program looks at

VARIABLES
    config,           \* the config PDA, or NoConfig
    agents,           \* wallet -> its AgentAuth PDA, or NoAgent
    signer            \* history: who signed the last instruction

ASSUME RegistryAssumption ==
    /\ ConfigRent \in Nat /\ AgentRent \in Nat
    /\ NoKey \notin Keys

registryVars == <<lamports, clock, config, agents, signer>>

Registered(w) == agents[w] # NoAgent

RegistryTypeOK ==
    /\ ChainTypeOK
    /\ config \in Config \cup {NoConfig}
    /\ agents \in [Wallets -> AgentAuth \cup {NoAgent}]
    /\ signer \in Keys \cup {NoKey}

RegistryInit ==
    /\ ChainInit
    /\ config = NoConfig
    /\ agents = [w \in Wallets |-> NoAgent]
    /\ signer = NoKey

-------------------------------------------------------------------------------
(***************************************************************************)
(* Account constraints.                                                    *)
(***************************************************************************)

\* has_one = authority @ Unauthorized, and the authority signs.
HasOneAuthority(s) ==
    /\ config # NoConfig
    /\ s = config.authority
    /\ signer' = s

\* Mutant of InitAgentAuth: `init_if_needed`.
InitIfNeeded(w, payer) == Commit(Debit(lamports, payer, AgentRent))

\* `init`: the account must not exist yet, and the payer buys its rent.
InitAgentAuth(w, payer) ==
    /\ agents[w] = NoAgent
    /\ Commit(Debit(lamports, payer, AgentRent))

RegisterAgentAccounts(s, w) == HasOneAuthority(s) /\ InitAgentAuth(w, s)

\* The wallet signs and pays for itself.
SelfRegisterAccounts(w) ==
    /\ config # NoConfig
    /\ signer' = w
    /\ InitAgentAuth(w, w)

\* The PDA is derived from the wallet that signs.
SetOwnLimitAccounts(w) ==
    /\ Registered(w)
    /\ signer' = w

\* Anyone may be the first to initialize, and becomes the authority.
InitializeAccounts(s) ==
    /\ config = NoConfig
    /\ signer' = s
    /\ Commit(Debit(lamports, s, ConfigRent))

-------------------------------------------------------------------------------
(***************************************************************************)
(* Handlers.                                                               *)
(***************************************************************************)

Initialize(s, treasury, vault, args) ==
    /\ InitializeAccounts(s)
    /\ Validate(args)
    /\ config' = [authority |-> s, treasury |-> treasury, fee_vault |-> vault,
                  fee_bps |-> args.fee_bps,
                  max_lamports_per_trade |-> args.max_lamports_per_trade,
                  default_daily_limit |-> args.default_daily_limit,
                  total_reward_bps |-> 0, paused |-> FALSE]
    /\ UNCHANGED <<agents, clock>>

UpdateConfig(s, treasury, vault, args) ==
    /\ HasOneAuthority(s)
    /\ Validate(args)
    /\ config' = [config EXCEPT
                    !.treasury = treasury, !.fee_vault = vault,
                    !.fee_bps = args.fee_bps,
                    !.max_lamports_per_trade = args.max_lamports_per_trade,
                    !.default_daily_limit = args.default_daily_limit]
    /\ UNCHANGED <<agents, chainVars>>

SetPaused(s, paused) ==
    /\ HasOneAuthority(s)
    /\ config' = [config EXCEPT !.paused = paused]
    /\ UNCHANGED <<agents, chainVars>>

SetAuthority(s, new) ==
    /\ HasOneAuthority(s)
    /\ config' = [config EXCEPT !.authority = new]
    /\ UNCHANGED <<agents, chainVars>>

\* Mutant of AddShares: the old share stays in the total.
AddSharesKeepingOld(before, after) ==
    LET total == config.total_reward_bps + after
    IN  /\ total <= BPS_DENOMINATOR
        /\ config' = [config EXCEPT !.total_reward_bps = total]

\* total_reward_bps moves by the change of one agent's share; the sum may
\* neither overflow nor pass one hundred percent.
AddShares(before, after) ==
    LET total == (config.total_reward_bps - before) + after
    IN  /\ config.total_reward_bps >= before
        /\ total <= U64_MAX
        /\ total <= BPS_DENOMINATOR
        /\ config' = [config EXCEPT !.total_reward_bps = total]

RegisterAgent(s, w, daily_limit, reward_bps, fee_bps) ==
    /\ RegisterAgentAccounts(s, w)
    /\ fee_bps <= MAX_FEE_BPS
    /\ reward_bps <= BPS_DENOMINATOR
    /\ agents' = [agents EXCEPT ![w] =
                    [daily_limit |-> daily_limit, spent_today |-> 0,
                     day |-> CurrentDay, reward_bps |-> reward_bps,
                     fee_bps |-> fee_bps, enabled |-> TRUE,
                     authority_managed |-> TRUE]]
    /\ AddShares(0, reward_bps)
    /\ UNCHANGED clock

\* Mutant of SelfRegister: the newcomer gets the limit it asks for.
SelfRegisterUnclamped(w, daily_limit) ==
    /\ SelfRegisterAccounts(w)
    /\ agents' = [agents EXCEPT ![w] =
                    [daily_limit |-> daily_limit, spent_today |-> 0,
                     day |-> CurrentDay, reward_bps |-> 0,
                     fee_bps |-> config.fee_bps, enabled |-> TRUE,
                     authority_managed |-> FALSE]]
    /\ UNCHANGED <<config, clock>>

\* default_daily_limit clamps what the wallet asks for, unless it is zero.
SelfRegister(w, daily_limit) ==
    /\ SelfRegisterAccounts(w)
    /\ LET cap == config.default_daily_limit
           limit == IF cap > 0 /\ cap < daily_limit THEN cap ELSE daily_limit
       IN  agents' = [agents EXCEPT ![w] =
                        [daily_limit |-> limit, spent_today |-> 0,
                         day |-> CurrentDay, reward_bps |-> 0,
                         fee_bps |-> config.fee_bps, enabled |-> TRUE,
                         authority_managed |-> FALSE]]
    /\ UNCHANGED <<config, clock>>

\* spent_today, day and authority_managed are left as they are.
SetAgent(s, w, enabled, daily_limit, reward_bps, fee_bps) ==
    /\ HasOneAuthority(s)
    /\ Registered(w)
    /\ fee_bps <= MAX_FEE_BPS
    /\ reward_bps <= BPS_DENOMINATOR
    /\ agents' = [agents EXCEPT ![w].enabled = enabled,
                                ![w].daily_limit = daily_limit,
                                ![w].reward_bps = reward_bps,
                                ![w].fee_bps = fee_bps]
    /\ AddShares(agents[w].reward_bps, reward_bps)
    /\ UNCHANGED chainVars

\* Mutant of SetOwnLimit: company machines may use it as well.
SetOwnLimitOfAny(w, daily_limit) ==
    /\ SetOwnLimitAccounts(w)
    /\ agents' = [agents EXCEPT ![w].daily_limit = daily_limit]
    /\ UNCHANGED <<config, chainVars>>

SetOwnLimit(w, daily_limit) ==
    /\ SetOwnLimitAccounts(w)
    /\ ~ agents[w].authority_managed
    /\ agents' = [agents EXCEPT ![w].daily_limit = daily_limit]
    /\ UNCHANGED <<config, chainVars>>

TimePasses ==
    /\ Tick
    /\ signer' = NoKey
    /\ UNCHANGED <<config, agents>>

-------------------------------------------------------------------------------

ConfigStep ==
    \E s \in Officials :
        \/ \E t, v \in Vaults, args \in ConfigArgs :
              Initialize(s, t, v, args) \/ UpdateConfig(s, t, v, args)
        \/ \E p \in BOOLEAN : SetPaused(s, p)
        \/ \E k \in Officials : SetAuthority(s, k)

AgentStep ==
    \E w \in Wallets, limit \in LimitArgs :
        \/ \E s \in Officials, share \in ShareArgs, fee \in FeeArgs :
              \/ RegisterAgent(s, w, limit, share, fee)
              \/ \E e \in BOOLEAN : SetAgent(s, w, e, limit, share, fee)
        \/ SelfRegister(w, limit)
        \/ SetOwnLimit(w, limit)

RegistryNext == ConfigStep \/ AgentStep \/ TimePasses

RegistrySpec == RegistryInit /\ [][RegistryNext]_registryVars

-------------------------------------------------------------------------------
(***************************************************************************)
(* Properties.                                                             *)
(***************************************************************************)

ShareOf(w) == IF Registered(w) THEN agents[w].reward_bps ELSE 0

Shares == [w \in Wallets |-> ShareOf(w)]

\* config.total_reward_bps, kept by register_agent and set_agent one change
\* at a time, is the sum of every registered agent's reward_bps (state.rs:63)
\* and never more than everything.  distribute_rewards relies on both.
SharesAddUp ==
    IF config = NoConfig
    THEN \A w \in Wallets : ~ Registered(w)
    ELSE /\ config.total_reward_bps = SumFunctionOnSet(Shares, Wallets)
         /\ config.total_reward_bps <= BPS_DENOMINATOR

\* "A compromised authority still cannot confiscate a trade" (state.rs:17): no
\* rate any handler can store, in config or in an agent, passes MAX_FEE_BPS.
FeesCapped ==
    /\ config # NoConfig => config.fee_bps <= MAX_FEE_BPS
    /\ \A w \in Wallets : Registered(w) => agents[w].fee_bps <= MAX_FEE_BPS

TermsUntouched(w) ==
    /\ Registered(w)'
    /\ \A term \in {"reward_bps", "fee_bps", "enabled", "authority_managed"} :
          agents'[w][term] = agents[w][term]
    /\ agents[w].authority_managed =>
          agents'[w].daily_limit = agents[w].daily_limit

OutsidersTerms(w) ==
    Registered(w)' =>
       /\ ~ agents'[w].authority_managed
       /\ agents'[w].reward_bps = 0
       /\ agents'[w].fee_bps = config.fee_bps
       /\ config.default_daily_limit > 0 =>
             agents'[w].daily_limit <= config.default_daily_limit

\* Unless the authority of the moment signs, the config account does not
\* change, nobody's rate, share or permission changes, no company machine gets
\* another budget (lib.rs:101), and a newcomer comes in at the configured fee,
\* under the configured ceiling (state.rs:42), without a share of rewards
\* (lib.rs:137).
AuthorityDecides ==
    [][\/ config = NoConfig
       \/ signer' = config.authority
       \/ /\ config' = config
          /\ \A w \in Wallets : IF Registered(w) THEN TermsUntouched(w)
                                                 ELSE OutsidersTerms(w)]_registryVars

\* An agent once registered stays registered, and stays under whoever
\* registered it: neither register_agent nor self_register can be run over an
\* existing agent, by which it would also get a fresh budget.
RegistrationIsForever ==
    [][\A w \in Wallets : Registered(w) =>
          /\ Registered(w)'
          /\ agents'[w].authority_managed = agents[w].authority_managed
      ]_registryVars

\* "Outsiders pay whatever config says; only the authority can discount"
\* (lib.rs:149): an agent that registered itself and pays the configured fee
\* goes on paying the configured fee, unless the authority sets its rate.
OutsidersFollowConfigFee ==
    [][\A w \in Wallets :
          ( /\ Registered(w)
            /\ ~ agents[w].authority_managed
            /\ agents[w].fee_bps = config.fee_bps
            /\ agents'[w].fee_bps = agents[w].fee_bps )
          => agents'[w].fee_bps = config'.fee_bps]_registryVars
===============================================================================
