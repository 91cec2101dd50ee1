----------------------------- MODULE RewardsProofs -----------------------------
(***************************************************************************)
(* Rewards for every set of keys and wallets, every share, every revenue   *)
(* and every list of payees a caller may bring.  What a payout does rests  *)
(* on two sums being equal: the shares of those it names and the running   *)
(* total of all shares (SharesAddUp).  With no name twice that leaves      *)
(* nobody out who has a share, so the list decides nothing.                *)
(***************************************************************************)
EXTENDS Rewards, RegistryProofs

VaultReserved == vaultOpen => vault >= VaultRent /\ config # NoConfig

VaultInv == RewardsTypeOK /\ RegistryInv /\ VaultReserved

PursesInv == VaultInv /\ RentExempt(lamports)

RewardsInv == PursesInv /\ NothingLost

-------------------------------------------------------------------------------
(***************************************************************************)
(* The operators a payout is built from.                                   *)
(***************************************************************************)

LEMMA AvailableType ==
  ASSUME RewardsTypeOK
  PROVE  /\ Available \in Nat /\ VaultRent \in Nat
         /\ vaultOpen /\ VaultReserved => vault = Available + VaultRent
BY RewardsAssumption DEF RewardsTypeOK, Available, VaultReserved

LEMMA WalletFacts ==
  ASSUME RegistryTypeOK, NEW w \in Wallets, Registered(w)
  PROVE  agents[w] \in AgentAuth /\ agents[w].reward_bps \in Nat
BY RouterAssumption DEF RegistryTypeOK, Registered, AgentAuth, U16

\* A cut is a number, and within its share of what is available.
LEMMA CutFacts ==
  ASSUME RewardsTypeOK, NEW w \in Wallets, Registered(w)
  PROVE  /\ Cut(w) \in Nat
         /\ Cut(w) * BPS_DENOMINATOR <= Available * agents[w].reward_bps
         /\ agents[w].reward_bps = 0 => Cut(w) = 0
<1> DEFINE bps == agents[w].reward_bps
<1>1. bps \in Nat /\ Available \in Nat /\ BPS_DENOMINATOR \in Nat \ {0}
  BY WalletFacts, AvailableType, RouterAssumption DEF RewardsTypeOK, U64
<1> DEFINE a == Available
<1> HIDE DEF bps, a
<1>2. a * bps \in Nat
  BY <1>1 DEF a
<1>3. /\ (a * bps) \div BPS_DENOMINATOR \in Nat
      /\ ((a * bps) \div BPS_DENOMINATOR) * BPS_DENOMINATOR <= a * bps
  BY <1>1, <1>2, DivBounds
<1>4. ASSUME bps = 0
      PROVE  (a * bps) \div BPS_DENOMINATOR = 0
  <2>1. a * bps = 0
    BY <1>1, <1>4 DEF a
  <2>2. \A d \in Nat \ {0} : 0 \div d = 0
    OBVIOUS
  <2> QED
    BY <1>1, <2>1, <2>2
<1> QED
  BY <1>3, <1>4 DEF Cut, BpsOf, a, bps

\* What the wallets are entitled to, as a function.
Entitlements == [w \in Wallets |-> Entitled(w)]

LEMMA EntitledFacts ==
  ASSUME RewardsTypeOK
  PROVE  /\ \A w \in Wallets : /\ Entitlements[w] \in Nat
                               /\ Entitlements[w] = Entitled(w)
                               /\ Shares[w] \in Nat
                               /\ Shares[w] = 0 => Entitlements[w] = 0
                               /\ Registered(w) =>
                                     /\ Entitlements[w] = Cut(w)
                                     /\ Shares[w] = agents[w].reward_bps
         /\ \A k \in Keys \ Wallets : Entitled(k) = 0
<1>1. RegistryTypeOK
  BY DEF RewardsTypeOK
<1>2. ASSUME NEW w \in Wallets
      PROVE  /\ Entitlements[w] \in Nat
             /\ Entitlements[w] = Entitled(w)
             /\ Shares[w] \in Nat
             /\ Shares[w] = 0 => Entitlements[w] = 0
             /\ Registered(w) => /\ Entitlements[w] = Cut(w)
                                 /\ Shares[w] = agents[w].reward_bps
  <2>1. Entitlements[w] = IF Registered(w) THEN Cut(w) ELSE 0
    BY DEF Entitlements, Entitled
  <2>2. Shares[w] = IF Registered(w) THEN agents[w].reward_bps ELSE 0
    BY DEF Shares, ShareOf
  <2>3. Entitlements[w] = Entitled(w)
    BY DEF Entitlements
  <2> QED
    BY <1>1, <2>1, <2>2, <2>3, CutFacts, WalletFacts
<1> QED
  BY <1>2 DEF Entitled

\* A list of payees, by what it is indexed with.
LEMMA PayeesType ==
  ASSUME NEW payees \in PayeeLists
  PROVE  /\ IsFiniteSet(DOMAIN payees) /\ DOMAIN payees \subseteq Nat
         /\ \A i \in DOMAIN payees : /\ payees[i].auth \in Wallets
                                     /\ payees[i].wallet \in Wallets
         /\ \E n \in Nat : DOMAIN payees = 1 .. n /\ Len(payees) = n
<1>1. PICK n \in 0 .. MaxPayees : payees \in [1 .. n -> Pairs]
  BY DEF PayeeLists
<1>2. n \in Nat /\ DOMAIN payees = 1 .. n
  BY <1>1, RewardsAssumption
<1>3. IsFiniteSet(1 .. n)
  BY <1>2, FS_Interval
<1>4. \A i \in DOMAIN payees : payees[i] \in Pairs
  BY <1>1
<1>5. Len(payees) = n
  <2>1. payees \in Seq(Pairs)
    BY <1>1, <1>2
  <2> QED
    BY <1>2, <2>1
<1> QED
  BY <1>2, <1>3, <1>4, <1>5 DEF Pairs

-------------------------------------------------------------------------------
(***************************************************************************)
(* The list of a payout names whom it may, and all of them.                *)
(***************************************************************************)

Named(payees) == Image([i \in DOMAIN payees |-> payees[i].auth], Sharing(payees))

\* Names, shares and cuts of a list that is well paired and without repeats.
LEMMA ListSums ==
  ASSUME RewardsTypeOK, NEW payees \in PayeeLists,
         WellPaired(payees), NoRepeats(payees)
  PROVE  /\ Named(payees) \subseteq Wallets
         /\ BpsTotal(payees) = Sum(Shares, Named(payees))
         /\ Paid(payees) = Sum(Entitlements, Named(payees))
         /\ \A w \in Wallets :
               PaidTo(payees, w) = IF w \in Named(payees) THEN Entitlements[w]
                                                          ELSE 0
<1> DEFINE D == DOMAIN payees
           I == Sharing(payees)
           name == [i \in D |-> payees[i].auth]
           bps == [i \in D |-> agents[payees[i].auth].reward_bps]
           cut == [i \in D |-> Cut(payees[i].auth)]
<1>1. /\ I \subseteq D /\ D \subseteq Nat /\ IsFiniteSet(I)
      /\ \A i \in D : name[i] \in Wallets /\ Registered(name[i])
      /\ \A i \in D : payees[i].wallet = name[i]
  <2>1. I \subseteq D
    BY DEF Sharing
  <2> QED
    BY <2>1, PayeesType, FS_Subset DEF WellPaired
<1>2. \A i \in I : /\ bps[i] = Shares[name[i]] /\ bps[i] \in Int
                   /\ cut[i] = Entitlements[name[i]] /\ cut[i] \in Int
  <2> SUFFICES ASSUME NEW i \in I
               PROVE  /\ bps[i] = Shares[name[i]] /\ bps[i] \in Int
                      /\ cut[i] = Entitlements[name[i]] /\ cut[i] \in Int
    OBVIOUS
  <2>1. name[i] \in Wallets /\ Registered(name[i]) /\ name[i] = payees[i].auth
    BY <1>1
  <2>2. bps[i] = agents[name[i]].reward_bps /\ cut[i] = Cut(name[i])
    BY <1>1
  <2> QED
    BY <2>1, <2>2, EntitledFacts
<1>3. \A i, j \in I : name[i] = name[j] => i = j
  <2> SUFFICES ASSUME NEW i \in I, NEW j \in I, i # j
               PROVE  name[i] # name[j]
    OBVIOUS
  <2>1. i \in Nat /\ j \in Nat /\ i \in D /\ j \in D
    BY <1>1
  <2>2. i < j \/ j < i
    BY <2>1
  <2> QED
    BY <2>1, <2>2 DEF NoRepeats
<1>4. Named(payees) = Image(name, I)
  BY DEF Named
<1>5. Named(payees) \subseteq Wallets
  BY <1>1, <1>4 DEF Image
<1>6. BpsTotal(payees) = Sum(Shares, Named(payees))
  <2>1. BpsTotal(payees) = Sum(bps, I)
    BY DEF BpsTotal, Sum
  <2> HIDE DEF bps, cut, name, I
  <2> QED
    BY <1>1, <1>2, <1>3, <1>4, <2>1, SumOverImage
<1>7. Paid(payees) = Sum(Entitlements, Named(payees))
  <2>1. Paid(payees) = Sum(cut, I)
    BY DEF Paid, Sum
  <2> HIDE DEF bps, cut, name, I
  <2> QED
    BY <1>1, <1>2, <1>3, <1>4, <2>1, SumOverImage
<1>8. ASSUME NEW w \in Wallets
      PROVE  PaidTo(payees, w) = IF w \in Named(payees) THEN Entitlements[w] ELSE 0
  <2> DEFINE J == {i \in I : payees[i].wallet = w}
  <2>1. PaidTo(payees, w) = Sum(cut, J)
    BY DEF PaidTo, Sum
  <2>2. J = {i \in I : name[i] = w}
    BY <1>1
  <2>3. CASE w \notin Named(payees)
    <3>1. J = {}
      BY <1>4, <2>2, <2>3 DEF Image
    <3>2. Sum(cut, {}) = 0
      BY FS_EmptySet, SumStep
    <3> QED
      BY <2>1, <2>3, <3>1, <3>2
  <2>4. CASE w \in Named(payees)
    <3>1. PICK i \in I : name[i] = w
      BY <1>4, <2>4 DEF Image
    <3>2. J = {i}
      BY <1>3, <2>2, <3>1
    <3>3. Sum(cut, {i}) = cut[i]
      <4>1. \A x \in {i} : cut[x] \in Int
        BY <1>2
      <4>2. IsFiniteSet({i})
        BY FS_Singleton
      <4> DEFINE S == {i}
      <4>3. Sum(cut, S) = cut[i] + Sum(cut, S \ {i})
        <5> HIDE DEF cut
        <5>1. i \in S
          OBVIOUS
        <5> HIDE DEF S
        <5> QED
          BY <4>1, <4>2, <5>1, SumSplit DEF S
      <4>4. S \ {i} = {} /\ Sum(cut, {}) = 0
        BY FS_EmptySet, SumStep
      <4> HIDE DEF cut
      <4> QED
        BY <4>1, <4>3, <4>4
    <3>4. cut[i] = Entitlements[w]
      BY <1>2, <3>1
    <3> HIDE DEF J, cut
    <3> QED
      BY <2>1, <2>4, <3>2, <3>3, <3>4
  <2> QED
    BY <2>3, <2>4
<1> QED
  BY <1>5, <1>6, <1>7, <1>8

AllEntitled == Sum(Entitlements, Wallets)

\* Whoever is left out of an accepted list has no share, so wallet by wallet
\* and in all a payout is what the shares on record say.
LEMMA AcceptedPays ==
  ASSUME RewardsTypeOK, SharesAddUp, config # NoConfig,
         NEW payees \in PayeeLists, Accepted(payees)
  PROVE  /\ Paid(payees) = AllEntitled
         /\ \A w \in Wallets : PaidTo(payees, w) = Entitled(w)
<1> DEFINE N == Named(payees)
<1>1. /\ N \subseteq Wallets
      /\ BpsTotal(payees) = Sum(Shares, N)
      /\ Paid(payees) = Sum(Entitlements, N)
      /\ \A w \in Wallets :
            PaidTo(payees, w) = IF w \in N THEN Entitlements[w] ELSE 0
  BY ListSums DEF Accepted
<1> HIDE DEF N
<1>2. Sum(Shares, N) = Sum(Shares, Wallets)
  BY <1>1 DEF Accepted, SharesAddUp, Sum
<1>3. \A w \in Wallets \ N : Entitlements[w] = 0
  <2>1. \A w \in Wallets : Shares[w] \in Nat
    BY EntitledFacts
  <2>2. \A w \in Wallets \ N : Shares[w] = 0
    BY <1>1, <1>2, <2>1, WalletsFinite, SumOfRest
  <2> QED
    BY <2>2, EntitledFacts
<1>4. Sum(Entitlements, Wallets) = Sum(Entitlements, N)
  <2>1. \A w \in Wallets : Entitlements[w] \in Int
    BY EntitledFacts
  <2> QED
    BY <1>1, <1>3, <2>1, WalletsFinite, SumOfSupport
<1>5. \A w \in Wallets : PaidTo(payees, w) = Entitled(w)
  BY <1>1, <1>3, EntitledFacts
<1> QED
  BY <1>1, <1>4, <1>5 DEF AllEntitled

\* All that anybody is entitled to is there, through every rounding.
LEMMA EntitledFits ==
  ASSUME RewardsTypeOK, SharesAddUp, config # NoConfig
  PROVE  AllEntitled \in Nat /\ AllEntitled <= Available
<1> DEFINE d == BPS_DENOMINATOR
           total == Sum(Shares, Wallets)
<1>1. /\ d \in Nat \ {0} /\ Available \in Nat
      /\ total \in Nat /\ total <= d
      /\ AllEntitled \in Nat
  <2>1. \A w \in Wallets : /\ Shares[w] \in Int /\ Shares[w] >= 0
                           /\ Entitlements[w] \in Int /\ Entitlements[w] >= 0
    BY EntitledFacts
  <2>2. /\ total \in Int /\ total >= 0
        /\ AllEntitled \in Int /\ AllEntitled >= 0
    BY <2>1, WalletsFinite, SumType DEF AllEntitled
  <2>3. total <= d
    BY DEF SharesAddUp, Sum
  <2> QED
    BY <2>2, <2>3, AvailableType, RouterAssumption DEF U64
<1>2. AllEntitled * d <= Available * total
  <2>1. ASSUME NEW w \in Wallets
        PROVE  /\ Shares[w] \in Nat /\ Entitlements[w] \in Nat
               /\ Entitlements[w] * d <= Available * Shares[w]
    <3>1. CASE Registered(w)
      BY <2>1, <3>1, EntitledFacts, CutFacts
    <3>2. CASE ~ Registered(w)
      <4>1. Shares[w] = 0 /\ Entitlements[w] = 0
        BY <2>1, <3>2, EntitledFacts DEF Shares, ShareOf
      <4> QED
        BY <1>1, <4>1
    <3> QED
      BY <3>1, <3>2
  <2> QED
    BY <1>1, <2>1, WalletsFinite, SumOfShares DEF AllEntitled
<1> HIDE DEF total, d
<1>3. total * Available <= d * Available
  BY <1>1, TimesMonotone
<1>4. AllEntitled * d <= Available * d
  <2>1. Available * total = total * Available /\ d * Available = Available * d
    BY <1>1
  <2>2. /\ AllEntitled * d \in Int /\ Available * total \in Int
        /\ Available * d \in Int
    BY <1>1
  <2> QED
    BY <1>2, <1>3, <2>1, <2>2
<1>5. AllEntitled * d < (Available + 1) * d
  <2>1. (Available + 1) * d = Available * d + d
    BY <1>1
  <2>2. AllEntitled * d \in Int /\ Available * d \in Int
    BY <1>1
  <2> QED
    BY <1>1, <1>4, <2>1, <2>2
<1>6. AllEntitled < Available + 1
  BY <1>1, <1>5, TimesLess
<1> QED
  BY <1>1, <1>6

-------------------------------------------------------------------------------
(***************************************************************************)
(* The payout.                                                             *)
(***************************************************************************)

\* What key k gains: its entitlement, and the treasury all that is left.
Gain(k) == Entitled(k) + (IF k = config.treasury THEN Available - AllEntitled
                                                 ELSE 0)

LEMMA GainType ==
  ASSUME RewardsTypeOK, SharesAddUp, config # NoConfig, NEW k \in Keys
  PROVE  Entitled(k) \in Nat /\ Gain(k) \in Nat
<1>1. Entitled(k) \in Nat
  BY EntitledFacts
<1>2. Available - AllEntitled \in Nat
  BY EntitledFits, AvailableType
<1> QED
  BY <1>1, <1>2 DEF Gain

\* The gains of all are what the vault can spare.
LEMMA GainsAddUp ==
  ASSUME RewardsTypeOK, SharesAddUp, config \in Config,
         NEW after, \A k \in Keys : after[k] = lamports[k] + Gain(k)
  PROVE  Sum(after, Keys) = Sum(lamports, Keys) + Available
<1>1. /\ IsFiniteSet(Keys) /\ Wallets \subseteq Keys
      /\ config # NoConfig /\ config.treasury \in Keys
      /\ AllEntitled \in Nat /\ Available \in Nat
  BY ChainAssumption, RouterAssumption, SentinelAssumption, EntitledFits,
     AvailableType DEF Config
<1>2. \A k \in Keys : lamports[k] \in Int
  BY DEF RewardsTypeOK, RegistryTypeOK, ChainTypeOK
<1> DEFINE entitled == [k \in Keys |-> Entitled(k)]
           left == [k \in Keys |-> IF k = config.treasury
                                   THEN Available - AllEntitled ELSE 0]
           gain == [k \in Keys |-> Gain(k)]
<1>3. \A k \in Keys : /\ entitled[k] \in Int /\ left[k] \in Int
                      /\ gain[k] = entitled[k] + left[k] /\ gain[k] \in Int
                      /\ after[k] = lamports[k] + gain[k]
  BY <1>1, GainType DEF Gain
<1>4. Sum(entitled, Keys) = AllEntitled
  <2>1. \A k \in Keys \ Wallets : entitled[k] = 0
    BY EntitledFacts
  <2>2. Sum(entitled, Keys) = Sum(entitled, Wallets)
    <3>1. \A k \in Keys : entitled[k] \in Int
      BY <1>3
    <3> HIDE DEF entitled
    <3> QED
      BY <1>1, <2>1, <3>1, SumOfSupport
  <2>3. \A w \in Wallets : entitled[w] = Entitlements[w]
    BY <1>1 DEF Entitlements
  <2>4. Sum(entitled, Wallets) = Sum(Entitlements, Wallets)
    <3> HIDE DEF entitled
    <3> QED
      BY <2>3, WalletsFinite, SumAgree
  <2> QED
    BY <2>2, <2>4 DEF AllEntitled
<1>5. Sum(left, Keys) = Available - AllEntitled
  <2> DEFINE t == {config.treasury}
  <2>1. \A k \in Keys \ t : left[k] = 0
    OBVIOUS
  <2>2. (\A k \in Keys : left[k] \in Int) /\ t \subseteq Keys
    BY <1>1, <1>3
  <2>3. Sum(left, Keys) = Sum(left, t)
    <3> HIDE DEF left, t
    <3> QED
      BY <1>1, <2>1, <2>2, SumOfSupport
  <2>4. IsFiniteSet(t) /\ config.treasury \in t /\ \A k \in t : left[k] \in Int
    BY <1>1, <2>2, FS_Subset
  <2>5. Sum(left, t) = left[config.treasury] + Sum(left, t \ {config.treasury})
    <3> HIDE DEF left, t
    <3> QED
      BY <2>4, SumSplit
  <2>6. t \ {config.treasury} = {} /\ Sum(left, {}) = 0
    BY FS_EmptySet, SumStep
  <2>7. left[config.treasury] = Available - AllEntitled
    BY <1>1
  <2> HIDE DEF left, t
  <2> QED
    BY <1>1, <2>3, <2>5, <2>6, <2>7
<1> HIDE DEF entitled, left, gain
<1>6. Sum(gain, Keys) = Sum(entitled, Keys) + Sum(left, Keys)
  BY <1>1, <1>3, SumOfSums
<1>7. Sum(after, Keys) = Sum(lamports, Keys) + Sum(gain, Keys)
  BY <1>1, <1>2, <1>3, SumOfSums
<1>8. Sum(lamports, Keys) \in Int
  BY <1>1, <1>2, SumType
<1> QED
  BY <1>1, <1>4, <1>5, <1>6, <1>7, <1>8

LEMMA DistributeFacts ==
  ASSUME VaultInv, NEW payees \in PayeeLists, NEW treasury \in Vaults,
         DistributeRewards(payees, treasury)
  PROVE  /\ config \in Config /\ vaultOpen
         /\ lamports' \in [Keys -> Nat] /\ RentExempt(lamports)'
         /\ \A k \in Keys : lamports'[k] = lamports[k] + Gain(k)
         /\ vault' = VaultRent
         /\ vault = Available + VaultRent
         /\ payout' \in RewardsDistributed
<1>1. /\ config \in Config /\ config # NoConfig /\ treasury = config.treasury
      /\ treasury \in Keys /\ vaultOpen
      /\ RewardsTypeOK /\ SharesAddUp
  BY RouterAssumption
     DEF DistributeRewards, DistributeAccounts, VaultInv, RegistryInv,
         RewardsTypeOK, RegistryTypeOK
<1>2. /\ Paid(payees) = AllEntitled
      /\ \A w \in Wallets : PaidTo(payees, w) = Entitled(w)
  BY <1>1, AcceptedPays DEF DistributeRewards
<1>3. /\ AllEntitled \in Nat /\ Available \in Nat /\ AllEntitled <= Available
      /\ VaultRent \in Nat /\ vault = Available + VaultRent
  BY <1>1, EntitledFits, AvailableType DEF VaultInv
<1>4. Remainder(payees) = Available - AllEntitled
  BY <1>2, <1>3 DEF Remainder
<1> DEFINE balances == Balances(payees, treasury)
<1>5. balances \in [Keys -> Nat]
      /\ \A k \in Keys : balances[k] = lamports[k] + Gain(k)
  <2>1. ASSUME NEW k \in Keys
        PROVE  balances[k] = lamports[k] + Gain(k) /\ balances[k] \in Nat
    <3>1. balances[k] = lamports[k] + (IF k \in Wallets THEN PaidTo(payees, k) ELSE 0)
                          + (IF k = treasury THEN Remainder(payees) ELSE 0)
      BY DEF Balances
    <3>2. (IF k \in Wallets THEN PaidTo(payees, k) ELSE 0) = Entitled(k)
      BY <1>2 DEF Entitled
    <3>3. lamports[k] \in Nat /\ Entitled(k) \in Nat /\ Gain(k) \in Nat
      BY <1>1, GainType DEF RewardsTypeOK, RegistryTypeOK, ChainTypeOK
    <3> HIDE DEF balances
    <3> QED
      BY <1>1, <1>3, <1>4, <3>1, <3>2, <3>3 DEF Gain
  <2>2. balances = [k \in Keys |-> balances[k]]
    BY DEF Balances
  <2> HIDE DEF balances
  <2> QED
    BY <2>1, <2>2
<1>6. lamports' = balances /\ RentExempt(balances)
  BY DEF DistributeRewards, Commit
<1>7. RentExempt(lamports)'
  BY <1>6 DEF RentExempt
<1>8. vault' = VaultRent
  <2>1. vault' = vault - Paid(payees) - Remainder(payees)
    BY DEF DistributeRewards
  <2> QED
    BY <1>2, <1>3, <1>4, <2>1
<1>9. payout' \in RewardsDistributed
  <2>1. payout' = [total |-> Available, to_agents |-> Paid(payees),
                   to_treasury |-> Remainder(payees)]
    BY DEF DistributeRewards
  <2>2. Paid(payees) \in Nat /\ Remainder(payees) \in Nat
    BY <1>2, <1>3, <1>4
  <2> QED
    BY <1>3, <2>1, <2>2 DEF RewardsDistributed
<1> HIDE DEF balances
<1> QED
  BY <1>1, <1>3, <1>5, <1>6, <1>7, <1>8, <1>9

-------------------------------------------------------------------------------
(***************************************************************************)
(* Every lamport is somewhere.                                             *)
(***************************************************************************)

Purses == Sum(lamports, Keys)

Wrapping == IF vaultWsol = NoAccount THEN 0 ELSE vaultWsol + TokenRent

AllLamports == Purses + Rents + vault + Wrapping

\* NothingLost, with the sums named.
LEMMA NothingLostIs ==
  /\ RewardsTypeOK =>
       (NothingLost <=> AllLamports = Sum(InitialLamports, Keys) + earned)
  /\ RewardsTypeOK' =>
       (NothingLost' <=> AllLamports' = Sum(InitialLamports, Keys) + earned')
<1>1. DOMAIN InitialLamports = Keys
  BY ChainAssumption
<1>2. RewardsTypeOK => DOMAIN lamports = Keys
  BY DEF RewardsTypeOK, RegistryTypeOK, ChainTypeOK
<1>3. RewardsTypeOK' => DOMAIN lamports' = Keys
  BY DEF RewardsTypeOK, RegistryTypeOK, ChainTypeOK
<1> QED
  BY <1>1, <1>2, <1>3
     DEF NothingLost, SumFunction, Sum, AllLamports, Purses, Wrapping

LEMMA LamportsType ==
  ASSUME RewardsTypeOK
  PROVE  /\ Purses \in Int /\ Rents \in Int /\ vault \in Int /\ Wrapping \in Int
         /\ earned \in Int /\ Sum(InitialLamports, Keys) \in Int
<1>1. IsFiniteSet(Keys) /\ \A k \in Keys : InitialLamports[k] \in Int
  BY ChainAssumption
<1>2. \A k \in Keys : lamports[k] \in Int
  BY DEF RewardsTypeOK, RegistryTypeOK, ChainTypeOK
<1>3. Purses \in Int /\ Sum(InitialLamports, Keys) \in Int
  BY <1>1, <1>2, SumType DEF Purses
<1>4. Rents \in Int
  <2> DEFINE n == Cardinality({w \in Wallets : Registered(w)})
  <2>1. n \in Int
    <3>1. IsFiniteSet({w \in Wallets : Registered(w)})
      BY WalletsFinite, FS_Subset
    <3> QED
      BY <3>1, FS_CardinalityType
  <2> HIDE DEF n
  <2> QED
    BY <2>1, RegistryAssumption DEF Rents, n
<1>5. Wrapping \in Int /\ vault \in Int /\ earned \in Int
  BY ChainAssumption, RewardsAssumption DEF Wrapping, RewardsTypeOK
<1> QED
  BY <1>3, <1>4, <1>5

\* A debit that commits takes as much out of the purses.
LEMMA DebitFacts ==
  ASSUME RegistryTypeOK, NEW k \in Keys, NEW amount \in Int,
         Commit(Debit(lamports, k, amount))
  PROVE  /\ lamports' \in [Keys -> Nat]
         /\ RentExempt(lamports)'
         /\ Purses' = Purses - amount
<1> DEFINE balances == Debit(lamports, k, amount)
<1>1. /\ lamports \in [Keys -> Nat] /\ IsFiniteSet(Keys)
      /\ \A x \in Keys : lamports[x] \in Int
  BY ChainAssumption DEF RegistryTypeOK, ChainTypeOK
<1>2. /\ balances \in [Keys -> Int] /\ balances[k] = lamports[k] - amount
      /\ \A x \in Keys \ {k} : balances[x] = lamports[x]
      /\ balances[k] \in Int
  BY <1>1 DEF Debit
<1>3. lamports' = balances /\ RentExempt(balances)
  BY DEF Commit
<1>4. lamports' \in [Keys -> Nat]
  <2> HIDE DEF balances
  <2> QED
    BY <1>2, CommitType DEF balances
<1>5. Sum(balances, Keys) = (Sum(lamports, Keys) - lamports[k]) + balances[k]
  <2> HIDE DEF balances
  <2> QED
    BY <1>1, <1>2, SumUpdate
<1>6. Sum(lamports, Keys) \in Int
  BY <1>1, SumType
<1> HIDE DEF balances
<1>7. Purses' = Purses - amount
  BY <1>1, <1>2, <1>3, <1>5, <1>6 DEF Purses
<1> QED
  BY <1>3, <1>4, <1>7 DEF RentExempt

-------------------------------------------------------------------------------
(***************************************************************************)
(* Administration: every rent that is paid is the rent of an account.      *)
(***************************************************************************)

Enrolled == {w \in Wallets : Registered(w)}

\* What the rents come to, before and after.
LEMMA RentsAre ==
  /\ Rents = (IF config = NoConfig THEN 0 ELSE ConfigRent)
               + AgentRent * Cardinality(Enrolled)
  /\ Rents' = (IF config' = NoConfig THEN 0 ELSE ConfigRent)
               + AgentRent * Cardinality(Enrolled')
  /\ Enrolled' = {w \in Wallets : agents'[w] # NoAgent}
BY DEF Rents, Enrolled, Registered

\* Nobody is enrolled before there is a config, whatever step led here.
LEMMA EnrolledNeedConfig ==
  ASSUME RegistryInv', NEW w \in Wallets, agents'[w] # NoAgent
  PROVE  config' # NoConfig
BY DEF RegistryInv, SharesAddUp, Registered

LEMMA InitializePays ==
  ASSUME PursesInv, RegistryInv', NEW s \in Officials, NEW t \in Vaults,
         NEW v \in Vaults, NEW args \in ConfigArgs, Initialize(s, t, v, args)
  PROVE  Purses' + Rents' = Purses + Rents /\ RentExempt(lamports)'
<1>1. RegistryTypeOK /\ RewardsTypeOK /\ s \in Keys
  BY RouterAssumption DEF PursesInv, VaultInv, RewardsTypeOK
<1>2. Commit(Debit(lamports, s, ConfigRent)) /\ config = NoConfig /\ agents' = agents
  BY DEF Initialize, InitializeAccounts
<1>3. config' # NoConfig
  <2>1. t \in Keys /\ v \in Keys /\ 0 \in U64
    BY RouterAssumption DEF U64
  <2>2. config' \in Config
    BY <1>1, <2>1, ConfigArgsType DEF Initialize, Config
  <2> QED
    BY <2>2, SentinelAssumption
<1>4. Purses' = Purses - ConfigRent /\ RentExempt(lamports)'
  BY <1>1, <1>2, DebitFacts, RegistryAssumption
<1>5. Enrolled' = Enrolled
  BY <1>2 DEF Enrolled, Registered
<1>6. Rents' = Rents + ConfigRent
  <2> DEFINE r == AgentRent * Cardinality(Enrolled)
  <2>1. r \in Int
    <3>1. Cardinality(Enrolled) \in Nat
      <4>1. IsFiniteSet(Enrolled)
        BY WalletsFinite, FS_Subset DEF Enrolled
      <4> QED
        BY <4>1, FS_CardinalityType
    <3> QED
      BY <3>1, RegistryAssumption
  <2>2. Rents = 0 + r /\ Rents' = ConfigRent + r
    BY <1>2, <1>3, <1>5, RentsAre
  <2> HIDE DEF r
  <2> QED
    BY <2>1, <2>2, RegistryAssumption
<1>7. Purses \in Int /\ Rents \in Int
  BY <1>1, LamportsType
<1> QED
  BY <1>4, <1>6, <1>7, RegistryAssumption

\* A newcomer, whoever pays for it.
LEMMA EnrolPays ==
  ASSUME PursesInv, RegistryInv', NEW w \in Wallets, NEW payer \in Keys,
         config # NoConfig, InitAgentAuth(w, payer), agents'[w] # NoAgent,
         \A v \in Wallets \ {w} : agents'[v] = agents[v]
  PROVE  Purses' + Rents' = Purses + Rents /\ RentExempt(lamports)'
<1>1. RegistryTypeOK /\ RewardsTypeOK /\ Purses \in Int
  BY LamportsType DEF PursesInv, VaultInv, RewardsTypeOK
<1>2. Commit(Debit(lamports, payer, AgentRent)) /\ agents[w] = NoAgent
  BY DEF InitAgentAuth
<1>3. Purses' = Purses - AgentRent /\ RentExempt(lamports)'
  BY <1>1, <1>2, DebitFacts, RegistryAssumption
<1>4. Enrolled' = Enrolled \cup {w} /\ w \notin Enrolled
  BY <1>2, RentsAre DEF Enrolled, Registered
<1>5. /\ Cardinality(Enrolled) \in Nat
      /\ Cardinality(Enrolled') = Cardinality(Enrolled) + 1
  <2>1. IsFiniteSet(Enrolled)
    BY WalletsFinite, FS_Subset DEF Enrolled
  <2> QED
    BY <1>4, <2>1, FS_CardinalityType, FS_AddElement
<1>6. config' # NoConfig
  BY EnrolledNeedConfig
<1>7. Rents' = Rents + AgentRent
  <2> DEFINE n == Cardinality(Enrolled)
  <2>1. Rents = ConfigRent + AgentRent * n /\ Rents' = ConfigRent + AgentRent * (n + 1)
    BY <1>5, <1>6, RentsAre
  <2>2. AgentRent * (n + 1) = AgentRent * n + AgentRent /\ AgentRent * n \in Int
    BY <1>5, RegistryAssumption
  <2> HIDE DEF n
  <2> QED
    BY <2>1, <2>2, RegistryAssumption
<1>8. Rents \in Int
  BY <1>1, LamportsType
<1> QED
  BY <1>1, <1>3, <1>7, <1>8, RegistryAssumption

\* Terms change, and no account is opened.
LEMMA TermsPay ==
  ASSUME PursesInv, lamports' = lamports, config # NoConfig, config' # NoConfig,
         \A w \in Wallets : agents'[w] = NoAgent <=> agents[w] = NoAgent
  PROVE  Purses' + Rents' = Purses + Rents /\ RentExempt(lamports)'
<1>1. Enrolled' = Enrolled
  BY RentsAre DEF Enrolled, Registered
<1>2. Rents' = Rents
  BY <1>1, RentsAre
<1> QED
  BY <1>2 DEF Purses, PursesInv, VaultInv, RentExempt

LEMMA ConfigStepPays ==
  ASSUME PursesInv, RegistryInv', ConfigStep
  PROVE  Purses' + Rents' = Purses + Rents /\ RentExempt(lamports)'
<1>1. PICK s \in Officials :
        \/ \E t, v \in Vaults, args \in ConfigArgs :
              Initialize(s, t, v, args) \/ UpdateConfig(s, t, v, args)
        \/ \E p \in BOOLEAN : SetPaused(s, p)
        \/ \E k \in Officials : SetAuthority(s, k)
  BY DEF ConfigStep
<1>2. ASSUME NEW t \in Vaults, NEW v \in Vaults, NEW args \in ConfigArgs,
             Initialize(s, t, v, args)
      PROVE  Purses' + Rents' = Purses + Rents /\ RentExempt(lamports)'
  BY <1>2, InitializePays
<1>3. ASSUME \/ \E t, v \in Vaults, args \in ConfigArgs : UpdateConfig(s, t, v, args)
             \/ \E p \in BOOLEAN : SetPaused(s, p)
             \/ \E k \in Officials : SetAuthority(s, k)
      PROVE  Purses' + Rents' = Purses + Rents /\ RentExempt(lamports)'
  <2>1. config \in Config /\ config # NoConfig
    BY <1>3 DEF PursesInv, VaultInv, RewardsTypeOK, RegistryTypeOK, UpdateConfig,
                SetPaused, SetAuthority, HasOneAuthority
  <2>2. lamports' = lamports /\ agents' = agents
    BY <1>3 DEF UpdateConfig, SetPaused, SetAuthority, chainVars
  <2>3. config' \in Config
    BY <1>3, <2>1, RouterAssumption, ConfigArgsType
       DEF UpdateConfig, SetPaused, SetAuthority, Config
  <2>4. config' # NoConfig
    BY <2>3, SentinelAssumption
  <2> QED
    BY <2>1, <2>2, <2>4, TermsPay
<1> QED
  BY <1>1, <1>2, <1>3

\* Changing the terms of an account leaves an account.
LEMMA HandlersKeepAccount ==
  ASSUME RegistryTypeOK, NEW w \in Wallets, NEW limit \in LimitArgs,
         \/ \E s \in Officials, share \in ShareArgs, fee \in FeeArgs,
               e \in BOOLEAN : SetAgent(s, w, e, limit, share, fee)
         \/ SetOwnLimit(w, limit)
  PROVE  agents'[w] \in AgentAuth
<1>1. limit \in U64 /\ agents \in [Wallets -> AgentAuth \cup {NoAgent}]
  BY RouterAssumption DEF RegistryTypeOK
<1>2. ASSUME NEW s \in Officials, NEW share \in ShareArgs, NEW fee \in FeeArgs,
             NEW e \in BOOLEAN, SetAgent(s, w, e, limit, share, fee)
      PROVE  agents'[w] \in AgentAuth
  <2>1. share \in U16 /\ fee \in U16
    BY RouterAssumption
  <2>2. agents[w] \in AgentAuth
    BY <1>1, <1>2 DEF SetAgent, Registered
  <2>3. agents' = [agents EXCEPT ![w].enabled = e, ![w].daily_limit = limit,
                                 ![w].reward_bps = share, ![w].fee_bps = fee]
    BY <1>2 DEF SetAgent
  <2> QED
    BY <1>1, <2>1, <2>2, <2>3 DEF AgentAuth
<1>3. ASSUME SetOwnLimit(w, limit)
      PROVE  agents'[w] \in AgentAuth
  <2>1. agents[w] \in AgentAuth
    BY <1>1, <1>3 DEF SetOwnLimit, SetOwnLimitAccounts, Registered
  <2> QED
    BY <1>1, <1>3, <2>1 DEF SetOwnLimit, AgentAuth
<1> QED
  BY <1>2, <1>3

LEMMA AgentStepPays ==
  ASSUME PursesInv, RegistryInv', AgentStep
  PROVE  Purses' + Rents' = Purses + Rents /\ RentExempt(lamports)'
<1>1. PICK w \in Wallets, limit \in LimitArgs :
        \/ \E s \in Officials, share \in ShareArgs, fee \in FeeArgs :
              \/ RegisterAgent(s, w, limit, share, fee)
              \/ \E e \in BOOLEAN : SetAgent(s, w, e, limit, share, fee)
        \/ SelfRegister(w, limit)
        \/ SetOwnLimit(w, limit)
  BY DEF AgentStep
<1>2. /\ agents \in [Wallets -> AgentAuth \cup {NoAgent}]
      /\ agents' \in [Wallets -> AgentAuth \cup {NoAgent}]
      /\ \A v \in Wallets \ {w} : agents'[v] = agents[v]
  <2>1. /\ agents \in [Wallets -> AgentAuth \cup {NoAgent}]
        /\ agents' \in [Wallets -> AgentAuth \cup {NoAgent}]
    BY DEF PursesInv, VaultInv, RewardsTypeOK, RegistryInv, RegistryTypeOK
  <2>2. \E record : agents' = [agents EXCEPT ![w] = record]
    BY <1>1, <2>1, OneAgentChanges
  <2> QED
    BY <2>1, <2>2
<1>3. ASSUME NEW s \in Officials, NEW share \in ShareArgs, NEW fee \in FeeArgs,
             RegisterAgent(s, w, limit, share, fee)
      PROVE  Purses' + Rents' = Purses + Rents /\ RentExempt(lamports)'
  <2>1. s \in Keys /\ config # NoConfig /\ InitAgentAuth(w, s)
    BY <1>3, RouterAssumption
       DEF RegisterAgent, RegisterAgentAccounts, HasOneAuthority
  <2>2. agents'[w] # NoAgent
    <3> DEFINE new == [daily_limit |-> limit, spent_today |-> 0,
                       day |-> CurrentDay, reward_bps |-> share,
                       fee_bps |-> fee, enabled |-> TRUE,
                       authority_managed |-> TRUE]
    <3>1. /\ CurrentDay \in Nat /\ 0 \in U64 /\ limit \in U64
          /\ share \in U16 /\ fee \in U16
      BY CurrentDayType, RouterAssumption
         DEF PursesInv, VaultInv, RewardsTypeOK, RegistryTypeOK, ChainTypeOK, U64
    <3>2. new \in AgentAuth
      BY <3>1 DEF AgentAuth
    <3>3. agents'[w] = new
      BY <1>2, <1>3 DEF RegisterAgent
    <3> HIDE DEF new
    <3> QED
      BY <3>2, <3>3, SentinelAssumption
  <2> QED
    BY <1>2, <2>1, <2>2, EnrolPays
<1>4. ASSUME SelfRegister(w, limit)
      PROVE  Purses' + Rents' = Purses + Rents /\ RentExempt(lamports)'
  <2>1. w \in Keys /\ config # NoConfig /\ InitAgentAuth(w, w)
    BY <1>4, RouterAssumption DEF SelfRegister, SelfRegisterAccounts
  <2>2. agents'[w] # NoAgent
    <3> DEFINE cap == config.default_daily_limit
               own == IF cap > 0 /\ cap < limit THEN cap ELSE limit
               new == [daily_limit |-> own, spent_today |-> 0,
                       day |-> CurrentDay, reward_bps |-> 0,
                       fee_bps |-> config.fee_bps, enabled |-> TRUE,
                       authority_managed |-> FALSE]
    <3>1. /\ CurrentDay \in Nat /\ 0 \in U64 /\ 0 \in U16 /\ limit \in U64
          /\ config \in Config
      BY <2>1, CurrentDayType, RouterAssumption
         DEF PursesInv, VaultInv, RewardsTypeOK, RegistryTypeOK, ChainTypeOK, U64, U16
    <3>2. own \in U64 /\ config.fee_bps \in U16
      BY <3>1 DEF Config
    <3> HIDE DEF own
    <3>3. new \in AgentAuth
      BY <3>1, <3>2 DEF AgentAuth
    <3>4. agents'[w] = new
      BY <1>2, <1>4 DEF SelfRegister, own
    <3> HIDE DEF new
    <3> QED
      BY <3>3, <3>4, SentinelAssumption
  <2> QED
    BY <1>2, <2>1, <2>2, EnrolPays
<1>5. ASSUME \/ \E s \in Officials, share \in ShareArgs, fee \in FeeArgs,
                   e \in BOOLEAN : SetAgent(s, w, e, limit, share, fee)
             \/ SetOwnLimit(w, limit)
      PROVE  Purses' + Rents' = Purses + Rents /\ RentExempt(lamports)'
  <2>1. agents[w] \in AgentAuth /\ lamports' = lamports
    BY <1>2, <1>5 DEF SetAgent, SetOwnLimit, SetOwnLimitAccounts, Registered, chainVars
  <2>2. agents'[w] \in AgentAuth
    <3>1. limit \in U64 /\ RegistryTypeOK
      BY RouterAssumption DEF PursesInv, VaultInv, RewardsTypeOK
    <3> QED
      BY <1>5, <3>1, HandlersKeepAccount
  <2>3. agents[w] # NoAgent /\ agents'[w] # NoAgent
    BY <2>1, <2>2, SentinelAssumption
  <2>4. config # NoConfig /\ config' # NoConfig
    BY <2>3, EnrolledNeedConfig DEF PursesInv, VaultInv, RegistryInv, SharesAddUp, Registered
  <2> QED
    BY <1>2, <2>1, <2>3, <2>4, TermsPay
<1> QED
  BY <1>1, <1>3, <1>4, <1>5

-------------------------------------------------------------------------------
(***************************************************************************)
(* Revenue, the vault and the payout.                                      *)
(***************************************************************************)

\* What every step of the vault leaves alone.
LEMMA RegistryKept ==
  ASSUME VaultInv, UNCHANGED <<clock, config, agents>>,
         lamports' \in [Keys -> Nat], signer' \in Keys \cup {NoKey}
  PROVE  RegistryInv' /\ Rents' = Rents
<1>1. RegistryTypeOK'
  BY DEF VaultInv, RewardsTypeOK, RegistryTypeOK, ChainTypeOK
<1>2. SharesAddUp' /\ FeesCapped'
  BY AgentsUntouchedInv DEF VaultInv
<1>3. Rents' = Rents
  BY DEF Rents, Registered
<1> QED
  BY <1>1, <1>2, <1>3 DEF RegistryInv

\* The step leaves nobody below rent, and makes and loses nothing but what is
\* earned in it.
Conserves ==
    /\ RentExempt(lamports) => RentExempt(lamports)'
    /\ AllLamports' = AllLamports + (earned' - earned)

LEMMA RevenueType ==
  ASSUME NEW amount \in Revenue
  PROVE  amount \in Nat \ {0}
BY RewardsAssumption

LEMMA CollectCurveInv ==
  ASSUME VaultInv, NEW amount \in Revenue, CollectCurveFee(amount)
  PROVE  /\ VaultInv' /\ Conserves
         /\ UNCHANGED <<clock, config, agents>> /\ payout' = NoPayout
<1>1. /\ amount \in Nat /\ vault \in Nat /\ earned \in 0 .. MaxEarned
      /\ vaultWsol \in Nat \cup {NoAccount} /\ vaultOpen \in BOOLEAN
      /\ RewardsTypeOK /\ lamports \in [Keys -> Nat]
  BY RevenueType DEF VaultInv, RewardsTypeOK, RegistryTypeOK, ChainTypeOK
<1>2. /\ earned' = earned + amount /\ earned + amount <= MaxEarned
      /\ vault' = vault + amount /\ signer' = NoKey /\ payout' = NoPayout
      /\ UNCHANGED <<lamports, clock, config, agents, vaultOpen, vaultWsol>>
  BY DEF CollectCurveFee, Collect, chainVars
<1>3. RegistryInv' /\ Rents' = Rents
  BY <1>1, <1>2, RegistryKept
<1>4. RewardsTypeOK'
  BY <1>1, <1>2, <1>3, RewardsAssumption DEF RewardsTypeOK, RegistryInv
<1>5. RentExempt(lamports) => RentExempt(lamports)'
  BY <1>2 DEF RentExempt
<1>6. VaultReserved'
  BY <1>1, <1>2, RewardsAssumption DEF VaultInv, VaultReserved
<1>7. AllLamports' = AllLamports + (earned' - earned)
  <2>1. Purses' = Purses /\ Wrapping' = Wrapping
    BY <1>2 DEF Purses, Wrapping
  <2> QED
    BY <1>1, <1>2, <1>3, <2>1, LamportsType DEF AllLamports
<1> QED
  BY <1>2, <1>3, <1>4, <1>5, <1>6, <1>7 DEF VaultInv, Conserves

LEMMA CollectAmmInv ==
  ASSUME VaultInv, NEW amount \in Revenue, NEW payer \in Officials,
         CollectAmmFee(payer, amount)
  PROVE  /\ VaultInv' /\ Conserves
         /\ UNCHANGED <<clock, config, agents>> /\ payout' = NoPayout
<1>1. /\ amount \in Nat /\ vault \in Nat /\ earned \in 0 .. MaxEarned
      /\ vaultWsol \in Nat \cup {NoAccount} /\ vaultOpen \in BOOLEAN
      /\ TokenRent \in Nat /\ NoAccount \notin Nat /\ payer \in Keys
      /\ RewardsTypeOK /\ RegistryTypeOK /\ lamports \in [Keys -> Nat]
  BY RevenueType, ChainAssumption, RouterAssumption
     DEF VaultInv, RewardsTypeOK, RegistryTypeOK, ChainTypeOK
<1>2. /\ earned' = earned + amount /\ earned + amount <= MaxEarned
      /\ signer' = NoKey /\ payout' = NoPayout
      /\ UNCHANGED <<clock, config, agents, vaultOpen, vault>>
  BY DEF CollectAmmFee, Collect
<1>3. /\ lamports' \in [Keys -> Nat] /\ (RentExempt(lamports) => RentExempt(lamports)')
      /\ vaultWsol' \in Nat
      /\ Purses' + Wrapping' = Purses + Wrapping + amount
  <2>1. CASE vaultWsol = NoAccount
    <3>1. Commit(Debit(lamports, payer, TokenRent)) /\ vaultWsol' = amount
      BY <2>1 DEF CollectAmmFee
    <3>2. /\ lamports' \in [Keys -> Nat] /\ RentExempt(lamports)'
          /\ Purses' = Purses - TokenRent
      BY <1>1, <3>1, DebitFacts
    <3>3. Wrapping = 0 /\ Wrapping' = amount + TokenRent
      BY <1>1, <2>1, <3>1 DEF Wrapping
    <3> QED
      BY <1>1, <3>1, <3>2, <3>3, LamportsType
  <2>2. CASE vaultWsol # NoAccount
    <3>1. vaultWsol' = vaultWsol + amount /\ lamports' = lamports /\ vaultWsol \in Nat
      BY <1>1, <2>2 DEF CollectAmmFee
    <3>2. Wrapping = vaultWsol + TokenRent /\ Wrapping' = vaultWsol + amount + TokenRent
      BY <1>1, <2>2, <3>1 DEF Wrapping
    <3>3. Purses' = Purses /\ (RentExempt(lamports) => RentExempt(lamports)')
      BY <3>1 DEF Purses, RentExempt
    <3> QED
      BY <1>1, <3>1, <3>2, <3>3, LamportsType
  <2> QED
    BY <2>1, <2>2
<1>4. RegistryInv' /\ Rents' = Rents
  BY <1>2, <1>3, RegistryKept
<1>5. RewardsTypeOK'
  BY <1>1, <1>2, <1>3, <1>4, RewardsAssumption DEF RewardsTypeOK, RegistryInv
<1>6. VaultReserved'
  BY <1>2 DEF VaultInv, VaultReserved
<1>7. AllLamports' = AllLamports + (earned' - earned)
  <2>1. Purses' \in Int /\ Wrapping' \in Int
    <3>1. IsFiniteSet(Keys) /\ \A k \in Keys : lamports'[k] \in Int
      BY <1>3, ChainAssumption
    <3>2. Purses' \in Int
      BY <3>1, SumType DEF Purses
    <3>3. Wrapping' \in Int
      BY <1>1, <1>3 DEF Wrapping
    <3> QED
      BY <3>2, <3>3
  <2> QED
    BY <1>1, <1>2, <1>3, <1>4, <2>1, LamportsType DEF AllLamports
<1> QED
  BY <1>2, <1>3, <1>4, <1>5, <1>6, <1>7 DEF VaultInv, Conserves

LEMMA InitCreatorVaultInv ==
  ASSUME VaultInv, NEW s \in Officials, InitCreatorVault(s)
  PROVE  /\ VaultInv' /\ Conserves
         /\ UNCHANGED <<clock, config, agents>> /\ payout' = NoPayout
<1> DEFINE missing == IF vault < VaultRent THEN VaultRent - vault ELSE 0
<1>1. /\ vault \in Nat /\ VaultRent \in Nat /\ s \in Keys /\ RegistryTypeOK
      /\ missing \in Nat /\ RewardsTypeOK
  BY RouterAssumption, RewardsAssumption DEF VaultInv, RewardsTypeOK
<1>2. /\ Commit(Debit(lamports, s, missing)) /\ vault' = vault + missing
      /\ vaultOpen' = TRUE /\ signer' = s /\ payout' = NoPayout
      /\ config # NoConfig
      /\ UNCHANGED <<clock, config, agents, vaultWsol, earned>>
  BY DEF InitCreatorVault, InitCreatorVaultAccounts, HasOneAuthority
<1>3. vault' >= VaultRent /\ vault' \in Nat
  BY <1>1, <1>2
<1> HIDE DEF missing
<1>4. /\ lamports' \in [Keys -> Nat] /\ RentExempt(lamports)'
      /\ Purses' = Purses - missing
  BY <1>1, <1>2, DebitFacts
<1>5. RegistryInv' /\ Rents' = Rents
  BY <1>1, <1>2, <1>4, RegistryKept
<1>6. RewardsTypeOK'
  BY <1>1, <1>2, <1>3, <1>5 DEF RewardsTypeOK, RegistryInv
<1>7. VaultReserved'
  BY <1>2, <1>3 DEF VaultReserved
<1>8. AllLamports' = AllLamports + (earned' - earned)
  <2>1. Wrapping' = Wrapping
    BY <1>2 DEF Wrapping
  <2> QED
    BY <1>1, <1>2, <1>4, <1>5, <2>1, LamportsType DEF AllLamports
<1> QED
  BY <1>2, <1>4, <1>5, <1>6, <1>7, <1>8 DEF VaultInv, Conserves

LEMMA UnwrapCreatorFeesInv ==
  ASSUME VaultInv, UnwrapCreatorFees
  PROVE  /\ VaultInv' /\ Conserves
         /\ UNCHANGED <<clock, config, agents>> /\ payout' = NoPayout
<1>1. /\ vault \in Nat /\ VaultRent \in Nat /\ TokenRent \in Nat
      /\ vaultWsol \in Nat /\ RewardsTypeOK /\ lamports \in [Keys -> Nat]
  BY ChainAssumption, RewardsAssumption
     DEF UnwrapCreatorFees, UnwrapAccounts, VaultInv, RewardsTypeOK,
         RegistryTypeOK, ChainTypeOK
<1>2. /\ vault' = vault + vaultWsol + TokenRent /\ vaultWsol' = NoAccount
      /\ vaultWsol # NoAccount /\ signer' = NoKey /\ payout' = NoPayout
      /\ UNCHANGED <<lamports, clock, config, agents, vaultOpen, earned>>
  BY DEF UnwrapCreatorFees, UnwrapAccounts, chainVars
<1>3. RegistryInv' /\ Rents' = Rents
  BY <1>1, <1>2, RegistryKept
<1>4. RewardsTypeOK'
  BY <1>1, <1>2, <1>3 DEF RewardsTypeOK, RegistryInv
<1>5. RentExempt(lamports) => RentExempt(lamports)'
  BY <1>2 DEF RentExempt
<1>6. VaultReserved'
  BY <1>1, <1>2 DEF VaultInv, VaultReserved
<1>7. AllLamports' = AllLamports + (earned' - earned)
  <2>1. Purses' = Purses /\ Wrapping = vaultWsol + TokenRent /\ Wrapping' = 0
    BY <1>2 DEF Purses, Wrapping
  <2> QED
    BY <1>1, <1>2, <1>3, <2>1, LamportsType DEF AllLamports
<1> QED
  BY <1>2, <1>3, <1>4, <1>5, <1>6, <1>7 DEF VaultInv, Conserves

LEMMA DistributeInv ==
  ASSUME VaultInv, NEW payees \in PayeeLists, NEW treasury \in Vaults,
         DistributeRewards(payees, treasury)
  PROVE  VaultInv' /\ Conserves /\ UNCHANGED <<clock, config, agents>>
<1>1. /\ UNCHANGED <<clock, config, agents, vaultOpen, vaultWsol, earned>>
      /\ signer' = NoKey
  BY DEF DistributeRewards, DistributeAccounts
<1>2. /\ config \in Config
      /\ lamports' \in [Keys -> Nat] /\ RentExempt(lamports)'
      /\ \A k \in Keys : lamports'[k] = lamports[k] + Gain(k)
      /\ vault' = VaultRent /\ vault = Available + VaultRent
      /\ payout' \in RewardsDistributed
  BY DistributeFacts
<1>3. RegistryInv' /\ Rents' = Rents
  BY <1>1, <1>2, RegistryKept
<1>4. /\ RewardsTypeOK /\ SharesAddUp /\ Available \in Nat /\ VaultRent \in Nat
  BY AvailableType DEF VaultInv, RegistryInv
<1>5. RewardsTypeOK'
  BY <1>1, <1>2, <1>3, <1>4 DEF RewardsTypeOK, RegistryInv
<1>6. VaultReserved'
  BY <1>1, <1>2, <1>4, SentinelAssumption DEF VaultReserved
<1>7. AllLamports' = AllLamports + (earned' - earned)
  <2>1. Purses' = Purses + Available
    BY <1>2, <1>4, GainsAddUp DEF Purses
  <2>2. Wrapping' = Wrapping
    BY <1>1 DEF Wrapping
  <2> QED
    BY <1>1, <1>2, <1>3, <1>4, <2>1, <2>2, LamportsType DEF AllLamports
<1> QED
  BY <1>1, <1>2, <1>3, <1>5, <1>6, <1>7 DEF VaultInv, Conserves

\* The invariant after a step, from what the step moved.
LEMMA Assemble ==
  ASSUME RewardsInv, VaultInv', Conserves
  PROVE  RewardsInv'
<1>1. AllLamports = Sum(InitialLamports, Keys) + earned
  BY NothingLostIs DEF RewardsInv, PursesInv, VaultInv
<1>2. earned \in Int /\ earned' \in Int /\ Sum(InitialLamports, Keys) \in Int
  <2>1. earned' \in Int
    BY RewardsAssumption DEF VaultInv, RewardsTypeOK
  <2> QED
    BY <2>1, LamportsType DEF RewardsInv, PursesInv, VaultInv
<1>3. NothingLost'
  BY <1>1, <1>2, NothingLostIs DEF Conserves, VaultInv
<1> QED
  BY <1>3 DEF RewardsInv, PursesInv, VaultInv, Conserves

LEMMA RewardsStepInv ==
  ASSUME RewardsInv, RewardsStep
  PROVE  RewardsInv' /\ UNCHANGED <<clock, config, agents>>
<1>1. VaultInv
  BY DEF RewardsInv, PursesInv
<1>2. VaultInv' /\ Conserves /\ UNCHANGED <<clock, config, agents>>
  BY <1>1, InitCreatorVaultInv, CollectCurveInv, CollectAmmInv, UnwrapCreatorFeesInv,
     DistributeInv DEF RewardsStep
<1> QED
  BY <1>2, Assemble

\* Once there is a config there always is.
LEMMA ConfigIsForGood ==
  ASSUME VaultInv, RegistryNext, config # NoConfig
  PROVE  config' # NoConfig
<1>1. /\ config \in Config
      /\ agents \in [Wallets -> AgentAuth \cup {NoAgent}]
  BY DEF VaultInv, RewardsTypeOK, RegistryTypeOK
<1>2. CASE ConfigStep
  <2>1. PICK s \in Officials :
          \/ \E t, v \in Vaults, args \in ConfigArgs : UpdateConfig(s, t, v, args)
          \/ \E p \in BOOLEAN : SetPaused(s, p)
          \/ \E k \in Officials : SetAuthority(s, k)
    BY <1>2 DEF ConfigStep, Initialize, InitializeAccounts
  <2>2. config' \in Config
    BY <1>1, <2>1, RouterAssumption, ConfigArgsType
       DEF UpdateConfig, SetPaused, SetAuthority, Config
  <2> QED
    BY <2>2, SentinelAssumption
<1>3. CASE AgentStep
  <2>1. PICK w \in Wallets, limit \in LimitArgs :
          \/ \E s \in Officials, share \in ShareArgs, fee \in FeeArgs :
                \/ RegisterAgent(s, w, limit, share, fee)
                \/ \E e \in BOOLEAN : SetAgent(s, w, e, limit, share, fee)
          \/ SelfRegister(w, limit)
          \/ SetOwnLimit(w, limit)
    BY <1>3 DEF AgentStep
  <2>2. ASSUME NEW s \in Officials, NEW share \in ShareArgs, NEW fee \in FeeArgs,
               RegisterAgent(s, w, limit, share, fee)
        PROVE  config' # NoConfig
    BY <1>1, <2>2, RouterAssumption, AddSharesType DEF RegisterAgent, U16
  <2>3. ASSUME NEW s \in Officials, NEW share \in ShareArgs, NEW fee \in FeeArgs,
               NEW e \in BOOLEAN, SetAgent(s, w, e, limit, share, fee)
        PROVE  config' # NoConfig
    <3>1. agents[w].reward_bps \in Nat /\ share \in Nat
      BY <1>1, <2>3, RouterAssumption DEF SetAgent, Registered, AgentAuth, U16
    <3> QED
      BY <1>1, <2>3, <3>1, AddSharesType DEF SetAgent
  <2>4. CASE SelfRegister(w, limit) \/ SetOwnLimit(w, limit)
    BY <2>4 DEF SelfRegister, SetOwnLimit
  <2> QED
    BY <2>1, <2>2, <2>3, <2>4
<1>4. CASE TimePasses
  BY <1>4 DEF TimePasses
<1> QED
  BY <1>2, <1>3, <1>4 DEF RegistryNext

\* What administration takes from somebody is the rent of what it opens.
LEMMA RegistryStepPays ==
  ASSUME PursesInv, RegistryInv', RegistryNext
  PROVE  Purses' + Rents' = Purses + Rents /\ RentExempt(lamports)'
<1>1. CASE ConfigStep
  BY <1>1, ConfigStepPays
<1>2. CASE AgentStep
  BY <1>2, AgentStepPays
<1>3. CASE TimePasses
  BY <1>3 DEF TimePasses, Tick, Purses, Rents, Registered, PursesInv, RentExempt
<1> QED
  BY <1>1, <1>2, <1>3 DEF RegistryNext

LEMMA AdministrationInv ==
  ASSUME RewardsInv, Administration
  PROVE  RewardsInv'
<1>1. RegistryNext /\ payout' = NoPayout /\ UNCHANGED vaultVars
  BY DEF Administration
<1>2. RegistryInv'
  BY <1>1, RegistryInductive DEF RewardsInv, PursesInv, VaultInv
<1>3. Purses' + Rents' = Purses + Rents /\ RentExempt(lamports)'
  BY <1>1, <1>2, RegistryStepPays DEF RewardsInv
<1>4. RewardsTypeOK'
  BY <1>1, <1>2 DEF RewardsInv, PursesInv, VaultInv, RewardsTypeOK, RegistryInv, vaultVars
<1>5. VaultReserved'
  BY <1>1, <1>2, ConfigIsForGood DEF RewardsInv, PursesInv, VaultInv, VaultReserved, vaultVars
<1>6. AllLamports' = AllLamports + (earned' - earned)
  <2>1. vault' = vault /\ Wrapping' = Wrapping /\ earned' = earned
    BY <1>1 DEF vaultVars, Wrapping
  <2>2. earned \in Int
    BY LamportsType DEF RewardsInv, PursesInv, VaultInv
  <2> QED
    BY <1>3, <2>1, <2>2, LamportsType DEF AllLamports, RewardsInv, PursesInv, VaultInv
<1> QED
  BY <1>2, <1>3, <1>4, <1>5, <1>6, Assemble DEF VaultInv, Conserves

LEMMA RewardsInitInv == RewardsInit => RewardsInv
<1> SUFFICES ASSUME RewardsInit PROVE RewardsInv
  OBVIOUS
<1>1. RegistryInv
  BY RegistryInductive DEF RewardsInit
<1>2. RewardsTypeOK
  <2>1. vaultOpen \in BOOLEAN
    BY DEF RewardsInit
  <2>2. /\ vault \in Nat /\ vaultWsol \in Nat \cup {NoAccount}
        /\ earned \in 0 .. MaxEarned /\ payout \in RewardsDistributed \cup {NoPayout}
    BY RewardsAssumption DEF RewardsInit
  <2> QED
    BY <1>1, <2>1, <2>2 DEF RewardsTypeOK, RegistryInv
<1>3. RentExempt(lamports) /\ lamports = InitialLamports
  BY ChainAssumption DEF RewardsInit, RegistryInit, ChainInit, RentExempt
<1>4. VaultReserved
  BY DEF RewardsInit, VaultReserved
<1>5. Rents = 0
  <2>1. Enrolled = {} /\ config = NoConfig
    BY DEF Enrolled, Registered, RewardsInit, RegistryInit
  <2>2. Cardinality(Enrolled) = 0
    BY <2>1, FS_EmptySet
  <2>3. AgentRent * 0 = 0
    BY RegistryAssumption
  <2> QED
    BY <2>1, <2>2, <2>3, RentsAre
<1>6. AllLamports = Sum(InitialLamports, Keys) + earned
  <2>1. Wrapping = 0 /\ vault = 0 /\ earned = 0
    BY DEF Wrapping, RewardsInit
  <2> QED
    BY <1>2, <1>3, <1>5, <2>1, LamportsType DEF AllLamports, Purses
<1>7. NothingLost
  BY <1>2, <1>6, NothingLostIs
<1> QED
  BY <1>1, <1>2, <1>3, <1>4, <1>7 DEF RewardsInv, PursesInv, VaultInv

LEMMA RewardsInductive ==
  /\ RewardsInit => RewardsInv
  /\ RewardsInv /\ [RewardsNext]_rewardsVars => RewardsInv'
<1>1. ASSUME RewardsInv, UNCHANGED rewardsVars
      PROVE  RewardsInv'
  <2>1. UNCHANGED <<lamports, clock, config, agents, signer, vaultOpen, vault,
                    vaultWsol, earned, payout>>
    BY <1>1 DEF rewardsVars, registryVars, vaultVars
  <2>2. RegistryInv'
    BY <1>1, RegistryInductive DEF RewardsInv, PursesInv, VaultInv, rewardsVars
  <2>3. RewardsTypeOK'
    BY <1>1, <2>1, <2>2 DEF RewardsInv, PursesInv, VaultInv, RewardsTypeOK, RegistryInv
  <2>4. RentExempt(lamports)' /\ VaultReserved'
    BY <1>1, <2>1 DEF RewardsInv, PursesInv, VaultInv, RentExempt, VaultReserved
  <2>5. NothingLost'
    BY <1>1, <2>1 DEF RewardsInv, PursesInv, VaultInv, NothingLost, Rents, Registered
  <2> QED
    BY <2>2, <2>3, <2>4, <2>5 DEF RewardsInv, PursesInv, VaultInv
<1> QED
  <2>1. ASSUME RewardsInv, RewardsNext
        PROVE  RewardsInv'
    BY <2>1, AdministrationInv, RewardsStepInv DEF RewardsNext
  <2> QED
    BY <1>1, <2>1, RewardsInitInv

\* The inductive invariant of creator rewards: purses, vault and reserve, whatever order
\* the creator's revenue is collected, unwrapped and distributed in (rewards.rs).
THEOREM RewardsInvariant == RewardsSpec => []RewardsInv
<1> QED
  BY RewardsInductive, PTL DEF RewardsSpec

\* Every reachable state of accounts, vault and revenue is well typed: no
\* payout and no rent overdraws anybody (rewards.rs:164).
THEOREM RewardsTypeCorrect == RewardsSpec => []RewardsTypeOK
<1>1. RewardsInv => RewardsTypeOK
  BY DEF RewardsInv, PursesInv, VaultInv
<1> QED
  BY <1>1, RewardsInvariant, PTL

\* Rents, revenue, unwraps and payouts neither make nor lose a lamport, though
\* the program moves them by hand (rewards.rs:164).
THEOREM NothingIsLost == RewardsSpec => []NothingLost
<1>1. RewardsInv => NothingLost
  BY DEF RewardsInv, PursesInv, VaultInv
<1> QED
  BY <1>1, RewardsInvariant, PTL

LEMMA RewardsStepPays ==
  ASSUME VaultInv, RewardsStep, Distributes
  PROVE  LET all == SumFunctionOnSet([w \in Wallets |-> Entitled(w)], Wallets)
         IN  \A k \in Keys :
                lamports'[k] - lamports[k] =
                   Entitled(k) + (IF k = config.treasury
                                  THEN Available - all ELSE 0)
<1>1. SumFunctionOnSet([w \in Wallets |-> Entitled(w)], Wallets) = AllEntitled
  BY DEF AllEntitled, Sum, Entitlements
<1>2. ASSUME NEW payees \in PayeeLists, NEW treasury \in Vaults,
             DistributeRewards(payees, treasury), NEW k \in Keys
      PROVE  lamports'[k] - lamports[k] = Gain(k)
  <2>1. lamports'[k] = lamports[k] + Gain(k) /\ config \in Config
    BY <1>2, DistributeFacts
  <2>2. lamports[k] \in Nat /\ Gain(k) \in Nat
    BY <2>1, GainType, SentinelAssumption
       DEF VaultInv, RegistryInv, RewardsTypeOK, RegistryTypeOK, ChainTypeOK
  <2> QED
    BY <2>1, <2>2
<1>3. CASE \E payees \in PayeeLists, treasury \in Vaults :
              DistributeRewards(payees, treasury)
  BY <1>1, <1>2, <1>3 DEF Gain
<1>4. CASE \/ \E s \in Officials : InitCreatorVault(s)
           \/ \E amount \in Revenue :
                 \/ CollectCurveFee(amount)
                 \/ \E payer \in Officials : CollectAmmFee(payer, amount)
           \/ UnwrapCreatorFees
  <2>1. payout' = NoPayout
    BY <1>4, InitCreatorVaultInv, CollectCurveInv, CollectAmmInv,
       UnwrapCreatorFeesInv
  <2> QED
    BY <2>1 DEF Distributes
<1> QED
  BY <1>3, <1>4 DEF RewardsStep

\* Whoever calls and whatever list of payees comes with the call, each agent
\* gets what its share on record entitles it to and the treasury what is left
\* (rewards.rs:8).
THEOREM PayoutsAreFixed == RewardsSpec => PayoutIsFixed
<1>1. ASSUME RewardsInv, [RewardsNext]_rewardsVars
      PROVE  [Distributes =>
                LET all == SumFunctionOnSet([w \in Wallets |-> Entitled(w)], Wallets)
                IN  \A k \in Keys :
                       lamports'[k] - lamports[k] =
                          Entitled(k) + (IF k = config.treasury
                                         THEN Available - all ELSE 0)]_rewardsVars
  <2>1. CASE RewardsStep
    BY <1>1, <2>1, RewardsStepPays DEF RewardsInv, PursesInv
  <2>2. CASE Administration
    BY <2>2 DEF Administration, Distributes
  <2>3. CASE UNCHANGED rewardsVars
    BY <2>3
  <2> QED
    BY <1>1, <2>1, <2>2, <2>3 DEF RewardsNext
<1> QED
  BY <1>1, RewardsInvariant, PTL DEF RewardsSpec, PayoutIsFixed

\* The vault, once there, keeps its rent through every step, and a payout
\* leaves exactly that (rewards.rs:37): the cuts, rounded one by one, and what
\* is left are together all there was to share.
THEOREM ReserveAlwaysKept == RewardsSpec => VaultKeepsReserve
<1>1. ASSUME RewardsInv, [RewardsNext]_rewardsVars
      PROVE  [/\ vaultOpen => vaultOpen' /\ vault' >= VaultRent
              /\ Distributes => vault' = VaultRent]_rewardsVars
  <2>1. RewardsInv'
    BY <1>1, RewardsInductive
  <2>2. CASE \E payees \in PayeeLists, treasury \in Vaults :
                DistributeRewards(payees, treasury)
    <3>1. vault' = VaultRent /\ vaultOpen' = vaultOpen
      BY <1>1, <2>2, DistributeFacts DEF DistributeRewards, RewardsInv, PursesInv
    <3> QED
      BY <3>1, RewardsAssumption
  <2>3. CASE \/ \E s \in Officials : InitCreatorVault(s)
             \/ \E amount \in Revenue :
                   \/ CollectCurveFee(amount)
                   \/ \E payer \in Officials : CollectAmmFee(payer, amount)
             \/ UnwrapCreatorFees
             \/ Administration
    <3>1. payout' = NoPayout
      BY <1>1, <2>3, InitCreatorVaultInv, CollectCurveInv, CollectAmmInv,
         UnwrapCreatorFeesInv DEF Administration, RewardsInv, PursesInv
    <3>2. vaultOpen => vaultOpen'
      BY <2>3 DEF InitCreatorVault, CollectCurveFee, CollectAmmFee,
                  UnwrapCreatorFees, Administration, vaultVars
    <3>3. vaultOpen' => vault' >= VaultRent
      BY <2>1 DEF RewardsInv, PursesInv, VaultInv, VaultReserved
    <3> QED
      BY <3>1, <3>2, <3>3 DEF Distributes
  <2>4. CASE UNCHANGED rewardsVars
    BY <2>4
  <2> QED
    BY <1>1, <2>2, <2>3, <2>4 DEF RewardsNext, RewardsStep
<1> QED
  BY <1>1, RewardsInvariant, PTL DEF RewardsSpec, VaultKeepsReserve

-------------------------------------------------------------------------------
(***************************************************************************)
(* What is in the vault can be had.                                        *)
(***************************************************************************)

\* A list that names each sharing agent, and has no more entries than there
\* are sharing agents, names none of them twice and adds up to the total.
LEMMA FullListAccepted ==
  ASSUME RewardsTypeOK, SharesAddUp, config # NoConfig,
         NEW payees \in PayeeLists, WellPaired(payees),
         Sharing(payees) = DOMAIN payees,
         Len(payees) = Cardinality(Sharers),
         {payees[i].auth : i \in DOMAIN payees} = Sharers
  PROVE  Accepted(payees)
<1> DEFINE D == DOMAIN payees
           name == [i \in D |-> payees[i].auth]
<1>1. PICK n \in Nat : D = 1 .. n /\ Len(payees) = n
  BY PayeesType
<1>2. IsFiniteSet(D) /\ Cardinality(D) = Cardinality(Sharers)
  <2>1. IsFiniteSet(1 .. n) /\ Cardinality(1 .. n) = n
    BY FS_Interval
  <2> QED
    BY <1>1, <2>1
<1>3. name \in Surjection(D, Sharers)
  BY DEF Surjection
<1>4. \A i, j \in D : payees[i].auth = payees[j].auth => i = j
  <2>1. name \in Injection(D, Sharers)
    <3> HIDE DEF name, D
    <3> QED
      BY <1>2, <1>3, FS_SurjSameCardinalityImpliesInj
  <2> QED
    BY <2>1 DEF Injection, IsInjective
<1>5. NoRepeats(payees)
  <2>1. \A i, j \in D : j < i => i # j
    BY <1>1
  <2> QED
    BY <1>4, <2>1 DEF NoRepeats
<1>6. BpsTotal(payees) = Sum(Shares, Named(payees))
  BY <1>5, ListSums
<1>7. Named(payees) = Sharers
  BY DEF Named, Image
<1>8. Sum(Shares, Wallets) = Sum(Shares, Sharers)
  <2>1. \A w \in Wallets : Shares[w] \in Int
    BY EntitledFacts
  <2>2. ASSUME NEW w \in Wallets \ Sharers
        PROVE  Shares[w] = 0
    <3>1. CASE Registered(w)
      <4>1. Shares[w] = agents[w].reward_bps /\ Shares[w] \in Nat
        BY <3>1, EntitledFacts
      <4>2. ~ (agents[w].reward_bps > 0)
        BY <3>1 DEF Sharers
      <4> QED
        BY <4>1, <4>2
    <3>2. CASE ~ Registered(w)
      BY <3>2 DEF Shares, ShareOf
    <3> QED
      BY <3>1, <3>2
  <2>3. Sharers \subseteq Wallets
    BY DEF Sharers
  <2> QED
    BY <2>1, <2>2, <2>3, WalletsFinite, SumOfSupport
<1> QED
  BY <1>5, <1>6, <1>7, <1>8 DEF Accepted, SharesAddUp, Sum

\* A payout leaves nobody between nothing and the rent of an account, if it
\* gives nobody who has nothing less than that.
LEMMA PayoutCommits ==
  ASSUME RewardsInv, config # NoConfig, NEW payees \in PayeeLists,
         Accepted(payees), \A k \in Keys : ~ Starved(k)
  PROVE  RentExempt(Balances(payees, config.treasury))
<1>1. RewardsTypeOK /\ SharesAddUp /\ SystemRent \in Nat
  BY ChainAssumption DEF RewardsInv, PursesInv, VaultInv, RegistryInv
<1>2. /\ Paid(payees) = AllEntitled
      /\ \A w \in Wallets : PaidTo(payees, w) = Entitled(w)
  BY <1>1, AcceptedPays
<1>3. AllEntitled \in Nat /\ Available \in Nat /\ AllEntitled <= Available
  BY <1>1, EntitledFits, AvailableType
<1>4. Remainder(payees) = Available - AllEntitled
  BY <1>2, <1>3 DEF Remainder
<1> SUFFICES ASSUME NEW k \in Keys
             PROVE  \/ Balances(payees, config.treasury)[k] = 0
                    \/ Balances(payees, config.treasury)[k] >= SystemRent
  BY DEF RentExempt
<1> DEFINE balance == Balances(payees, config.treasury)[k]
<1>5. lamports[k] \in Nat /\ Entitled(k) \in Nat /\ Gain(k) \in Nat
  BY <1>1, GainType DEF RewardsTypeOK, RegistryTypeOK, ChainTypeOK
<1>6. balance = lamports[k] + Gain(k)
  <2>1. balance = lamports[k] + (IF k \in Wallets THEN PaidTo(payees, k) ELSE 0)
                    + (IF k = config.treasury THEN Remainder(payees) ELSE 0)
    BY DEF Balances
  <2>2. (IF k \in Wallets THEN PaidTo(payees, k) ELSE 0) = Entitled(k)
    BY <1>2 DEF Entitled
  <2> HIDE DEF balance
  <2> QED
    BY <1>3, <1>4, <1>5, <2>1, <2>2 DEF Gain
<1>7. lamports[k] = 0 \/ lamports[k] >= SystemRent
  BY DEF RewardsInv, PursesInv, VaultInv, RentExempt
<1>8. ~ (lamports[k] = 0 /\ Gain(k) > 0 /\ Gain(k) < SystemRent)
  <2>1. SumFunctionOnSet([w \in Wallets |-> Entitled(w)], Wallets) = AllEntitled
    BY DEF AllEntitled, Sum, Entitlements
  <2> QED
    BY <2>1 DEF Starved, Gain
<1> HIDE DEF balance
<1>9. balance = 0 \/ balance >= SystemRent
  BY <1>1, <1>5, <1>6, <1>7, <1>8
<1> QED
  BY <1>9 DEF balance

\* Whatever is in the vault can be paid out, in one call that names everybody
\* with a share in any order, as long as nobody who has nothing would get less
\* than the rent of an account (rewards.rs:87).
THEOREM PayoutAlwaysReachable == RewardsSpec => []PayoutReachable
<1>1. ASSUME RewardsInv
      PROVE  PayoutReachable
  <2> SUFFICES ASSUME vaultOpen, Available > 0, NEW payees \in PayeeLists,
                      WellPaired(payees), Sharing(payees) = DOMAIN payees,
                      Len(payees) = Cardinality(Sharers),
                      {payees[i].auth : i \in DOMAIN payees} = Sharers
               PROVE  /\ Accepted(payees)
                      /\ vault >= Paid(payees) + Remainder(payees) + VaultRent
                      /\ (\A k \in Keys : ~ Starved(k)) =>
                            RentExempt(Balances(payees, config.treasury))
    BY DEF PayoutReachable
  <2>1. RewardsTypeOK /\ SharesAddUp /\ config # NoConfig /\ VaultReserved
    BY <1>1 DEF RewardsInv, PursesInv, VaultInv, RegistryInv, VaultReserved
  <2>2. Accepted(payees)
    BY <2>1, FullListAccepted
  <2>3. vault >= Paid(payees) + Remainder(payees) + VaultRent
    <3>1. Paid(payees) = AllEntitled
      BY <2>1, <2>2, AcceptedPays
    <3>2. /\ AllEntitled \in Nat /\ Available \in Nat /\ AllEntitled <= Available
          /\ VaultRent \in Nat /\ vault = Available + VaultRent
      BY <2>1, EntitledFits, AvailableType
    <3>3. Remainder(payees) = Available - AllEntitled
      BY <3>1, <3>2 DEF Remainder
    <3> QED
      BY <3>1, <3>2, <3>3
  <2> QED
    BY <1>1, <2>1, <2>2, <2>3, PayoutCommits
<1> QED
  BY <1>1, RewardsInvariant, PTL
===============================================================================
