------------------------------ MODULE NumberLemmas ------------------------------
(***************************************************************************)
(* Facts about numbers that several proofs need.                           *)
(*                                                                         *)
(* Division by a positive number, rounding down: what the days of          *)
(* guards.rs:9, the fees of guards.rs:40 and the shares of                 *)
(* client/sizing.js:92 are made of.                                        *)
(*                                                                         *)
(* The sum of a function over a finite set, the community operator         *)
(* SumFunctionOnSet.  The router keeps one such sum in its state           *)
(* (Config.total_reward_bps), so what its handlers preserve is stated with *)
(* it.  The library's induction theorems take an operator as a parameter;  *)
(* here a set for which a fact fails is taken minimal instead.             *)
(***************************************************************************)
EXTENDS Integers, FiniteSets, Functions, FiniteSetTheorems,
        WellFoundedInduction, TLAPS

-------------------------------------------------------------------------------
(***************************************************************************)
(* Division.                                                               *)
(***************************************************************************)

LEMMA DivBounds ==
  ASSUME NEW n \in Nat, NEW d \in Nat \ {0}
  PROVE  /\ n \div d \in Nat
         /\ (n \div d) * d <= n
         /\ n < ((n \div d) + 1) * d
<1>1. n \div d \in Int /\ n % d \in 0 .. d - 1 /\ n = d * (n \div d) + (n % d)
  OBVIOUS
<1>2. n \div d >= 0
  OBVIOUS
<1> QED
  BY <1>1, <1>2

LEMMA TimesLess ==
  ASSUME NEW d \in Nat \ {0}, NEW a \in Int, NEW b \in Int, a * d < b * d
  PROVE  a < b
<1>1. CASE a >= b
  <2>1. (a - b) * d >= 0
    BY <1>1
  <2> QED
    BY <2>1
<1> QED
  BY <1>1

LEMMA TimesMonotone ==
  ASSUME NEW a \in Nat, NEW b \in Nat, NEW k \in Nat, a <= b
  PROVE  a * k <= b * k
<1>1. (b - a) * k >= 0
  OBVIOUS
<1> QED
  BY <1>1

LEMMA DivMonotone ==
  ASSUME NEW m \in Nat, NEW n \in Nat, NEW d \in Nat \ {0}, m <= n
  PROVE  m \div d <= n \div d
<1> DEFINE q == m \div d
           p == n \div d
<1>1. q \in Nat /\ p \in Nat /\ q * d <= m /\ n < (p + 1) * d
  BY DivBounds
<1> HIDE DEF q, p
<1>2. q * d < (p + 1) * d
  <2>1. q * d \in Int /\ (p + 1) * d \in Int
    BY <1>1
  <2> QED
    BY <1>1, <2>1
<1>3. q < p + 1
  BY <1>1, <1>2, TimesLess
<1>4. q <= p
  BY <1>1, <1>3
<1> QED
  BY <1>4 DEF q, p

\* A share of at most everything is at most everything.
LEMMA ShareAtMostWhole ==
  ASSUME NEW v \in Nat, NEW bps \in Nat, NEW d \in Nat \ {0}, bps <= d
  PROVE  (v * bps) \div d <= v
<1> DEFINE q == (v * bps) \div d
<1>1. v * bps \in Nat
  OBVIOUS
<1>2. q \in Nat /\ q * d <= v * bps
  BY <1>1, DivBounds
<1> HIDE DEF q
<1>3. bps * v <= d * v
  BY TimesMonotone
<1>4. q * d < (v + 1) * d
  <2>1. v * bps <= v * d
    BY <1>3
  <2>2. (v + 1) * d = v * d + d
    OBVIOUS
  <2>3. v * d \in Int /\ q * d \in Int
    BY <1>2
  <2> QED
    BY <1>1, <1>2, <2>1, <2>2, <2>3
<1>5. q < v + 1
  BY <1>2, <1>4, TimesLess
<1>6. q <= v
  BY <1>2, <1>5
<1> QED
  BY <1>6 DEF q

\* One second later it is the same day or the next.
LEMMA NextSecond ==
  ASSUME NEW c \in Nat, NEW d \in Nat \ {0}
  PROVE  (c + 1) \div d \in {c \div d, (c \div d) + 1}
<1> DEFINE q == c \div d
           p == (c + 1) \div d
<1>1. /\ q \in Int /\ q * d <= c /\ c < (q + 1) * d
      /\ p \in Int /\ p * d <= c + 1 /\ c + 1 < (p + 1) * d
  <2>1. \A n \in Nat : /\ n \div d \in Int
                       /\ (n \div d) * d <= n
                       /\ n < ((n \div d) + 1) * d
    <3> TAKE n \in Nat
    <3>1. n \div d \in Int /\ n % d \in 0 .. d - 1 /\ n = d * (n \div d) + (n % d)
      OBVIOUS
    <3> QED
      BY <3>1
  <2> QED
    BY <2>1
<1> HIDE DEF q, p
<1>2. q < p + 1
  <2>1. q * d < (p + 1) * d
    BY <1>1
  <2> QED
    BY <1>1, <2>1, TimesLess
<1>3. p < q + 2
  <2>1. p * d < (q + 2) * d
    <3>1. (q + 2) * d = (q + 1) * d + d
      BY <1>1
    <3>2. (q + 1) * d \in Int /\ p * d \in Int
      BY <1>1
    <3> QED
      BY <1>1, <3>1, <3>2
  <2> QED
    BY <1>1, <2>1, TimesLess
<1>4. p = q \/ p = q + 1
  BY <1>1, <1>2, <1>3
<1> QED
  BY <1>4 DEF q, p

-------------------------------------------------------------------------------
(***************************************************************************)
(* Sums.                                                                   *)
(***************************************************************************)

Pick(s) == CHOOSE x \in s : TRUE

\* g tabulates the sums of f over the subsets of S.
Tabulates(g, f, S) ==
    g = [s \in SUBSET S |->
            IF s = {} THEN 0 ELSE f[Pick(s)] + g[s \ {Pick(s)}]]

Table(f, S) == CHOOSE g : Tabulates(g, f, S)

Sum(f, S) == SumFunctionOnSet(f, S)

\* A nonempty collection of subsets of a finite set has a minimal member.
LEMMA MinimalSubset ==
  ASSUME NEW S, IsFiniteSet(S), NEW C \in SUBSET SUBSET S, C # {}
  PROVE  \E T \in C : \A U \in C : U \subseteq T => U = T
<1>1. IsWellFoundedOn(StrictSubsetOrdering(S), SUBSET S)
  BY FS_StrictSubsetOrderingWellFounded, FS_FiniteSubsetsOfFinite
<1>2. PICK T \in C : \A U \in C : ~ (<<U, T>> \in StrictSubsetOrdering(S))
  <2>1. C \subseteq SUBSET S
    OBVIOUS
  <2> QED
    BY <1>1, <2>1, WFMin
<1>3. \A U \in C : U \subseteq T => U = T
  <2> SUFFICES ASSUME NEW U \in C, U \subseteq T, U # T
               PROVE  FALSE
    OBVIOUS
  <2>1. <<U, T>> \in (SUBSET S) \X (SUBSET S)
    OBVIOUS
  <2>2. <<U, T>> \in StrictSubsetOrdering(S)
    BY <2>1 DEF StrictSubsetOrdering
  <2> QED
    BY <1>2, <2>2
<1> QED
  BY <1>2, <1>3

LEMMA PickIn ==
  ASSUME NEW s, s # {}
  PROVE  Pick(s) \in s
BY DEF Pick

LEMMA SumIsTable ==
  ASSUME NEW f, NEW S
  PROVE  Sum(f, S) = Table(f, S)[S]
BY DEF Sum, SumFunctionOnSet, FoldFunctionOnSet, MapThenFoldSet, Table,
       Tabulates, Pick

\* Two tables of sums agree wherever both are defined.
LEMMA TablesAgree ==
  ASSUME NEW f, NEW S, IsFiniteSet(S), NEW g, Tabulates(g, f, S),
         NEW T \in SUBSET S, NEW h, Tabulates(h, f, T)
  PROVE  \A s \in SUBSET T : g[s] = h[s]
<1> DEFINE C == {s \in SUBSET T : g[s] # h[s]}
<1> SUFFICES ASSUME C # {}
             PROVE  FALSE
  OBVIOUS
<1>1. IsFiniteSet(T)
  BY FS_Subset
<1>2. C \in SUBSET SUBSET T
  OBVIOUS
<1>3. PICK s \in C : \A u \in C : u \subseteq s => u = s
  <2> HIDE DEF C
  <2> QED
    BY <1>1, <1>2, MinimalSubset
<1>4. s \in SUBSET T /\ s \in SUBSET S
  OBVIOUS
<1>5. g[s] = IF s = {} THEN 0 ELSE f[Pick(s)] + g[s \ {Pick(s)}]
  BY <1>4 DEF Tabulates
<1>6. h[s] = IF s = {} THEN 0 ELSE f[Pick(s)] + h[s \ {Pick(s)}]
  BY <1>4 DEF Tabulates
<1>7. s # {}
  BY <1>5, <1>6
<1>8. s \ {Pick(s)} \in SUBSET T /\ s \ {Pick(s)} # s
  BY <1>4, <1>7, PickIn
<1>9. g[s \ {Pick(s)}] = h[s \ {Pick(s)}]
  BY <1>3, <1>8
<1> QED
  BY <1>5, <1>6, <1>9

\* Every finite set has a table of sums.
LEMMA TableExists ==
  ASSUME NEW f, NEW S, IsFiniteSet(S)
  PROVE  Tabulates(Table(f, S), f, S)
<1> DEFINE C == {T \in SUBSET S : \A g : ~ Tabulates(g, f, T)}
<1>1. SUFFICES C = {}
  <2>1. S \notin C
    BY <1>1
  <2>2. \E g : Tabulates(g, f, S)
    BY <2>1
  <2> QED
    BY <2>2 DEF Table
<1>2. SUFFICES ASSUME C # {}
               PROVE  FALSE
  OBVIOUS
<1>3. PICK T \in C : \A U \in C : U \subseteq T => U = T
  <2>1. C \in SUBSET SUBSET S
    OBVIOUS
  <2> HIDE DEF C
  <2> QED
    BY <1>2, <2>1, MinimalSubset
<1>4. T \in SUBSET S /\ IsFiniteSet(T)
  BY FS_Subset
<1>5. \A U \in SUBSET T : U # T => Tabulates(Table(f, U), f, U)
  <2> SUFFICES ASSUME NEW U \in SUBSET T, U # T
               PROVE  Tabulates(Table(f, U), f, U)
    OBVIOUS
  <2>1. U \in SUBSET S /\ U \notin C
    BY <1>3, <1>4
  <2>2. \E g : Tabulates(g, f, U)
    BY <2>1
  <2> QED
    BY <2>2 DEF Table
<1> DEFINE Step(s, v) == IF s = {} THEN 0 ELSE f[Pick(s)] + v
           g == [s \in SUBSET T |->
                   Step(s, Table(f, s \ {Pick(s)})[s \ {Pick(s)}])]
<1>6. ASSUME NEW s \in SUBSET T, s # {}
      PROVE  g[s \ {Pick(s)}] = Table(f, s \ {Pick(s)})[s \ {Pick(s)}]
  <2> DEFINE u == s \ {Pick(s)}
  <2>1. u \in SUBSET T /\ u # T
    BY <1>6, PickIn
  <2>2. Tabulates(Table(f, u), f, u)
    BY <2>1, <1>5
  <2>3. Table(f, u)[u] = Step(u, Table(f, u)[u \ {Pick(u)}])
    BY <2>2 DEF Tabulates
  <2>4. g[u] = Step(u, Table(f, u \ {Pick(u)})[u \ {Pick(u)}])
    BY <2>1
  <2>5. CASE u = {}
    BY <2>3, <2>4, <2>5
  <2>6. CASE u # {}
    <3> DEFINE w == u \ {Pick(u)}
    <3>1. w \in SUBSET u /\ w \in SUBSET T /\ w # T
      BY <2>1, <2>6, PickIn
    <3>2. Tabulates(Table(f, w), f, w)
      BY <3>1, <1>5
    <3>3. IsFiniteSet(u)
      BY <1>4, <2>1, FS_Subset
    <3>4. Table(f, u)[w] = Table(f, w)[w]
      <4> HIDE DEF u, w
      <4> QED
        BY <2>2, <3>1, <3>2, <3>3, TablesAgree
    <3> QED
      BY <2>3, <2>4, <3>4
  <2> QED
    BY <2>5, <2>6
<1>7. \A s \in SUBSET T : g[s] = Step(s, g[s \ {Pick(s)}])
  <2> SUFFICES ASSUME NEW s \in SUBSET T
               PROVE  g[s] = Step(s, g[s \ {Pick(s)}])
    OBVIOUS
  <2>1. CASE s = {}
    BY <2>1
  <2>2. CASE s # {}
    <3>1. g[s \ {Pick(s)}] = Table(f, s \ {Pick(s)})[s \ {Pick(s)}]
      BY <1>6, <2>2
    <3> QED
      BY <3>1
  <2> QED
    BY <2>1, <2>2
<1>8. g = [s \in SUBSET T |-> Step(s, g[s \ {Pick(s)}])]
  <2>1. g = [s \in SUBSET T |-> g[s]]
    OBVIOUS
  <2> HIDE DEF g
  <2> QED
    BY <1>7, <2>1
<1>9. Tabulates(g, f, T)
  BY <1>8 DEF Tabulates
<1> QED
  BY <1>9, <1>3

\* The recursion of the sum, in terms of Pick.
LEMMA SumStep ==
  ASSUME NEW f, NEW S, IsFiniteSet(S)
  PROVE  /\ S = {} => Sum(f, S) = 0
         /\ S # {} => Sum(f, S) = f[Pick(S)] + Sum(f, S \ {Pick(S)})
<1> DEFINE u == S \ {Pick(S)}
<1>1. Table(f, S)[S] = IF S = {} THEN 0 ELSE f[Pick(S)] + Table(f, S)[u]
  <2>1. Tabulates(Table(f, S), f, S)
    BY TableExists
  <2> QED
    BY <2>1 DEF Tabulates
<1>2. Table(f, S)[u] = Table(f, u)[u]
  <2>1. u \in SUBSET S /\ IsFiniteSet(u)
    BY FS_Subset
  <2>2. Tabulates(Table(f, S), f, S) /\ Tabulates(Table(f, u), f, u)
    BY <2>1, TableExists
  <2> HIDE DEF u
  <2> QED
    BY <2>1, <2>2, TablesAgree
<1> QED
  BY <1>1, <1>2, SumIsTable

\* A sum of integers is an integer, and one of naturals a natural.
LEMMA SumType ==
  ASSUME NEW S, IsFiniteSet(S), NEW f, \A x \in S : f[x] \in Int
  PROVE  /\ Sum(f, S) \in Int
         /\ (\A x \in S : f[x] >= 0) => Sum(f, S) >= 0
<1> DEFINE Good(T) == /\ Sum(f, T) \in Int
                      /\ (\A x \in S : f[x] >= 0) => Sum(f, T) >= 0
           C == {T \in SUBSET S : ~ Good(T)}
<1> SUFFICES ASSUME C # {}
             PROVE  FALSE
  OBVIOUS
<1>1. PICK T \in C : \A U \in C : U \subseteq T => U = T
  <2>1. C \in SUBSET SUBSET S
    OBVIOUS
  <2> HIDE DEF C
  <2> QED
    BY <2>1, MinimalSubset
<1>2. T \in SUBSET S /\ IsFiniteSet(T) /\ ~ Good(T)
  BY FS_Subset
<1>3. T # {}
  <2>1. T = {} => Sum(f, T) = 0
    BY <1>2, SumStep
  <2> QED
    BY <1>2, <2>1
<1>4. Sum(f, T) = f[Pick(T)] + Sum(f, T \ {Pick(T)})
  BY <1>2, <1>3, SumStep
<1>5. Pick(T) \in S
  BY <1>2, <1>3, PickIn
<1>6. Good(T \ {Pick(T)})
  <2>1. T \ {Pick(T)} \in SUBSET S /\ T \ {Pick(T)} # T
    BY <1>2, <1>3, PickIn
  <2> QED
    BY <1>1, <2>1
<1>7. f[Pick(T)] \in Int /\ ((\A x \in S : f[x] >= 0) => f[Pick(T)] >= 0)
  BY <1>5
<1>8. ASSUME NEW a \in Int, NEW b \in Int, NEW c, c = a + b,
             NEW P \in BOOLEAN, P => a >= 0, P => b >= 0
      PROVE  c \in Int /\ (P => c >= 0)
  BY <1>8
<1> QED
  BY <1>2, <1>4, <1>6, <1>7

\* Any member can be taken out of the sum, not only the one the fold picks.
LEMMA SumSplit ==
  ASSUME NEW S, IsFiniteSet(S), NEW f, \A x \in S : f[x] \in Int,
         NEW a \in S
  PROVE  Sum(f, S) = f[a] + Sum(f, S \ {a})
<1> DEFINE C == {T \in SUBSET S :
                   \E x \in T : Sum(f, T) # f[x] + Sum(f, T \ {x})}
<1> SUFFICES ASSUME C # {}
             PROVE  FALSE
  OBVIOUS
<1>1. PICK T \in C : \A U \in C : U \subseteq T => U = T
  <2>1. C \in SUBSET SUBSET S
    OBVIOUS
  <2> HIDE DEF C
  <2> QED
    BY <2>1, MinimalSubset
<1>2. PICK x \in T : Sum(f, T) # f[x] + Sum(f, T \ {x})
  OBVIOUS
<1>3. T \in SUBSET S /\ IsFiniteSet(T) /\ T # {}
  BY FS_Subset
<1> DEFINE p == Pick(T)
           u == T \ {p}
           v == T \ {x}
           w == u \ {x}
<1>4. p \in T /\ p \in S /\ x \in S
  BY <1>2, <1>3, PickIn
<1>5. IsFiniteSet(u) /\ IsFiniteSet(v) /\ IsFiniteSet(w)
  BY <1>3, FS_Subset
<1>6. Sum(f, T) = f[p] + Sum(f, u)
  BY <1>3, SumStep
<1>7. p # x
  BY <1>2, <1>6
<1>8. Sum(f, u) = f[x] + Sum(f, w)
  <2>1. u \in SUBSET S /\ u # T /\ x \in u
    BY <1>3, <1>4, <1>7
  <2>2. u \notin C
    <3> HIDE DEF C
    <3> QED
      BY <1>1, <2>1
  <2> QED
    BY <2>1, <2>2
<1>9. Sum(f, v) = f[p] + Sum(f, w)
  <2>1. v \in SUBSET S /\ v # T /\ p \in v /\ w = v \ {p}
    BY <1>3, <1>4, <1>7
  <2>2. v \notin C
    <3> HIDE DEF C
    <3> QED
      BY <1>1, <2>1
  <2> QED
    BY <2>1, <2>2
<1>10. f[x] \in Int /\ f[p] \in Int /\ Sum(f, w) \in Int
  <2>1. \A y \in w : f[y] \in Int
    BY <1>3
  <2> QED
    BY <1>4, <1>5, <2>1, SumType
<1> HIDE DEF p, u, v, w
<1>11. Sum(f, T) = f[x] + Sum(f, v)
  BY <1>6, <1>8, <1>9, <1>10
<1> QED
  BY <1>2, <1>11 DEF v

\* The sum depends on f only through its values on the set.
LEMMA SumAgree ==
  ASSUME NEW S, IsFiniteSet(S), NEW f, NEW g, \A x \in S : f[x] = g[x]
  PROVE  Sum(f, S) = Sum(g, S)
<1> DEFINE C == {T \in SUBSET S : Sum(f, T) # Sum(g, T)}
<1> SUFFICES ASSUME C # {}
             PROVE  FALSE
  OBVIOUS
<1>1. PICK T \in C : \A U \in C : U \subseteq T => U = T
  <2>1. C \in SUBSET SUBSET S
    OBVIOUS
  <2> HIDE DEF C
  <2> QED
    BY <2>1, MinimalSubset
<1>2. T \in SUBSET S /\ IsFiniteSet(T) /\ Sum(f, T) # Sum(g, T)
  BY FS_Subset
<1>3. T # {}
  BY <1>2, SumStep
<1>4. Pick(T) \in T /\ f[Pick(T)] = g[Pick(T)]
  BY <1>2, <1>3, PickIn
<1>5. Sum(f, T \ {Pick(T)}) = Sum(g, T \ {Pick(T)})
  BY <1>1, <1>2, <1>4
<1> QED
  BY <1>2, <1>3, <1>4, <1>5, SumStep

\* Changing one term changes the sum by as much.
LEMMA SumUpdate ==
  ASSUME NEW S, IsFiniteSet(S), NEW f, NEW g, NEW a \in S,
         \A x \in S : f[x] \in Int, g[a] \in Int,
         \A x \in S \ {a} : g[x] = f[x]
  PROVE  Sum(g, S) = (Sum(f, S) - f[a]) + g[a]
<1>1. Sum(f, S) = f[a] + Sum(f, S \ {a})
  BY SumSplit
<1>2. \A x \in S : g[x] \in Int
  OBVIOUS
<1>3. Sum(g, S) = g[a] + Sum(g, S \ {a})
  BY <1>2, SumSplit
<1>4. IsFiniteSet(S \ {a})
  BY FS_Subset
<1>5. Sum(g, S \ {a}) = Sum(f, S \ {a})
  BY <1>4, SumAgree
<1>6. Sum(f, S \ {a}) \in Int
  BY <1>4, SumType
<1> QED
  BY <1>1, <1>3, <1>5, <1>6

\* A sum of zeros is zero.
LEMMA SumOfZeros ==
  ASSUME NEW S, IsFiniteSet(S), NEW f, \A x \in S : f[x] = 0
  PROVE  Sum(f, S) = 0
<1> DEFINE C == {T \in SUBSET S : Sum(f, T) # 0}
<1> SUFFICES ASSUME C # {}
             PROVE  FALSE
  OBVIOUS
<1>1. PICK T \in C : \A U \in C : U \subseteq T => U = T
  <2>1. C \in SUBSET SUBSET S
    OBVIOUS
  <2> HIDE DEF C
  <2> QED
    BY <2>1, MinimalSubset
<1>2. T \in SUBSET S /\ IsFiniteSet(T) /\ Sum(f, T) # 0
  BY FS_Subset
<1>3. T # {}
  BY <1>2, SumStep
<1>4. Pick(T) \in T /\ f[Pick(T)] = 0
  BY <1>2, <1>3, PickIn
<1>5. Sum(f, T \ {Pick(T)}) = 0
  BY <1>1, <1>2, <1>4
<1> QED
  BY <1>2, <1>3, <1>4, <1>5, SumStep

\* No subset of numbers sums to more than all of them.
LEMMA SumOfPart ==
  ASSUME NEW S, IsFiniteSet(S), NEW f, \A x \in S : f[x] \in Nat,
         NEW T \in SUBSET S
  PROVE  Sum(f, T) <= Sum(f, S)
<1> DEFINE C == {U \in SUBSET S : T \subseteq U /\ ~ (Sum(f, T) <= Sum(f, U))}
<1> SUFFICES ASSUME C # {}
             PROVE  FALSE
  OBVIOUS
<1>1. PICK U \in C : \A V \in C : V \subseteq U => V = U
  <2>1. C \in SUBSET SUBSET S
    OBVIOUS
  <2> HIDE DEF C
  <2> QED
    BY <2>1, MinimalSubset
<1>2. /\ U \in SUBSET S /\ T \subseteq U /\ IsFiniteSet(U) /\ IsFiniteSet(T)
      /\ ~ (Sum(f, T) <= Sum(f, U))
  BY FS_Subset
<1>3. Sum(f, T) \in Int /\ Sum(f, U) \in Int
  <2>1. \A x \in S : f[x] \in Int
    OBVIOUS
  <2>2. (\A x \in T : f[x] \in Int) /\ (\A x \in U : f[x] \in Int)
    BY <1>2, <2>1
  <2> QED
    BY <1>2, <2>2, SumType
<1>4. PICK y \in U : y \notin T
  BY <1>2, <1>3
<1>5. Sum(f, U) = f[y] + Sum(f, U \ {y})
  <2>1. \A x \in U : f[x] \in Int
    BY <1>2
  <2> QED
    BY <1>2, <2>1, SumSplit
<1>6. Sum(f, T) <= Sum(f, U \ {y})
  <2>1. U \ {y} \in SUBSET S /\ T \subseteq U \ {y} /\ U \ {y} # U
    BY <1>2, <1>4
  <2> QED
    BY <1>1, <2>1
<1>7. Sum(f, U \ {y}) \in Int
  <2>1. IsFiniteSet(U \ {y}) /\ \A x \in U \ {y} : f[x] \in Int
    BY <1>2, FS_Subset
  <2> QED
    BY <2>1, SumType
<1>8. f[y] \in Nat
  BY <1>2
<1> QED
  BY <1>2, <1>3, <1>5, <1>6, <1>7, <1>8

\* If a part sums to as much as the whole, the rest is nothing.
LEMMA SumOfRest ==
  ASSUME NEW S, IsFiniteSet(S), NEW f, \A x \in S : f[x] \in Nat,
         NEW T \in SUBSET S, Sum(f, T) = Sum(f, S), NEW y \in S \ T
  PROVE  f[y] = 0
<1>1. \A x \in S : f[x] \in Int
  OBVIOUS
<1>2. Sum(f, S) = f[y] + Sum(f, S \ {y})
  BY <1>1, SumSplit
<1>3. IsFiniteSet(S \ {y}) /\ \A x \in S \ {y} : f[x] \in Int
  BY <1>1, FS_Subset
<1>4. Sum(f, S \ {y}) \in Int
  BY <1>3, SumType
<1>5. Sum(f, T) <= Sum(f, S \ {y})
  <2>1. (\A x \in S \ {y} : f[x] \in Nat) /\ T \in SUBSET (S \ {y})
    OBVIOUS
  <2> QED
    BY <1>3, <2>1, SumOfPart
<1> QED
  BY <1>2, <1>4, <1>5

\* Terms that are zero may be left out.
LEMMA SumOfSupport ==
  ASSUME NEW S, IsFiniteSet(S), NEW f, \A x \in S : f[x] \in Int,
         NEW T \in SUBSET S, \A x \in S \ T : f[x] = 0
  PROVE  Sum(f, S) = Sum(f, T)
<1> DEFINE C == {U \in SUBSET S : T \subseteq U /\ Sum(f, U) # Sum(f, T)}
<1> SUFFICES ASSUME C # {}
             PROVE  FALSE
  OBVIOUS
<1>1. PICK U \in C : \A V \in C : V \subseteq U => V = U
  <2>1. C \in SUBSET SUBSET S
    OBVIOUS
  <2> HIDE DEF C
  <2> QED
    BY <2>1, MinimalSubset
<1>2. /\ U \in SUBSET S /\ T \subseteq U /\ IsFiniteSet(U)
      /\ Sum(f, U) # Sum(f, T)
  BY FS_Subset
<1>3. PICK y \in U : y \notin T
  BY <1>2
<1>4. \A x \in U : f[x] \in Int
  BY <1>2
<1>5. Sum(f, U) = f[y] + Sum(f, U \ {y})
  BY <1>2, <1>4, SumSplit
<1>6. Sum(f, U \ {y}) = Sum(f, T)
  <2>1. U \ {y} \in SUBSET S /\ T \subseteq U \ {y} /\ U \ {y} # U
    BY <1>2, <1>3
  <2> QED
    BY <1>1, <2>1
<1>7. f[y] = 0
  BY <1>2, <1>3
<1>8. Sum(f, U \ {y}) \in Int
  <2>1. IsFiniteSet(U \ {y}) /\ \A x \in U \ {y} : f[x] \in Int
    BY <1>2, <1>4, FS_Subset
  <2> QED
    BY <2>1, SumType
<1> QED
  BY <1>2, <1>5, <1>6, <1>7, <1>8

\* The sum of sums, term by term.
LEMMA SumOfSums ==
  ASSUME NEW S, IsFiniteSet(S), NEW f, NEW g, NEW h,
         \A x \in S : f[x] \in Int /\ g[x] \in Int /\ h[x] = f[x] + g[x]
  PROVE  Sum(h, S) = Sum(f, S) + Sum(g, S)
<1> DEFINE C == {T \in SUBSET S : Sum(h, T) # Sum(f, T) + Sum(g, T)}
<1> SUFFICES ASSUME C # {}
             PROVE  FALSE
  OBVIOUS
<1>1. PICK T \in C : \A U \in C : U \subseteq T => U = T
  <2>1. C \in SUBSET SUBSET S
    OBVIOUS
  <2> HIDE DEF C
  <2> QED
    BY <2>1, MinimalSubset
<1>2. /\ T \in SUBSET S /\ IsFiniteSet(T)
      /\ Sum(h, T) # Sum(f, T) + Sum(g, T)
  BY FS_Subset
<1>3. T # {}
  <2>1. Sum(h, {}) = 0 /\ Sum(f, {}) = 0 /\ Sum(g, {}) = 0
    BY FS_EmptySet, SumStep
  <2>2. Sum(h, {}) = Sum(f, {}) + Sum(g, {})
    BY <2>1
  <2> QED
    BY <1>2, <2>2
<1> DEFINE p == Pick(T)
           u == T \ {p}
<1>4. p \in T /\ f[p] \in Int /\ g[p] \in Int /\ h[p] = f[p] + g[p]
  BY <1>2, <1>3, PickIn
<1>5. /\ Sum(h, T) = h[p] + Sum(h, u) /\ Sum(f, T) = f[p] + Sum(f, u)
      /\ Sum(g, T) = g[p] + Sum(g, u)
  BY <1>2, <1>3, SumStep
<1>6. Sum(h, u) = Sum(f, u) + Sum(g, u)
  BY <1>1, <1>2, <1>4
<1>7. Sum(f, u) \in Int /\ Sum(g, u) \in Int
  <2>1. IsFiniteSet(u) /\ \A x \in u : f[x] \in Int /\ g[x] \in Int
    BY <1>2, FS_Subset
  <2> HIDE DEF u
  <2> QED
    BY <2>1, SumType
<1> HIDE DEF p, u
<1> QED
  BY <1>2, <1>4, <1>5, <1>6, <1>7

\* Terms each within a share of a whole sum to within the sum of the shares.
LEMMA SumOfShares ==
  ASSUME NEW S, IsFiniteSet(S), NEW f, NEW g, NEW a \in Nat, NEW d \in Nat,
         \A x \in S : /\ f[x] \in Nat /\ g[x] \in Nat
                      /\ g[x] * d <= a * f[x]
  PROVE  Sum(g, S) * d <= a * Sum(f, S)
<1> DEFINE C == {T \in SUBSET S : ~ (Sum(g, T) * d <= a * Sum(f, T))}
<1> SUFFICES ASSUME C # {}
             PROVE  FALSE
  OBVIOUS
<1>1. PICK T \in C : \A U \in C : U \subseteq T => U = T
  <2>1. C \in SUBSET SUBSET S
    OBVIOUS
  <2> HIDE DEF C
  <2> QED
    BY <2>1, MinimalSubset
<1>2. /\ T \in SUBSET S /\ IsFiniteSet(T)
      /\ ~ (Sum(g, T) * d <= a * Sum(f, T))
  BY FS_Subset
<1>3. T # {}
  <2>1. 0 * d <= a * 0
    OBVIOUS
  <2> QED
    BY <1>2, <2>1, SumStep
<1> DEFINE p == Pick(T)
           u == T \ {p}
<1>4. p \in T /\ f[p] \in Nat /\ g[p] \in Nat /\ g[p] * d <= a * f[p]
  BY <1>2, <1>3, PickIn
<1>5. Sum(f, T) = f[p] + Sum(f, u) /\ Sum(g, T) = g[p] + Sum(g, u)
  BY <1>2, <1>3, SumStep
<1>6. Sum(g, u) * d <= a * Sum(f, u)
  BY <1>1, <1>2, <1>4
<1>7. Sum(f, u) \in Int /\ Sum(g, u) \in Int
  <2>1. IsFiniteSet(u) /\ \A x \in u : f[x] \in Int /\ g[x] \in Int
    BY <1>2, FS_Subset
  <2> HIDE DEF u
  <2> QED
    BY <2>1, SumType
<1>8. \A i, j, k \in Int : (i + j) * k = i * k + j * k /\ k * (i + j) = k * i + k * j
  OBVIOUS
<1> HIDE DEF p, u
<1>9. /\ Sum(g, T) * d = g[p] * d + Sum(g, u) * d
      /\ a * Sum(f, T) = a * f[p] + a * Sum(f, u)
  BY <1>4, <1>5, <1>7, <1>8
<1>10. /\ g[p] * d \in Int /\ Sum(g, u) * d \in Int
       /\ a * f[p] \in Int /\ a * Sum(f, u) \in Int
  BY <1>4, <1>7
<1>11. \A i, j, k, l \in Int : i <= j /\ k <= l => i + k <= j + l
  OBVIOUS
<1> QED
  BY <1>2, <1>4, <1>6, <1>9, <1>10, <1>11

Image(m, S) == {m[x] : x \in S}

\* A sum over names is the sum over what they name, if no two name the same.
LEMMA SumOverImage ==
  ASSUME NEW S, IsFiniteSet(S), NEW m, NEW f, NEW g,
         \A x \in S : f[x] \in Int /\ f[x] = g[m[x]],
         \A x, y \in S : m[x] = m[y] => x = y
  PROVE  Sum(f, S) = Sum(g, Image(m, S))
<1> DEFINE C == {T \in SUBSET S : Sum(f, T) # Sum(g, Image(m, T))}
<1> SUFFICES ASSUME C # {}
             PROVE  FALSE
  OBVIOUS
<1>1. PICK T \in C : \A U \in C : U \subseteq T => U = T
  <2>1. C \in SUBSET SUBSET S
    OBVIOUS
  <2> HIDE DEF C
  <2> QED
    BY <2>1, MinimalSubset
<1>2. /\ T \in SUBSET S /\ IsFiniteSet(T)
      /\ Sum(f, T) # Sum(g, Image(m, T))
  BY FS_Subset
<1>3. T # {}
  <2>1. Image(m, {}) = {}
    BY DEF Image
  <2>2. Sum(f, {}) = 0 /\ Sum(g, {}) = 0
    BY FS_EmptySet, SumStep
  <2> QED
    BY <1>2, <2>1, <2>2
<1> DEFINE p == Pick(T)
           u == T \ {p}
<1>4. p \in T /\ f[p] = g[m[p]]
  BY <1>2, <1>3, PickIn
<1>5. Sum(f, T) = f[p] + Sum(f, u)
  BY <1>2, <1>3, SumStep
<1>6. Sum(f, u) = Sum(g, Image(m, u))
  BY <1>1, <1>2, <1>4
<1>7. IsFiniteSet(Image(m, T))
  <2> DEFINE n == [x \in T |-> m[x]]
  <2>1. n \in Surjection(T, Image(m, T))
    BY DEF Surjection, Image
  <2> HIDE DEF n
  <2> QED
    BY <1>2, <2>1, FS_Surjection
<1>8. m[p] \in Image(m, T) /\ Image(m, u) = Image(m, T) \ {m[p]}
  <2>1. \A x \in u : m[x] # m[p]
    BY <1>2, <1>4
  <2> QED
    BY <1>4, <2>1 DEF Image
<1>9. \A t \in Image(m, T) : g[t] \in Int
  BY <1>2 DEF Image
<1>10. Sum(g, Image(m, T)) = g[m[p]] + Sum(g, Image(m, u))
  <2>1. Sum(g, Image(m, T)) = g[m[p]] + Sum(g, Image(m, T) \ {m[p]})
    <3> DEFINE I == Image(m, T)
               q == m[p]
    <3>1. IsFiniteSet(I) /\ q \in I /\ \A t \in I : g[t] \in Int
      BY <1>7, <1>8, <1>9
    <3> HIDE DEF I, q
    <3>2. Sum(g, I) = g[q] + Sum(g, I \ {q})
      BY <3>1, SumSplit
    <3> QED
      BY <3>2 DEF I, q
  <2> QED
    BY <1>8, <2>1
<1> QED
  BY <1>2, <1>4, <1>5, <1>6, <1>10

\* Smaller terms, smaller sum.
LEMMA SumMonotone ==
  ASSUME NEW S, IsFiniteSet(S), NEW f, NEW g,
         \A x \in S : f[x] \in Int /\ g[x] \in Int /\ f[x] <= g[x]
  PROVE  Sum(f, S) <= Sum(g, S)
<1> DEFINE d == [x \in S |-> g[x] - f[x]]
<1>1. \A x \in S : d[x] \in Int /\ d[x] >= 0 /\ g[x] = f[x] + d[x]
  OBVIOUS
<1> HIDE DEF d
<1>2. Sum(g, S) = Sum(f, S) + Sum(d, S)
  BY <1>1, SumOfSums
<1>3. Sum(d, S) \in Int /\ Sum(d, S) >= 0
  BY <1>1, SumType
<1>4. Sum(f, S) \in Int
  BY SumType
<1> QED
  BY <1>2, <1>3, <1>4

\* The sum over a part, as a sum over the whole.
LEMMA SumRestricted ==
  ASSUME NEW S, IsFiniteSet(S), NEW f, \A x \in S : f[x] \in Int,
         NEW T \in SUBSET S
  PROVE  Sum(f, T) = Sum([x \in S |-> IF x \in T THEN f[x] ELSE 0], S)
<1> DEFINE g == [x \in S |-> IF x \in T THEN f[x] ELSE 0]
<1>1. /\ \A x \in S : g[x] \in Int
      /\ \A x \in S \ T : g[x] = 0
      /\ \A x \in T : f[x] = g[x]
  OBVIOUS
<1>2. IsFiniteSet(T)
  BY FS_Subset
<1> HIDE DEF g
<1>3. Sum(g, S) = Sum(g, T)
  BY <1>1, SumOfSupport
<1>4. Sum(f, T) = Sum(g, T)
  BY <1>1, <1>2, SumAgree
<1> QED
  BY <1>3, <1>4 DEF g

\* What two parts cover adds up to no more than the two.
LEMMA SumCovered ==
  ASSUME NEW S, IsFiniteSet(S), NEW f, \A x \in S : f[x] \in Nat,
         NEW T \in SUBSET S, NEW U \in SUBSET S, NEW V \in SUBSET S,
         T \subseteq U \cup V
  PROVE  Sum(f, T) <= Sum(f, U) + Sum(f, V)
<1> DEFINE only(W) == [x \in S |-> IF x \in W THEN f[x] ELSE 0]
           t == only(T)
           u == only(U)
           v == only(V)
           b == [x \in S |-> u[x] + v[x]]
<1>1. Sum(f, T) = Sum(t, S) /\ Sum(f, U) = Sum(u, S) /\ Sum(f, V) = Sum(v, S)
  <2>1. \A x \in S : f[x] \in Int
    OBVIOUS
  <2> QED
    BY <2>1, SumRestricted
<1>2. /\ \A x \in S : u[x] \in Int /\ v[x] \in Int /\ b[x] = u[x] + v[x]
      /\ \A x \in S : t[x] \in Int /\ b[x] \in Int /\ t[x] <= b[x]
  OBVIOUS
<1> HIDE DEF t, u, v, b
<1>3. Sum(b, S) = Sum(u, S) + Sum(v, S)
  BY <1>2, SumOfSums
<1>4. Sum(t, S) <= Sum(b, S)
  BY <1>2, SumMonotone
<1> QED
  BY <1>1, <1>3, <1>4

\* A finite set of numbers that is not empty has a greatest one.
LEMMA GreatestExists ==
  ASSUME NEW S, IsFiniteSet(S), S # {}, \A x \in S : x \in Int
  PROVE  \E l \in S : \A m \in S : m <= l
<1> DEFINE above(l) == {m \in S : m > l}
           C == {above(l) : l \in S}
<1>1. PICK T \in C : \A U \in C : U \subseteq T => U = T
  <2>1. C \in SUBSET SUBSET S
    OBVIOUS
  <2>2. C # {}
    OBVIOUS
  <2> HIDE DEF C
  <2> QED
    BY <2>1, <2>2, MinimalSubset
<1>2. PICK l \in S : T = above(l)
  BY <1>1
<1>3. ASSUME NEW m \in S, m > l
      PROVE  FALSE
  <2>1. above(m) \in C
    OBVIOUS
  <2>3. above(m) \subseteq T
    BY <1>2, <1>3
  <2>2. m \in T /\ m \notin above(m)
    BY <1>2, <1>3
  <2> QED
    BY <1>1, <2>1, <2>2, <2>3
<1>4. \A m \in S : m <= l
  BY <1>3
<1> QED
  BY <1>4

\* So many terms of at most so much each.
LEMMA SumAtMost ==
  ASSUME NEW S, IsFiniteSet(S), NEW k \in Nat, NEW f,
         \A x \in S : f[x] \in Int /\ f[x] <= k
  PROVE  Sum(f, S) <= Cardinality(S) * k
<1> DEFINE C == {T \in SUBSET S : Sum(f, T) > Cardinality(T) * k}
<1> SUFFICES ASSUME C # {}
             PROVE  FALSE
  <2>1. Sum(f, S) \in Int
    BY SumType
  <2>2. Cardinality(S) \in Nat
    BY FS_CardinalityType
  <2>3. Cardinality(S) * k \in Int
    BY <2>2
  <2> QED
    BY <2>1, <2>3
<1>1. PICK T \in C : \A U \in C : U \subseteq T => U = T
  <2>1. C \in SUBSET SUBSET S
    OBVIOUS
  <2> HIDE DEF C
  <2> QED
    BY <2>1, MinimalSubset
<1>2. T \in SUBSET S /\ IsFiniteSet(T) /\ Sum(f, T) > Cardinality(T) * k
  BY FS_Subset
<1>3. T # {}
  <2>1. ASSUME T = {}
        PROVE  Sum(f, T) = 0 /\ Cardinality(T) = 0
    BY <1>2, <2>1, SumStep, FS_EmptySet
  <2> QED
    BY <1>2, <2>1
<1> DEFINE p == Pick(T)
           R == T \ {p}
<1>4. p \in T /\ f[p] \in Int /\ f[p] <= k
  BY <1>2, <1>3, PickIn
<1>5. /\ IsFiniteSet(R) /\ R \in SUBSET S
      /\ Cardinality(R) = Cardinality(T) - 1
      /\ Cardinality(T) \in Nat /\ Cardinality(R) \in Nat
  BY <1>2, <1>4, FS_RemoveElement, FS_CardinalityType
<1>6. Sum(f, R) \in Int
  BY <1>5, SumType
<1>7. Sum(f, R) <= Cardinality(R) * k
  <2>1. R \notin C
    BY <1>1, <1>4
  <2>2. Cardinality(R) * k \in Int
    BY <1>5
  <2> HIDE DEF R
  <2> QED
    BY <1>5, <1>6, <2>1, <2>2
<1>8. Sum(f, T) = f[p] + Sum(f, R)
  BY <1>2, <1>3, SumStep
<1> HIDE DEF p, R
<1>9. Cardinality(T) * k = Cardinality(R) * k + k
  <2>1. Cardinality(T) = Cardinality(R) + 1
    BY <1>5
  <2> QED
    BY <1>5, <2>1
<1>10. Cardinality(R) * k \in Int /\ Cardinality(T) * k \in Int
  BY <1>5
<1> QED
  BY <1>2, <1>4, <1>6, <1>7, <1>8, <1>9, <1>10
===============================================================================
