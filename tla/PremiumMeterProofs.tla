------------------------ MODULE PremiumMeterProofs ------------------------
(***************************************************************************)
(* What PremiumMeter promises for every number of requests, every tier,    *)
(* allowance, price, cap and number of faults: the state is well typed,    *)
(* settlements hand out exactly the overage of the period, Stripe never    *)
(* holds a charge the ledger does not, the spend overshoots its cap by no  *)
(* more than one query for each request in flight, and the books balance.  *)
(* The requests are finitely many (DispatchesAssumption), for the sums.    *)
(***************************************************************************)
EXTENDS PremiumMeter, FiniteSetTheorems, WellFoundedInduction, NaturalsInduction, TLAPS

(***************************************************************************)
(* Sums over a finite set.  SumFunctionOnSet folds in an order nobody       *)
(* chose; here is why the order does not matter.                            *)
(***************************************************************************)

\* Induction over the subsets of a finite set, with a set for the claim.
LEMMA SubsetInduction ==
  ASSUME NEW S, IsFiniteSet(S), NEW G,
         \A s \in SUBSET S : (\A t \in SUBSET s : t # s => t \in G) => s \in G
  PROVE  \A s \in SUBSET S : s \in G
<1> DEFINE Bad == {s \in SUBSET S : s \notin G}
           R == StrictSubsetOrdering(S)
<1>1. \A s \in SUBSET S : IsFiniteSet(s) BY FS_Subset
<1>2. Bad \subseteq FiniteSubsetsOf(S) BY <1>1 DEF FiniteSubsetsOf
<1>3. IsWellFoundedOn(R, FiniteSubsetsOf(S)) BY FS_StrictSubsetOrderingWellFounded
<1>4. \A s, t \in SUBSET S : <<t, s>> \in R <=> t \subseteq s /\ t # s
  BY DEF StrictSubsetOrdering
<1>b. \A s \in SUBSET S : s \in Bad <=> s \notin G OBVIOUS
<1>c. Bad \subseteq SUBSET S OBVIOUS
<1> HIDE DEF Bad, R
<1>5. SUFFICES ASSUME Bad # {} PROVE FALSE BY <1>b, <1>c
<1>6. PICK s \in Bad : \A t \in Bad : ~(<<t, s>> \in R)
  <2> DEFINE All == FiniteSubsetsOf(S)
  <2>1. IsWellFoundedOn(R, All) /\ Bad \subseteq All BY <1>2, <1>3
  <2> HIDE DEF All
  <2> QED BY <2>1, <1>5, WFMin
<1>7. ASSUME NEW t \in SUBSET s, t # s PROVE t \in G
  <2>1. s \in SUBSET S /\ t \in SUBSET S BY <1>6, <1>c
  <2>2. <<t, s>> \in R BY <2>1, <1>4, <1>7
  <2> QED BY <2>1, <2>2, <1>6, <1>b
<1> QED BY <1>6, <1>7, <1>b, <1>c

Pick(s) == CHOOSE x \in s : TRUE
\* g is the fold of f over the subsets of S.
Folded(g, f, S) ==
  \A s \in SUBSET S : g[s] = IF s = {} THEN 0 ELSE f[Pick(s)] + g[s \ {Pick(s)}]

LEMMA PickIn == ASSUME NEW s, s # {} PROVE Pick(s) \in s
  BY DEF Pick

Fold(g, f, S) ==
  g = [s \in SUBSET S |-> IF s = {} THEN 0 ELSE f[Pick(s)] + g[s \ {Pick(s)}]]

\* There is one up to each size, hence for the whole.
LEMMA FoldExists ==
  ASSUME NEW S, IsFiniteSet(S), NEW f
  PROVE  \E g : Fold(g, f, S)
<1> DEFINE Upto(g, n) == \A s \in SUBSET S : Cardinality(s) <= n =>
                            g[s] = IF s = {} THEN 0 ELSE f[Pick(s)] + g[s \ {Pick(s)}]
           Bad == {n \in Nat : ~ \E g : Upto(g, n)}
           R == OpToRel(<, Nat)
<1>f. \A s \in SUBSET S : IsFiniteSet(s) /\ Cardinality(s) \in Nat BY FS_Subset, FS_CardinalityType
<1>e. \A s \in SUBSET S : Cardinality(s) = 0 <=> s = {} BY <1>f, FS_EmptySet
<1>r. ASSUME NEW s \in SUBSET S, s # {}
      PROVE  s \ {Pick(s)} \in SUBSET S /\ Cardinality(s \ {Pick(s)}) = Cardinality(s) - 1
  BY <1>f, <1>r, PickIn, FS_RemoveElement
<1>1. Bad = {}
  <2>1. SUFFICES ASSUME Bad # {} PROVE FALSE OBVIOUS
  <2>2. \A j, k \in Nat : <<j, k>> \in R <=> j < k BY DEF OpToRel
  <2>3. IsWellFoundedOn(R, Nat) BY NatLessThanWellFounded
  <2>4. Bad \subseteq Nat OBVIOUS
  <2> HIDE DEF R
  <2>5. PICK m \in Bad : \A k \in Bad : ~(<<k, m>> \in R)
    <3> HIDE DEF Bad
    <3> QED BY <2>1, <2>3, <2>4, WFMin
  <2>6. m \in Nat /\ ~ \E g : Upto(g, m) OBVIOUS
  <2>7. CASE m = 0
    <3> DEFINE g == [s \in SUBSET S |-> 0]
    <3>1. Upto(g, m) BY <1>e, <1>f, <2>7
    <3> QED BY <2>6, <3>1
  <2>8. CASE m # 0
    <3>1. m - 1 \in Nat /\ m - 1 < m BY <2>6, <2>8
    <3>2. m - 1 \notin Bad BY <2>2, <2>5, <2>6, <3>1
    <3>3. PICK h : Upto(h, m - 1) BY <3>1, <3>2
    <3> DEFINE g == [s \in SUBSET S |-> IF Cardinality(s) < m THEN h[s] ELSE f[Pick(s)] + h[s \ {Pick(s)}]]
    <3>4. ASSUME NEW s \in SUBSET S, Cardinality(s) <= m
          PROVE  g[s] = IF s = {} THEN 0 ELSE f[Pick(s)] + g[s \ {Pick(s)}]
      <4>1. CASE s = {}
        <5>1. Cardinality(s) = 0 BY <1>e, <4>1
        <5>2. g[s] = h[s] BY <2>6, <2>8, <5>1
        <5>3. h[s] = 0 BY <3>1, <3>3, <4>1, <5>1
        <5> QED BY <4>1, <5>2, <5>3
      <4>2. CASE s # {}
        <5> DEFINE t == s \ {Pick(s)}
        <5>1. t \in SUBSET S /\ Cardinality(t) = Cardinality(s) - 1 BY <1>r, <4>2
        <5>2. Cardinality(s) \in Nat BY <1>f
        <5>3. Cardinality(t) < m BY <2>6, <3>4, <5>1, <5>2
        <5>4. g[t] = h[t] BY <5>1, <5>3
        <5>5. CASE Cardinality(s) < m
          <6>1. g[s] = h[s] BY <5>5
          <6>2. Cardinality(s) <= m - 1 BY <2>6, <5>2, <5>5
          <6>3. h[s] = f[Pick(s)] + h[t] BY <3>3, <4>2, <6>2
          <6> QED BY <4>2, <5>4, <6>1, <6>3
        <5>6. CASE ~(Cardinality(s) < m)
          <6>1. g[s] = f[Pick(s)] + h[t] BY <5>6
          <6> QED BY <4>2, <5>4, <6>1
        <5> QED BY <5>5, <5>6
      <4> QED BY <4>1, <4>2
    <3>5. Upto(g, m) BY <3>4
    <3> QED BY <2>6, <3>5
  <2> QED BY <2>7, <2>8
<1>2. PICK h : Upto(h, Cardinality(S)) BY <1>1, <1>f
<1> DEFINE g == [s \in SUBSET S |-> h[s]]
<1>3. \A s \in SUBSET S : g[s] = IF s = {} THEN 0 ELSE f[Pick(s)] + g[s \ {Pick(s)}]
  <2>1. \A s \in SUBSET S : Cardinality(s) <= Cardinality(S) BY FS_Subset
  <2>2. \A s \in SUBSET S : s \ {Pick(s)} \in SUBSET S OBVIOUS
  <2> QED BY <1>2, <2>1, <2>2
<1>4. Fold(g, f, S) BY <1>3 DEF Fold
<1> HIDE DEF g
<1> QED BY <1>4

LEMMA FoldUnique ==
  ASSUME NEW S, IsFiniteSet(S), NEW f, NEW g, NEW h, Folded(g, f, S), Folded(h, f, S)
  PROVE  g[S] = h[S]
<1> DEFINE G == {s \in SUBSET S : g[s] = h[s]}
<1>1. ASSUME NEW s \in SUBSET S, \A t \in SUBSET s : t # s => t \in G PROVE s \in G
  <2>1. s # {} => s \ {Pick(s)} \in G BY <1>1, PickIn
  <2>2. s # {} => g[s \ {Pick(s)}] = h[s \ {Pick(s)}] BY <2>1
  <2> QED BY <2>2 DEF Folded
<1> HIDE DEF G
<1>2. S \in G BY <1>1, SubsetInduction
<1> QED BY <1>2 DEF G

\* The sum of f over S, as PremiumMeter takes it.
Total(f, S) == SumFunctionOnSet(f, S)

LEMMA TotalFolds ==
  ASSUME NEW S, IsFiniteSet(S), NEW f
  PROVE  \E g : Folded(g, f, S) /\ Total(f, S) = g[S]
<1>1. Total(f, S) = (CHOOSE g : Fold(g, f, S))[S]
  BY DEF Total, SumFunctionOnSet, FoldFunctionOnSet, MapThenFoldSet, Pick, Fold
<1>2. \E g : Fold(g, f, S) BY FoldExists
<1> DEFINE g == CHOOSE h : Fold(h, f, S)
<1>3. Fold(g, f, S) BY <1>2, Zenon
<1>4. Folded(g, f, S)
  <2> HIDE DEF g
  <2> QED BY <1>3 DEF Fold, Folded
<1> QED BY <1>1, <1>4

\* The sum over nothing, and over something.
LEMMA TotalPicks ==
  ASSUME NEW S, IsFiniteSet(S), NEW f
  PROVE  /\ S = {} => Total(f, S) = 0
         /\ S # {} => Pick(S) \in S /\ Total(f, S) = f[Pick(S)] + Total(f, S \ {Pick(S)})
<1>1. PICK g : Folded(g, f, S) /\ Total(f, S) = g[S] BY TotalFolds
<1>2. S = {} => Total(f, S) = 0 BY <1>1 DEF Folded
<1>3. ASSUME S # {} PROVE Pick(S) \in S /\ Total(f, S) = f[Pick(S)] + Total(f, S \ {Pick(S)})
  <2> DEFINE T == S \ {Pick(S)}
  <2>1. IsFiniteSet(T) BY FS_RemoveElement
  <2>2. PICK h : Folded(h, f, T) /\ Total(f, T) = h[T]
    <3> HIDE DEF T
    <3> QED BY <2>1, TotalFolds
  <2>3. Folded(g, f, T) BY <1>1 DEF Folded
  <2>4. g[T] = h[T]
    <3> HIDE DEF T
    <3> QED BY <2>1, <2>2, <2>3, FoldUnique
  <2>5. g[S] = f[Pick(S)] + g[T] BY <1>1, <1>3 DEF Folded
  <2> QED BY <1>1, <1>3, <2>2, <2>4, <2>5, PickIn
<1> QED BY <1>2, <1>3

LEMMA TotalNat ==
  ASSUME NEW S, IsFiniteSet(S), NEW f, \A x \in S : f[x] \in Nat
  PROVE  Total(f, S) \in Nat
<1> DEFINE G == {s \in SUBSET S : Total(f, s) \in Nat}
<1>1. ASSUME NEW s \in SUBSET S, \A t \in SUBSET s : t # s => t \in G PROVE s \in G
  <2>1. IsFiniteSet(s) BY FS_Subset
  <2>2. CASE s = {}
    <3>1. Total(f, s) = 0 BY <2>1, <2>2, TotalPicks
    <3> QED BY <3>1
  <2>3. CASE s # {}
    <3>1. Pick(s) \in s /\ Total(f, s) = f[Pick(s)] + Total(f, s \ {Pick(s)}) BY <2>1, <2>3, TotalPicks
    <3>2. s \ {Pick(s)} \in G BY <1>1, <3>1
    <3>3. f[Pick(s)] \in Nat /\ Total(f, s \ {Pick(s)}) \in Nat BY <3>1, <3>2
    <3>4. Total(f, s) \in Nat BY <3>1, <3>3
    <3> QED BY <3>4
  <2> QED BY <2>2, <2>3
<1> HIDE DEF G
<1>2. S \in G BY <1>1, SubsetInduction
<1> QED BY <1>2 DEF G

\* It does not matter which one is taken out.
LEMMA TotalTakes ==
  ASSUME NEW S, IsFiniteSet(S), NEW f, \A x \in S : f[x] \in Nat, NEW x \in S
  PROVE  Total(f, S) = f[x] + Total(f, S \ {x})
<1> DEFINE G == {s \in SUBSET S : \A y \in s : Total(f, s) = f[y] + Total(f, s \ {y})}
<1>n. \A s \in SUBSET S : IsFiniteSet(s) /\ Total(f, s) \in Nat
  <2>1. ASSUME NEW s \in SUBSET S PROVE IsFiniteSet(s) /\ Total(f, s) \in Nat
    <3>1. IsFiniteSet(s) BY FS_Subset
    <3> QED BY <3>1, TotalNat
  <2> QED BY <2>1
<1>1. ASSUME NEW s \in SUBSET S, \A t \in SUBSET s : t # s => t \in G PROVE s \in G
  <2> SUFFICES ASSUME NEW y \in s PROVE Total(f, s) = f[y] + Total(f, s \ {y}) OBVIOUS
  <2> DEFINE p == Pick(s)
  <2>1. p \in s /\ Total(f, s) = f[p] + Total(f, s \ {p}) BY <1>n, TotalPicks
  <2> HIDE DEF p
  <2>2. CASE p # y
    <3>1. s \ {p} \in G /\ s \ {y} \in G BY <1>1, <2>1
    <3>2. Total(f, s \ {p}) = f[y] + Total(f, (s \ {p}) \ {y}) BY <2>2, <3>1
    <3>3. Total(f, s \ {y}) = f[p] + Total(f, (s \ {y}) \ {p}) BY <2>1, <2>2, <3>1
    <3>4. (s \ {p}) \ {y} = (s \ {y}) \ {p} OBVIOUS
    <3>5. /\ f[p] \in Nat /\ f[y] \in Nat /\ Total(f, (s \ {y}) \ {p}) \in Nat
      BY <1>n, <2>1
    <3> QED BY <2>1, <3>2, <3>3, <3>4, <3>5
  <2> QED BY <2>1, <2>2
<1> HIDE DEF G
<1>2. S \in G BY <1>1, SubsetInduction
<1> QED BY <1>2 DEF G

LEMMA TotalAdds ==
  ASSUME NEW S, IsFiniteSet(S), NEW f, NEW x, x \notin S, f[x] \in Nat, \A y \in S : f[y] \in Nat
  PROVE  IsFiniteSet(S \cup {x}) /\ Total(f, S \cup {x}) = f[x] + Total(f, S)
<1>1. IsFiniteSet(S \cup {x}) BY FS_AddElement
<1>2. (S \cup {x}) \ {x} = S OBVIOUS
<1>3. Total(f, S \cup {x}) = f[x] + Total(f, (S \cup {x}) \ {x})
  <2> DEFINE T == S \cup {x}
  <2>1. x \in T /\ \A y \in T : f[y] \in Nat OBVIOUS
  <2>2. IsFiniteSet(T) BY <1>1
  <2> HIDE DEF T
  <2>3. Total(f, T) = f[x] + Total(f, T \ {x}) BY <2>1, <2>2, TotalTakes
  <2> QED BY <2>3 DEF T
<1> QED BY <1>1, <1>2, <1>3

LEMMA TotalSame ==
  ASSUME NEW S, IsFiniteSet(S), NEW f, NEW g, \A x \in S : f[x] = g[x]
  PROVE  Total(f, S) = Total(g, S)
<1> DEFINE G == {s \in SUBSET S : Total(f, s) = Total(g, s)}
<1>1. ASSUME NEW s \in SUBSET S, \A t \in SUBSET s : t # s => t \in G PROVE s \in G
  <2>1. IsFiniteSet(s) BY FS_Subset
  <2>2. CASE s = {} BY <2>1, <2>2, TotalPicks
  <2>3. CASE s # {}
    <3>1. /\ Pick(s) \in s
          /\ Total(f, s) = f[Pick(s)] + Total(f, s \ {Pick(s)})
          /\ Total(g, s) = g[Pick(s)] + Total(g, s \ {Pick(s)})
      BY <2>1, <2>3, TotalPicks
    <3>2. s \ {Pick(s)} \in G BY <1>1, <3>1
    <3>3. Total(f, s \ {Pick(s)}) = Total(g, s \ {Pick(s)}) BY <3>2
    <3>4. Total(f, s) = Total(g, s) BY <3>1, <3>3
    <3> QED BY <3>4
  <2> QED BY <2>2, <2>3
<1> HIDE DEF G
<1>2. S \in G BY <1>1, SubsetInduction
<1> QED BY <1>2 DEF G

\* Only what is not zero counts.
LEMMA TotalSkips ==
  ASSUME NEW S, IsFiniteSet(S), NEW T \in SUBSET S, NEW f, \A x \in S : f[x] \in Nat,
         \A x \in S \ T : f[x] = 0
  PROVE  Total(f, S) = Total(f, T)
<1> DEFINE G == {s \in SUBSET S : Total(f, s) = Total(f, s \cap T)}
<1>n. \A s \in SUBSET S : IsFiniteSet(s) /\ Total(f, s) \in Nat
  <2>1. ASSUME NEW s \in SUBSET S PROVE IsFiniteSet(s) /\ Total(f, s) \in Nat
    <3>1. IsFiniteSet(s) BY FS_Subset
    <3> QED BY <3>1, TotalNat
  <2> QED BY <2>1
<1>1. ASSUME NEW s \in SUBSET S, \A t \in SUBSET s : t # s => t \in G PROVE s \in G
  <2> SUFFICES Total(f, s) = Total(f, s \cap T) OBVIOUS
  <2>1. CASE s = {}
    <3>1. s = s \cap T BY <2>1
    <3> QED BY <3>1
  <2>2. ASSUME NEW x \in s PROVE Total(f, s) = Total(f, s \cap T)
    <3> DEFINE u == s \ {x}  v == s \cap T
    <3>1. u \in G /\ u \subseteq S /\ v \subseteq S BY <1>1
    <3>2. Total(f, u) = Total(f, u \cap T) BY <3>1
    <3>3. Total(f, s) = f[x] + Total(f, u) BY <1>n, TotalTakes
    <3>4. CASE x \in T
      <4>1. u \cap T = v \ {x} /\ x \in v /\ \A y \in v : f[y] \in Nat BY <3>4
      <4>2. IsFiniteSet(v) BY <1>n, <3>1
      <4> HIDE DEF v
      <4>3. Total(f, v) = f[x] + Total(f, v \ {x}) BY <4>1, <4>2, TotalTakes
      <4>4. Total(f, s) = Total(f, v) BY <3>2, <3>3, <4>1, <4>3
      <4> QED BY <4>4 DEF v
    <3>5. CASE x \notin T
      <4>1. u \cap T = v BY <3>5
      <4>2. f[x] = 0 /\ Total(f, u) \in Nat BY <1>n, <3>1, <3>5
      <4>3. Total(f, s) = 0 + Total(f, u) BY <3>3, <4>2
      <4> HIDE DEF u
      <4>4. Total(f, s) = Total(f, u) BY <4>2, <4>3
      <4>5. Total(f, u) = Total(f, v) BY <3>2, <4>1
      <4> QED BY <4>4, <4>5
    <3> QED BY <3>4, <3>5
  <2> QED BY <2>1, <2>2
<1> HIDE DEF G
<1>2. S \in G BY <1>1, SubsetInduction
<1>3. S \cap T = T OBVIOUS
<1> QED BY <1>2, <1>3 DEF G

LEMMA TotalBound ==
  ASSUME NEW S, IsFiniteSet(S), NEW f, NEW m \in Nat, \A x \in S : f[x] \in Nat /\ f[x] <= m
  PROVE  Total(f, S) <= Cardinality(S) * m
<1> DEFINE G == {s \in SUBSET S : Total(f, s) <= Cardinality(s) * m}
<1>1. ASSUME NEW s \in SUBSET S, \A t \in SUBSET s : t # s => t \in G PROVE s \in G
  <2>1. IsFiniteSet(s) BY FS_Subset
  <2>2. CASE s = {}
    <3>1. Total(f, s) = 0 /\ Cardinality(s) = 0 BY <2>1, <2>2, TotalPicks, FS_EmptySet
    <3>2. 0 <= 0 * m OBVIOUS
    <3> QED BY <3>1, <3>2
  <2>3. CASE s # {}
    <3> DEFINE p == Pick(s)  t == s \ {p}
    <3>1. p \in s /\ Total(f, s) = f[p] + Total(f, t) BY <2>1, <2>3, TotalPicks
    <3> DEFINE a == Total(f, t)  n == Cardinality(s)
    <3>2. IsFiniteSet(t) /\ Cardinality(t) = n - 1 /\ n \in Nat
      BY <2>1, <3>1, FS_RemoveElement, FS_CardinalityType
    <3>3. t \in G BY <1>1, <3>1
    <3>4. a <= (n - 1) * m BY <3>2, <3>3
    <3>5. a \in Nat
      <4>1. \A x \in t : f[x] \in Nat OBVIOUS
      <4> HIDE DEF t
      <4> QED BY <3>2, <4>1, TotalNat
    <3>6. f[p] \in Nat /\ f[p] <= m BY <3>1
    <3>7. Total(f, s) = f[p] + a BY <3>1
    <3> HIDE DEF a, n, t, p
    <3>8. (n - 1) * m + m = n * m BY <3>2
    <3>9. (n - 1) * m \in Int /\ n * m \in Int BY <3>2
    <3>10. f[p] + a <= n * m BY <3>4, <3>5, <3>6, <3>8, <3>9
    <3>11. Total(f, s) <= Cardinality(s) * m BY <3>7, <3>10 DEF n
    <3> QED BY <3>11
  <2> QED BY <2>2, <2>3
<1> HIDE DEF G
<1>2. S \in G BY <1>1, SubsetInduction
<1> QED BY <1>2 DEF G

---------------------------------------------------------------------------

\* Max0 never goes below its argument's positive part, and stays a number.
LEMMA Max0Nat == \A n \in Int : Max0(n) \in Nat /\ (n >= 0 => Max0(n) = n)
  BY DEF Max0

\* One settlement: the slots it hands out are what the period's excess grows
\* by, whether or not the query straddles the end of the allowance.
LEMMA SettlementGrowsExcess ==
  ASSUME NEW d \in Dispatches, TypeOK
  PROVE  /\ SettledRow(d) \in PeriodRow
         /\ OpenRow(d) \in PeriodRow
         /\ SettledRow(d).total = OpenRow(d).total
         /\ SettledRow(d).spent = OpenRow(d).spent
         /\ OverageSlots(d) \in Nat
         /\ Max0(SettledRow(d).consumed - SettledRow(d).total)
              = Max0(OpenRow(d).consumed - OpenRow(d).total) + OverageSlots(d)
<1>1. /\ period[req[d].period] \in PeriodRow
      /\ Allowance[req[d].tier] \in Nat
      /\ req[d].slots \in Nat
  BY TiersAssumption DEF TypeOK, Request
<1>2. OpenRow(d) \in PeriodRow
  BY <1>1 DEF OpenRow, NoRow, PeriodRow
<1>3. /\ SettledRow(d) \in PeriodRow
      /\ SettledRow(d).total = OpenRow(d).total
      /\ SettledRow(d).spent = OpenRow(d).spent
      /\ SettledRow(d).consumed = OpenRow(d).consumed + req[d].slots
  BY <1>1, <1>2 DEF SettledRow, PeriodRow
<1>4. OverageSlots(d) \in Nat
  BY <1>1, <1>2, <1>3 DEF OverageSlots, Max0, PeriodRow
<1>5. Max0(SettledRow(d).consumed - SettledRow(d).total)
        = Max0(OpenRow(d).consumed - OpenRow(d).total) + OverageSlots(d)
  BY <1>1, <1>2, <1>3 DEF OverageSlots, Max0, PeriodRow
<1> QED BY <1>2, <1>3, <1>4, <1>5

---------------------------------------------------------------------------
\* A product of two naturals is one.
LEMMA CentsNat == ASSUME NEW d \in Dispatches, TypeOK PROVE Cents(d) \in Nat
<1>1. req[d].rate \in Nat /\ req[d].over \in Nat BY DEF TypeOK, Request
<1>2. \A a, b \in Nat : a * b \in Nat OBVIOUS
<1> QED BY <1>1, <1>2 DEF Cents

LEMMA TypeInit == Init => TypeOK
<1> SUFFICES ASSUME Init PROVE TypeOK OBVIOUS
<1>1. (CHOOSE t \in Tiers : TRUE) \in Tiers BY TiersAssumption
<1>2. 1 \in Periods BY BoundsAssumption DEF Periods
<1> QED BY <1>1, <1>2, FaultsAssumption
     DEF Init, TypeOK, PeriodRow, MeterEvent, Request, NoRow, NoEvent, Policies, Pcs

\* Every step keeps the state well typed.
LEMMA TypeStep == TypeOK /\ [Next]_vars => TypeOK'
<1> SUFFICES ASSUME TypeOK, [Next]_vars PROVE TypeOK' OBVIOUS
<1> USE DEF TypeOK, Pcs
<1>u. CASE UNCHANGED vars BY <1>u DEF vars
<1>n. ASSUME NEW d \in Dispatches, Step(d) \/ Fail(d) PROVE TypeOK'
  <2>g. \A l \in Pcs : Goto(d, l) => req' \in [Dispatches -> Request]
    <3> SUFFICES ASSUME NEW l \in Pcs, Goto(d, l) PROVE req' \in [Dispatches -> Request]
      OBVIOUS
    <3>1. [req[d] EXCEPT !.pc = l] \in Request BY DEF Request
    <3> QED BY <3>1 DEF Goto
  <2>r. req[d] \in Request OBVIOUS
  <2>1. CASE ReadCustomer(d)
    <3>1. PICK tier \in Tiers, policy \in Policies, p \in boundary..MaxPeriod :
            /\ boundary' = p
            /\ req' = [req EXCEPT ![d].pc = "allowance", ![d].tier = tier,
                                  ![d].period = p, ![d].policy = policy]
      BY <2>1 DEF ReadCustomer
    <3>2. p \in Periods BY BoundsAssumption DEF Periods
    <3>3. [req[d] EXCEPT !.pc = "allowance", !.tier = tier, !.period = p, !.policy = policy]
            \in Request
      BY <2>r, <3>2 DEF Request
    <3>4. req' \in [Dispatches -> Request] BY <3>1, <3>3
    <3>5. UNCHANGED <<period, ledger, meter, items, handedOut, faults>>
      BY <2>1 DEF ReadCustomer
    <3> QED BY <3>1, <3>2, <3>4, <3>5
  <2>2. CASE Ineligible(d) BY <2>2, <2>g DEF Ineligible
  <2>3. CASE ReadAllowance(d)
    <3>1. /\ Allowance[req[d].tier] \in Nat
          /\ period[req[d].period].consumed \in Nat
      BY <2>r, TiersAssumption DEF Request, PeriodRow
    <3>2. Remaining(d) \in Nat BY <3>1 DEF Remaining, Max0
    <3>3. [req[d] EXCEPT !.pc = "cap", !.remaining = Remaining(d)] \in Request
      BY <2>r, <3>2 DEF Request
    <3> QED BY <2>3, <3>3 DEF ReadAllowance
  <2>4. CASE DecideLane(d)
    <3>0. req[d].remaining \in Nat BY <2>r DEF Request
    <3>1. LaneReason(d) \in {"allowance", "meter", "cap", "fallback"}
      <4>1. CASE CapExceeded(d) BY <4>1 DEF LaneReason
      <4>2. CASE ~CapExceeded(d) /\ req[d].remaining > 0 BY <4>2 DEF LaneReason
      <4>3. CASE ~CapExceeded(d) /\ req[d].remaining = 0 BY <4>3, <3>0 DEF LaneReason
      <4> QED BY <3>0, <4>1, <4>2, <4>3
    <3> DEFINE l == IF LaneReason(d) \in {"allowance", "meter"} THEN "dispatch" ELSE "done"
    <3>2. [req[d] EXCEPT !.reason = LaneReason(d), !.pc = l] \in Request
      BY <2>r, <3>1 DEF Request
    <3> QED BY <2>4, <3>2 DEF DecideLane
  <2>5. CASE DispatchUnbilled(d) BY <2>5, <2>g DEF DispatchUnbilled
  <2>6. CASE Dispatch(d)
    <3>1. PICK s \in 1..MaxSlots, c \in Rates :
            req' = [req EXCEPT ![d].pc = "settle", ![d].slots = s, ![d].rate = c]
      BY <2>6 DEF Dispatch
    <3>2. s \in Nat /\ c \in Nat BY PriceAssumption, BoundsAssumption
    <3>3. [req[d] EXCEPT !.pc = "settle", !.slots = s, !.rate = c] \in Request
      BY <2>r, <3>2 DEF Request
    <3>4. req' \in [Dispatches -> Request] BY <3>1, <3>3
    <3>5. UNCHANGED <<boundary, period, ledger, meter, items, handedOut, faults>>
      BY <2>6 DEF Dispatch
    <3> QED BY <3>4, <3>5
  <2>7. CASE Settle(d) BY <2>7, SettlementGrowsExcess DEF Settle, Request
  <2>8. CASE InsertLedger(d)
    <3>1. [status |-> "pending", period |-> req[d].period, cents |-> Cents(d)] \in MeterEvent
      BY <2>r, CentsNat DEF MeterEvent, Request
    <3>2. ledger' \in [Dispatches -> MeterEvent] BY <2>8, <3>1 DEF InsertLedger
    <3>3. req' \in [Dispatches -> Request] BY <2>8, <2>g DEF InsertLedger
    <3> QED BY <2>8, <3>2, <3>3 DEF InsertLedger
  <2>9. CASE BumpSpent(d)
    <3> DEFINE q == req[d].period
    <3>1. q \in Periods /\ ledger[d].cents \in Nat BY <2>r DEF Request, MeterEvent
    <3>2. [period[q] EXCEPT !.spent = @ + ledger[d].cents] \in PeriodRow
      BY <3>1 DEF PeriodRow
    <3> QED BY <2>9, <2>g, <3>1, <3>2 DEF BumpSpent
  <2>10. CASE SkipItem(d) \/ RetrieveItem(d)
    <3>1. CASE SkipItem(d) BY <2>g, <3>1 DEF SkipItem
    <3>2. CASE RetrieveItem(d)
      <4>0. UNCHANGED <<boundary, period, ledger, meter, items, handedOut, faults>>
        BY <3>2 DEF RetrieveItem
      <4>1. PICK s \in Subscriptions, l \in {"report", "create"} :
              req' = [req EXCEPT ![d].sub = s, ![d].pc = l]
        BY <3>2 DEF RetrieveItem
      <4>2. [req[d] EXCEPT !.sub = s, !.pc = l] \in Request BY <2>r DEF Request
      <4>3. req' \in [Dispatches -> Request] BY <4>1, <4>2
      <4> QED BY <4>0, <4>3
    <3> QED BY <2>10, <3>1, <3>2
  <2>11. CASE CreateItem(d)
    <3>1. ItemKey(d) \in ItemKeys BY DEF ItemKeys
    <3>2. req[d].sub \in Subscriptions \cup {NoSubscription} BY <2>r DEF Request
    <3>3. items' \subseteq [sub : Subscriptions \cup {NoSubscription}, key : ItemKeys]
      BY <2>11, <3>1, <3>2 DEF CreateItem
    <3> QED BY <2>11, <2>g, <3>3 DEF CreateItem
  <2>12. CASE ReportEvent(d) BY <2>12, <2>g DEF ReportEvent, Accept, MeterEvent
  <2>13. CASE MarkReported(d) BY <2>13, <2>g DEF MarkReported, MeterEvent
  <2>14. CASE MarkError(d) BY <2>14, <2>g DEF MarkError, MeterEvent
  <2>15. CASE SettleFails(d) BY <2>15, <2>g, SettlementGrowsExcess, FaultsAssumption
    DEF SettleFails, Fault, Request
  <2>16. CASE AttachFails(d) BY <2>16, <2>g, FaultsAssumption DEF AttachFails, Fault
  <2>17. CASE ReportFails(d) BY <2>17, <2>g, FaultsAssumption DEF ReportFails, Fault, Accept, MeterEvent
  <2>18. CASE MarkFails(d) BY <2>18, <2>g, FaultsAssumption DEF MarkFails, Fault
  <2>19. CASE Die(d) BY <2>19, <2>g, FaultsAssumption DEF Die, Fault
  <2> QED BY <1>n, <2>1, <2>2, <2>3, <2>4, <2>5, <2>6, <2>7, <2>8, <2>9, <2>10,
             <2>11, <2>12, <2>13, <2>14, <2>15, <2>16, <2>17, <2>18, <2>19 DEF Step, Fail
<1> QED BY <1>u, <1>n DEF Next

\* The state of the meter stays well typed through every interleaving of the
\* steps of apps/api/src/billing/premium.
THEOREM TypeCorrect == Spec => []TypeOK
  BY TypeInit, TypeStep, PTL DEF Spec

---------------------------------------------------------------------------
(* OverageExact is not inductive by itself: a settlement that opens a row   *)
(* must find nothing consumed in it.                                        *)

ClosedIsEmpty ==
  \A p \in Periods : ~period[p].open => period[p].consumed = 0 /\ period[p].total = 0

Excess(row) == Max0(row.consumed - row.total)

OverageInv == ClosedIsEmpty /\ OverageExact

LEMMA OverageInit == Init => OverageInv
  BY FaultsAssumption DEF Init, OverageInv, ClosedIsEmpty, OverageExact, NoRow, Max0, Periods

\* A settlement moves the slots handed out and the period's excess together;
\* one that fails can move the excess alone, and counts as a fault.
LEMMA OverageStep == TypeOK /\ OverageInv /\ [Next]_vars => OverageInv'
<1> SUFFICES ASSUME TypeOK, OverageInv, [Next]_vars PROVE OverageInv' OBVIOUS
<1>t. /\ faults \in Nat
      /\ \A p \in Periods : /\ period[p] \in PeriodRow
                            /\ handedOut[p] \in Nat
                            /\ Excess(period[p]) \in Nat
  BY DEF TypeOK, PeriodRow, Excess, Max0
<1>k. ASSUME UNCHANGED handedOut, faults' = faults \/ faults' = faults + 1,
             \A p \in Periods : /\ period'[p].open = period[p].open
                                /\ period'[p].consumed = period[p].consumed
                                /\ period'[p].total = period[p].total
      PROVE  OverageInv'
  BY <1>k, <1>t DEF OverageInv, OverageExact, ClosedIsEmpty
<1>u. CASE UNCHANGED vars BY <1>u, <1>k DEF vars
<1>n. ASSUME NEW d \in Dispatches, Step(d) \/ Fail(d) PROVE OverageInv'
  <2> DEFINE q == req[d].period
  <2>q. q \in Periods BY DEF TypeOK, Request
  <2>e. /\ OpenRow(d).open
        /\ SettledRow(d).open
        /\ Excess(OpenRow(d)) = Excess(period[q])
    <3>1. CASE period[q].open BY <3>1, <1>t, <2>q DEF OpenRow, SettledRow, PeriodRow
    <3>2. CASE ~period[q].open
      <4>1. Excess(period[q]) = 0
        BY <3>2, <2>q DEF OverageInv, ClosedIsEmpty, Excess, Max0
      <4>2. Allowance[req[d].tier] \in Nat BY TiersAssumption DEF TypeOK, Request
      <4>3. OpenRow(d) = [open |-> TRUE, total |-> Allowance[req[d].tier],
                          consumed |-> 0, spent |-> 0]
        BY <3>2 DEF OpenRow, NoRow
      <4>4. SettledRow(d).open BY <4>3 DEF SettledRow
      <4> QED BY <4>1, <4>2, <4>3, <4>4 DEF Excess, Max0
    <3> QED BY <3>1, <3>2
  <2>x. /\ OverageSlots(d) \in Nat
        /\ Excess(SettledRow(d)) = Excess(period[q]) + OverageSlots(d)
        /\ Excess(SettledRow(d)) \in Nat
    BY <2>e, <1>t, <2>q, SettlementGrowsExcess DEF Excess
  <2>i. /\ handedOut[q] <= Excess(period[q])
        /\ faults = 0 => handedOut[q] = Excess(period[q])
    BY <2>q DEF OverageInv, OverageExact, Excess
  <2>s. ASSUME period' = [period EXCEPT ![q] = SettledRow(d)],
               \/ /\ handedOut' = [handedOut EXCEPT ![q] = @ + OverageSlots(d)]
                  /\ faults' = faults
               \/ UNCHANGED handedOut /\ faults' = faults + 1
        PROVE  OverageInv'
    <3>1. ClosedIsEmpty'
      BY <2>s, <2>e, <2>q, <1>t DEF OverageInv, ClosedIsEmpty, TypeOK
    <3>2. ASSUME NEW p \in Periods
          PROVE  /\ handedOut'[p] <= Excess(period'[p])
                 /\ faults' = 0 => handedOut'[p] = Excess(period'[p])
      <4>1. CASE p = q
        <5>1. period'[q] = SettledRow(d) BY <2>s, <2>q DEF TypeOK
        <5>2. \/ handedOut'[q] = handedOut[q] + OverageSlots(d) /\ faults' = faults
              \/ handedOut'[q] = handedOut[q] /\ faults' = faults + 1
          BY <2>s, <2>q DEF TypeOK
        <5> HIDE DEF q
        <5> QED BY <4>1, <5>1, <5>2, <2>x, <2>i, <2>q, <1>t
      <4>2. CASE p # q
        <5>1. period'[p] = period[p] /\ handedOut'[p] = handedOut[p]
          BY <2>s, <4>2 DEF TypeOK
        <5>2. faults' = 0 => faults = 0 BY <2>s, <1>t
        <5> QED BY <5>1, <5>2 DEF OverageInv, OverageExact, Excess
      <4> QED BY <4>1, <4>2
    <3> QED BY <3>1, <3>2 DEF OverageInv, OverageExact, Excess
  <2>1. CASE Settle(d) BY <2>1, <2>s DEF Settle
  <2>2. CASE SettleFails(d)
    <3>1. CASE UNCHANGED period BY <2>2, <3>1, <1>k DEF SettleFails, Fault
    <3>2. CASE period' = [period EXCEPT ![q] = SettledRow(d)]
      BY <2>2, <3>2, <2>s DEF SettleFails, Fault
    <3> QED BY <2>2, <3>1, <3>2 DEF SettleFails
  <2>3. CASE BumpSpent(d)
    <3>1. \A p \in Periods : /\ period'[p].open = period[p].open
                             /\ period'[p].consumed = period[p].consumed
                             /\ period'[p].total = period[p].total
      BY <2>3, <1>t DEF BumpSpent, TypeOK, PeriodRow
    <3> QED BY <2>3, <3>1, <1>k DEF BumpSpent
  <2>4. CASE \/ ReadCustomer(d) \/ Ineligible(d) \/ ReadAllowance(d) \/ DecideLane(d)
             \/ DispatchUnbilled(d) \/ Dispatch(d) \/ InsertLedger(d) \/ SkipItem(d)
             \/ RetrieveItem(d) \/ CreateItem(d) \/ ReportEvent(d) \/ MarkReported(d) \/ MarkError(d)
    <3>1. UNCHANGED <<period, handedOut, faults>>
      BY <2>4 DEF ReadCustomer, Ineligible, ReadAllowance, DecideLane, DispatchUnbilled,
                  Dispatch, InsertLedger, SkipItem, RetrieveItem, CreateItem, ReportEvent,
                  MarkReported, MarkError
    <3> QED BY <3>1, <1>k
  <2>5. CASE AttachFails(d) \/ ReportFails(d) \/ MarkFails(d) \/ Die(d)
    <3>1. UNCHANGED <<period, handedOut>> /\ faults' = faults + 1
      BY <2>5 DEF AttachFails, ReportFails, MarkFails, Die, Fault
    <3> QED BY <3>1, <1>k
  <2> QED BY <1>n, <2>1, <2>2, <2>3, <2>4, <2>5 DEF Step, Fail
<1> QED BY <1>u, <1>n DEF Next

\* consumeAllowance never hands out a slot of overage twice, whatever races:
\* what the settlements of a period return adds up to at most what was consumed
\* past the row's total, and to exactly that when nothing failed.
THEOREM OverageIsExact == Spec => []OverageExact
<1>1. OverageInv => OverageExact BY DEF OverageInv
<1> QED BY <1>1, TypeCorrect, OverageInit, OverageStep, PTL DEF Spec

---------------------------------------------------------------------------
(* The order in which reportPremiumOverage writes: ledger, then Stripe,     *)
(* then the ledger's status.                                                *)

BeforeLedger == {"idle", "allowance", "cap", "dispatch", "settle", "ledger"}

ReportOrder(d) ==
  /\ req[d].pc \in BeforeLedger => ledger[d].status = "none"
  /\ req[d].pc \in {"spent", "item", "create", "report"} => ledger[d].status = "pending"
  /\ req[d].pc = "mark" => ledger[d].status # "none" /\ meter[d] = ledger[d].cents
  /\ req[d].pc = "error" => ledger[d].status # "none"
  /\ ledger[d].status = "none" => meter[d] = 0
  /\ meter[d] > 0 => meter[d] = ledger[d].cents
  /\ ledger[d].status = "reported" => meter[d] = ledger[d].cents

ReportInv == \A d \in Dispatches : ReportOrder(d)

LEMMA ReportInit == Init => ReportInv
  BY DEF Init, ReportInv, ReportOrder, NoEvent

\* Only a dispatch's own steps touch its ledger row and its Stripe event.
LEMMA ReportStep == TypeOK /\ ReportInv /\ [Next]_vars => ReportInv'
<1> SUFFICES ASSUME TypeOK, ReportInv, [Next]_vars PROVE ReportInv' OBVIOUS
<1>u. CASE UNCHANGED vars BY <1>u DEF vars, ReportInv, ReportOrder
<1>n. ASSUME NEW d \in Dispatches, Step(d) \/ Fail(d) PROVE ReportInv'
  <2> SUFFICES ASSUME NEW e \in Dispatches PROVE ReportOrder(e)'
    BY DEF ReportInv
  <2>t. /\ meter[e] \in Nat
        /\ ledger[e] \in MeterEvent
        /\ req[e] \in Request
        /\ meter \in [Dispatches -> Nat]
        /\ ledger \in [Dispatches -> MeterEvent]
        /\ req \in [Dispatches -> Request]
    BY DEF TypeOK
  <2>i. ReportOrder(d) /\ ReportOrder(e) BY DEF ReportInv
  <2>k. ASSUME req'[e].pc = req[e].pc, ledger'[e] = ledger[e], meter'[e] = meter[e]
        PROVE  ReportOrder(e)'
    BY <2>k, <2>i DEF ReportOrder
  <2>o. CASE e # d
    <3>1. req'[e] = req[e] /\ ledger'[e] = ledger[e] /\ meter'[e] = meter[e]
      <4>1. req'[e] = req[e]
        BY <1>n, <2>o, <2>t
        DEF Step, Fail, ReadCustomer, Ineligible, ReadAllowance, DecideLane, DispatchUnbilled,
            Dispatch, Settle, SettleFails, InsertLedger, BumpSpent, SkipItem, RetrieveItem, CreateItem,
            AttachFails, ReportEvent, ReportFails, MarkReported, MarkFails, MarkError, Die, Goto
      <4>2. ledger'[e] = ledger[e]
        BY <1>n, <2>o, <2>t
        DEF Step, Fail, ReadCustomer, Ineligible, ReadAllowance, DecideLane, DispatchUnbilled,
            Dispatch, Settle, SettleFails, InsertLedger, BumpSpent, SkipItem, RetrieveItem, CreateItem,
            AttachFails, ReportEvent, ReportFails, MarkReported, MarkFails, MarkError, Die
      <4>3. meter'[e] = meter[e]
        BY <1>n, <2>o, <2>t
        DEF Step, Fail, ReadCustomer, Ineligible, ReadAllowance, DecideLane, DispatchUnbilled,
            Dispatch, Settle, SettleFails, InsertLedger, BumpSpent, SkipItem, RetrieveItem, CreateItem,
            AttachFails, ReportEvent, ReportFails, MarkReported, MarkFails, MarkError, Die, Accept
      <4> QED BY <4>1, <4>2, <4>3
    <3> QED BY <3>1, <2>k
  <2>d. CASE e = d
    <3> USE <2>d
    <3>1. ASSUME UNCHANGED <<ledger, meter>>, req[d].pc \in BeforeLedger,
                 req'[d].pc \in BeforeLedger \cup {"done", "dead"}
          PROVE  ReportOrder(d)'
      BY <3>1, <2>i DEF ReportOrder, BeforeLedger
    <3>2. CASE ReadCustomer(d)
      BY <3>1, <3>2, <2>t DEF ReadCustomer, BeforeLedger
    <3>3. CASE Ineligible(d)
      BY <3>1, <3>3, <2>t DEF Ineligible, BeforeLedger, Goto
    <3>4. CASE ReadAllowance(d)
      BY <3>1, <3>4, <2>t DEF ReadAllowance, BeforeLedger
    <3>5. CASE DecideLane(d)
      BY <3>1, <3>5, <2>t DEF DecideLane, BeforeLedger
    <3>6. CASE DispatchUnbilled(d)
      BY <3>1, <3>6, <2>t DEF DispatchUnbilled, BeforeLedger, Goto
    <3>7. CASE Dispatch(d)
      BY <3>1, <3>7, <2>t DEF Dispatch, BeforeLedger
    <3>8. CASE Settle(d)
      BY <3>1, <3>8, <2>t DEF Settle, BeforeLedger
    <3>9. CASE SettleFails(d)
      BY <3>1, <3>9, <2>t DEF SettleFails, BeforeLedger, Goto
    <3>10. CASE InsertLedger(d)
      <4>1. ledger[d].status = "none" /\ meter[d] = 0
        BY <3>10, <2>i DEF InsertLedger, ReportOrder, BeforeLedger
      <4>g. Goto(d, "spent") /\ meter' = meter
        BY <3>10, <4>1 DEF InsertLedger
      <4>2. req'[d].pc = "spent" /\ meter'[d] = 0
        BY <4>g, <4>1, <2>t DEF Goto
      <4>3. ledger' = [ledger EXCEPT ![d] = [status |-> "pending",
                                             period |-> req[d].period,
                                             cents |-> Cents(d)]]
        BY <3>10, <4>1 DEF InsertLedger
      <4>4. ledger'[d].status = "pending" BY <4>3, <2>t
      <4> QED BY <4>2, <4>4 DEF ReportOrder, BeforeLedger
    <3>11. CASE BumpSpent(d)
      BY <3>11, <2>i, <2>t DEF BumpSpent, Goto, ReportOrder, BeforeLedger
    <3>12. CASE SkipItem(d) \/ RetrieveItem(d)
      <4>1. /\ req[d].pc = "item" /\ UNCHANGED <<ledger, meter>>
        BY <3>12 DEF SkipItem, RetrieveItem
      <4>2. CASE SkipItem(d) BY <4>1, <4>2, <2>i, <2>t DEF SkipItem, Goto, ReportOrder, BeforeLedger
      <4>3. CASE RetrieveItem(d)
        <5>1. PICK s \in Subscriptions, l \in {"report", "create"} :
                req' = [req EXCEPT ![d].sub = s, ![d].pc = l]
          BY <4>3 DEF RetrieveItem
        <5>2. req'[d].pc = l BY <5>1, <2>t DEF Request
        <5> QED BY <4>1, <5>2, <2>i DEF ReportOrder, BeforeLedger
      <4> QED BY <3>12, <4>2, <4>3
    <3>13. CASE CreateItem(d)
      BY <3>13, <2>i, <2>t DEF CreateItem, Goto, ReportOrder, BeforeLedger
    <3>14. CASE AttachFails(d)
      BY <3>14, <2>i, <2>t DEF AttachFails, Goto, ReportOrder, BeforeLedger
    <3>15. CASE ReportEvent(d)
      <4>1. ledger[d].status = "pending" BY <3>15, <2>i DEF ReportEvent, ReportOrder
      <4>2. req'[d].pc = "mark" /\ ledger' = ledger /\ meter'[d] = ledger[d].cents
        BY <3>15, <2>i, <2>t DEF ReportEvent, Goto, Accept, ReportOrder
      <4> QED BY <4>1, <4>2 DEF ReportOrder, BeforeLedger
    <3>16. CASE ReportFails(d)
      <4>1. ledger[d].status = "pending" BY <3>16, <2>i DEF ReportFails, ReportOrder
      <4>2. req'[d].pc = "error" /\ ledger' = ledger
        BY <3>16, <2>t DEF ReportFails, Goto
      <4>3. meter'[d] = meter[d] \/ meter'[d] = ledger[d].cents
        BY <3>16, <2>i, <2>t DEF ReportFails, Accept, ReportOrder
      <4>4. meter'[d] > 0 => meter'[d] = ledger[d].cents
        BY <4>3, <2>i DEF ReportOrder
      <4> QED BY <4>1, <4>2, <4>4, <2>i DEF ReportOrder, BeforeLedger
    <3>17. CASE MarkReported(d)
      BY <3>17, <2>i, <2>t DEF MarkReported, Goto, ReportOrder, BeforeLedger, MeterEvent
    <3>18. CASE MarkFails(d)
      BY <3>18, <2>i, <2>t DEF MarkFails, Goto, ReportOrder, BeforeLedger
    <3>19. CASE MarkError(d)
      BY <3>19, <2>i, <2>t DEF MarkError, Goto, ReportOrder, BeforeLedger, MeterEvent
    <3>20. CASE Die(d)
      BY <3>20, <2>i, <2>t DEF Die, Goto, ReportOrder, BeforeLedger
    <3> QED BY <1>n, <3>2, <3>3, <3>4, <3>5, <3>6, <3>7, <3>8, <3>9, <3>10, <3>11, <3>12,
               <3>13, <3>14, <3>15, <3>16, <3>17, <3>18, <3>19, <3>20 DEF Step, Fail
  <2> QED BY <2>o, <2>d
<1> QED BY <1>u, <1>n DEF Next

\* reportPremiumOverage writes the ledger before it calls Stripe, and says
\* 'reported' only of what Stripe took, across every failure and eviction.
THEOREM LedgerLeads == Spec => []LedgerAheadOfStripe
<1>1. ReportInv => LedgerAheadOfStripe
  BY DEF ReportInv, ReportOrder, LedgerAheadOfStripe
<1> QED BY <1>1, TypeCorrect, ReportInit, ReportStep, PTL DEF Spec

(***************************************************************************)
(* What a step makes of its own request, of the ledger, and of the spend   *)
(* the cap is checked against.                                             *)
(***************************************************************************)

Only(d) == \A e \in Dispatches \ {d} : req'[e] = req[e] /\ ledger'[e] = ledger[e] /\ meter'[e] = meter[e]
SpentSame == \A p \in Periods : period'[p].spent = period[p].spent
Keeps == UNCHANGED ledger /\ SpentSame
Quiet == UNCHANGED <<meter, items, faults>>

Enters(d) ==
  /\ req[d].pc = "idle" /\ req'[d].pc \in {"allowance", "done"}
  /\ Cardinality(InFlight) < MaxInFlight
  /\ Keeps /\ Quiet
Admits(d) ==
  /\ req[d].pc = "cap" /\ req'[d].pc = "dispatch" /\ req'[d].period = req[d].period
  /\ period[req[d].period].spent < CapCents
  /\ Keeps /\ Quiet
Leaves(d) ==
  /\ req[d].pc \in {"allowance", "cap", "dispatch"} /\ req'[d].pc \in {"cap", "done"}
  /\ Keeps /\ Quiet
Works(d) ==
  /\ req[d].pc = "dispatch" /\ req'[d].pc = "settle" /\ req'[d].period = req[d].period
  /\ req'[d].rate \in Rates /\ req'[d].slots <= MaxSlots
  /\ Keeps /\ Quiet
Settles(d) ==
  /\ req[d].pc = "settle" /\ req'[d].pc \in {"ledger", "done"} /\ req'[d].period = req[d].period
  /\ req'[d].rate = req[d].rate /\ req'[d].slots = req[d].slots /\ req'[d].over <= req[d].slots
  /\ Keeps /\ Quiet
Books(d) ==
  /\ req[d].pc = "ledger" /\ req'[d].pc = "spent" /\ req'[d].period = req[d].period
  /\ ledger[d].status = "none"
  /\ ledger'[d] = [status |-> "pending", period |-> req[d].period, cents |-> Cents(d)]
  /\ SpentSame /\ Quiet
Bumps(d) ==
  /\ req[d].pc = "spent" /\ req'[d].pc = "item"
  /\ \A p \in Periods : period'[p].spent = IF p = req[d].period THEN period[p].spent + ledger[d].cents
                                                               ELSE period[p].spent
  /\ UNCHANGED ledger /\ Quiet
Attaches(d) ==
  /\ req[d].pc \in {"item", "create"} /\ req'[d].pc \in {"create", "report"}
  /\ Keeps /\ UNCHANGED <<meter, faults>>
Reports(d) ==
  /\ req[d].pc = "report" /\ req'[d].pc = "mark" /\ Keeps /\ UNCHANGED <<items, faults>>
Marks(d) ==
  /\ \/ req[d].pc = "mark" /\ ledger'[d].status = "reported"
     \/ req[d].pc = "error" /\ ledger'[d].status = "error"
  /\ req'[d].pc = "done"
  /\ ledger'[d].period = ledger[d].period /\ ledger'[d].cents = ledger[d].cents
  /\ SpentSame /\ Quiet
Breaks(d) ==
  /\ req[d].pc \notin {"idle", "done", "dead"} /\ req'[d].pc \in {"done", "report", "error", "dead"}
  /\ Keeps /\ UNCHANGED items /\ faults' = faults + 1

Turn(d) ==
  \/ Enters(d) \/ Admits(d) \/ Leaves(d) \/ Works(d) \/ Settles(d) \/ Books(d) \/ Bumps(d)
  \/ Attaches(d) \/ Reports(d) \/ Marks(d) \/ Breaks(d)

LEMMA OnlyOne ==
  ASSUME TypeOK, NEW d \in Dispatches, Step(d) \/ Fail(d)
  PROVE  Only(d)
<1> SUFFICES ASSUME NEW e \in Dispatches \ {d}
             PROVE  req'[e] = req[e] /\ ledger'[e] = ledger[e] /\ meter'[e] = meter[e]
  BY DEF Only
<1>t. e \in Dispatches /\ e # d /\ DOMAIN req = Dispatches /\ DOMAIN ledger = Dispatches
      /\ DOMAIN meter = Dispatches
  BY DEF TypeOK
<1>1. req'[e] = req[e]
  BY <1>t DEF Step, Fail, ReadCustomer, Ineligible, ReadAllowance, DecideLane, DispatchUnbilled,
      Dispatch, Settle, SettleFails, InsertLedger, BumpSpent, SkipItem, RetrieveItem, CreateItem,
      AttachFails, ReportEvent, ReportFails, MarkReported, MarkFails, MarkError, Die, Goto
<1>2. ledger'[e] = ledger[e]
  BY <1>t DEF Step, Fail, ReadCustomer, Ineligible, ReadAllowance, DecideLane, DispatchUnbilled,
      Dispatch, Settle, SettleFails, InsertLedger, BumpSpent, SkipItem, RetrieveItem, CreateItem,
      AttachFails, ReportEvent, ReportFails, MarkReported, MarkFails, MarkError, Die
<1>3. meter'[e] = meter[e]
  BY <1>t DEF Step, Fail, ReadCustomer, Ineligible, ReadAllowance, DecideLane, DispatchUnbilled,
      Dispatch, Settle, SettleFails, InsertLedger, BumpSpent, SkipItem, RetrieveItem, CreateItem,
      AttachFails, ReportEvent, ReportFails, MarkReported, MarkFails, MarkError, Die, Accept
<1> QED BY <1>1, <1>2, <1>3

\* A settlement hands out no more than it consumed.
LEMMA OverWithinSlots ==
  ASSUME TypeOK, NEW d \in Dispatches
  PROVE  OverageSlots(d) <= req[d].slots
<1>1. OpenRow(d) \in PeriodRow BY SettlementGrowsExcess
<1>2. req[d].slots \in Nat BY DEF TypeOK, Request
<1>3. /\ SettledRow(d).consumed = OpenRow(d).consumed + req[d].slots
      /\ SettledRow(d).total = OpenRow(d).total
      /\ OpenRow(d).consumed \in Nat /\ OpenRow(d).total \in Nat
  BY <1>1 DEF SettledRow, PeriodRow
<1> QED BY <1>2, <1>3 DEF OverageSlots, Max0

\* What has been settled has its row; a row not yet open holds no spend.
Rowed ==
  /\ \A p \in Periods : ~period[p].open => period[p].spent = 0
  /\ \A d \in Dispatches : req[d].pc \in {"ledger", "spent"} => period[req[d].period].open

LEMMA SettledSpent ==
  ASSUME TypeOK, Rowed, NEW d \in Dispatches, period' = [period EXCEPT ![req[d].period] = SettledRow(d)]
  PROVE  SpentSame
<1> DEFINE q == req[d].period
<1>1. q \in Periods BY DEF TypeOK, Request
<1>2. SettledRow(d).spent = period[q].spent
  <2>1. SettledRow(d).spent = OpenRow(d).spent BY SettlementGrowsExcess
  <2>2. CASE period[q].open BY <2>1, <2>2 DEF OpenRow
  <2>3. CASE ~period[q].open
    <3>1. OpenRow(d).spent = 0 BY <2>3 DEF OpenRow, NoRow
    <3> QED BY <1>1, <2>1, <2>3, <3>1 DEF Rowed
  <2> QED BY <2>2, <2>3
<1> HIDE DEF q
<1>3. period' = [period EXCEPT ![q] = SettledRow(d)] BY DEF q
<1> QED BY <1>1, <1>2, <1>3 DEF SpentSame, TypeOK

LEMMA BeganPc ==
  ASSUME TypeOK, NEW d \in Dispatches, ReadCustomer(d)
  PROVE  req'[d].pc = "allowance"
<1>1. PICK t, o, p : req' = [req EXCEPT ![d].pc = "allowance", ![d].tier = t, ![d].period = p, ![d].policy = o]
  BY DEF ReadCustomer
<1>2. req[d] \in Request /\ req \in [Dispatches -> Request] BY DEF TypeOK
<1> DEFINE q == [req[d] EXCEPT !.pc = "allowance", !.tier = t, !.period = p, !.policy = o]
<1>3. req' = [req EXCEPT ![d] = q] BY <1>1, <1>2
<1>4. q.pc = "allowance" BY <1>2 DEF Request
<1> HIDE DEF q
<1> QED BY <1>2, <1>3, <1>4

LEMMA RowedStep == TypeOK /\ Rowed /\ [Next]_vars => Rowed'
<1> SUFFICES ASSUME TypeOK, Rowed, [Next]_vars PROVE Rowed' OBVIOUS
<1>u. CASE UNCHANGED vars BY <1>u DEF vars, Rowed
<1>n. ASSUME NEW d \in Dispatches, Step(d) \/ Fail(d) PROVE Rowed'
  <2> DEFINE q == req[d].period
  <2>q. q \in Periods /\ DOMAIN period = Periods BY DEF TypeOK, Request
  <2>o. \A e \in Dispatches \ {d} : req'[e] = req[e] BY <1>n, OnlyOne DEF Only
  <2>k. ASSUME \A p \in Periods : period'[p].open = period[p].open /\ period'[p].spent = period[p].spent,
               req'[d].pc \in {"ledger", "spent"} => req[d].pc \in {"ledger", "spent"} /\ req'[d].period = q
        PROVE  Rowed'
    <3>1. \A e \in Dispatches : req[e].period \in Periods BY DEF TypeOK, Request
    <3> QED BY <2>k, <2>o, <3>1 DEF Rowed
  <2>s. ASSUME period' = [period EXCEPT ![q] = SettledRow(d)],
               req'[d].pc \in {"ledger", "spent"} => req'[d].period = q
        PROVE  Rowed'
    <3>1. SpentSame BY <2>s, SettledSpent
    <3>2. SettledRow(d).open
      <4>1. OpenRow(d) \in PeriodRow BY SettlementGrowsExcess
      <4>2. OpenRow(d).open BY DEF OpenRow, NoRow
      <4> QED BY <4>1, <4>2 DEF SettledRow, PeriodRow
    <3> HIDE DEF q
    <3>3. \A p \in Periods : period'[p].open <=> p = q \/ period[p].open BY <2>s, <2>q, <3>2
    <3>4. \A e \in Dispatches : req[e].period \in Periods BY DEF TypeOK, Request
    <3>5. \A e \in Dispatches : req'[e].pc \in {"ledger", "spent"} => period'[req'[e].period].open
      BY <2>s, <2>o, <2>q, <3>3, <3>4 DEF Rowed
    <3> QED BY <3>1, <3>3, <3>5 DEF Rowed, SpentSame
  <2>r. req[d] \in Request /\ DOMAIN req = Dispatches BY DEF TypeOK
  <2>1. CASE Settle(d) BY <2>1, <2>r, <2>s DEF Settle, Request
  <2>2. CASE SettleFails(d)
    <3>1. req'[d].pc = "done" BY <2>2, <2>r DEF SettleFails, Goto, Request
    <3> QED BY <2>2, <2>k, <2>s, <3>1 DEF SettleFails
  <2>3. CASE BumpSpent(d)
    <3>1. req[d].pc = "spent" /\ req'[d].pc = "item" BY <2>3, <2>r DEF BumpSpent, Goto, Request
    <3>2. period[q].open BY <3>1 DEF Rowed
    <3>3. \A p \in Periods : period'[p].open = period[p].open /\ (p # q => period'[p].spent = period[p].spent)
      <4>1. period[q] \in PeriodRow BY <2>q DEF TypeOK
      <4> DEFINE row == [period[q] EXCEPT !.spent = @ + ledger[d].cents]
      <4>2. row.open = period[q].open BY <4>1 DEF PeriodRow
      <4>3. period' = [period EXCEPT ![q] = row] BY <2>3 DEF BumpSpent
      <4> HIDE DEF row, q
      <4> QED BY <2>q, <4>2, <4>3
    <3>4. \A e \in Dispatches : req[e].period \in Periods BY DEF TypeOK, Request
    <3> QED BY <2>o, <3>1, <3>2, <3>3, <3>4 DEF Rowed
  <2>4. CASE \/ ReadCustomer(d) \/ Ineligible(d) \/ ReadAllowance(d) \/ DecideLane(d)
             \/ DispatchUnbilled(d) \/ Dispatch(d)
    <3>1. UNCHANGED period
      BY <2>4 DEF ReadCustomer, Ineligible, ReadAllowance, DecideLane, DispatchUnbilled, Dispatch
    <3>2. CASE DecideLane(d)
      <4> DEFINE x == LaneReason(d)
                 l == IF x \in {"allowance", "meter"} THEN "dispatch" ELSE "done"
      <4>1. req' = [req EXCEPT ![d].reason = x, ![d].pc = l] BY <3>2 DEF DecideLane
      <4>3. l \in {"dispatch", "done"} OBVIOUS
      <4> HIDE DEF x, l
      <4>2. req'[d].pc = l BY <2>r, <4>1 DEF Request
      <4> QED BY <2>k, <3>1, <4>2, <4>3
    <3>3. CASE ~DecideLane(d)
      <4>1. \/ ReadCustomer(d) \/ \E l \in {"done", "cap", "settle"} : req'[d].pc = l
        BY <2>4, <2>r, <3>3 DEF Ineligible, ReadAllowance, DispatchUnbilled, Dispatch, Goto, Request
      <4> QED BY <2>k, <3>1, <4>1, BeganPc
    <3> QED BY <3>2, <3>3
  <2>5. CASE \/ InsertLedger(d) \/ SkipItem(d) \/ CreateItem(d) \/ ReportEvent(d) \/ MarkReported(d)
             \/ MarkError(d) \/ AttachFails(d) \/ ReportFails(d) \/ MarkFails(d) \/ Die(d)
    <3>1. UNCHANGED period
      BY <2>5 DEF InsertLedger, SkipItem, CreateItem, ReportEvent, MarkReported, MarkError,
         AttachFails, ReportFails, MarkFails, Die
    <3>2. PICK l : Goto(d, l) /\ (l \in {"ledger", "spent"} => req[d].pc = "ledger")
      BY <2>5 DEF InsertLedger, SkipItem, CreateItem, ReportEvent, MarkReported, MarkError,
         AttachFails, ReportFails, MarkFails, Die
    <3>3. req'[d].pc = l /\ req'[d].period = q BY <2>r, <3>2 DEF Goto, Request
    <3> QED BY <2>k, <3>1, <3>2, <3>3
  <2>6. CASE RetrieveItem(d)
    <3>1. UNCHANGED period /\ req'[d].pc \in {"report", "create"}
      BY <2>6, <2>r DEF RetrieveItem, Request
    <3> QED BY <2>k, <3>1
  <2> QED BY <1>n, <2>1, <2>2, <2>3, <2>4, <2>5, <2>6 DEF Step, Fail
<1> QED BY <1>u, <1>n DEF Next

LEMMA Went ==
  ASSUME TypeOK, NEW d \in Dispatches, NEW l, Goto(d, l)
  PROVE  /\ req'[d].pc = l /\ req'[d].period = req[d].period /\ req'[d].rate = req[d].rate
         /\ req'[d].slots = req[d].slots /\ req'[d].over = req[d].over
  BY DEF Goto, TypeOK, Request

\* Every step is of one of these kinds.
LEMMA StepTurns ==
  ASSUME TypeOK, ReportInv, Rowed, NEW d \in Dispatches, Step(d) \/ Fail(d)
  PROVE  Turn(d)
<1>r. req[d] \in Request /\ req \in [Dispatches -> Request] /\ req[d].period \in Periods BY DEF TypeOK, Request
<1>k. UNCHANGED <<period, ledger>> => Keeps BY DEF Keeps, SpentSame
<1>q. UNCHANGED <<meter, items, faults>> => Quiet BY DEF Quiet
<1>1. CASE ReadCustomer(d) \/ Ineligible(d)
  <2>1. /\ req[d].pc = "idle" /\ Cardinality(InFlight) < MaxInFlight
        /\ UNCHANGED <<period, ledger, meter, items, faults>>
    BY <1>1 DEF ReadCustomer, Ineligible
  <2>2. req'[d].pc \in {"allowance", "done"} BY <1>1, BeganPc, Went DEF Ineligible
  <2> QED BY <2>1, <2>2, <1>k, <1>q DEF Enters, Turn
<1>2. CASE ReadAllowance(d) \/ DispatchUnbilled(d)
  <2>1. /\ req[d].pc \in {"allowance", "dispatch"} /\ UNCHANGED <<period, ledger, meter, items, faults>>
    BY <1>2 DEF ReadAllowance, DispatchUnbilled
  <2>2. req'[d].pc \in {"cap", "done"} BY <1>2, <1>r DEF ReadAllowance, DispatchUnbilled, Goto, Request
  <2> QED BY <2>1, <2>2, <1>k, <1>q DEF Leaves, Turn
<1>3. CASE DecideLane(d)
  <2> DEFINE x == LaneReason(d)
             l == IF x \in {"allowance", "meter"} THEN "dispatch" ELSE "done"
  <2>1. /\ req[d].pc = "cap" /\ UNCHANGED <<period, ledger, meter, items, faults>>
        /\ req' = [req EXCEPT ![d].reason = x, ![d].pc = l]
    BY <1>3 DEF DecideLane
  <2>2. CapExceeded(d) => x = "cap" BY DEF LaneReason
  <2>3. x = "cap" => l = "done" OBVIOUS
  <2>4. l \in {"dispatch", "done"} OBVIOUS
  <2>5. ~CapExceeded(d) => period[req[d].period].spent < CapCents
    <3>1. period[req[d].period].spent \in Nat BY <1>r DEF TypeOK, PeriodRow
    <3> QED BY <3>1, PriceAssumption DEF CapExceeded
  <2> HIDE DEF x, l
  <2>6. req'[d].pc = l /\ req'[d].period = req[d].period BY <1>r, <2>1 DEF Request
  <2> QED BY <2>1, <2>2, <2>3, <2>4, <2>5, <2>6, <1>k, <1>q DEF Admits, Leaves, Turn
<1>4. CASE Dispatch(d)
  <2>1. PICK s \in 1..MaxSlots, c \in Rates :
          req' = [req EXCEPT ![d].pc = "settle", ![d].slots = s, ![d].rate = c]
    BY <1>4 DEF Dispatch
  <2>2. /\ req'[d].pc = "settle" /\ req'[d].period = req[d].period /\ req'[d].slots = s
        /\ req'[d].rate = c
    BY <1>r, <2>1 DEF Request
  <2>3. s <= MaxSlots BY BoundsAssumption
  <2>4. req[d].pc = "dispatch" /\ UNCHANGED <<period, ledger, meter, items, faults>> BY <1>4 DEF Dispatch
  <2> QED BY <2>2, <2>3, <2>4, <1>k, <1>q DEF Works, Turn
<1>5. CASE Settle(d)
  <2> DEFINE l == IF OverageSlots(d) > 0 THEN "ledger" ELSE "done"
             n == OverageSlots(d)
  <2>1. /\ req[d].pc = "settle" /\ UNCHANGED <<ledger, meter, items, faults>>
        /\ period' = [period EXCEPT ![req[d].period] = SettledRow(d)]
        /\ req' = [req EXCEPT ![d].over = n, ![d].pc = l]
    BY <1>5 DEF Settle
  <2>2. l \in {"ledger", "done"} /\ n <= req[d].slots BY OverWithinSlots
  <2> HIDE DEF l, n
  <2>3. /\ req'[d].pc = l /\ req'[d].period = req[d].period /\ req'[d].slots = req[d].slots
        /\ req'[d].rate = req[d].rate /\ req'[d].over = n
    BY <1>r, <2>1 DEF Request
  <2>4. Keeps BY <2>1, SettledSpent DEF Keeps
  <2> QED BY <2>1, <2>2, <2>3, <2>4, <1>q DEF Settles, Turn
<1>6. CASE InsertLedger(d)
  <2>1. req[d].pc = "ledger" /\ UNCHANGED <<period, meter, items, faults>> BY <1>6 DEF InsertLedger
  <2>2. ledger[d].status = "none" BY <2>1 DEF ReportInv, ReportOrder, BeforeLedger
  <2>3. /\ Goto(d, "spent")
        /\ ledger' = [ledger EXCEPT ![d] = [status |-> "pending", period |-> req[d].period, cents |-> Cents(d)]]
    BY <1>6, <2>2 DEF InsertLedger
  <2>4. ledger'[d] = [status |-> "pending", period |-> req[d].period, cents |-> Cents(d)]
    BY <2>3 DEF TypeOK
  <2> QED BY <2>1, <2>2, <2>3, <2>4, Went, <1>q DEF Books, SpentSame, Turn
<1>7. CASE BumpSpent(d)
  <2> DEFINE q == req[d].period
  <2>1. /\ req[d].pc = "spent" /\ Goto(d, "item") /\ UNCHANGED <<ledger, meter, items, faults>>
        /\ period' = [period EXCEPT ![q].spent = @ + ledger[d].cents]
    BY <1>7 DEF BumpSpent
  <2>2. \A p \in Periods : period[p] \in PeriodRow BY DEF TypeOK
  <2>3. period'[q].spent = period[q].spent + ledger[d].cents
    BY <1>r, <2>1, <2>2 DEF TypeOK, PeriodRow
  <2>4. \A p \in Periods : p # q => period'[p] = period[p] BY <2>1 DEF TypeOK
  <2> QED BY <2>1, <2>3, <2>4, Went, <1>q DEF Bumps, Turn
<1>8. CASE SkipItem(d) \/ RetrieveItem(d) \/ CreateItem(d)
  <2>1. /\ req[d].pc \in {"item", "create"} /\ req'[d].pc \in {"create", "report"}
        /\ UNCHANGED <<period, ledger, meter, faults>>
    BY <1>8, <1>r DEF SkipItem, RetrieveItem, CreateItem, Goto, Request
  <2> QED BY <2>1, <1>k DEF Attaches, Turn
<1>9. CASE ReportEvent(d)
  <2>1. req[d].pc = "report" /\ Goto(d, "mark") /\ UNCHANGED <<period, ledger, items, faults>>
    BY <1>9 DEF ReportEvent
  <2> QED BY <2>1, Went, <1>k DEF Reports, Turn
<1>10. CASE MarkReported(d) \/ MarkError(d)
  <2>1. UNCHANGED <<period, meter, items, faults>> /\ Goto(d, "done")
    BY <1>10 DEF MarkReported, MarkError
  <2>2. PICK x \in {"reported", "error"} : /\ ledger' = [ledger EXCEPT ![d].status = x]
                                          /\ req[d].pc = IF x = "reported" THEN "mark" ELSE "error"
    BY <1>10 DEF MarkReported, MarkError
  <2>3. ledger'[d].status = x /\ ledger'[d].period = ledger[d].period /\ ledger'[d].cents = ledger[d].cents
    <3>1. ledger[d] \in MeterEvent BY DEF TypeOK
    <3> QED BY <2>2, <3>1 DEF TypeOK, MeterEvent
  <2> QED BY <2>1, <2>2, <2>3, Went, <1>q DEF Marks, SpentSame, Turn
<1>11. CASE SettleFails(d)
  <2>1. /\ req[d].pc = "settle" /\ Goto(d, "done") /\ UNCHANGED <<ledger, items>> /\ faults' = faults + 1
        /\ UNCHANGED period \/ period' = [period EXCEPT ![req[d].period] = SettledRow(d)]
    BY <1>11 DEF SettleFails, Fault
  <2>2. Keeps BY <2>1, SettledSpent DEF Keeps, SpentSame
  <2> QED BY <2>1, <2>2, Went DEF Breaks, Turn
<1>12. CASE AttachFails(d) \/ ReportFails(d) \/ MarkFails(d) \/ Die(d)
  <2>1. /\ UNCHANGED <<period, ledger, items>> /\ faults' = faults + 1
        /\ req[d].pc \notin {"idle", "done", "dead"}
    BY <1>12 DEF AttachFails, ReportFails, MarkFails, Die, Fault, InFlight
  <2>2. PICK l \in {"report", "error", "dead"} : Goto(d, l)
    BY <1>12 DEF AttachFails, ReportFails, MarkFails, Die
  <2> QED BY <2>1, <2>2, Went, <1>k DEF Breaks, Turn
<1> QED BY <1>1, <1>2, <1>3, <1>4, <1>5, <1>6, <1>7, <1>8, <1>9, <1>10, <1>11, <1>12 DEF Step, Fail

(***************************************************************************)
(* What a period's spend stands for.                                       *)
(***************************************************************************)

\* Booked, and about to be added to the spend.
Unspent(p) == {d \in Dispatches : req[d].pc = "spent" /\ ledger[d].period = p}
Held(p) == {d \in Rows({"pending", "reported", "error"}) : ledger[d].period = p}
\* Past the cap's check, and not yet in the spend.
Open(p) == {d \in Dispatches : req[d].pc \in {"dispatch", "settle", "ledger", "spent"} /\ req[d].period = p}
\* c is the highest price of a slot.
Dear(c) == c \in Rates /\ \A k \in Rates : k <= c

Busy == Cardinality(InFlight) <= MaxInFlight

Priced == \A d \in Dispatches :
  /\ req[d].pc \in {"settle", "ledger"} => req[d].rate \in Rates /\ req[d].slots <= MaxSlots
  /\ req[d].pc = "ledger" => req[d].over <= MaxSlots
  /\ req[d].pc = "spent" => /\ ledger[d].period = req[d].period
                            /\ \A c \in Rates : Dear(c) => ledger[d].cents <= MaxSlots * c

Clean == faults = 0 => \A d \in Dispatches :
  /\ req[d].pc \notin {"error", "dead"} /\ ledger[d].status # "error"
  /\ ledger[d].status = "pending" => req[d].pc \in {"spent", "item", "create", "report", "mark"}

\* No subscription is known before the item is looked for and nothing is metered before
\* the event ships; by then the subscription has its item, if no call failed.
HasItem(s) == \E i \in items : i.sub = s
Attached(d) ==
  /\ req[d].pc \in BeforeLedger \cup {"spent", "item"} => req[d].sub = NoSubscription
  /\ req[d].pc \in BeforeLedger \cup {"spent", "item", "create", "report"} => meter[d] = 0
  /\ faults = 0 /\ req[d].sub # NoSubscription /\ (req[d].pc \in {"report", "mark"} \/ meter[d] > 0)
       => HasItem(req[d].sub)
AttachInv == \A d \in Dispatches : Attached(d)

Balanced == \A p \in Periods :
  LET spent == period[p].spent + Total(Charges, Unspent(p))
  IN  spent <= Total(Charges, Held(p)) /\ (faults = 0 => spent = Total(Charges, Held(p)))

Capped == \A p \in Periods, c \in Rates : Dear(c) =>
  period[p].spent + Cardinality(Open(p)) * (MaxSlots * c) < CapCents + MaxInFlight * (MaxSlots * c)

LEMMA Finite ==
  /\ IsFiniteSet(InFlight)
  /\ \A p : IsFiniteSet(Unspent(p)) /\ IsFiniteSet(Held(p)) /\ IsFiniteSet(Open(p))
<1>1. \A S \in SUBSET Dispatches : IsFiniteSet(S) BY DispatchesAssumption, FS_Subset
<1> QED BY <1>1 DEF InFlight, Unspent, Held, Open, Rows

\* A product of naturals is one, and grows with its factors.
LEMMA Products ==
  /\ \A a, b \in Nat : a * b \in Nat
  /\ \A a, b, x, y \in Nat : a <= b /\ x <= y => a * x <= y * b
<1>1. \A a, b \in Nat : a * b \in Nat OBVIOUS
<1>2. ASSUME NEW a \in Nat, NEW b \in Nat, NEW x \in Nat, NEW y \in Nat, a <= b, x <= y
      PROVE  a * x <= y * b
  <2>1. b - a \in Nat /\ y - x \in Nat BY <1>2
  <2>2. (b - a) * y \in Nat /\ a * (y - x) \in Nat BY <1>1, <2>1
  <2>3. y * b = a * x + a * (y - x) + (b - a) * y OBVIOUS
  <2>4. a * x \in Nat BY <1>1
  <2> QED BY <2>2, <2>3, <2>4
<1> QED BY <1>1, <1>2

LEMMA BusyStep ==
  ASSUME TypeOK, TypeOK', Busy, NEW d \in Dispatches, Only(d), Turn(d)
  PROVE  Busy'
<1>1. IsFiniteSet(InFlight) /\ IsFiniteSet(InFlight \cup {d}) /\ Cardinality(InFlight) \in Nat
  BY Finite, FS_AddElement, FS_CardinalityType
<1>2. InFlight' \subseteq InFlight \cup {d} BY DEF InFlight, Only
<1>3. CASE Enters(d)
  <2>1. Cardinality(InFlight \cup {d}) <= Cardinality(InFlight) + 1 BY <1>1, FS_AddElement
  <2>2. Cardinality(InFlight') <= Cardinality(InFlight \cup {d}) BY <1>1, <1>2, FS_Subset
  <2>3. Cardinality(InFlight') \in Nat /\ Cardinality(InFlight \cup {d}) \in Nat
    BY <1>1, <1>2, FS_Subset, FS_CardinalityType
  <2> QED BY <1>1, <1>3, <2>1, <2>2, <2>3, BoundsAssumption DEF Enters, Busy
<1>4. CASE ~Enters(d)
  <2>1. d \in InFlight
    BY <1>4 DEF InFlight, Turn, Admits, Leaves, Works, Settles, Books, Bumps, Attaches, Reports, Marks, Breaks
  <2>2. InFlight' \subseteq InFlight BY <1>2, <2>1
  <2>3. Cardinality(InFlight') <= Cardinality(InFlight) BY <1>1, <2>2, FS_Subset
  <2>4. Cardinality(InFlight') \in Nat BY <1>1, <2>2, FS_Subset, FS_CardinalityType
  <2> QED BY <1>1, <2>3, <2>4, BoundsAssumption DEF Busy
<1> QED BY <1>3, <1>4

LEMMA PricedStep ==
  ASSUME TypeOK, TypeOK', Priced, NEW d \in Dispatches, Only(d), Turn(d)
  PROVE  Priced'
<1>0. \A e \in Dispatches : req[e] \in Request /\ req'[e] \in Request BY DEF TypeOK
<1>n. /\ req[d].slots \in Nat /\ req[d].over \in Nat /\ req[d].rate \in Nat
      /\ req'[d].slots \in Nat /\ req'[d].over \in Nat /\ MaxSlots \in Nat
  BY <1>0, BoundsAssumption DEF Request
<1>1. /\ req'[d].pc \in {"settle", "ledger"} => req'[d].rate \in Rates /\ req'[d].slots <= MaxSlots
      /\ req'[d].pc = "ledger" => req'[d].over <= MaxSlots
  BY <1>n DEF Priced, Turn, Enters, Admits, Leaves, Works, Settles, Books, Bumps, Attaches, Reports, Marks, Breaks
<1>2. CASE Books(d)
  <2>1. /\ req[d].rate \in Rates /\ req[d].over <= MaxSlots
        /\ ledger'[d].period = req'[d].period /\ ledger'[d].cents = req[d].rate * req[d].over
    BY <1>2 DEF Books, Priced, Cents
  <2>2. ASSUME NEW c \in Rates, Dear(c) PROVE ledger'[d].cents <= MaxSlots * c
    <3>1. req[d].rate <= c /\ c \in Nat BY <2>1, <2>2, PriceAssumption DEF Dear
    <3> QED BY <1>n, <2>1, <3>1, Products
  <2> QED BY <1>1, <2>1, <2>2 DEF Priced, Only, Dear
<1>3. CASE ~Books(d)
  <2>1. req'[d].pc # "spent"
    BY <1>3 DEF Turn, Enters, Admits, Leaves, Works, Settles, Bumps, Attaches, Reports, Marks, Breaks
  <2> QED BY <1>1, <2>1 DEF Priced, Only, Dear
<1> QED BY <1>2, <1>3

LEMMA CleanStep ==
  ASSUME TypeOK, TypeOK', ReportInv, Clean, NEW d \in Dispatches, Only(d), Turn(d)
  PROVE  Clean'
<1> SUFFICES ASSUME faults' = 0, NEW e \in Dispatches
             PROVE  /\ req'[e].pc \notin {"error", "dead"} /\ ledger'[e].status # "error"
                    /\ ledger'[e].status = "pending" => req'[e].pc \in {"spent", "item", "create", "report", "mark"}
  BY DEF Clean
<1>0. faults \in Nat BY FaultsAssumption DEF TypeOK
<1>1. ~Breaks(d) /\ faults = 0
  BY <1>0 DEF Turn, Enters, Admits, Leaves, Works, Settles, Books, Bumps, Attaches, Reports, Marks, Breaks, Quiet
<1>2. \A x \in Dispatches :
        /\ req[x].pc \notin {"error", "dead"} /\ ledger[x].status # "error"
        /\ ledger[x].status = "pending" => req[x].pc \in {"spent", "item", "create", "report", "mark"}
  BY <1>1 DEF Clean
<1>3. CASE e # d BY <1>1, <1>2, <1>3 DEF Only
<1>4. CASE e = d
  <2>1. ReportOrder(d) BY DEF ReportInv
  <2>2. req[d].pc \in BeforeLedger => ledger[d].status = "none" BY <2>1 DEF ReportOrder
  <2>3. CASE Enters(d) \/ Admits(d) \/ Leaves(d) \/ Works(d) \/ Settles(d)
    <3>1. /\ UNCHANGED <<ledger, meter>> /\ req[d].pc \in BeforeLedger
          /\ req'[d].pc \notin {"error", "dead", "report", "mark"}
      BY <2>3 DEF Enters, Admits, Leaves, Works, Settles, Keeps, Quiet, BeforeLedger
    <3> QED BY <1>1, <1>2, <1>4, <2>2, <3>1
  <2>4. CASE Books(d) \/ Bumps(d) \/ Attaches(d)
    <3>1. /\ UNCHANGED meter /\ ledger'[d].status \in {"pending", ledger[d].status}
          /\ req'[d].pc \in {"spent", "item", "create", "report"}
      BY <2>4 DEF Books, Bumps, Attaches, Keeps, Quiet
    <3> QED BY <1>1, <1>2, <1>4, <3>1
  <2>5. CASE Reports(d)
    <3>1. /\ req[d].pc = "report" /\ req'[d].pc = "mark" /\ UNCHANGED ledger
      BY <2>5 DEF Reports, Keeps
    <3> QED BY <1>1, <1>2, <1>4, <3>1
  <2>6. CASE Marks(d)
    <3>1. req'[d].pc = "done" /\ ledger'[d].status = "reported" /\ UNCHANGED meter
      BY <1>2, <2>6 DEF Marks, Quiet
    <3> QED BY <1>1, <1>2, <1>4, <3>1
  <2> QED BY <1>1, <2>3, <2>4, <2>5, <2>6 DEF Turn
<1> QED BY <1>3, <1>4

\* Items only accumulate, and a report looks for its subscription once.
LEMMA AttachStep ==
  ASSUME TypeOK, ReportInv, AttachInv, NEW d \in Dispatches, Step(d) \/ Fail(d)
  PROVE  AttachInv'
<1> SUFFICES ASSUME NEW e \in Dispatches PROVE Attached(e)' BY DEF AttachInv
<1>r. /\ req \in [Dispatches -> Request] /\ req[d] \in Request /\ DOMAIN meter = Dispatches
      /\ Attached(d) /\ Attached(e) /\ ReportOrder(d)
      /\ faults \in Nat
  BY FaultsAssumption DEF TypeOK, AttachInv, ReportInv
<1>i. items \subseteq items' /\ (faults' = 0 => faults = 0)
  <2>1. items \subseteq items'
    BY DEF Step, Fail, ReadCustomer, Ineligible, ReadAllowance, DecideLane, DispatchUnbilled,
        Dispatch, Settle, SettleFails, InsertLedger, BumpSpent, SkipItem, RetrieveItem, CreateItem,
        AttachFails, ReportEvent, ReportFails, MarkReported, MarkFails, MarkError, Die
  <2>2. faults' \in {faults, faults + 1}
    BY DEF Step, Fail, ReadCustomer, Ineligible, ReadAllowance, DecideLane, DispatchUnbilled,
        Dispatch, Settle, SettleFails, InsertLedger, BumpSpent, SkipItem, RetrieveItem, CreateItem,
        AttachFails, ReportEvent, ReportFails, MarkReported, MarkFails, MarkError, Die, Fault
  <2> QED BY <1>r, <2>1, <2>2
<1>h. \A s : HasItem(s) => HasItem(s)' BY <1>i DEF HasItem
<1>1. CASE e # d
  <2>1. req'[e] = req[e] /\ meter'[e] = meter[e] BY <1>1, OnlyOne DEF Only
  <2> QED BY <2>1, <1>i, <1>h, <1>r DEF Attached
<1>2. CASE e = d
  <2> SUFFICES Attached(d)' BY <1>2
  <2>k. ASSUME req'[d].sub = req[d].sub, meter' = meter, req[d].pc \in BeforeLedger \cup {"spent"},
               req'[d].pc \in BeforeLedger \cup {"spent", "item", "done"}
        PROVE  Attached(d)'
    BY <2>k, <1>r DEF Attached, BeforeLedger
  <2>1. CASE \/ ReadCustomer(d) \/ Ineligible(d) \/ ReadAllowance(d) \/ DecideLane(d)
             \/ DispatchUnbilled(d) \/ Dispatch(d) \/ Settle(d) \/ BumpSpent(d)
    <3>1. meter' = meter /\ req[d].pc \in BeforeLedger \cup {"spent"}
      BY <2>1 DEF ReadCustomer, Ineligible, ReadAllowance, DecideLane, DispatchUnbilled, Dispatch,
         Settle, BumpSpent, BeforeLedger
    <3>2. req'[d].sub = req[d].sub /\ req'[d].pc \in BeforeLedger \cup {"spent", "item", "done"}
      <4>1. CASE ReadCustomer(d)
        <5>1. req'[d].pc = "allowance" BY <4>1, BeganPc
        <5>2. req'[d].sub = req[d].sub BY <4>1, <1>r DEF ReadCustomer, Request
        <5> QED BY <5>1, <5>2 DEF BeforeLedger
      <4>2. CASE ~ReadCustomer(d)
        <5>1. PICK l \in {"done", "cap", "dispatch", "settle", "ledger", "item"} :
                req'[d].pc = l /\ req'[d].sub = req[d].sub
          <6>1. CASE DecideLane(d)
            <7> DEFINE x == LaneReason(d)
            <7>1. PICK l \in {"dispatch", "done"} : req' = [req EXCEPT ![d].reason = x, ![d].pc = l]
              BY <6>1 DEF DecideLane
            <7> HIDE DEF x
            <7>2. req'[d].pc = l /\ req'[d].sub = req[d].sub BY <7>1, <1>r DEF Request
            <7> QED BY <7>2
          <6>2. CASE Settle(d)
            <7> DEFINE x == OverageSlots(d)
            <7>1. PICK l \in {"ledger", "done"} : req' = [req EXCEPT ![d].over = x, ![d].pc = l]
              BY <6>2 DEF Settle
            <7> HIDE DEF x
            <7>2. req'[d].pc = l /\ req'[d].sub = req[d].sub BY <7>1, <1>r DEF Request
            <7> QED BY <7>2
          <6>3. CASE Ineligible(d) \/ DispatchUnbilled(d) \/ BumpSpent(d)
            BY <6>3, <1>r DEF Ineligible, DispatchUnbilled, BumpSpent, Goto, Request
          <6>4. CASE ReadAllowance(d) BY <6>4, <1>r DEF ReadAllowance, Request
          <6>5. CASE Dispatch(d)
            <7>1. PICK n \in 1..MaxSlots, c \in Rates :
                    req' = [req EXCEPT ![d].pc = "settle", ![d].slots = n, ![d].rate = c]
              BY <6>5 DEF Dispatch
            <7>2. req'[d].pc = "settle" /\ req'[d].sub = req[d].sub BY <7>1, <1>r DEF Request
            <7> QED BY <7>2
          <6> QED BY <2>1, <4>2, <6>1, <6>2, <6>3, <6>4, <6>5
        <5> QED BY <5>1 DEF BeforeLedger
      <4> QED BY <4>1, <4>2
    <3> QED BY <2>k, <3>1, <3>2
  <2>2. CASE InsertLedger(d)
    <3>1. req[d].pc = "ledger" /\ meter' = meter /\ \E l \in {"spent", "done"} : Goto(d, l)
      BY <2>2 DEF InsertLedger
    <3>2. req'[d].sub = req[d].sub /\ req'[d].pc \in {"spent", "done"} BY <3>1, <1>r DEF Goto, Request
    <3> QED BY <2>k, <3>1, <3>2 DEF BeforeLedger
  <2>3. CASE SkipItem(d)
    <3>1. req[d].pc = "item" /\ meter' = meter /\ req'[d].pc = "report" /\ req'[d].sub = req[d].sub
      BY <2>3, <1>r DEF SkipItem, Goto, Request
    <3> QED BY <3>1, <1>r DEF Attached, BeforeLedger
  <2>4. CASE RetrieveItem(d)
    <3>0. req[d].pc = "item" /\ meter' = meter /\ items' = items BY <2>4 DEF RetrieveItem
    <3>1. /\ req'[d].pc \in {"create", "report"}
          /\ req'[d].pc = "report" => \E i \in items : i.sub = req'[d].sub
      <4>1. PICK x \in Subscriptions :
              req' = [req EXCEPT ![d].sub = x,
                                 ![d].pc = IF \E i \in items : i.sub = x THEN "report" ELSE "create"]
        BY <2>4 DEF RetrieveItem
      <4>2. PICK l \in {"report", "create"} : /\ req' = [req EXCEPT ![d].sub = x, ![d].pc = l]
                                              /\ l = "report" => \E i \in items : i.sub = x
        BY <4>1
      <4>3. req'[d].pc = l /\ req'[d].sub = x BY <4>2, <1>r DEF Request
      <4> QED BY <4>2, <4>3
    <3>3. meter[d] = 0 BY <3>0, <1>r DEF Attached
    <3> QED BY <3>0, <3>1, <3>3 DEF Attached, BeforeLedger, HasItem
  <2>5. CASE CreateItem(d)
    <3>1. /\ req[d].pc = "create" /\ meter' = meter /\ req'[d].pc = "report" /\ req'[d].sub = req[d].sub
          /\ [sub |-> req[d].sub, key |-> ItemKey(d)] \in items'
      BY <2>5, <1>r DEF CreateItem, Goto, Request
    <3>2. \E i \in items' : i.sub = req'[d].sub BY <3>1
    <3> QED BY <3>1, <3>2, <1>r DEF Attached, BeforeLedger, HasItem
  <2>6. CASE ReportEvent(d)
    <3>1. /\ req[d].pc = "report" /\ items' = items /\ faults' = faults
          /\ req'[d].pc = "mark" /\ req'[d].sub = req[d].sub
      BY <2>6, <1>r DEF ReportEvent, Goto, Request
    <3> QED BY <3>1, <1>r DEF Attached, BeforeLedger, HasItem
  <2>7. CASE MarkReported(d) \/ MarkError(d)
    <3>1. /\ req[d].pc \in {"mark", "error"} /\ items' = items /\ meter' = meter /\ faults' = faults
          /\ req'[d].pc = "done" /\ req'[d].sub = req[d].sub
      BY <2>7, <1>r DEF MarkReported, MarkError, Goto, Request
    <3> QED BY <3>1, <1>r DEF Attached, BeforeLedger, HasItem
  <2>8. CASE Fail(d)
    <3>1. faults' # 0
      <4>1. faults' = faults + 1 BY <2>8 DEF Fail, SettleFails, AttachFails, ReportFails, MarkFails, Die, Fault
      <4> QED BY <4>1, <1>r
    <3>2. PICK l \in {"done", "report", "error", "dead"} : Goto(d, l) /\ (l = "report" => req[d].pc \in {"item", "create"} /\ meter' = meter)
      BY <2>8 DEF Fail, SettleFails, AttachFails, ReportFails, MarkFails, Die
    <3>3. req'[d].pc = l BY <3>2, <1>r DEF Goto, Request
    <3> QED BY <3>1, <3>2, <3>3, <1>r DEF Attached, BeforeLedger
  <2> QED BY <1>2, <2>1, <2>2, <2>3, <2>4, <2>5, <2>6, <2>7, <2>8 DEF Step
<1> QED BY <1>1, <1>2

LEMMA CappedStep ==
  ASSUME TypeOK, TypeOK', Busy', Priced, Capped, NEW d \in Dispatches, Only(d), Turn(d)
  PROVE  Capped'
<1> SUFFICES ASSUME NEW p \in Periods, NEW c \in Rates, Dear(c)
             PROVE  period'[p].spent + Cardinality(Open(p)') * (MaxSlots * c)
                      < CapCents + MaxInFlight * (MaxSlots * c)
  BY DEF Capped, Dear
<1> DEFINE m == MaxSlots * c
           n == Cardinality(Open(p))
           k == Cardinality(Open(p)')
           s == period[p].spent
           t == period'[p].spent
<1>f. IsFiniteSet(Open(p)) BY Finite
<1>g. IsFiniteSet(Open(p)')
  <2>1. Open(p)' \subseteq Dispatches BY DEF Open
  <2> QED BY <2>1, DispatchesAssumption, FS_Subset
<1>n. n \in Nat /\ k \in Nat BY <1>f, <1>g, FS_CardinalityType
<1>s. s \in Nat /\ t \in Nat BY DEF TypeOK, PeriodRow
<1>m. m \in Nat
  <2>1. MaxSlots \in Nat /\ c \in Nat BY PriceAssumption, BoundsAssumption
  <2> QED BY <2>1, Products
<1>b. CapCents \in Nat /\ MaxInFlight \in Nat BY PriceAssumption, BoundsAssumption
<1>o. s + n * m < CapCents + MaxInFlight * m BY DEF Capped
<1>r. req[d].period \in Periods BY DEF TypeOK, Request
<1>1. CASE Admits(d) /\ req[d].period = p
  <2>1. t = s /\ s < CapCents BY <1>1 DEF Admits, Keeps, SpentSame
  <2>2. Open(p)' \subseteq InFlight' BY DEF Open, InFlight
  <2>3. InFlight' \subseteq Dispatches BY DEF InFlight
  <2>4. IsFiniteSet(InFlight') BY <2>3, DispatchesAssumption, FS_Subset
  <2>5. k <= Cardinality(InFlight') /\ Cardinality(InFlight') \in Nat
    BY <2>2, <2>4, FS_Subset, FS_CardinalityType
  <2>6. k <= MaxInFlight BY <1>b, <1>n, <2>5 DEF Busy
  <2> HIDE DEF k, m, s, t, n
  <2>7. k * m <= MaxInFlight * m
    <3>1. k * m <= m * MaxInFlight BY <1>b, <1>m, <1>n, <2>6, Products
    <3>2. m * MaxInFlight = MaxInFlight * m BY <1>b, <1>m
    <3> QED BY <3>1, <3>2
  <2>8. k * m \in Nat /\ MaxInFlight * m \in Nat BY <1>b, <1>m, <1>n, Products
  <2>9. t + k * m < CapCents + MaxInFlight * m BY <1>s, <1>b, <2>1, <2>7, <2>8
  <2> QED BY <2>9 DEF k, m, t
<1>2. CASE Bumps(d) /\ req[d].period = p
  <2>1. d \in Open(p) BY <1>2 DEF Bumps, Open
  <2>2. Open(p)' = Open(p) \ {d} BY <1>2 DEF Bumps, Open, Only
  <2>3. k = n - 1 BY <1>f, <2>1, <2>2, FS_RemoveElement
  <2>4. t = s + ledger[d].cents BY <1>2 DEF Bumps
  <2>5. ledger[d].cents <= m BY <1>2 DEF Bumps, Priced
  <2>6. ledger[d].cents \in Nat BY DEF TypeOK, MeterEvent
  <2> HIDE DEF k, m, s, t, n
  <2>7. k * m + m = n * m BY <1>m, <1>n, <2>3
  <2>8. k * m \in Nat /\ n * m \in Nat /\ MaxInFlight * m \in Nat BY <1>b, <1>m, <1>n, Products
  <2>9. t + k * m < CapCents + MaxInFlight * m
    BY <1>o, <1>s, <1>m, <1>b, <2>4, <2>5, <2>6, <2>7, <2>8
  <2> QED BY <2>9 DEF k, m, t
<1>3. CASE ~(Admits(d) /\ req[d].period = p) /\ ~(Bumps(d) /\ req[d].period = p)
  <2>1. t = s
    BY <1>3 DEF Turn, Enters, Admits, Leaves, Works, Settles, Books, Bumps, Attaches, Reports, Marks, Breaks,
       Keeps, SpentSame
  <2>2. d \in Open(p)' => d \in Open(p)
    BY <1>3 DEF Open, Turn, Enters, Admits, Leaves, Works, Settles, Books, Bumps, Attaches, Reports, Marks, Breaks
  <2>3. Open(p)' \subseteq Open(p) BY <2>2 DEF Open, Only
  <2>4. k <= n BY <1>f, <2>3, FS_Subset
  <2> HIDE DEF k, m, s, t, n
  <2>5. k * m <= n * m
    <3>1. k * m <= m * n BY <1>m, <1>n, <2>4, Products
    <3>2. m * n = n * m BY <1>m, <1>n
    <3> QED BY <3>1, <3>2
  <2>6. k * m \in Nat /\ n * m \in Nat /\ MaxInFlight * m \in Nat BY <1>b, <1>m, <1>n, Products
  <2>7. t + k * m < CapCents + MaxInFlight * m BY <1>o, <1>s, <1>b, <2>1, <2>5, <2>6
  <2> QED BY <2>7 DEF k, m, t
<1> QED BY <1>1, <1>2, <1>3

LEMMA ChargesNat ==
  ASSUME TypeOK
  PROVE  /\ \A e \in Dispatches : Charges[e] = ledger[e].cents /\ Charges[e] \in Nat
         /\ \A S \in SUBSET Dispatches : IsFiniteSet(S) /\ Total(Charges, S) \in Nat
<1>1. \A e \in Dispatches : Charges[e] = ledger[e].cents /\ Charges[e] \in Nat
  BY DEF TypeOK, MeterEvent, Charges
<1>2. ASSUME NEW S \in SUBSET Dispatches PROVE IsFiniteSet(S) /\ Total(Charges, S) \in Nat
  <2>1. IsFiniteSet(S) BY DispatchesAssumption, FS_Subset
  <2>2. \A e \in S : Charges[e] \in Nat BY <1>1
  <2> QED BY <2>1, <2>2, TotalNat
<1> QED BY <1>1, <1>2

\* A row enters the ledger as unspent; the spend takes it over, whole.
LEMMA BalancedStep ==
  ASSUME TypeOK, TypeOK', ReportInv, Priced, Balanced, NEW d \in Dispatches, Only(d), Turn(d)
  PROVE  Balanced'
<1> SUFFICES ASSUME NEW p \in Periods
             PROVE  /\ period'[p].spent + Total(Charges', Unspent(p)') <= Total(Charges', Held(p)')
                    /\ faults' = 0 =>
                         period'[p].spent + Total(Charges', Unspent(p)') = Total(Charges', Held(p)')
  BY DEF Balanced
<1> DEFINE s == period[p].spent     t == period'[p].spent
           f == Charges             g == Charges'
           U == Unspent(p)          V == Unspent(p)'
           H == Held(p)             K == Held(p)'
<1>s. s \in Nat /\ t \in Nat BY DEF TypeOK, PeriodRow
<1>a. faults \in Nat /\ faults' \in Nat BY FaultsAssumption DEF TypeOK
<1>f. /\ \A e \in Dispatches : f[e] = ledger[e].cents /\ f[e] \in Nat
      /\ \A S \in SUBSET Dispatches : IsFiniteSet(S) /\ Total(f, S) \in Nat
  BY ChargesNat
<1>g. \A e \in Dispatches : g[e] = ledger'[e].cents /\ g[e] \in Nat
  BY DEF TypeOK, MeterEvent, Charges
<1>e. \A e \in Dispatches \ {d} : g[e] = f[e] BY <1>f, <1>g DEF Only
<1>u. /\ U \in SUBSET Dispatches /\ V \in SUBSET Dispatches
      /\ H \in SUBSET Dispatches /\ K \in SUBSET Dispatches
  BY DEF Unspent, Held, Rows
<1>v. \A e \in Dispatches : e \in V <=> req'[e].pc = "spent" /\ ledger'[e].period = p BY DEF Unspent
<1>w. \A e \in Dispatches : e \in U <=> req[e].pc = "spent" /\ ledger[e].period = p BY DEF Unspent
<1>h. \A e \in Dispatches : e \in H <=> ledger[e].status # "none" /\ ledger[e].period = p
  BY DEF Held, Rows, TypeOK, MeterEvent
<1>k. \A e \in Dispatches : e \in K <=> ledger'[e].status # "none" /\ ledger'[e].period = p
  BY DEF Held, Rows, TypeOK, MeterEvent
<1>o. s + Total(f, U) <= Total(f, H) /\ (faults = 0 => s + Total(f, U) = Total(f, H)) BY DEF Balanced
<1>r. req[d].period \in Periods BY DEF TypeOK, Request
<1>c. ReportOrder(d) BY DEF ReportInv
<1>q. ASSUME NEW S \in SUBSET Dispatches, \A e \in S : g[e] = f[e] PROVE Total(g, S) = Total(f, S)
  <2>1. IsFiniteSet(S) BY <1>f
  <2> HIDE DEF f, g
  <2> QED BY <1>q, <2>1, TotalSame
<1>m. SUFFICES t + Total(g, V) <= Total(g, K) /\ (faults' = 0 => t + Total(g, V) = Total(g, K))
  OBVIOUS
<1>1. CASE Books(d) /\ req[d].period = p
  <2>1. /\ d \notin H /\ d \notin U /\ faults' = faults /\ t = s
        /\ d \in K /\ d \in V
    BY <1>1, <1>h, <1>k, <1>v, <1>w DEF Books, Quiet, SpentSame
  <2>2. \A e \in Dispatches \ {d} : (e \in K <=> e \in H) /\ (e \in V <=> e \in U)
    BY <1>h, <1>k, <1>v, <1>w DEF Only
  <2> HIDE DEF U, V, H, K, f, g, s, t
  <2>3. K = H \cup {d} /\ V = U \cup {d} BY <1>u, <2>1, <2>2
  <2>4. \A e \in H \cup U : g[e] = f[e] /\ g[e] \in Nat BY <1>e, <1>g, <1>u, <2>1
  <2>5. Total(g, H) = Total(f, H) /\ Total(g, U) = Total(f, U) BY <1>q, <1>u, <2>4
  <2>6. Total(g, K) = g[d] + Total(g, H)
    <3>1. IsFiniteSet(H) /\ g[d] \in Nat /\ \A y \in H : g[y] \in Nat BY <1>f, <1>g, <1>u
    <3> QED BY <2>1, <2>3, <3>1, TotalAdds
  <2>7. Total(g, V) = g[d] + Total(g, U)
    <3>1. IsFiniteSet(U) /\ g[d] \in Nat /\ \A y \in U : g[y] \in Nat BY <1>f, <1>g, <1>u
    <3> QED BY <2>1, <2>3, <3>1, TotalAdds
  <2>8. g[d] \in Nat /\ Total(f, U) \in Nat /\ Total(f, H) \in Nat BY <1>f, <1>g, <1>u
  <2> QED BY <1>o, <1>s, <2>1, <2>5, <2>6, <2>7, <2>8
<1>2. CASE Bumps(d) /\ req[d].period = p
  <2>1. /\ ledger[d].period = p /\ ledger' = ledger /\ faults' = faults
        /\ t = s + ledger[d].cents
        /\ d \in U /\ d \notin V
    BY <1>2, <1>v, <1>w DEF Bumps, Priced, Quiet
  <2>2. \A e \in Dispatches \ {d} : (e \in V <=> e \in U) BY <1>v, <1>w DEF Only
  <2>3. \A e \in Dispatches : (e \in K <=> e \in H) /\ g[e] = f[e] BY <1>f, <1>g, <1>h, <1>k, <2>1
  <2> HIDE DEF U, V, H, K, f, g, s, t
  <2>4. K = H /\ V = U \ {d} BY <1>u, <2>1, <2>2, <2>3
  <2>5. Total(f, U) = f[d] + Total(f, V)
    <3>1. IsFiniteSet(U) /\ \A y \in U : f[y] \in Nat BY <1>f, <1>u
    <3> QED BY <2>1, <2>4, <3>1, TotalTakes
  <2>6. Total(g, K) = Total(f, H) /\ Total(g, V) = Total(f, V) BY <1>q, <1>u, <2>3, <2>4
  <2>7. f[d] = ledger[d].cents /\ f[d] \in Nat /\ Total(f, V) \in Nat /\ Total(f, H) \in Nat BY <1>f, <1>u
  <2> QED BY <1>o, <1>s, <2>1, <2>5, <2>6, <2>7
<1>3. CASE Breaks(d)
  <2>1. ledger' = ledger /\ t = s /\ faults' # 0 /\ d \notin V
    BY <1>3, <1>a, <1>v DEF Breaks, Keeps, SpentSame
  <2>2. \A e \in Dispatches \ {d} : (e \in V <=> e \in U) BY <1>v, <1>w DEF Only
  <2>3. \A e \in Dispatches : (e \in K <=> e \in H) /\ g[e] = f[e] BY <1>f, <1>g, <1>h, <1>k, <2>1
  <2> HIDE DEF U, V, H, K, f, g, s, t
  <2>4. K = H /\ V = U \ {d} BY <1>u, <2>1, <2>2, <2>3
  <2>5. Total(f, V) <= Total(f, U)
    <3>1. CASE d \in U
      <4>1. IsFiniteSet(U) /\ \A y \in U : f[y] \in Nat BY <1>f, <1>u
      <4>2. Total(f, U) = f[d] + Total(f, V) BY <2>4, <3>1, <4>1, TotalTakes
      <4>3. f[d] \in Nat /\ Total(f, V) \in Nat BY <1>f, <1>u
      <4> QED BY <4>2, <4>3
    <3>2. CASE d \notin U
      <4>1. V = U BY <2>4, <3>2
      <4>2. Total(f, V) \in Nat BY <1>f, <1>u
      <4> QED BY <4>1, <4>2
    <3> QED BY <3>1, <3>2
  <2>6. Total(g, K) = Total(f, H) /\ Total(g, V) = Total(f, V) BY <1>q, <1>u, <2>3, <2>4
  <2>7. Total(f, U) \in Nat /\ Total(f, V) \in Nat /\ Total(f, H) \in Nat BY <1>f, <1>u
  <2> QED BY <1>o, <1>s, <2>1, <2>5, <2>6, <2>7
<1>4. CASE ~(Books(d) /\ req[d].period = p) /\ ~(Bumps(d) /\ req[d].period = p) /\ ~Breaks(d)
  <2>1. t = s /\ faults' = faults
    BY <1>4 DEF Turn, Enters, Admits, Leaves, Works, Settles, Books, Bumps, Attaches, Reports, Marks,
       Keeps, SpentSame, Quiet
  <2>2. /\ d \in H <=> d \in K
        /\ d \in H => g[d] = f[d]
    <3>1. CASE Books(d)
      <4>1. ledger[d].status = "none" /\ ledger'[d].period # p BY <1>4, <3>1 DEF Books
      <4> QED BY <1>h, <1>k, <4>1
    <3>2. CASE Marks(d)
      <4>1. ledger[d].status # "none" /\ ledger'[d].status # "none" BY <1>c, <3>2 DEF ReportOrder, Marks
      <4>2. ledger'[d].period = ledger[d].period /\ ledger'[d].cents = ledger[d].cents BY <3>2 DEF Marks
      <4> QED BY <1>f, <1>g, <1>h, <1>k, <4>1, <4>2
    <3>3. CASE ~Books(d) /\ ~Marks(d)
      <4>1. ledger' = ledger
        BY <1>4, <3>3 DEF Turn, Enters, Admits, Leaves, Works, Settles, Bumps, Attaches, Reports, Keeps
      <4> QED BY <1>f, <1>g, <1>h, <1>k, <4>1
    <3> QED BY <3>1, <3>2, <3>3
  <2>3. d \in U <=> d \in V
    <3>1. CASE Books(d)
      <4>1. req[d].pc = "ledger" /\ ledger'[d].period # p BY <1>4, <3>1 DEF Books
      <4> QED BY <1>v, <1>w, <4>1
    <3>2. CASE Bumps(d)
      <4>1. req'[d].pc = "item" /\ ledger[d].period # p BY <1>4, <3>2 DEF Bumps, Priced
      <4> QED BY <1>v, <1>w, <4>1
    <3>3. CASE ~Books(d) /\ ~Bumps(d)
      <4>1. req[d].pc # "spent" /\ req'[d].pc # "spent"
        BY <1>4, <3>3 DEF Turn, Enters, Admits, Leaves, Works, Settles, Attaches, Reports, Marks
      <4> QED BY <1>v, <1>w, <4>1
    <3> QED BY <3>1, <3>2, <3>3
  <2>4. d \in U => d \in H BY <1>c, <1>h, <1>w DEF ReportOrder
  <2>5. \A e \in Dispatches \ {d} : (e \in K <=> e \in H) /\ (e \in V <=> e \in U)
    BY <1>h, <1>k, <1>v, <1>w DEF Only
  <2> HIDE DEF U, V, H, K, f, g, s, t
  <2>6. K = H /\ V = U BY <1>u, <2>2, <2>3, <2>5
  <2>7. \A e \in H \cup U : g[e] = f[e] BY <1>e, <1>u, <2>2, <2>4
  <2>8. Total(g, K) = Total(f, H) /\ Total(g, V) = Total(f, U) BY <1>q, <1>u, <2>6, <2>7
  <2> QED BY <1>o, <2>1, <2>8
<1> QED BY <1>1, <1>2, <1>3, <1>4

MeterInv == Rowed /\ Busy /\ Priced /\ Clean /\ AttachInv /\ Balanced /\ Capped

LEMMA MeterInit == Init => MeterInv
<1> SUFFICES ASSUME Init PROVE MeterInv OBVIOUS
<1>1. /\ \A d \in Dispatches : /\ req[d].pc = "idle" /\ ledger[d].status = "none" /\ meter[d] = 0
                               /\ req[d].period = 1
      /\ \A p \in Periods : ~period[p].open /\ period[p].spent = 0
  BY DEF Init, NoEvent, NoRow
<1>2. /\ InFlight = {}
      /\ \A p : Unspent(p) = {} /\ Held(p) = {} /\ Open(p) = {}
  BY <1>1 DEF InFlight, Unspent, Held, Open, Rows
<1>3. Cardinality({}) = 0 /\ IsFiniteSet({}) BY FS_EmptySet
<1>4. Total(Charges, {}) = 0 BY <1>3, TotalPicks
<1>5. Rowed /\ Priced /\ Clean BY <1>1 DEF Rowed, Priced, Clean
<1>9. AttachInv BY <1>1 DEF Init, AttachInv, Attached
<1>6. Busy BY <1>2, <1>3, BoundsAssumption DEF Busy
<1>7. Balanced BY <1>1, <1>2, <1>4 DEF Balanced
<1>8. Capped
  <2> SUFFICES ASSUME NEW p \in Periods, NEW c \in Rates
               PROVE  0 + 0 * (MaxSlots * c) < CapCents + MaxInFlight * (MaxSlots * c)
    BY <1>1, <1>2, <1>3 DEF Capped
  <2> DEFINE m == MaxSlots * c
             n == MaxInFlight * m
  <2>1. MaxSlots \in Nat /\ 1 <= MaxSlots /\ c \in Nat /\ 1 <= c /\ MaxInFlight \in Nat /\ 1 <= MaxInFlight
    BY PriceAssumption, BoundsAssumption
  <2>2. 1 * 1 <= c * MaxSlots BY <2>1, Products
  <2>3. c * MaxSlots = m BY <2>1
  <2>4. m \in Nat BY <2>1, Products
  <2> HIDE DEF m
  <2>5. 1 * 1 <= m * MaxInFlight BY <2>1, <2>2, <2>3, <2>4, Products
  <2>6. m * MaxInFlight = n BY <2>1, <2>4
  <2>7. n \in Nat BY <2>1, <2>4, Products
  <2> HIDE DEF n
  <2>8. 0 < CapCents + n BY <2>5, <2>6, <2>7, PriceAssumption
  <2> QED BY <2>4, <2>8 DEF m, n
<1> QED BY <1>5, <1>6, <1>7, <1>8, <1>9 DEF MeterInv

LEMMA MeterStep ==
  ASSUME TypeOK, TypeOK', ReportInv, MeterInv, [Next]_vars
  PROVE  MeterInv'
<1>1. Rowed' BY RowedStep DEF MeterInv
<1>2. CASE UNCHANGED vars
  <2>1. UNCHANGED <<period, ledger, meter, items, req, faults>> BY <1>2 DEF vars
  <2>2. /\ UNCHANGED <<InFlight, Charges>>
        /\ \A p : Unspent(p)' = Unspent(p) /\ Held(p)' = Held(p) /\ Open(p)' = Open(p)
    BY <2>1 DEF InFlight, Charges, Unspent, Held, Open, Rows
  <2>3. Busy' /\ Priced' /\ Clean' BY <2>1, <2>2 DEF MeterInv, Busy, Priced, Clean, Dear
  <2>4. Balanced' /\ AttachInv' BY <2>1, <2>2 DEF MeterInv, Balanced, AttachInv, Attached, HasItem
  <2>5. Capped' BY <2>1, <2>2 DEF MeterInv, Capped, Dear
  <2> QED BY <1>1, <2>3, <2>4, <2>5 DEF MeterInv
<1>3. ASSUME NEW d \in Dispatches, Step(d) \/ Fail(d) PROVE MeterInv'
  <2>1. Only(d) BY <1>3, OnlyOne
  <2>2. Turn(d) BY <1>3, StepTurns DEF MeterInv
  <2>3. Busy' BY <2>1, <2>2, BusyStep DEF MeterInv
  <2>4. Priced' BY <2>1, <2>2, PricedStep DEF MeterInv
  <2>5. Clean' BY <2>1, <2>2, CleanStep DEF MeterInv
  <2>6. Balanced' BY <2>1, <2>2, BalancedStep DEF MeterInv
  <2>7. Capped' BY <2>1, <2>2, <2>3, CappedStep DEF MeterInv
  <2>8. AttachInv' BY <1>3, AttachStep DEF MeterInv
  <2> QED BY <1>1, <2>3, <2>4, <2>5, <2>6, <2>7, <2>8 DEF MeterInv
<1> QED BY <1>2, <1>3 DEF Next

LEMMA MeterKept == Spec => [](TypeOK /\ ReportInv /\ MeterInv)
<1>1. TypeOK /\ ReportInv /\ MeterInv /\ [Next]_vars => (TypeOK /\ ReportInv /\ MeterInv)'
  BY TypeStep, ReportStep, MeterStep
<1>2. Init => TypeOK /\ ReportInv /\ MeterInv BY TypeInit, ReportInit, MeterInit
<1> QED BY <1>1, <1>2, PTL DEF Spec

\* With no call failed, what the ledger holds for a period is its spend and the
\* rows about to be added to it, at most one for each request past the cap's check.
THEOREM CapIsBounded == Spec => []CapOvershootBounded
<1>1. TypeOK /\ ReportInv /\ MeterInv => CapOvershootBounded
  <2> SUFFICES ASSUME TypeOK, ReportInv, MeterInv, faults = 0, NEW p \in Periods, NEW c \in Rates,
                      \A k \in Rates : k <= c
               PROVE  LedgerCents({d \in Rows({"pending", "reported"}) : ledger[d].period = p})
                        < Max0(CapCents) + MaxInFlight * MaxSlots * c
    BY DEF CapOvershootBounded
  <2> DEFINE m == MaxSlots * c
             s == period[p].spent
             U == Unspent(p)
             O == Open(p)
             x == Total(Charges, U)
             y == Total(Charges, Held(p))
             n == Cardinality(U)
             k == Cardinality(O)
  <2>1. Dear(c) BY DEF Dear
  <2>2. {d \in Rows({"pending", "reported"}) : ledger[d].period = p} = Held(p)
    BY DEF Held, Rows, MeterInv, Clean
  <2>3. LedgerCents(Held(p)) = y BY DEF LedgerCents, Total
  <2>4. s + x = y BY DEF MeterInv, Balanced
  <2>5. IsFiniteSet(U) /\ IsFiniteSet(O) BY Finite
  <2>6. U \subseteq Dispatches BY DEF Unspent
  <2>7. \A d \in U : Charges[d] \in Nat /\ Charges[d] <= m
    BY <2>1, <2>6, ChargesNat DEF MeterInv, Priced, Unspent
  <2>8. U \subseteq O BY DEF Unspent, Open, MeterInv, Priced
  <2>9. n \in Nat /\ k \in Nat /\ n <= k BY <2>5, <2>8, FS_Subset, FS_CardinalityType
  <2>10. m \in Nat /\ MaxInFlight \in Nat /\ MaxSlots \in Nat /\ c \in Nat /\ CapCents \in Nat
    BY PriceAssumption, BoundsAssumption, Products
  <2>11. x \in Nat BY <2>6, ChargesNat
  <2>12. s + k * m < CapCents + MaxInFlight * m BY <2>1 DEF MeterInv, Capped
  <2>13. s \in Nat BY DEF TypeOK, PeriodRow
  <2>14. MaxInFlight * MaxSlots * c = MaxInFlight * m BY <2>10
  <2>15. Max0(CapCents) = CapCents BY <2>10 DEF Max0
  <2> HIDE DEF m, U
  <2>16. x <= n * m BY <2>5, <2>7, <2>10, TotalBound
  <2> HIDE DEF n, k, s, x, y
  <2>17. n * m <= k * m
    <3>1. m * n <= k * m BY <2>9, <2>10, Products
    <3>2. m * n = n * m BY <2>9, <2>10
    <3> QED BY <3>1, <3>2
  <2>18. n * m \in Nat /\ k * m \in Nat /\ MaxInFlight * m \in Nat BY <2>9, <2>10, Products
  <2>19. y < CapCents + MaxInFlight * m BY <2>4, <2>10, <2>11, <2>12, <2>13, <2>16, <2>17, <2>18
  <2> QED BY <2>2, <2>3, <2>14, <2>15, <2>19
<1> QED BY <1>1, MeterKept, PTL

\* The spend never runs ahead of the ledger and a subscription gets one overage item at
\* most; short of a failed call, the subscription a charge's report found has its item,
\* and once nothing is in flight spend, ledger and Stripe hold the same sums.
THEOREM BooksAreBalanced == Spec => []BooksBalance
<1>1. TypeOK /\ ReportInv /\ MeterInv => BooksBalance
  <2> SUFFICES ASSUME TypeOK, ReportInv, MeterInv PROVE BooksBalance OBVIOUS
  <2> DEFINE Due(p) == LedgerCents({d \in Rows({"pending", "reported", "error"}) : ledger[d].period = p})
             x(p) == Total(Charges, Unspent(p))
  <2>1. \A p \in Periods : /\ Due(p) = Total(Charges, Held(p))
                           /\ Due(p) \in Nat /\ x(p) \in Nat /\ period[p].spent \in Nat
    <3> SUFFICES ASSUME NEW p \in Periods
                 PROVE  /\ Due(p) = Total(Charges, Held(p))
                        /\ Due(p) \in Nat /\ x(p) \in Nat /\ period[p].spent \in Nat
      OBVIOUS
    <3>1. Due(p) = Total(Charges, Held(p)) BY DEF Held, LedgerCents, Total
    <3>2. Held(p) \in SUBSET Dispatches /\ Unspent(p) \in SUBSET Dispatches BY DEF Held, Unspent, Rows
    <3>3. Total(Charges, Held(p)) \in Nat /\ x(p) \in Nat BY <3>2, ChargesNat
    <3>4. period[p].spent \in Nat BY DEF TypeOK, PeriodRow
    <3> HIDE DEF x, Due
    <3> QED BY <3>1, <3>3, <3>4
  <2>2. \A p \in Periods : period[p].spent + x(p) <= Due(p) /\ (faults = 0 => period[p].spent + x(p) = Due(p))
    <3> HIDE DEF Due
    <3> QED BY <2>1 DEF MeterInv, Balanced
  <2>3. \A p \in Periods : period[p].spent <= Due(p)
    <3> HIDE DEF Due, x
    <3> QED BY <2>1, <2>2
  <2>4. ASSUME NEW s \in Subscriptions PROVE Cardinality({i \in items : i.sub = s}) <= 1
    <3> DEFINE one == [sub |-> s, key |-> "subscription:price"]
               S == {i \in items : i.sub = s}
    <3>1. S \subseteq {one} BY DEF TypeOK, ItemKeys, ItemKey
    <3> HIDE DEF S, one
    <3>2. S = {} \/ S = {one} BY <3>1
    <3>3. Cardinality({}) = 0 /\ Cardinality({one}) = 1 BY FS_EmptySet, FS_Singleton
    <3>4. Cardinality(S) <= 1 BY <3>2, <3>3
    <3> QED BY <3>4 DEF S
  <2>5. faults = 0 => \A d \in Dispatches :
          meter[d] > 0 /\ req[d].sub # NoSubscription => \E i \in items : i.sub = req[d].sub
    BY DEF MeterInv, AttachInv, Attached, HasItem
  <2>6. ASSUME faults = 0, InFlight = {} PROVE /\ \A p \in Periods : period[p].spent = Due(p)
                                               /\ StuckCents = 0 /\ Drift = 0
    <3> DEFINE R == Rows({"reported"})
    <3>0. IsFiniteSet({}) /\ Total(Charges, {}) = 0
      <4>1. IsFiniteSet({}) BY FS_EmptySet
      <4> QED BY <4>1, TotalPicks
    <3>1. \A d \in Dispatches : req[d].pc \in {"idle", "done", "dead"} BY <2>6 DEF InFlight
    <3>2. \A d \in Dispatches : ledger[d].status \in {"none", "reported"}
      <4>1. \A d \in Dispatches : ledger[d].status # "error" /\ ledger[d].status # "pending"
        BY <2>6, <3>1 DEF MeterInv, Clean
      <4> QED BY <4>1 DEF TypeOK, MeterEvent
    <3>3. \A p \in Periods : x(p) = 0
      <4>1. \A p : Unspent(p) = {} BY <3>1 DEF Unspent
      <4> QED BY <3>0, <4>1
    <3>4. \A p \in Periods : period[p].spent = Due(p)
      <4> HIDE DEF Due, x
      <4> QED BY <2>1, <2>2, <2>6, <3>3
    <3>5. StuckCents = 0
      <4>1. Rows({"pending", "error"}) = {} BY <3>2 DEF Rows
      <4> QED BY <3>0, <4>1 DEF StuckCents, LedgerCents, Total
    <3>6. R \in SUBSET Dispatches /\ IsFiniteSet(R) /\ Total(Charges, R) \in Nat
      <4>1. R \in SUBSET Dispatches BY DEF Rows
      <4> QED BY <4>1, ChargesNat
    <3>7. \A d \in R : meter[d] = Charges[d] BY <3>6, ChargesNat DEF ReportInv, ReportOrder, Rows
    <3>8. \A d \in Dispatches \ R : meter[d] = 0 BY <3>2 DEF ReportInv, ReportOrder, Rows
    <3>9. \A d \in Dispatches : meter[d] \in Nat BY DEF TypeOK
    <3> HIDE DEF R
    <3>10. Total(meter, Dispatches) = Total(meter, R)
      BY <3>6, <3>8, <3>9, DispatchesAssumption, TotalSkips
    <3>11. Total(meter, R) = Total(Charges, R) BY <3>6, <3>7, TotalSame
    <3>12. Drift = Total(Charges, R) - Total(meter, Dispatches) BY DEF Drift, R, LedgerCents, StripeCents, Total
    <3>13. Drift = 0 BY <3>6, <3>10, <3>11, <3>12
    <3> QED BY <3>4, <3>5, <3>13
  <2> QED BY <2>3, <2>4, <2>5, <2>6 DEF BooksBalance
<1> QED BY <1>1, MeterKept, PTL
=============================================================================
