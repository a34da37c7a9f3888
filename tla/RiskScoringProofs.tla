------------------------- MODULE RiskScoringProofs -------------------------
(***************************************************************************)
(* Proofs about RiskScoring: its types, a score among them being a share   *)
(* of the points there were to earn; and that lost calls add nothing to    *)
(* it.                                                                     *)
(***************************************************************************)
EXTENDS RiskScoring, FiniteSetTheorems, WellFoundedInduction, TLAPS

\* the sum of w over a finite set, one element after the other, as MapThenSumSet adds them
Pick(s) == CHOOSE x \in s : TRUE
Adds(g, w, s) == IF s = {} THEN 0 ELSE w[Pick(s)] + g[s \ {Pick(s)}]
Sums(g, w, S) == g = [s \in SUBSET S |-> Adds(g, w, s)]
Total(w, S) == (CHOOSE g : Sums(g, w, S))[S]

\* A set of parts of a finite set has a smallest one: induction over the parts of a set.
LEMMA SmallestPart ==
    ASSUME NEW S, IsFiniteSet(S), NEW Bad, Bad \subseteq SUBSET S, Bad # {}
    PROVE  \E T \in Bad : \A U \in Bad : U \subseteq T => U = T
<1>1. IsWellFoundedOn(StrictSubsetOrdering(S), SUBSET S)
  BY FS_StrictSubsetOrderingWellFounded, FS_FiniteSubsetsOfFinite
<1>2. \E T \in Bad : \A U \in Bad : ~(<<U, T>> \in StrictSubsetOrdering(S))
  BY <1>1, WFMin
<1>. QED
  BY <1>2 DEF StrictSubsetOrdering

\* The element a set that is not empty is summed by first.
LEMMA Picked ==
    ASSUME NEW s, s # {}
    PROVE  Pick(s) \in s
BY DEF Pick

\* Two sums of the same terms agree on the sets they share.
LEMMA SumsAgree ==
    ASSUME NEW S, IsFiniteSet(S), NEW T \in SUBSET S, NEW w, NEW g, NEW h,
           Sums(g, w, S), Sums(h, w, T)
    PROVE  \A s \in SUBSET T : g[s] = h[s]
<1>. DEFINE Bad == {s \in SUBSET T : g[s] # h[s]}
<1>. SUFFICES ASSUME Bad # {} PROVE FALSE
  OBVIOUS
<1>1. PICK s \in Bad : \A u \in Bad : u \subseteq s => u = s
  <2>1. Bad \subseteq SUBSET S
    OBVIOUS
  <2>. HIDE DEF Bad
  <2>. QED
    BY <2>1, SmallestPart
<1>2. g[s] = Adds(g, w, s) /\ h[s] = Adds(h, w, s)
  BY DEF Sums
<1>3. s # {} => g[s \ {Pick(s)}] = h[s \ {Pick(s)}]
  BY <1>1, Picked
<1>. QED
  BY <1>2, <1>3 DEF Adds

\* A finite set's terms can be summed.
LEMMA SumsThere ==
    ASSUME NEW S, IsFiniteSet(S), NEW w
    PROVE  \E g : Sums(g, w, S)
<1>. DEFINE Bad == {T \in SUBSET S : ~\E g : Sums(g, w, T)}
<1>. SUFFICES ASSUME Bad # {} PROVE FALSE
  OBVIOUS
<1>1. PICK T \in Bad : \A U \in Bad : U \subseteq T => U = T
  <2>1. Bad \subseteq SUBSET S
    OBVIOUS
  <2>. HIDE DEF Bad
  <2>. QED
    BY <2>1, SmallestPart
<1>. DEFINE g == [s \in SUBSET T |-> IF s = {} THEN 0
                                     ELSE w[Pick(s)] + Total(w, s \ {Pick(s)})]
<1>2. ASSUME NEW U \in SUBSET T, U # T
      PROVE  Sums(CHOOSE h : Sums(h, w, U), w, U)
  BY <1>1, <1>2
<1>3. ASSUME NEW U \in SUBSET T, U # T, U # {}
      PROVE  Total(w, U) = w[Pick(U)] + Total(w, U \ {Pick(U)})
  <2>. DEFINE V == U \ {Pick(U)}
              h == CHOOSE h : Sums(h, w, U)
              k == CHOOSE k : Sums(k, w, V)
  <2>1. V \in SUBSET U /\ V \in SUBSET T /\ V # T /\ IsFiniteSet(U)
    BY <1>3, FS_Subset
  <2>2. Sums(h, w, U) /\ Sums(k, w, V)
    BY <1>2, <1>3, <2>1
  <2>3. h[V] = k[V]
    BY <2>1, <2>2, SumsAgree
  <2>4. h[U] = w[Pick(U)] + h[V]
    BY <1>3, <2>2 DEF Sums, Adds
  <2>. QED
    BY <2>3, <2>4 DEF Total
<1>4. ASSUME NEW U \in SUBSET T, U # T
      PROVE  g[U] = Total(w, U)
  <2>1. CASE U = {}
    <3>. DEFINE h == CHOOSE h : Sums(h, w, U)
    <3>1. Sums(h, w, U)
      BY <1>2, <1>4
    <3>. HIDE DEF h
    <3>2. h[U] = 0
      BY <2>1, <3>1 DEF Sums, Adds
    <3>. QED
      BY <2>1, <3>2 DEF Total, h
  <2>2. CASE U # {}
    BY <1>3, <1>4, <2>2
  <2>. QED
    BY <2>1, <2>2
<1>5. ASSUME NEW s \in SUBSET T
      PROVE  g[s] = Adds(g, w, s)
  <2>1. CASE s = {}
    BY <2>1 DEF Adds
  <2>2. CASE s # {}
    <3>1. s \ {Pick(s)} \in SUBSET T /\ s \ {Pick(s)} # T
      BY <2>2, Picked
    <3>2. g[s \ {Pick(s)}] = Total(w, s \ {Pick(s)})
      BY <1>4, <3>1
    <3>. QED
      BY <2>2, <3>2 DEF Adds
  <2>. QED
    BY <2>1, <2>2
<1>6. Sums(g, w, T)
  <2>. HIDE DEF g
  <2>1. g = [s \in SUBSET T |-> g[s]]
    BY DEF g
  <2>. QED
    BY <1>5, <2>1 DEF Sums
<1>. QED
  BY <1>6

\* The sum of a set is a number, and the term of any of its elements more than the sum of the
\* rest.
LEMMA TotalOfRest ==
    ASSUME NEW S, IsFiniteSet(S), NEW w
    PROVE  /\ Total(w, {}) = 0
           /\ S # {} => Total(w, S) = w[Pick(S)] + Total(w, S \ {Pick(S)})
<1>. DEFINE G(T) == CHOOSE g : Sums(g, w, T)
<1>1. Sums(G({}), w, {}) /\ Sums(G(S), w, S) /\ Sums(G(S \ {Pick(S)}), w, S \ {Pick(S)})
  BY SumsThere, FS_Subset, FS_EmptySet
<1>2. Total(w, {}) = 0
  BY <1>1 DEF Total, Sums, Adds
<1>3. G(S)[S \ {Pick(S)}] = Total(w, S \ {Pick(S)})
  BY <1>1, SumsAgree DEF Total
<1>4. G(S)[S] = Adds(G(S), w, S)
  BY <1>1 DEF Sums
<1>. QED
  BY <1>2, <1>3, <1>4 DEF Total, Adds

\* The sum of numbers is a number.
LEMMA TotalNat ==
    ASSUME NEW S, IsFiniteSet(S), NEW w, \A x \in S : w[x] \in Nat
    PROVE  \A T \in SUBSET S : Total(w, T) \in Nat
<1>. DEFINE Bad == {T \in SUBSET S : Total(w, T) \notin Nat}
<1>. SUFFICES ASSUME Bad # {} PROVE FALSE
  OBVIOUS
<1>1. PICK T \in Bad : \A U \in Bad : U \subseteq T => U = T
  <2>1. Bad \subseteq SUBSET S
    OBVIOUS
  <2>. HIDE DEF Bad
  <2>. QED
    BY <2>1, SmallestPart
<1>2. IsFiniteSet(T)
  BY FS_Subset
<1>3. CASE T = {}
  <2>1. Total(w, {}) = 0
    BY <1>2, <1>3, TotalOfRest
  <2>. QED
    BY <1>3, <2>1
<1>4. CASE T # {}
  <2>1. Pick(T) \in T
    BY <1>4, Picked
  <2>2. Total(w, T \ {Pick(T)}) \in Nat
    BY <1>1, <2>1
  <2>3. Total(w, T) = w[Pick(T)] + Total(w, T \ {Pick(T)})
    BY <1>2, <1>4, TotalOfRest
  <2>4. w[Pick(T)] \in Nat
    BY <2>1
  <2>. QED
    BY <2>2, <2>3, <2>4
<1>. QED
  BY <1>3, <1>4

\* It does not depend on which of its terms is added last.
LEMMA TotalOfEach ==
    ASSUME NEW S, IsFiniteSet(S), NEW w, \A x \in S : w[x] \in Nat
    PROVE  \A T \in SUBSET S : \A x \in T : Total(w, T) = w[x] + Total(w, T \ {x})
<1>. DEFINE Bad == {T \in SUBSET S : \E x \in T : Total(w, T) # w[x] + Total(w, T \ {x})}
<1>. SUFFICES ASSUME Bad # {} PROVE FALSE
  OBVIOUS
<1>1. PICK T \in Bad : \A U \in Bad : U \subseteq T => U = T
  <2>1. Bad \subseteq SUBSET S
    OBVIOUS
  <2>. HIDE DEF Bad
  <2>. QED
    BY <2>1, SmallestPart
<1>2. PICK x \in T : Total(w, T) # w[x] + Total(w, T \ {x})
  OBVIOUS
<1>. DEFINE p == Pick(T)
            rest == T \ {p, x}
<1>3. p \in T /\ IsFiniteSet(T) /\ Total(w, T) = w[p] + Total(w, T \ {p})
  BY <1>2, Picked, FS_Subset, TotalOfRest
<1>. HIDE DEF p
<1>4. p # x
  BY <1>2, <1>3
<1>5. Total(w, T \ {p}) = w[x] + Total(w, rest)
  <2>1. T \ {p} \notin Bad /\ x \in T \ {p} /\ (T \ {p}) \ {x} = rest
    BY <1>1, <1>3, <1>4
  <2>. QED
    BY <2>1
<1>6. Total(w, T \ {x}) = w[p] + Total(w, rest)
  <2>1. T \ {x} \notin Bad /\ p \in T \ {x} /\ (T \ {x}) \ {p} = rest
    BY <1>1, <1>3, <1>4
  <2>. QED
    BY <2>1
<1>7. w[x] \in Nat /\ w[p] \in Nat /\ Total(w, rest) \in Nat
  BY <1>3, TotalNat
<1>. QED
  BY <1>2, <1>3, <1>5, <1>6, <1>7

\* It grows with its terms.
LEMMA TotalOfMore ==
    ASSUME NEW S, IsFiniteSet(S), NEW w, NEW v,
           \A x \in S : w[x] \in Nat /\ v[x] \in Nat /\ w[x] <= v[x]
    PROVE  \A T \in SUBSET S : Total(w, T) <= Total(v, T)
<1>. DEFINE Bad == {T \in SUBSET S : ~(Total(w, T) <= Total(v, T))}
<1>. SUFFICES ASSUME Bad # {} PROVE FALSE
  OBVIOUS
<1>1. PICK T \in Bad : \A U \in Bad : U \subseteq T => U = T
  <2>1. Bad \subseteq SUBSET S
    OBVIOUS
  <2>. HIDE DEF Bad
  <2>. QED
    BY <2>1, SmallestPart
<1>2. IsFiniteSet(T)
  BY FS_Subset
<1>3. CASE T = {}
  BY <1>2, <1>3, TotalOfRest
<1>4. CASE T # {}
  <2>. DEFINE p == Pick(T)
              U == T \ {p}
  <2>1. p \in T /\ w[p] \in Nat /\ v[p] \in Nat /\ w[p] <= v[p]
    BY <1>4, Picked
  <2>2. Total(w, T) = w[p] + Total(w, U) /\ Total(v, T) = v[p] + Total(v, U)
    BY <1>2, <1>4, TotalOfRest
  <2>3. Total(w, U) <= Total(v, U)
    BY <1>1, <2>1
  <2>4. Total(w, U) \in Nat /\ Total(v, U) \in Nat
    BY TotalNat
  <2>. QED
    BY <2>1, <2>2, <2>3, <2>4
<1>. QED
  BY <1>3, <1>4

\* It grows with its set.
LEMMA TotalOfPart ==
    ASSUME NEW S, IsFiniteSet(S), NEW w, \A x \in S : w[x] \in Nat, NEW A \in SUBSET S
    PROVE  \A T \in SUBSET S : A \subseteq T => Total(w, A) <= Total(w, T)
<1>. DEFINE Bad == {T \in SUBSET S : A \subseteq T /\ ~(Total(w, A) <= Total(w, T))}
<1>. SUFFICES ASSUME Bad # {} PROVE FALSE
  OBVIOUS
<1>1. PICK T \in Bad : \A U \in Bad : U \subseteq T => U = T
  <2>1. Bad \subseteq SUBSET S
    OBVIOUS
  <2>. HIDE DEF Bad
  <2>. QED
    BY <2>1, SmallestPart
<1>2. Total(w, A) \in Nat /\ A # T
  <2>1. Total(w, A) \in Nat
    BY TotalNat
  <2>. QED
    BY <2>1
<1>3. PICK x \in T : x \notin A
  BY <1>2
<1>4. Total(w, A) <= Total(w, T \ {x})
  BY <1>1, <1>3
<1>5. Total(w, T) = w[x] + Total(w, T \ {x}) /\ w[x] \in Nat /\ Total(w, T \ {x}) \in Nat
  BY TotalNat, TotalOfEach
<1>. QED
  BY <1>2, <1>4, <1>5

---------------------------------------------------------------------------
\* The smaller of two numbers is one of them.
LEMMA SmallerOfTwo ==
    ASSUME NEW a \in Nat, NEW b \in Nat
    PROVE  Min({a, b}) = IF a <= b THEN a ELSE b
<1>1. \E x \in {a, b} : \A y \in {a, b} : x <= y
  OBVIOUS
<1>2. Min({a, b}) \in {a, b} /\ \A y \in {a, b} : Min({a, b}) <= y
  BY <1>1 DEF Min
<1>. QED
  BY <1>2

\* Division keeps the order.
LEMMA DivisionKeeps ==
    ASSUME NEW a \in Nat, NEW b \in Nat, NEW c \in Nat, c > 0, a <= b
    PROVE  a \div c \in Nat /\ a \div c <= b \div c
OBVIOUS

\* A share is at most the whole.
LEMMA ShareOfWhole ==
    ASSUME NEW earned \in Nat, NEW over \in Nat, over > 0, earned <= over
    PROVE  (20000 * earned + over) \div (2 * over) <= 10000
OBVIOUS

\* A rule of the catalogue.
LEMMA RuleTyped ==
    ASSUME NEW r \in DOMAIN Catalogue
    PROVE  /\ Catalogue[r] \in RuleRecords
           /\ Catalogue[r].max \in Nat /\ Catalogue[r].extra \in Nat
           /\ Catalogue[r].dimension \in Dimensions
           /\ Catalogue[r].strategy \in {"numeric", "additive", "match"}
<1>1. Catalogue[r] \in RuleRecords
  BY CatalogueType
<1>. QED
  BY <1>1 DEF RuleRecords

\* What the list it goes by holds.
LEMMA ListTyped ==
    ASSUME NEW r \in DOMAIN Catalogue, NEW bare \in BOOLEAN
    PROVE  LET list == ListOf(Catalogue[r], bare)
           IN  /\ list.steps \subseteq [at : Nat, points : Nat] /\ IsFiniteSet(list.steps)
               /\ list.named \subseteq [when : Conditions, points : Nat] /\ IsFiniteSet(list.named)
<1>. DEFINE list == ListOf(Catalogue[r], bare)
<1>1. list \in {Catalogue[r].own, Catalogue[r].inline}
  BY DEF ListOf
<1>2. Catalogue[r].own \in Thresholds /\ Catalogue[r].inline \in Thresholds
  BY RuleTyped DEF RuleRecords
<1>3. IsFiniteSet(list.steps) /\ IsFiniteSet(list.named)
  BY <1>1, CatalogueType
<1>4. list \in Thresholds
  BY <1>1, <1>2
<1>. HIDE DEF list
<1>5. /\ list.steps \subseteq [at : Nat, points : Nat]
      /\ list.named \subseteq [when : Conditions, points : Nat]
  BY <1>4 DEF Thresholds
<1>. QED
  BY <1>3, <1>5 DEF list

\* Of the elements of a finite set that are given numbers, one is given the highest.
LEMMA HighestOf ==
    ASSUME NEW S, IsFiniteSet(S), NEW v, \A x \in S : v[x] \in Nat
    PROVE  \A T \in SUBSET S : T # {} => \E s \in T : \A t \in T : v[t] <= v[s]
<1>. DEFINE Bad == {T \in SUBSET S : T # {} /\ ~\E s \in T : \A t \in T : v[t] <= v[s]}
<1>. SUFFICES ASSUME Bad # {} PROVE FALSE
  OBVIOUS
<1>1. PICK T \in Bad : \A U \in Bad : U \subseteq T => U = T
  <2>1. Bad \subseteq SUBSET S
    OBVIOUS
  <2>. HIDE DEF Bad
  <2>. QED
    BY <2>1, SmallestPart
<1>2. \A t \in T : v[t] \in Nat
  OBVIOUS
<1>3. PICK x \in T : TRUE
  OBVIOUS
<1>4. CASE T \ {x} = {}
  BY <1>2, <1>3, <1>4
<1>5. CASE T \ {x} # {}
  <2>1. PICK s \in T \ {x} : \A t \in T \ {x} : v[t] <= v[s]
    <3>1. T \ {x} \in SUBSET S /\ T \ {x} \subseteq T /\ T \ {x} # T
      BY <1>3
    <3>2. T \ {x} \notin Bad
      BY <1>1, <3>1
    <3>. QED
      BY <1>5, <3>1, <3>2
  <2>2. CASE v[x] <= v[s]
    BY <2>1, <2>2
  <2>3. CASE ~(v[x] <= v[s])
    <3>1. \A t \in T : v[t] <= v[x]
      BY <1>2, <1>3, <2>1, <2>3
    <3>. QED
      BY <1>3, <3>1
  <2>. QED
    BY <2>2, <2>3
<1>. QED
  BY <1>4, <1>5

\* The step a value is given the points of.
Chosen(r, bare, facts) ==
    CHOOSE s \in Reached(Catalogue[r], bare, facts) :
        \A t \in Reached(Catalogue[r], bare, facts) : t.at <= s.at

\* It is one the value reaches.
LEMMA ChosenIsReached ==
    ASSUME NEW r \in DOMAIN Catalogue, NEW bare \in BOOLEAN, NEW facts,
           Reached(Catalogue[r], bare, facts) # {}
    PROVE  Chosen(r, bare, facts) \in Reached(Catalogue[r], bare, facts)
<1>. DEFINE S == ListOf(Catalogue[r], bare).steps
            T == Reached(Catalogue[r], bare, facts)
            v == [s \in S |-> s.at]
<1>1. IsFiniteSet(S) /\ (\A x \in S : v[x] \in Nat) /\ T \in SUBSET S
  BY ListTyped DEF Reached
<1>2. \A x \in S : v[x] = x.at
  OBVIOUS
<1>. HIDE DEF S, T, v
<1>3. \E s \in T : \A t \in T : v[t] <= v[s]
  <2>1. T # {}
    BY DEF T
  <2>. QED
    BY <1>1, <2>1, HighestOf
<1>4. \E s \in T : \A t \in T : t.at <= s.at
  BY <1>1, <1>2, <1>3
<1>. QED
  BY <1>4 DEF Chosen, T

\* The most that the steps a value reaches pay is a number, and none of them pays more.
LEMMA MostOfSteps ==
    ASSUME NEW r \in DOMAIN Catalogue, NEW bare \in BOOLEAN, NEW facts
    PROVE  /\ MostReached(Catalogue[r], bare, facts) \in Nat
           /\ \A s \in Reached(Catalogue[r], bare, facts) :
                 s.points <= MostReached(Catalogue[r], bare, facts)
<1>. DEFINE S == ListOf(Catalogue[r], bare).steps
            T == Reached(Catalogue[r], bare, facts)
            v == [s \in S |-> s.points]
            P == {0} \cup {s.points : s \in T}
            most == MostReached(Catalogue[r], bare, facts)
<1>1. IsFiniteSet(S) /\ (\A x \in S : v[x] \in Nat /\ v[x] = x.points) /\ T \in SUBSET S
  BY ListTyped DEF Reached
<1>2. most = Max(P)
  BY DEF MostReached
<1>. HIDE DEF S, T, v, most
<1>3. P \subseteq Nat /\ \A s \in T : s.points \in P
  BY <1>1
<1>4. \E x \in P : \A y \in P : x >= y
  <2>1. CASE T = {}
    BY <2>1
  <2>2. CASE T # {}
    <3>1. PICK s \in T : \A t \in T : v[t] <= v[s]
      BY <1>1, <2>2, HighestOf
    <3>2. s.points \in P /\ \A y \in P : s.points >= y
      BY <1>1, <3>1
    <3>. QED
      BY <3>2
  <2>. QED
    BY <2>1, <2>2
<1>. HIDE DEF P
<1>5. most \in P /\ \A y \in P : most >= y
  BY <1>2, <1>4 DEF Max
<1>6. most \in Nat /\ \A s \in T : s.points <= most
  BY <1>3, <1>5
<1>. QED
  BY <1>6 DEF most, T

\* Facts of which none weighs more than in others: the amounts come together or not at all.
Lower(f, g) ==
    /\ f.subject_history <= g.subject_history /\ f.primary <= g.primary
    /\ \/ f.financial_exposure = 0 /\ f.ordered = 0
       \/ f.financial_exposure = g.financial_exposure /\ f.ordered = g.ordered
    /\ f.similar_case_volume <= g.similar_case_volume
    /\ f.open => g.open
    /\ f.holds \subseteq g.holds

\* The parts of a context.
LEMMA FactsTyped ==
    ASSUME NEW f \in Facts
    PROVE  /\ f.subject_history \in Nat /\ f.primary \in Nat /\ f.financial_exposure \in Nat
           /\ f.ordered \in Nat /\ f.similar_case_volume \in Nat /\ f.allegation_severity = 0
           /\ f.open \in BOOLEAN /\ f.holds \subseteq Conditions
           /\ \A d \in Dimensions : f[d] \in Nat
BY DEF Facts, Dimensions

\* A lower value is given no more points than the most a higher one reaches.
LEMMA StepsLower ==
    ASSUME NEW r \in DOMAIN Catalogue, NEW bare \in BOOLEAN, NEW f \in Facts, NEW g \in Facts
    PROVE  /\ StepPoints(Catalogue[r], bare, f) \in Nat
           /\ MostReached(Catalogue[r], bare, g) \in Nat
           /\ Lower(f, g) =>
                 StepPoints(Catalogue[r], bare, f) <= MostReached(Catalogue[r], bare, g)
<1>. DEFINE rule == Catalogue[r]
            S == ListOf(rule, bare).steps
            points == StepPoints(rule, bare, f)
            most == MostReached(rule, bare, g)
<1>1. points = IF Reached(rule, bare, f) = {} THEN 0 ELSE Chosen(r, bare, f).points
  BY DEF StepPoints, Chosen
<1>2. /\ Reached(rule, bare, f) \subseteq S
      /\ \A s \in S : s.at \in Nat /\ s.points \in Nat
      /\ rule.dimension \in Dimensions
  BY ListTyped, RuleTyped DEF Reached
<1>3. most \in Nat /\ \A s \in Reached(rule, bare, g) : s.points <= most
  BY MostOfSteps
<1>4. Lower(f, g) => Reached(rule, bare, f) \subseteq Reached(rule, bare, g)
  <2>1. ASSUME Lower(f, g)
        PROVE  /\ f[rule.dimension] <= g[rule.dimension]
               /\ f[rule.dimension] \in Nat /\ g[rule.dimension] \in Nat
    BY <1>2, <2>1, FactsTyped DEF Lower, Dimensions
  <2>. QED
    BY <1>2, <2>1 DEF Reached
<1>5. CASE Reached(rule, bare, f) = {}
  <2>1. points = 0
    BY <1>1, <1>5
  <2>. HIDE DEF points, most
  <2>2. points \in Nat /\ points <= most
    BY <1>3, <2>1
  <2>. QED
    BY <1>3, <2>2 DEF points, most
<1>6. CASE Reached(rule, bare, f) # {}
  <2>. DEFINE s == Chosen(r, bare, f)
  <2>1. s \in Reached(rule, bare, f) /\ points = s.points
    BY <1>1, <1>6, ChosenIsReached
  <2>. HIDE DEF s, rule, S, points, most
  <2>2. points \in Nat /\ (Lower(f, g) => points <= most)
    BY <1>2, <1>3, <1>4, <2>1
  <2>. QED
    BY <1>3, <2>2 DEF points, most, rule
<1>. QED
  BY <1>5, <1>6

\* Nor is a bonus more easily had.
LEMMA BonusLower ==
    ASSUME NEW r \in DOMAIN Catalogue, NEW f \in Facts, NEW g \in Facts
    PROVE  /\ Bonus(Catalogue[r], f) \in Nat
           /\ Lower(f, g) => Bonus(Catalogue[r], f) <= Bonus(Catalogue[r], g)
BY RuleTyped, FactsTyped DEF Bonus, Lower

\* Nor do fewer conditions earn more.
LEMMA NamedLower ==
    ASSUME NEW r \in DOMAIN Catalogue, NEW bare \in BOOLEAN, NEW f \in Facts, NEW g \in Facts
    PROVE  LET N(h) == MapThenSumSet(LAMBDA c : c.points,
                                     {c \in ListOf(Catalogue[r], bare).named : c.when \in h.holds})
           IN  N(f) \in Nat /\ (Lower(f, g) => N(f) <= N(g))
<1>. DEFINE S == ListOf(Catalogue[r], bare).named
            w == [c \in S |-> c.points]
            T(h) == {c \in S : c.when \in h.holds}
            N(h) == MapThenSumSet(LAMBDA c : c.points, T(h))
<1>1. IsFiniteSet(S) /\ \A c \in S : w[c] \in Nat
  BY ListTyped
<1>2. ASSUME NEW A \in SUBSET S
      PROVE  MapThenSumSet(LAMBDA c : c.points, A) = Total(w, A)
  BY <1>2, ZenonT(60) DEF MapThenSumSet, MapThenFoldSet, Total, Sums, Adds, Pick
<1>3. T(f) \in SUBSET S /\ T(g) \in SUBSET S
  OBVIOUS
<1>4. N(f) = Total(w, T(f)) /\ N(g) = Total(w, T(g))
  BY <1>2, <1>3
<1>5. Lower(f, g) => T(f) \subseteq T(g)
  BY DEF Lower
<1>. HIDE DEF S, w, T
<1>6. Total(w, T(f)) \in Nat
  BY <1>1, <1>3, TotalNat
<1>7. Lower(f, g) => Total(w, T(f)) <= Total(w, T(g))
  BY <1>1, <1>3, <1>5, TotalOfPart
<1>. QED
  BY <1>4, <1>6, <1>7 DEF T, S

\* A rule's points are a number, and where less is known no more than its steps could pay for
\* more, or than its conditions do.
LEMMA PointsLower ==
    ASSUME NEW r \in DOMAIN Catalogue, NEW types, NEW bare \in BOOLEAN,
           NEW f \in Facts, NEW g \in Facts
    PROVE  LET rule == Catalogue[r]
               most == IF rule.strategy = "numeric"
                       THEN MostReached(rule, bare, g) + Bonus(rule, g)
                       ELSE Points(rule, bare, types, g)
           IN  /\ Points(rule, bare, types, f) \in Nat /\ most \in Nat
               /\ Lower(f, g) => Points(rule, bare, types, f) <= most
<1>. DEFINE rule == Catalogue[r]
            P == Points(rule, bare, types, f)
            Q == IF rule.strategy = "numeric" THEN MostReached(rule, bare, g) + Bonus(rule, g)
                 ELSE Points(rule, bare, types, g)
<1>1. rule.max \in Nat /\ rule.strategy \in {"numeric", "additive", "match"}
  BY RuleTyped
<1>2. CASE rule.strategy = "numeric"
  <2>. DEFINE p == StepPoints(rule, bare, f)
              q == MostReached(rule, bare, g)
              b == Bonus(rule, f)
              c == Bonus(rule, g)
  <2>1. /\ p \in Nat /\ q \in Nat /\ b \in Nat /\ c \in Nat
        /\ Lower(f, g) => (p <= q /\ b <= c)
    BY StepsLower, BonusLower
  <2>2. P = p + b /\ Q = q + c
    BY <1>2 DEF Points
  <2>. HIDE DEF rule, p, q, b, c, P, Q
  <2>3. P \in Nat /\ Q \in Nat /\ (Lower(f, g) => P <= Q)
    BY <2>1, <2>2
  <2>. QED
    BY <2>3 DEF P, Q, rule
<1>3. CASE rule.strategy = "additive"
  <2>. DEFINE N(h) == MapThenSumSet(LAMBDA c : c.points,
                                    {c \in ListOf(rule, bare).named : c.when \in h.holds})
              p == N(f)
              q == N(g)
  <2>1. p \in Nat /\ q \in Nat /\ (Lower(f, g) => p <= q)
    <3>1. p \in Nat /\ (Lower(f, g) => p <= q)
      BY NamedLower
    <3>2. q \in Nat
      BY NamedLower
    <3>. HIDE DEF p, q
    <3>. QED
      BY <3>1, <3>2
  <2>2. P = p /\ Q = q
    BY <1>3 DEF Points
  <2>. HIDE DEF N, rule, p, q, P, Q
  <2>3. P \in Nat /\ Q \in Nat /\ (Lower(f, g) => P <= Q)
    BY <2>1, <2>2
  <2>. QED
    BY <2>3 DEF P, Q, rule
<1>4. CASE rule.strategy = "match"
  <2>1. P = Q /\ P \in Nat
    BY <1>1, <1>4 DEF Points
  <2>. HIDE DEF P, Q
  <2>2. P \in Nat /\ Q \in Nat /\ P <= Q
    BY <2>1
  <2>. QED
    BY <2>2 DEF P, Q
<1>. QED
  BY <1>1, <1>2, <1>3, <1>4

\* A rule weighs a number, no more than its maximum; the most it could weigh is one too, and
\* no less where more is known.
LEMMA WeightLower ==
    ASSUME NEW r \in DOMAIN Catalogue, NEW types, NEW bare \in BOOLEAN,
           NEW f \in Facts, NEW g \in Facts
    PROVE  /\ Weight(Catalogue[r], bare, types, f) \in Nat
           /\ Weight(Catalogue[r], bare, types, f) <= Catalogue[r].max
           /\ Ceiling(Catalogue[r], bare, types, g) \in Nat
           /\ Ceiling(Catalogue[r], bare, types, g) <= Catalogue[r].max
           /\ Lower(f, g) =>
                Weight(Catalogue[r], bare, types, f) <= Ceiling(Catalogue[r], bare, types, g)
<1>. DEFINE rule == Catalogue[r]
            P == Points(rule, bare, types, f)
            Q == IF rule.strategy = "numeric" THEN MostReached(rule, bare, g) + Bonus(rule, g)
                 ELSE Points(rule, bare, types, g)
            v == Weight(rule, bare, types, f)
            w == Ceiling(rule, bare, types, g)
            m == rule.max
<1>1. m \in Nat
  BY RuleTyped
<1>2. P \in Nat /\ Q \in Nat /\ (Lower(f, g) => P <= Q)
  BY PointsLower
<1>3. v = (IF P <= m THEN P ELSE m) /\ w = (IF m <= Q THEN m ELSE Q)
  <2>1. v = Min({P, m}) /\ w = Min({m, Q})
    BY DEF Weight, Ceiling
  <2>. HIDE DEF rule, P, Q, v, w, m
  <2>. QED
    BY <1>1, <1>2, <2>1, SmallerOfTwo
<1>4. v \in Nat /\ v <= m /\ w \in Nat /\ w <= m /\ (Lower(f, g) => v <= w)
  <2>. HIDE DEF P, Q, v, w, m
  <2>. QED
    BY <1>1, <1>2, <1>3
<1>. QED
  BY <1>4 DEF v, w, m, rule

\* The rules a score counts, and what they could earn.
Counted(rules, types) == {r \in rules : Applies(Catalogue[r], types)}
Most == [r \in DOMAIN Catalogue |-> Catalogue[r].max]
Share(earned, most) ==
    LET over == IF most > 0 THEN most ELSE 100 IN (20000 * earned + over) \div (2 * over)

LEMMA RatedIsShare ==
    ASSUME NEW rules \in SUBSET DOMAIN Catalogue, NEW types, NEW weights
    PROVE  Rated(rules, types, weights) =
              Share(Total(weights, Counted(rules, types)), Total(Most, Counted(rules, types)))
<1>. DEFINE S == Counted(rules, types)
<1>1. S \in SUBSET DOMAIN Catalogue
  BY DEF Counted
<1>2. MapThenSumSet(LAMBDA r : weights[r], S) = Total(weights, S)
  <2>. HIDE DEF S
  <2>. QED
    BY DEF MapThenSumSet, MapThenFoldSet, Total, Sums, Adds, Pick
<1>3. MapThenSumSet(LAMBDA r : Catalogue[r].max, S) = Total(Most, S)
  <2>. HIDE DEF S
  <2>. QED
    BY <1>1 DEF MapThenSumSet, MapThenFoldSet, Total, Sums, Adds, Pick, Most
<1>. QED
  BY <1>2, <1>3 DEF Rated, Share, Counted

\* Weights that are numbers up to what each rule could earn.
Capped(weights) ==
    \A r \in DOMAIN Catalogue : /\ weights[r] \in Nat /\ Most[r] \in Nat
                                /\ weights[r] <= Most[r]

\* Those of the rules are, and so is the most they could weigh, which is no less where more is
\* known.
LEMMA WeightsTyped ==
    ASSUME NEW types, NEW bare, NEW f \in Facts, NEW g \in Facts
    PROVE  /\ Capped(Weights(bare, types, f)) /\ Capped(Ceilings(bare, types, g))
           /\ Lower(f, g) => \A r \in DOMAIN Catalogue :
                                Weights(bare, types, f)[r] <= Ceilings(bare, types, g)[r]
<1>1. ASSUME NEW r \in DOMAIN Catalogue
      PROVE  LET v == Weights(bare, types, f)[r]
                 w == Ceilings(bare, types, g)[r]
             IN  /\ v \in Nat /\ w \in Nat /\ Most[r] \in Nat /\ v <= Most[r] /\ w <= Most[r]
                 /\ Lower(f, g) => v <= w
  <2>. DEFINE b == r \in bare
              v == Weights(bare, types, f)[r]
              w == Ceilings(bare, types, g)[r]
  <2>1. /\ v = Weight(Catalogue[r], b, types, f) /\ w = Ceiling(Catalogue[r], b, types, g)
        /\ Most[r] = Catalogue[r].max /\ Catalogue[r].max \in Nat
    BY RuleTyped DEF Weights, Ceilings, Most
  <2>2. b \in BOOLEAN
    OBVIOUS
  <2>. HIDE DEF b, v, w
  <2>3. /\ v \in Nat /\ v <= Catalogue[r].max /\ w \in Nat /\ w <= Catalogue[r].max
        /\ Lower(f, g) => v <= w
    BY <2>1, <2>2, WeightLower
  <2>4. /\ v \in Nat /\ w \in Nat /\ Most[r] \in Nat /\ v <= Most[r] /\ w <= Most[r]
        /\ Lower(f, g) => v <= w
    BY <2>1, <2>3
  <2>. QED
    BY <2>4 DEF v, w
<1>. QED
  BY <1>1 DEF Capped

\* A score is a share of the points there were to earn.
LEMMA RatedTyped ==
    ASSUME NEW rules \in SUBSET DOMAIN Catalogue, NEW types, NEW weights, Capped(weights)
    PROVE  Rated(rules, types, weights) \in Nat /\ Rated(rules, types, weights) <= 10000
<1>. DEFINE D == DOMAIN Catalogue
            S == Counted(rules, types)
            earned == Total(weights, S)
            most == Total(Most, S)
<1>1. IsFiniteSet(D) /\ S \in SUBSET D
  BY CatalogueType DEF Counted
<1>2. \A r \in D : weights[r] \in Nat /\ Most[r] \in Nat /\ weights[r] <= Most[r]
  BY DEF Capped
<1>3. Rated(rules, types, weights) = Share(earned, most)
  BY RatedIsShare
<1>. HIDE DEF S, D
<1>4. earned \in Nat /\ most \in Nat /\ earned <= most
  BY <1>1, <1>2, TotalNat, TotalOfMore
<1>. HIDE DEF earned, most
<1>. DEFINE over == IF most > 0 THEN most ELSE 100
<1>5. over \in Nat /\ over > 0 /\ earned <= over
  BY <1>4
<1>6. Share(earned, most) = (20000 * earned + over) \div (2 * over)
  BY DEF Share
<1>. HIDE DEF over
<1>7. (20000 * earned + over) \div (2 * over) <= 10000
  BY <1>4, <1>5, ShareOfWhole
<1>8. (20000 * earned + over) \div (2 * over) \in Nat
  <2>1. 20000 * earned + over \in Nat /\ 2 * over \in Nat /\ 2 * over > 0
    BY <1>4, <1>5
  <2>. QED
    BY <2>1, DivisionKeeps
<1>. DEFINE share == (20000 * earned + over) \div (2 * over)
            rated == Rated(rules, types, weights)
<1>9. rated = share /\ share \in Nat /\ share <= 10000
  BY <1>3, <1>6, <1>7, <1>8
<1>. HIDE DEF share, rated
<1>10. rated \in Nat /\ rated <= 10000
  BY <1>9
<1>. QED
  BY <1>10 DEF rated

\* Without rules it is none; with all of them, no more for weights that are no more.
LEMMA RatedLower ==
    ASSUME NEW rules \in {{}, DOMAIN Catalogue}, NEW types, NEW v, NEW w, Capped(v), Capped(w),
           rules # {} => \A r \in DOMAIN Catalogue : v[r] <= w[r]
    PROVE  Rated(rules, types, v) <= Rated(DOMAIN Catalogue, types, w)
<1>. DEFINE D == DOMAIN Catalogue
<1>1. CASE rules = {}
  <2>1. Counted(rules, types) = {}
    BY <1>1 DEF Counted
  <2>2. Total(v, {}) = 0 /\ Total(Most, {}) = 0
    BY TotalOfRest, FS_EmptySet
  <2>3. Rated(rules, types, v) = Share(0, 0)
    BY <1>1, <2>1, <2>2, RatedIsShare
  <2>4. Share(0, 0) = 0
    BY DEF Share
  <2>. DEFINE low == Rated(rules, types, v)
              high == Rated(D, types, w)
  <2>5. high \in Nat /\ low = 0
    BY <2>3, <2>4, RatedTyped
  <2>. HIDE DEF low, high
  <2>6. low <= high
    BY <2>5
  <2>. QED
    BY <2>6 DEF low, high
<1>2. CASE rules = D /\ rules # {}
  <2>. DEFINE S == Counted(D, types)
              less == Total(v, S)
              more == Total(w, S)
              most == Total(Most, S)
  <2>1. IsFiniteSet(D) /\ S \in SUBSET D
    BY CatalogueType DEF Counted
  <2>2. \A r \in D : v[r] \in Nat /\ w[r] \in Nat /\ Most[r] \in Nat /\ v[r] <= w[r]
    BY <1>2 DEF Capped
  <2>3. Rated(rules, types, v) = Share(less, most) /\ Rated(D, types, w) = Share(more, most)
    BY <1>2, RatedIsShare
  <2>. HIDE DEF D, S
  <2>4. less \in Nat /\ more \in Nat /\ most \in Nat /\ less <= more
    BY <2>1, <2>2, TotalNat, TotalOfMore
  <2>. HIDE DEF less, more, most
  <2>. DEFINE over == IF most > 0 THEN most ELSE 100
              a == 20000 * less + over
              b == 20000 * more + over
  <2>5. a \in Nat /\ b \in Nat /\ a <= b /\ 2 * over \in Nat /\ 2 * over > 0
    BY <2>4
  <2>6. Share(less, most) = a \div (2 * over) /\ Share(more, most) = b \div (2 * over)
    BY DEF Share
  <2>. HIDE DEF a, b, over
  <2>7. a \div (2 * over) <= b \div (2 * over)
    BY <2>5, DivisionKeeps
  <2>. DEFINE low == Rated(rules, types, v)
              high == Rated(DOMAIN Catalogue, types, w)
  <2>8. low = a \div (2 * over) /\ high = b \div (2 * over)
    BY <2>3, <2>6 DEF D
  <2>. HIDE DEF low, high
  <2>9. low <= high
    BY <2>7, <2>8
  <2>. QED
    BY <2>9 DEF low, high
<1>. QED
  BY <1>1, <1>2

---------------------------------------------------------------------------
\* What AppWorks holds of the case; a count of other cases is a number.
LEMMA HeldTyped ==
    ASSUME held \in Holdings
    PROVE  /\ held.priors \in Nat /\ held.primary \in Nat /\ held.calculated \in Nat
           /\ held.ordered \in Nat /\ held.holds \subseteq Conditions
           /\ \A i \in DOMAIN held.allegations : /\ held.allegations[i].open \in BOOLEAN
                                                 /\ held.allegations[i].similar \subseteq Cases
<1>1. held \in [priors : Nat, primary : Nat, calculated : Nat, ordered : Nat,
                allegations : Seq([open : BOOLEAN, similar : SUBSET Cases]), holds : SUBSET Conditions]
  BY HoldingsType
<1>2. /\ held.priors \in Nat /\ held.primary \in Nat /\ held.calculated \in Nat
      /\ held.ordered \in Nat /\ held.holds \subseteq Conditions
      /\ held.allegations \in Seq([open : BOOLEAN, similar : SUBSET Cases])
  BY <1>1
<1>. DEFINE all == held.allegations
            A == [open : BOOLEAN, similar : SUBSET Cases]
<1>3. \A i \in DOMAIN all : all[i] \in A
  <2>1. all \in Seq(A)
    BY <1>2
  <2>. HIDE DEF all, A
  <2>. QED
    BY <2>1
<1>. QED
  BY <1>2, <1>3

\* The cases counted by the allegations of a set.
Similar(is) == UNION {held.allegations[i].similar : i \in is}

LEMMA SimilarCounted ==
    ASSUME held \in Holdings, NEW is \in SUBSET DOMAIN held.allegations
    PROVE  /\ Cardinality(Similar(is)) \in Nat
           /\ Cardinality(Similar(is)) <= Cardinality(Similar(DOMAIN held.allegations))
<1>1. /\ Similar(is) \subseteq Similar(DOMAIN held.allegations)
      /\ Similar(DOMAIN held.allegations) \subseteq Cases
  BY HeldTyped DEF Similar
<1>2. IsFiniteSet(Similar(DOMAIN held.allegations))
  BY <1>1, HoldingsType, FS_Subset
<1>3. IsFiniteSet(Similar(is))
  BY <1>1, <1>2, FS_Subset
<1>. QED
  BY <1>1, <1>2, <1>3, FS_Subset, FS_CardinalityType

\* The parts of a run, and what a context may start from.
LEMMA RunTyped ==
    ASSUME run \in Runs
    PROVE  /\ run.phase \in {"agent", "score"} \cup Reading \cup Ended
           /\ run.summary \in {NoFacts} \cup Summaries /\ run.summary \in Facts
           /\ run.turn \in 0..MaxTurns /\ run.types \subseteq FraudTypes
           /\ run.rules \subseteq DOMAIN Catalogue /\ run.bare \subseteq DOMAIN Catalogue
           /\ run.facts \in Facts /\ NoFacts \in Facts
           /\ run.result \in {None} \cup Results
<1>1. NoFacts \in Facts
  BY DEF NoFacts, Facts
<1>2. run.summary \in {NoFacts} \cup Summaries
  BY DEF Runs
<1>3. run.summary \in Facts
  BY <1>1, <1>2, CatalogueType
<1>. DEFINE P == {"agent", "score"} \cup Reading \cup Ended
            S == {NoFacts} \cup Summaries
            R == {None} \cup Results
            Rules == SUBSET DOMAIN Catalogue
            T == 0..MaxTurns
            Ts == SUBSET FraudTypes
<1>4. run \in [phase : P, summary : S, turn : T, types : Ts, rules : Rules, bare : Rules,
               facts : Facts, result : R]
  BY DEF Runs
<1>5. /\ run.phase \in P /\ run.summary \in S /\ run.turn \in T /\ run.types \in Ts
      /\ run.rules \in Rules /\ run.bare \in Rules /\ run.facts \in Facts /\ run.result \in R
  <2>. HIDE DEF P, S, R, Rules, T, Ts
  <2>. QED
    BY <1>4
<1>. QED
  BY <1>1, <1>3, <1>5

\* The score of a run is of its type.
LEMMA ScoreTyped ==
    ASSUME run \in Runs
    PROVE  LET score == Rated(run.rules, run.types, Weights(run.bare, run.types, run.facts))
           IN  score \in Nat /\ score <= 10000
<1>1. run.rules \in SUBSET DOMAIN Catalogue /\ run.facts \in Facts
  BY RunTyped
<1>2. Capped(Weights(run.bare, run.types, run.facts))
  BY <1>1, WeightsTyped
<1>3. \A rules \in SUBSET DOMAIN Catalogue : \A types, weights :
         Capped(weights) =>
             Rated(rules, types, weights) \in Nat /\ Rated(rules, types, weights) <= 10000
  BY RatedTyped
<1>. QED
  BY <1>1, <1>2, <1>3

\* A step keeps the types.
LEMMA TypeStep == TypeOK /\ [Next]_vars => TypeOK'
<1>. SUFFICES ASSUME TypeOK, [Next]_vars PROVE TypeOK'
  OBVIOUS
<1>1. held \in Holdings /\ run \in Runs /\ lost \subseteq Calls
  BY DEF TypeOK
<1>2. CASE UNCHANGED vars
  BY <1>1, <1>2 DEF vars, TypeOK
<1>3. ASSUME NEW call \in Calls, NEW misses \in BOOLEAN, Passes(call, misses)
      PROVE  held' \in Holdings /\ lost' \subseteq Calls
  BY <1>1, <1>3 DEF Passes
<1>4. CASE Stop
  BY <1>1, <1>4, RunTyped DEF Stop, TypeOK, Runs, Ended
<1>5. ASSUME NEW types \in SUBSET FraudTypes, NEW turn \in 1..MaxTurns, Call(types, turn)
      PROVE  TypeOK'
  <2>1. run' = [run EXCEPT !.phase = "catalogue", !.turn = turn, !.types = types,
                           !.rules = {}, !.bare = {}, !.facts = NoFacts, !.result = None]
    BY <1>5 DEF Call
  <2>2. turn \in 0..MaxTurns
    BY CatalogueType
  <2>3. run' \in Runs
    <3>. DEFINE T == 0..MaxTurns
    <3>1. turn \in T
      BY <2>2
    <3>. QED
      BY <1>1, <2>1, <3>1, RunTyped DEF Runs, Reading
  <2>. QED
    BY <1>1, <1>5, <2>3 DEF Call, TypeOK
<1>6. ASSUME NEW misses \in BOOLEAN, ReadCatalogue(misses) PROVE TypeOK'
  BY <1>1, <1>3, <1>6, RunTyped DEF ReadCatalogue, TypeOK, Runs, Reading, Calls
<1>7. ASSUME NEW bare \in SUBSET DOMAIN Catalogue, ReadThresholds(bare) PROVE TypeOK'
  BY <1>1, <1>3, <1>7, RunTyped DEF ReadThresholds, TypeOK, Runs, Reading, Calls
<1>8. ASSUME NEW misses \in BOOLEAN, ReadHistory(misses) PROVE TypeOK'
  BY <1>1, <1>3, <1>8, RunTyped, HeldTyped, ZenonT(60) DEF ReadHistory, TypeOK, Runs, Reading, Calls, Facts
<1>9. ASSUME NEW misses \in BOOLEAN, ReadWorkfolder(misses) PROVE TypeOK'
  BY <1>1, <1>3, <1>9, RunTyped, HeldTyped, ZenonT(60) DEF ReadWorkfolder, TypeOK, Runs, Reading, Calls, Facts
<1>10. ASSUME NEW reply \in {"ok", "empty", "fails"}, ReadAgain(reply) PROVE TypeOK'
  BY <1>1, <1>3, <1>10, RunTyped DEF ReadAgain, TypeOK, Runs, Reading, Calls
<1>11. ASSUME NEW misses \in BOOLEAN, ReadFinancials(misses) PROVE TypeOK'
  BY <1>1, <1>3, <1>11, RunTyped, HeldTyped, ZenonT(60)
     DEF ReadFinancials, TypeOK, Runs, Reading, Calls, Facts
<1>12. ASSUME NEW reached \in SUBSET DOMAIN held.allegations, CountVolume(reached) PROVE TypeOK'
  BY <1>1, <1>3, <1>12, RunTyped, SimilarCounted, ZenonT(60)
     DEF CountVolume, TypeOK, Runs, Reading, Calls, Facts, Similar
<1>13. ASSUME NEW misses \in BOOLEAN, NEW unread \in SUBSET DOMAIN held.allegations,
              ReadAllegations(misses, unread)
       PROVE  TypeOK'
  BY <1>1, <1>13, RunTyped, ZenonT(60) DEF ReadAllegations, TypeOK, Runs, Reading, Calls, Facts
<1>14. ASSUME NEW misses \in BOOLEAN, ReadSubjects(misses) PROVE TypeOK'
  BY <1>1, <1>3, <1>14, RunTyped, HeldTyped, ZenonT(60)
     DEF ReadSubjects, TypeOK, Runs, Reading, Calls, Facts, Conditions
<1>15. CASE Score
  <2>. DEFINE score == Rated(run.rules, run.types, Weights(run.bare, run.types, run.facts))
              result == [score |-> score, tier |-> Tier(score)]
  <2>1. score \in Nat /\ score <= 10000
    BY <1>1, ScoreTyped
  <2>2. Tier(score) \in Tiers
    BY DEF Tier, Tiers
  <2>. HIDE DEF score
  <2>3. result \in Results
    BY <2>1, <2>2 DEF Results
  <2>4. run' = [run EXCEPT !.phase = "agent", !.rules = {}, !.facts = NoFacts,
                           !.result = result]
    BY <1>15 DEF Score, score
  <2>. HIDE DEF result
  <2>5. run' \in Runs
    BY <1>1, <2>3, <2>4, RunTyped DEF Runs
  <2>. QED
    BY <1>1, <1>15, <2>5 DEF Score, TypeOK
<1>16. CASE Refused \/ AgentFails
  BY <1>1, <1>16, RunTyped DEF Refused, AgentFails, TypeOK, Runs, Ended
<1>. QED
  BY <1>2, <1>4, <1>5, <1>6, <1>7, <1>8, <1>9, <1>10, <1>11, <1>12, <1>13, <1>14, <1>15, <1>16
     DEF Next, Proceed

\* The types hold, whatever AppWorks holds, loses or refuses and however often the agent
\* calls: a score is a share, from 0 to 10000, of the points there were to earn, bonuses
\* included (calculate_risk_metrics, _score_rule).
THEOREM ScoresTyped == Spec => []TypeOK
<1>1. Init => TypeOK
  <2>. SUFFICES ASSUME Init PROVE TypeOK
    OBVIOUS
  <2>1. held \in Holdings /\ lost \subseteq Calls
    BY DEF Init
  <2>2. PICK s \in {NoFacts} \cup Summaries :
           run = [phase |-> "agent", summary |-> s, turn |-> 0, types |-> {}, rules |-> {},
                  bare |-> {}, facts |-> NoFacts, result |-> None]
    BY DEF Init
  <2>3. NoFacts \in Facts /\ 0 \in 0..MaxTurns
    BY CatalogueType DEF NoFacts, Facts
  <2>4. run \in Runs
    BY <2>2, <2>3 DEF Runs
  <2>. QED
    BY <2>1, <2>4 DEF TypeOK
<1>. QED
  BY <1>1, TypeStep, PTL DEF Spec

---------------------------------------------------------------------------
\* What the calls made so far have read, when none of them was lost.
ReadSoFar ==
    LET phase == run.phase
        facts == run.facts
    IN  /\ phase \in {"workfolder", "again", "financials", "volume", "allegations", "subjects", "score"} =>
              facts.subject_history = Whole.subject_history /\ facts.primary = Whole.primary
        /\ phase \in {"again", "financials", "volume", "allegations", "subjects"} =>
              facts.holds = Whole.holds \ {"multiple_subjects"}
        /\ phase \in {"volume", "allegations", "subjects", "score"} =>
              /\ facts.financial_exposure = Whole.financial_exposure
              /\ facts.ordered = Whole.ordered
        /\ phase \in {"allegations", "subjects", "score"} =>
              facts.similar_case_volume = Whole.similar_case_volume
        /\ phase \in {"subjects", "score"} => facts.open = Whole.open
        /\ phase = "score" => facts.holds = Whole.holds

\* A calculation has the rules or none of them, and child rows missing only where the call for
\* them was lost; less of the case than there is, but for an unread allegation; and all of it
\* so far when nothing else was lost.
CalculationInv ==
    run.phase \in Reading \cup {"score"} =>
        /\ run.result = None
        /\ run.rules \in {{}, DOMAIN Catalogue}
        /\ "thresholds" \notin lost => run.bare = {}
        /\ run.phase \notin {"catalogue", "thresholds", "score"} => run.summary = NoFacts
        /\ "allegation" \notin lost => Lower(run.facts, Whole)
        /\ lost \subseteq {"thresholds"} =>
              /\ run.phase # "catalogue" => run.rules = DOMAIN Catalogue
              /\ ReadSoFar

\* A score is the whole case's, or no more than its rules could give it.
Founded(score) ==
    LET bare == IF "thresholds" \in lost THEN run.bare ELSE {}
        whole == Weights(bare, run.types, Whole)
        most == Ceilings(bare, run.types, Whole)
    IN  /\ lost \subseteq {"thresholds"} => score = Rated(DOMAIN Catalogue, run.types, whole)
        /\ "allegation" \notin lost => score <= Rated(DOMAIN Catalogue, run.types, most)

\* A score found is so; a score returned was found.
ResultInv ==
    /\ run.result # None => Founded(run.result.score)
    /\ run.phase = "scored" => run.result # None

\* What there is to read: the request's summary, or what AppWorks holds.
LEMMA WholeParts ==
    ASSUME held \in Holdings, run \in Runs
    PROVE  /\ Whole \in Facts
           /\ run.summary # NoFacts => Whole = run.summary
           /\ run.summary = NoFacts =>
                 /\ Whole.subject_history = held.priors /\ Whole.primary = held.primary
                 /\ Whole.financial_exposure = held.calculated /\ Whole.ordered = held.ordered
                 /\ Whole.similar_case_volume = Cardinality(Similar(DOMAIN held.allegations))
                 /\ Whole.open = OpenAmong(held.allegations, {}) /\ Whole.holds = held.holds
<1>1. CASE run.summary # NoFacts
  BY <1>1, RunTyped DEF Whole
<1>2. CASE run.summary = NoFacts
  <2>. DEFINE n == Cardinality(Similar(DOMAIN held.allegations))
              open == OpenAmong(held.allegations, {})
  <2>1. Whole = [subject_history |-> held.priors, primary |-> held.primary,
                 financial_exposure |-> held.calculated, ordered |-> held.ordered,
                 similar_case_volume |-> n, allegation_severity |-> 0, open |-> open,
                 holds |-> held.holds]
    BY <1>2 DEF Whole, Similar
  <2>2. n \in Nat /\ open \in BOOLEAN
    BY SimilarCounted DEF OpenAmong
  <2>. HIDE DEF n, open
  <2>3. Whole \in Facts
    BY <2>1, <2>2, HeldTyped DEF Facts
  <2>4. /\ Whole.subject_history = held.priors /\ Whole.primary = held.primary
        /\ Whole.financial_exposure = held.calculated /\ Whole.ordered = held.ordered
        /\ Whole.similar_case_volume = n /\ Whole.open = open /\ Whole.holds = held.holds
    BY <2>1
  <2>. QED
    BY <1>2, <2>3, <2>4 DEF n, open
<1>. QED
  BY <1>1, <1>2

\* It stays what it is.
LEMMA WholeStays ==
    ASSUME held' = held, run'.summary = run.summary
    PROVE  Whole' = Whole
BY DEF Whole, OpenAmong

\* A calculation goes on with these facts.
Goes(phase, facts) ==
    /\ run'.phase = phase /\ run'.facts = facts /\ UNCHANGED held
    /\ run'.summary = run.summary /\ run'.types = run.types
    /\ run'.rules = run.rules /\ run'.bare = run.bare /\ run'.result = run.result

\* To read nothing is no more than to read.
LEMMA NothingLower ==
    ASSUME NEW f \in Facts
    PROVE  Lower(NoFacts, f) /\ Lower(f, f)
BY FactsTyped DEF Lower, NoFacts

\* A call for a part of the case keeps the calculation what it says it is, if the facts it
\* leaves are no more than there is, and all there is to read so far when nothing is lost.
LEMMA Goings ==
    ASSUME TypeOK, CalculationInv, run.summary = NoFacts, run.phase \in Reading,
           run.phase # "catalogue",
           NEW phase \in {"workfolder", "again", "financials", "volume", "allegations", "subjects", "score"},
           NEW facts, Goes(phase, facts), lost \subseteq lost',
           "allegation" \notin lost' => Lower(facts, Whole), lost' \subseteq {"thresholds"} => ReadSoFar'
    PROVE  CalculationInv'
<1>1. Whole' = Whole
  BY WholeStays DEF Goes
<1>2. (Lower(run.facts, Whole))' = Lower(facts, Whole)
  BY <1>1 DEF Goes, Lower
<1>3. phase \in Reading \cup {"score"}
  BY DEF Reading
<1>. QED
  BY <1>1, <1>2, <1>3 DEF CalculationInv, Goes

\* The calls for the parts of the case.
LEMMA PartStep ==
    ASSUME TypeOK, CalculationInv,
           \/ \E misses \in BOOLEAN :
                 \/ ReadHistory(misses) \/ ReadWorkfolder(misses) \/ ReadFinancials(misses)
                 \/ ReadSubjects(misses)
                 \/ \E unread \in SUBSET DOMAIN held.allegations : ReadAllegations(misses, unread)
           \/ ReadAgain("ok") \/ ReadAgain("empty")
           \/ \E reached \in SUBSET DOMAIN held.allegations : CountVolume(reached)
    PROVE  CalculationInv'
<1>1. /\ held \in Holdings /\ run \in Runs /\ run.facts \in Facts /\ Whole \in Facts
      /\ run.phase \in Reading \ {"catalogue", "thresholds"} /\ run.summary = NoFacts
  <2>1. run.phase \in Reading \ {"catalogue", "thresholds"}
    BY DEF ReadHistory, ReadWorkfolder, ReadFinancials, ReadSubjects, ReadAllegations, ReadAgain,
           CountVolume, At, Reading
  <2>. QED
    BY <2>1, RunTyped, WholeParts DEF TypeOK, CalculationInv, Reading
<1>2. "allegation" \notin lost => Lower(run.facts, Whole)
  BY <1>1 DEF CalculationInv
<1>3. lost \subseteq {"thresholds"} => ReadSoFar
  BY <1>1 DEF CalculationInv
<1>4. ASSUME NEW misses \in BOOLEAN, ReadHistory(misses) PROVE CalculationInv'
  <2>. DEFINE facts == [run.facts EXCEPT !.subject_history = IF misses THEN 0 ELSE held.priors,
                                         !.primary = IF misses THEN 0 ELSE held.primary]
  <2>1. Goes("workfolder", facts) /\ lost \subseteq lost' /\ (lost' \subseteq {"thresholds"} => ~misses)
    BY <1>1, <1>4 DEF ReadHistory, Passes, Goes, Runs
  <2>2. "allegation" \notin lost' => Lower(facts, Whole)
    BY <1>1, <1>2, <2>1, WholeParts, HeldTyped, FactsTyped DEF Lower, Facts
  <2>3. lost' \subseteq {"thresholds"} => ReadSoFar'
    BY <1>1, <2>1, WholeParts, WholeStays DEF ReadSoFar, Goes, Facts
  <2>. QED
    BY <1>1, <2>1, <2>2, <2>3, Goings
<1>5. ASSUME NEW misses \in BOOLEAN, ReadWorkfolder(misses) PROVE CalculationInv'
  <2>. DEFINE facts == [run.facts EXCEPT !.holds = held.holds \ {"multiple_subjects"}]
  <2>1. lost \subseteq lost' /\ (misses => "workfolder" \in lost')
    BY <1>5 DEF ReadWorkfolder, Passes
  <2>2. CASE misses
    <3>1. Goes("score", run.facts)
      BY <1>1, <1>5, <2>2 DEF ReadWorkfolder, Passes, Goes, Runs
    <3>. QED
      BY <1>1, <1>2, <2>1, <2>2, <3>1, Goings
  <2>3. CASE ~misses
    <3>1. Goes("again", facts) /\ run.phase = "workfolder"
      BY <1>1, <1>5, <2>3 DEF ReadWorkfolder, Passes, Goes, Runs, At
    <3>2. "allegation" \notin lost' => Lower(facts, Whole)
      BY <1>1, <1>2, <2>1, WholeParts DEF Lower, Facts
    <3>3. lost' \subseteq {"thresholds"} => ReadSoFar'
      BY <1>1, <1>3, <2>1, <3>1, WholeParts, WholeStays DEF ReadSoFar, Goes, Facts
    <3>. QED
      BY <1>1, <2>1, <3>1, <3>2, <3>3, Goings
  <2>. QED
    BY <2>2, <2>3
<1>6. ASSUME ReadAgain("ok") \/ ReadAgain("empty") PROVE CalculationInv'
  <2>1. Goes("financials", run.facts) /\ run.phase = "again" /\ lost \subseteq lost'
    BY <1>1, <1>6 DEF ReadAgain, Passes, Goes, Runs, At
  <2>2. "allegation" \notin lost' => Lower(run.facts, Whole)
    BY <1>2, <2>1
  <2>3. lost' \subseteq {"thresholds"} => ReadSoFar'
    BY <1>3, <2>1, WholeStays DEF ReadSoFar, Goes
  <2>. QED
    BY <1>1, <2>1, <2>2, <2>3, Goings
<1>7. ASSUME NEW misses \in BOOLEAN, ReadFinancials(misses) PROVE CalculationInv'
  <2>. DEFINE facts == [run.facts EXCEPT !.financial_exposure = IF misses THEN 0 ELSE held.calculated,
                                         !.ordered = IF misses THEN 0 ELSE held.ordered]
              phase == IF "volume" \in lost THEN "allegations" ELSE "volume"
  <2>1. /\ Goes(phase, facts) /\ run.phase = "financials" /\ lost \subseteq lost'
        /\ lost' \subseteq {"thresholds"} => ~misses
    BY <1>1, <1>7 DEF ReadFinancials, Passes, Goes, Runs, At
  <2>2. "allegation" \notin lost' => Lower(facts, Whole)
    BY <1>1, <1>2, <2>1, WholeParts, HeldTyped, FactsTyped DEF Lower, Facts
  <2>3. lost' \subseteq {"thresholds"} => ReadSoFar'
    BY <1>1, <1>3, <2>1, WholeParts, WholeStays DEF ReadSoFar, Goes, Facts
  <2>4. phase \in {"volume", "allegations"}
    OBVIOUS
  <2>. HIDE DEF facts, phase
  <2>. QED
    BY <1>1, <2>1, <2>2, <2>3, <2>4, Goings
<1>8. ASSUME NEW reached \in SUBSET DOMAIN held.allegations, CountVolume(reached)
      PROVE  CalculationInv'
  <2>. DEFINE n == Cardinality(Similar(reached))
              facts == [run.facts EXCEPT !.similar_case_volume = n]
  <2>1. /\ Goes("allegations", facts) /\ run.phase = "volume" /\ lost \subseteq lost'
        /\ lost' \subseteq {"thresholds"} => reached = DOMAIN held.allegations
    BY <1>1, <1>8 DEF CountVolume, Passes, Goes, Runs, At, Similar
  <2>2. n \in Nat /\ n <= Cardinality(Similar(DOMAIN held.allegations))
    BY <1>1, SimilarCounted
  <2>3. lost' \subseteq {"thresholds"} => n = Whole.similar_case_volume
    BY <1>1, <2>1, WholeParts
  <2>. HIDE DEF n
  <2>4. "allegation" \notin lost' => Lower(facts, Whole)
    BY <1>1, <1>2, <2>1, <2>2, WholeParts DEF Lower, Facts
  <2>5. lost' \subseteq {"thresholds"} => ReadSoFar'
    BY <1>1, <1>3, <2>1, <2>3, WholeStays DEF ReadSoFar, Goes, Facts
  <2>. QED
    BY <1>1, <2>1, <2>4, <2>5, Goings
<1>9. ASSUME NEW misses \in BOOLEAN, NEW unread \in SUBSET DOMAIN held.allegations,
             ReadAllegations(misses, unread)
      PROVE  CalculationInv'
  <2>. DEFINE open == ~misses /\ OpenAmong(held.allegations, unread)
              facts == [run.facts EXCEPT !.open = open]
  <2>1. /\ Goes("subjects", facts) /\ run.phase = "allegations" /\ lost \subseteq lost'
        /\ lost' \subseteq {"thresholds"} => ~misses
        /\ "allegation" \notin lost' => unread = {}
    BY <1>1, <1>9 DEF ReadAllegations, Goes, Runs, At
  <2>2. /\ "allegation" \notin lost' => (open => Whole.open)
        /\ lost' \subseteq {"thresholds"} => open = Whole.open
    <3>1. CASE "allegation" \in lost'
      BY <3>1
    <3>2. CASE "allegation" \notin lost'
      <4>1. unread = {} /\ OpenAmong(held.allegations, unread) = OpenAmong(held.allegations, {})
        BY <2>1, <3>2
      <4>2. Whole.open = OpenAmong(held.allegations, {})
        BY <1>1, WholeParts
      <4>. DEFINE all == OpenAmong(held.allegations, {})
      <4>3. all \in BOOLEAN /\ open = (~misses /\ all) /\ Whole.open = all
        BY <4>1, <4>2 DEF OpenAmong
      <4>4. lost' \subseteq {"thresholds"} => ~misses
        BY <2>1
      <4>. HIDE DEF all, open
      <4>5. CASE misses = TRUE
        BY <4>3, <4>4, <4>5
      <4>6. CASE misses = FALSE
        BY <4>3, <4>4, <4>6
      <4>. QED
        BY <4>5, <4>6
    <3>. QED
      BY <3>1, <3>2
  <2>. HIDE DEF open
  <2>3. "allegation" \notin lost' => Lower(facts, Whole)
    BY <1>1, <1>2, <2>1, <2>2 DEF Lower, Facts
  <2>4. lost' \subseteq {"thresholds"} => ReadSoFar'
    BY <1>1, <1>3, <2>1, <2>2, WholeStays DEF ReadSoFar, Goes, Facts
  <2>. QED
    BY <1>1, <2>1, <2>3, <2>4, Goings
<1>10. ASSUME NEW misses \in BOOLEAN, ReadSubjects(misses) PROVE CalculationInv'
  <2>. DEFINE holds == IF misses THEN run.facts.holds
                       ELSE run.facts.holds \cup (held.holds \cap {"multiple_subjects"})
              facts == [run.facts EXCEPT !.holds = holds]
  <2>1. /\ Goes("score", facts) /\ run.phase = "subjects" /\ lost \subseteq lost'
        /\ lost' \subseteq {"thresholds"} => ~misses
    BY <1>1, <1>10 DEF ReadSubjects, Passes, Goes, Runs, At
  <2>2. "allegation" \notin lost' => holds \subseteq Whole.holds
    BY <1>1, <1>2, <2>1, WholeParts DEF Lower
  <2>3. lost' \subseteq {"thresholds"} => holds = Whole.holds
    BY <1>1, <1>3, <2>1, WholeParts DEF ReadSoFar
  <2>. HIDE DEF holds
  <2>4. "allegation" \notin lost' => Lower(facts, Whole)
    BY <1>1, <1>2, <2>1, <2>2 DEF Lower, Facts
  <2>5. lost' \subseteq {"thresholds"} => ReadSoFar'
    BY <1>1, <1>3, <2>1, <2>3, WholeStays DEF ReadSoFar, Goes, Facts
  <2>. QED
    BY <1>1, <2>1, <2>4, <2>5, Goings
<1>. QED
  BY <1>4, <1>5, <1>6, <1>7, <1>8, <1>9, <1>10

\* Every step keeps what a calculation is.
LEMMA CalculationStep ==
    ASSUME TypeOK, CalculationInv, [Next]_vars
    PROVE  CalculationInv'
<1>1. held \in Holdings /\ run \in Runs /\ NoFacts \in Facts /\ Whole \in Facts
  BY RunTyped, WholeParts DEF TypeOK
<1>2. CASE UNCHANGED vars
  <2>1. run' = run /\ lost' = lost /\ Whole' = Whole
    BY <1>2, WholeStays DEF vars
  <2>. QED
    BY <2>1 DEF CalculationInv, ReadSoFar, Lower
<1>3. ASSUME NEW types \in SUBSET FraudTypes, NEW turn \in 1..MaxTurns, Call(types, turn)
      PROVE  CalculationInv'
  <2>1. /\ run'.phase = "catalogue" /\ run'.summary = run.summary /\ run'.rules = {}
        /\ run'.bare = {} /\ run'.facts = NoFacts /\ run'.result = None /\ UNCHANGED held
    BY <1>1, <1>3 DEF Call, Runs
  <2>2. Whole' = Whole /\ Lower(NoFacts, Whole)
    BY <1>1, <2>1, WholeStays, NothingLower
  <2>3. (Lower(run.facts, Whole))'
    BY <2>1, <2>2 DEF Lower
  <2>. QED
    BY <2>1, <2>3 DEF CalculationInv, ReadSoFar
<1>4. ASSUME NEW misses \in BOOLEAN, ReadCatalogue(misses) PROVE CalculationInv'
  <2>1. /\ run.phase = "catalogue" /\ run'.phase = "thresholds" /\ run'.summary = run.summary
        /\ run'.rules = IF misses THEN {} ELSE DOMAIN Catalogue
        /\ run'.bare = run.bare /\ run'.facts = run.facts /\ run'.result = run.result
        /\ UNCHANGED held /\ lost \subseteq lost' /\ (lost' \subseteq {"thresholds"} => ~misses)
    BY <1>1, <1>4 DEF ReadCatalogue, Passes, At, Runs
  <2>2. Whole' = Whole
    BY <2>1, WholeStays
  <2>3. (Lower(run.facts, Whole))' = Lower(run.facts, Whole)
    BY <2>1, <2>2 DEF Lower
  <2>. QED
    BY <2>1, <2>3 DEF CalculationInv, ReadSoFar, Reading
<1>5. ASSUME NEW bare \in SUBSET DOMAIN Catalogue, ReadThresholds(bare) PROVE CalculationInv'
  <2>1. /\ run.phase = "thresholds" /\ run'.summary = run.summary /\ run'.rules = run.rules
        /\ run'.bare = bare /\ run'.result = run.result
        /\ UNCHANGED held /\ lost \subseteq lost' /\ ("thresholds" \notin lost' => bare = {})
        /\ \/ run.summary = NoFacts /\ run'.phase = "history" /\ run'.facts = run.facts
           \/ run.summary # NoFacts /\ run'.phase = "score" /\ run'.facts = run.summary
    BY <1>1, <1>5 DEF ReadThresholds, Passes, At, Runs
  <2>2. Whole' = Whole
    BY <2>1, WholeStays
  <2>3. CASE run.summary = NoFacts
    <3>1. (Lower(run.facts, Whole))' = Lower(run.facts, Whole)
      BY <2>1, <2>2, <2>3 DEF Lower
    <3>. QED
      BY <2>1, <2>3, <3>1 DEF CalculationInv, ReadSoFar, Reading
  <2>4. CASE run.summary # NoFacts
    <3>1. run'.phase = "score" /\ run'.facts = Whole /\ Lower(Whole, Whole)
      BY <1>1, <2>1, <2>4, WholeParts, NothingLower
    <3>2. (Lower(run.facts, Whole))'
      BY <2>2, <3>1 DEF Lower
    <3>. QED
      BY <2>1, <2>2, <3>1, <3>2 DEF CalculationInv, ReadSoFar, Reading
  <2>. QED
    BY <2>3, <2>4
<1>6. CASE Stop \/ ReadAgain("fails") \/ Score \/ Refused \/ AgentFails
  <2>1. run'.phase \in {"agent"} \cup Ended
    BY <1>1, <1>6 DEF Stop, ReadAgain, Score, Refused, AgentFails, Ended, Runs
  <2>. QED
    BY <2>1 DEF CalculationInv, Reading, Ended
<1>. QED
  BY <1>2, <1>3, <1>4, <1>5, <1>6, PartStep DEF Next, Proceed

\* A calculation that comes to its score gives one that is so.
LEMMA ScoreStep ==
    ASSUME TypeOK, CalculationInv, Score
    PROVE  Founded(Rated(run.rules, run.types, Weights(run.bare, run.types, run.facts)))
<1>. DEFINE bare == IF "thresholds" \in lost THEN run.bare ELSE {}
            weights == Weights(run.bare, run.types, run.facts)
            most == Ceilings(run.bare, run.types, Whole)
<1>1. /\ run.phase = "score" /\ run.rules \in {{}, DOMAIN Catalogue}
      /\ "thresholds" \notin lost => run.bare = {}
      /\ "allegation" \notin lost => Lower(run.facts, Whole)
      /\ lost \subseteq {"thresholds"} => run.rules = DOMAIN Catalogue /\ ReadSoFar
  BY DEF Score, At, CalculationInv
<1>2. run.facts \in Facts /\ Whole \in Facts
  BY RunTyped, WholeParts DEF TypeOK
<1>3. lost \subseteq {"thresholds"} => run.facts = Whole
  <2>1. ASSUME lost \subseteq {"thresholds"}
        PROVE  /\ run.facts.subject_history = Whole.subject_history
               /\ run.facts.primary = Whole.primary
               /\ run.facts.financial_exposure = Whole.financial_exposure
               /\ run.facts.ordered = Whole.ordered
               /\ run.facts.similar_case_volume = Whole.similar_case_volume
               /\ run.facts.allegation_severity = Whole.allegation_severity
               /\ run.facts.open = Whole.open /\ run.facts.holds = Whole.holds
    BY <1>1, <1>2, <2>1, FactsTyped DEF ReadSoFar
  <2>. QED
    BY <1>2, <2>1 DEF Facts
<1>4. run.bare = bare
  BY <1>1
<1>5. lost \subseteq {"thresholds"} =>
         Rated(run.rules, run.types, weights) =
             Rated(DOMAIN Catalogue, run.types, Weights(bare, run.types, Whole))
  BY <1>1, <1>3, <1>4
<1>6. "allegation" \notin lost =>
         Rated(run.rules, run.types, weights) <= Rated(DOMAIN Catalogue, run.types, most)
  <2>. SUFFICES ASSUME "allegation" \notin lost
                PROVE  Rated(run.rules, run.types, weights) <= Rated(DOMAIN Catalogue, run.types, most)
    OBVIOUS
  <2>1. /\ Capped(weights) /\ Capped(most)
        /\ \A r \in DOMAIN Catalogue : weights[r] <= most[r]
    BY <1>1, <1>2, WeightsTyped
  <2>. HIDE DEF weights, most
  <2>. QED
    BY <1>1, <2>1, RatedLower
<1>7. most = Ceilings(bare, run.types, Whole)
  BY <1>4
<1>. HIDE DEF weights, most
<1>. QED
  BY <1>5, <1>6, <1>7 DEF Founded, weights

\* Every step keeps what a result is.
LEMMA ResultStep ==
    ASSUME TypeOK, CalculationInv, ResultInv, [Next]_vars
    PROVE  ResultInv'
<1>1. held \in Holdings /\ run \in Runs
  BY DEF TypeOK
<1>2. ASSUME Whole' = Whole, run'.types = run.types, run'.bare = run.bare, lost' = lost
      PROVE  \A score : Founded(score) => Founded(score)'
  BY <1>2 DEF Founded
<1>3. CASE UNCHANGED vars
  <2>1. run' = run /\ lost' = lost /\ Whole' = Whole
    BY <1>3, WholeStays DEF vars
  <2>. QED
    BY <1>2, <2>1 DEF ResultInv
<1>4. CASE Stop \/ Refused \/ AgentFails
  <2>1. /\ held' = held /\ run'.summary = run.summary /\ run'.types = run.types
        /\ run'.bare = run.bare /\ run'.result = run.result /\ lost' = lost
        /\ run'.phase = "scored" => run'.result # None
    BY <1>1, <1>4 DEF Stop, Refused, AgentFails, Runs
  <2>. QED
    BY <1>2, <2>1, WholeStays DEF ResultInv
<1>5. CASE Score
  <2>. DEFINE score == Rated(run.rules, run.types, Weights(run.bare, run.types, run.facts))
  <2>1. /\ held' = held /\ run'.summary = run.summary /\ run'.types = run.types
        /\ run'.bare = run.bare /\ lost' = lost
        /\ run'.result.score = score /\ run'.phase = "agent"
    BY <1>1, <1>5 DEF Score, Runs
  <2>2. Founded(score)
    BY <1>5, ScoreStep
  <2>. HIDE DEF score
  <2>3. Whole' = Whole
    BY <2>1, WholeStays
  <2>. QED
    BY <2>1, <2>2, <2>3 DEF ResultInv, Founded
<1>6. CASE Next /\ ~(Stop \/ Refused \/ AgentFails \/ Score)
  <2>1. run'.result = None /\ run'.phase # "scored"
    <3>1. ASSUME NEW types \in SUBSET FraudTypes, NEW turn \in 1..MaxTurns, Call(types, turn)
          PROVE  run'.result = None /\ run'.phase # "scored"
      BY <1>1, <3>1 DEF Call, Runs
    <3>2. ASSUME run.phase \in Reading, run'.result = run.result PROVE run'.result = None
      BY <3>2 DEF CalculationInv
    <3>3. ASSUME NEW misses \in BOOLEAN,
                 \/ ReadCatalogue(misses) \/ ReadHistory(misses) \/ ReadWorkfolder(misses)
                 \/ ReadFinancials(misses) \/ ReadSubjects(misses)
                 \/ \E unread \in SUBSET DOMAIN held.allegations : ReadAllegations(misses, unread)
          PROVE  run.phase \in Reading /\ run'.result = run.result /\ run'.phase # "scored"
      BY <1>1, <3>3 DEF ReadCatalogue, ReadHistory, ReadWorkfolder, ReadFinancials, ReadSubjects,
                        ReadAllegations, At, Reading, Runs
    <3>4. ASSUME \/ \E bare \in SUBSET DOMAIN Catalogue : ReadThresholds(bare)
                 \/ \E reply \in {"ok", "empty", "fails"} : ReadAgain(reply)
                 \/ \E reached \in SUBSET DOMAIN held.allegations : CountVolume(reached)
          PROVE  run.phase \in Reading /\ run'.result = run.result /\ run'.phase # "scored"
      BY <1>1, <3>4 DEF ReadThresholds, ReadAgain, CountVolume, At, Reading, Runs
    <3>. QED
      BY <1>6, <3>1, <3>2, <3>3, <3>4 DEF Next, Proceed
  <2>. QED
    BY <2>1 DEF ResultInv
<1>. QED
  BY <1>3, <1>4, <1>5, <1>6

\* An outage adds nothing to a case, whatever the catalogue, the case and the calls: the score
\* the route returns is that of all AppWorks holds when the calculation lost no call, and by
\* the rows' own lists when it lost child rows alone; with parts of the case lost it is no more
\* than the lists could give the whole case, except by an allegation whose own record was lost
\* (calculate_risk_metrics, _fetch_risk_rules, _build_case_context, safe_fetch).
THEOREM OutagesAddNothing == Spec => []LossesAddNothing
<1>1. Init => CalculationInv /\ ResultInv
  BY DEF Init, CalculationInv, ResultInv, Reading
<1>2. CalculationInv /\ TypeOK /\ [Next]_vars => CalculationInv'
  BY CalculationStep
<1>3. ResultInv /\ CalculationInv /\ TypeOK /\ [Next]_vars => ResultInv'
  BY ResultStep
<1>4. ResultInv => LossesAddNothing
  BY DEF ResultInv, Founded, LossesAddNothing, At
<1>. QED
  BY <1>1, <1>2, <1>3, <1>4, ScoresTyped, PTL DEF Spec

===============================================================================
