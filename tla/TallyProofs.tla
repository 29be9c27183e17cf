---------------------------- MODULE TallyProofs ----------------------------
(***************************************************************************)
(* Lemmas about what the models tally.  Sums over a finite set, for every  *)
(* set and every term: nothing else is known of MapThenSumSet than its     *)
(* definition.  And the direct pool of a reputation, for every half-life   *)
(* and threshold: it stays typed, and what it weighs is what it was        *)
(* charged.                                                                *)
(***************************************************************************)
EXTENDS Reputation, FiniteSetsExt, FiniteSetTheorems, WellFoundedInduction, TLAPS

-----------------------------------------------------------------------------
(* Induction.                                                              *)

\* A set of naturals has a least one.
LEMMA Least ==
    ASSUME NEW S \in SUBSET Nat, S # {}
    PROVE  \E m \in S : \A n \in S : m <= n
<1>1. PICK m \in S : \A n \in S : ~ (<<n, m>> \in OpToRel(<, Nat))
  BY WFMin, NatLessThanWellFounded
<1>2. \A n \in S : n \in Nat /\ m \in Nat
  OBVIOUS
<1>3. \A n \in S : ~(n < m)
  BY <1>1, <1>2 DEF OpToRel
<1> QED
  BY <1>2, <1>3

\* Induction over the subsets of a finite set, for a family of them: it holds of
\* all of them if it holds of the empty one, and of any other whenever it holds of
\* that set less an element.
LEMMA SubsetInduction ==
    ASSUME NEW S, IsFiniteSet(S), NEW F, {} \in F,
           \A T \in SUBSET S : T # {} /\ (\A x \in T : T \ {x} \in F) => T \in F
    PROVE  \A T \in SUBSET S : T \in F
<1> SUFFICES ASSUME \E T \in SUBSET S : T \notin F
             PROVE  FALSE
  OBVIOUS
<1>1. \A T \in SUBSET S : IsFiniteSet(T) /\ Cardinality(T) \in Nat
  BY FS_Subset, FS_CardinalityType
<1> DEFINE bad == {T \in SUBSET S : T \notin F}
           sizes == {Cardinality(T) : T \in bad}
<1>2. sizes \in SUBSET Nat /\ sizes # {}
  BY <1>1
<1>3. PICK m \in sizes : \A n \in sizes : m <= n
  BY <1>2, Least
<1>4. PICK T \in bad : Cardinality(T) = m
  BY <1>3
<1>5. T # {}
  BY <1>4
<1>7. ASSUME NEW x \in T PROVE T \ {x} \in F
  <2>0. T \ {x} \in SUBSET S /\ Cardinality(T \ {x}) = m - 1
    BY <1>1, <1>4, FS_RemoveElement
  <2>1. ~(m <= m - 1)
    BY <1>2
  <2>2. T \ {x} \notin F => m - 1 \in sizes
    BY <2>0
  <2> QED
    BY <1>3, <2>1, <2>2
<1> QED
  BY <1>4, <1>5, <1>7

-----------------------------------------------------------------------------
(* Sums.                                                                   *)

\* The element a fold of FiniteSetsExt takes next.
Chosen(T) == CHOOSE x \in T : TRUE

\* g[T] is f's total over T, for every subset T of S.
Totals(g, f, S) ==
    g = [T \in SUBSET S |->
            IF T = {} THEN 0 ELSE f[Chosen(T)] + g[T \ {Chosen(T)}]]

\* The total of f over S.
Sum(f, S) == MapThenSumSet(LAMBDA x : f[x], S)

\* It is an element.
LEMMA ChosenIsIn == \A T : T # {} => Chosen(T) \in T
BY DEF Chosen

\* What totals are made of.
LEMMA TotalsAt ==
    ASSUME NEW f, NEW S, NEW g, Totals(g, f, S)
    PROVE  \A T \in SUBSET S :
             g[T] = IF T = {} THEN 0 ELSE f[Chosen(T)] + g[T \ {Chosen(T)}]
BY DEF Totals

\* Totals are determined by what is added.
LEMMA TotalsAgree ==
    ASSUME NEW S, IsFiniteSet(S), NEW R, NEW U, S \subseteq R, S \subseteq U,
           NEW f, NEW e, \A x \in S : f[x] = e[x],
           NEW g, Totals(g, f, R), NEW h, Totals(h, e, U)
    PROVE  g[S] = h[S]
<1> DEFINE F == {T \in SUBSET S : g[T] = h[T]}
<1>g. \A T \in SUBSET R :
        g[T] = IF T = {} THEN 0 ELSE f[Chosen(T)] + g[T \ {Chosen(T)}]
  BY TotalsAt
<1>h. \A T \in SUBSET U :
        h[T] = IF T = {} THEN 0 ELSE e[Chosen(T)] + h[T \ {Chosen(T)}]
  BY TotalsAt
<1>1. {} \in F
  BY <1>g, <1>h
<1>2. ASSUME NEW T \in SUBSET S, T # {}, \A x \in T : T \ {x} \in F
      PROVE  T \in F
  <2> DEFINE c == Chosen(T)
  <2>1. c \in T
    BY <1>2, ChosenIsIn
  <2>2. T \in SUBSET R /\ T \in SUBSET U
    OBVIOUS
  <2>3. g[T] = IF T = {} THEN 0 ELSE f[c] + g[T \ {c}]
    BY <2>2, <1>g
  <2>4. h[T] = IF T = {} THEN 0 ELSE e[c] + h[T \ {c}]
    BY <2>2, <1>h
  <2>5. f[c] = e[c] /\ g[T \ {c}] = h[T \ {c}]
    BY <1>2, <2>1
  <2> QED
    BY <1>2, <2>3, <2>4, <2>5
<1>3. \A T \in SUBSET S : T \in F
  <2> HIDE DEF F
  <2> QED
    BY <1>1, <1>2, SubsetInduction
<1> QED
  BY <1>3

\* Every function has totals over the subsets of a finite set: those over n
\* elements at most make those over one more.
LEMMA TotalsExist ==
    ASSUME NEW S, IsFiniteSet(S), NEW f
    PROVE  \E g : Totals(g, f, S)
<1> DEFINE Upto(n) == {T \in SUBSET S : Cardinality(T) <= n}
           Partial(g, n) ==
              g = [T \in Upto(n) |->
                      IF T = {} THEN 0 ELSE f[Chosen(T)] + g[T \ {Chosen(T)}]]
           without == {n \in Nat : ~\E g : Partial(g, n)}
<1>1. \A T \in SUBSET S : IsFiniteSet(T) /\ Cardinality(T) \in Nat
  BY FS_Subset, FS_CardinalityType
<1>2. \A T \in SUBSET S : T # {} =>
        /\ Chosen(T) \in T /\ T \ {Chosen(T)} \in SUBSET S
        /\ Cardinality(T \ {Chosen(T)}) = Cardinality(T) - 1
  BY <1>1, ChosenIsIn, FS_RemoveElement
<1>3. \E g : Partial(g, 0)
  <2>1. \A T \in Upto(0) : T = {}
    BY <1>1, FS_EmptySet
  <2>2. Partial([T \in Upto(0) |-> 0], 0)
    BY <2>1
  <2> QED
    BY <2>2
<1>4. ASSUME NEW n \in Nat, NEW g, Partial(g, n)
      PROVE  \E h : Partial(h, n + 1)
  <2> DEFINE h == [T \in Upto(n + 1) |->
                      IF T = {} THEN 0 ELSE f[Chosen(T)] + g[T \ {Chosen(T)}]]
  <2>1. \A T \in Upto(n) : T \in Upto(n + 1) /\ h[T] = g[T]
    <3>1. \A T \in Upto(n) : T \in Upto(n + 1)
      BY <1>1
    <3>2. \A T \in Upto(n) : g[T] =
            IF T = {} THEN 0 ELSE f[Chosen(T)] + g[T \ {Chosen(T)}]
      BY <1>4
    <3> QED
      BY <3>1, <3>2
  <2>2. \A T \in Upto(n + 1) : T # {} => T \ {Chosen(T)} \in Upto(n)
    BY <1>1, <1>2
  <2>3. \A T \in Upto(n + 1) : h[T] =
            IF T = {} THEN 0 ELSE f[Chosen(T)] + h[T \ {Chosen(T)}]
    BY <2>1, <2>2
  <2>4. Partial(h, n + 1)
    <3> HIDE DEF Upto
    <3> QED
      BY <2>3
  <2> QED
    BY <2>4
<1>5. without = {}
  <2> SUFFICES ASSUME without # {} PROVE FALSE
    OBVIOUS
  <2> HIDE DEF Partial
  <2>1. PICK m \in without : \A n \in without : m <= n
    BY Least
  <2>2. m \in Nat /\ m # 0 /\ ~\E g : Partial(g, m)
    BY <1>3, <2>1
  <2>3. m - 1 \in Nat /\ ~(m <= m - 1) /\ (m - 1) + 1 = m
    BY <2>2
  <2>4. PICK g : Partial(g, m - 1)
    BY <2>1, <2>3
  <2>5. \E h : Partial(h, (m - 1) + 1)
    BY <1>4, <2>3, <2>4
  <2> QED
    BY <2>2, <2>3, <2>5
<1>6. PICK g : Partial(g, Cardinality(S))
  BY <1>1, <1>5
<1>7. Upto(Cardinality(S)) = SUBSET S
  BY FS_Subset, FS_CardinalityType
<1> HIDE DEF Upto
<1> QED
  BY <1>6, <1>7 DEF Totals

\* A sum is the total of every function of totals.
LEMMA SumIsTotal ==
    ASSUME NEW S, IsFiniteSet(S), NEW f, NEW R, S \subseteq R,
           NEW g, Totals(g, f, R)
    PROVE  Sum(f, S) = g[S]
<1>1. Sum(f, S) = (CHOOSE h : Totals(h, f, S))[S]
  BY DEF Sum, MapThenSumSet, MapThenFoldSet, Totals, Chosen
<1>2. PICK e : Totals(e, f, S)
  BY TotalsExist
<1>3. Totals(CHOOSE h : Totals(h, f, S), f, S)
  BY <1>2
<1> QED
  BY <1>1, <1>3, TotalsAgree

\* Sums of functions that agree are equal.
LEMMA SumAgree ==
    ASSUME NEW S, IsFiniteSet(S), NEW f, NEW e, \A x \in S : f[x] = e[x]
    PROVE  Sum(f, S) = Sum(e, S)
<1>1. PICK g : Totals(g, f, S)
  BY TotalsExist
<1>2. PICK h : Totals(h, e, S)
  BY TotalsExist
<1>3. g[S] = h[S]
  BY <1>1, <1>2, TotalsAgree
<1> QED
  BY <1>1, <1>2, <1>3, SumIsTotal

\* The sum over no element, and over what is left when the chosen one is out.
LEMMA SumUnfolds ==
    ASSUME NEW S, IsFiniteSet(S), NEW f
    PROVE  Sum(f, S) =
             IF S = {} THEN 0 ELSE f[Chosen(S)] + Sum(f, S \ {Chosen(S)})
<1>1. PICK g : Totals(g, f, S)
  BY TotalsExist
<1>2. Sum(f, S) = g[S]
  BY <1>1, SumIsTotal
<1>3. Sum(f, S \ {Chosen(S)}) = g[S \ {Chosen(S)}]
  BY <1>1, FS_RemoveElement, SumIsTotal
<1>4. g[S] = IF S = {} THEN 0 ELSE f[Chosen(S)] + g[S \ {Chosen(S)}]
  BY <1>1, TotalsAt
<1> QED
  BY <1>2, <1>3, <1>4

\* Nothing adds up to zero.
LEMMA SumEmpty == \A f : Sum(f, {}) = 0
BY SumUnfolds, FS_EmptySet

\* A sum of integers is one, and of naturals.
LEMMA SumType ==
    ASSUME NEW S, IsFiniteSet(S), NEW f, NEW N \in {Nat, Int},
           \A x \in S : f[x] \in N
    PROVE  Sum(f, S) \in N
<1> DEFINE F == {T \in SUBSET S : Sum(f, T) \in N}
<1>0. 0 \in N /\ \A a, b \in N : a + b \in N
  OBVIOUS
<1>1. {} \in F
  BY <1>0, SumEmpty
<1>2. ASSUME NEW T \in SUBSET S, T # {}, \A x \in T : T \ {x} \in F
      PROVE  T \in F
  <2> DEFINE c == Chosen(T)
  <2>1. c \in T /\ IsFiniteSet(T)
    BY <1>2, ChosenIsIn, FS_Subset
  <2>2. Sum(f, T) = f[c] + Sum(f, T \ {c})
    BY <1>2, <2>1, SumUnfolds
  <2>3. f[c] \in N /\ Sum(f, T \ {c}) \in N
    BY <1>2, <2>1
  <2> QED
    BY <1>0, <2>2, <2>3
<1>3. \A T \in SUBSET S : T \in F
  <2> HIDE DEF F
  <2> QED
    BY <1>1, <1>2, SubsetInduction
<1> QED
  BY <1>3

\* Any element may be taken out of a sum, not only the chosen one.
LEMMA SumTakesOut ==
    ASSUME NEW S, IsFiniteSet(S), NEW f, \A x \in S : f[x] \in Int
    PROVE  \A x \in S : Sum(f, S) = f[x] + Sum(f, S \ {x})
<1> DEFINE F == {T \in SUBSET S : \A x \in T : Sum(f, T) = f[x] + Sum(f, T \ {x})}
<1>1. {} \in F
  OBVIOUS
<1>2. ASSUME NEW T \in SUBSET S, T # {}, \A x \in T : T \ {x} \in F
      PROVE  T \in F
  <2> DEFINE c == Chosen(T)
  <2>1. c \in T /\ IsFiniteSet(T)
    BY <1>2, ChosenIsIn, FS_Subset
  <2>2. Sum(f, T) = f[c] + Sum(f, T \ {c})
    BY <1>2, <2>1, SumUnfolds
  <2>3. ASSUME NEW x \in T, x # c
        PROVE  Sum(f, T) = f[x] + Sum(f, T \ {x})
    <3> DEFINE rest == (T \ {c}) \ {x}
    <3>1. /\ x \in T \ {c} /\ c \in T \ {x} /\ (T \ {x}) \ {c} = rest
          /\ T \ {c} \in F /\ T \ {x} \in F
      BY <1>2, <2>1, <2>3
    <3>2. Sum(f, T \ {c}) = f[x] + Sum(f, rest)
      BY <3>1
    <3>3. Sum(f, T \ {x}) = f[c] + Sum(f, rest)
      BY <3>1
    <3>4. IsFiniteSet(rest) /\ \A y \in rest : f[y] \in Int
      BY <2>1, FS_RemoveElement
    <3>5. f[x] \in Int /\ f[c] \in Int /\ Sum(f, rest) \in Int
      BY <2>1, <3>4, SumType
    <3> HIDE DEF rest
    <3> QED
      BY <2>2, <3>2, <3>3, <3>5
  <2> QED
    BY <2>2, <2>3
<1>3. \A T \in SUBSET S : T \in F
  <2> HIDE DEF F
  <2> QED
    BY <1>1, <1>2, SubsetInduction
<1> QED
  BY <1>3

\* One more element adds what it is worth.
LEMMA SumAdds ==
    ASSUME NEW S, IsFiniteSet(S), NEW x, x \notin S,
           NEW f, \A y \in S \cup {x} : f[y] \in Int
    PROVE  Sum(f, S \cup {x}) = f[x] + Sum(f, S)
<1>1. IsFiniteSet(S \cup {x}) /\ (S \cup {x}) \ {x} = S
  BY FS_AddElement
<1> HIDE DEF Sum
<1>2. Sum(f, S \cup {x}) = f[x] + Sum(f, (S \cup {x}) \ {x})
  BY <1>1, SumTakesOut
<1> QED
  BY <1>1, <1>2

\* A sum changes by what one of its terms changes by.
LEMMA SumUpdates ==
    ASSUME NEW S, IsFiniteSet(S), NEW x \in S,
           NEW f, \A y \in S : f[y] \in Int,
           NEW e, \A y \in S : e[y] \in Int,
           \A y \in S \ {x} : e[y] = f[y]
    PROVE  Sum(e, S) = Sum(f, S) + (e[x] - f[x])
<1>1. IsFiniteSet(S \ {x})
  BY FS_RemoveElement
<1>2. Sum(f, S) = f[x] + Sum(f, S \ {x}) /\ Sum(e, S) = e[x] + Sum(e, S \ {x})
  BY SumTakesOut
<1>3. Sum(e, S \ {x}) = Sum(f, S \ {x})
  BY <1>1, SumAgree
<1>4. Sum(f, S \ {x}) \in Int /\ f[x] \in Int /\ e[x] \in Int
  BY <1>1, SumType
<1> QED
  BY <1>2, <1>3, <1>4

\* h combines f and g.
Combines(h, a, f, b, g, S) == \A x \in S : h[x] = a * f[x] + b * g[x]

\* Sums are linear.
LEMMA SumLinear ==
    ASSUME NEW S, IsFiniteSet(S), NEW a \in Int, NEW b \in Int,
           NEW f, \A x \in S : f[x] \in Int,
           NEW g, \A x \in S : g[x] \in Int,
           NEW h, Combines(h, a, f, b, g, S)
    PROVE  Sum(h, S) = a * Sum(f, S) + b * Sum(g, S)
<1> DEFINE F == {T \in SUBSET S : Sum(h, T) = a * Sum(f, T) + b * Sum(g, T)}
<1>1. {} \in F
  BY SumEmpty
<1>2. ASSUME NEW T \in SUBSET S, T # {}, \A x \in T : T \ {x} \in F
      PROVE  T \in F
  <2> DEFINE c == Chosen(T)
             R == T \ {c}
  <2>1. c \in T /\ IsFiniteSet(T) /\ IsFiniteSet(R)
    BY <1>2, ChosenIsIn, FS_Subset, FS_RemoveElement
  <2>2. /\ Sum(f, T) = f[c] + Sum(f, R)
        /\ Sum(g, T) = g[c] + Sum(g, R)
        /\ Sum(h, T) = h[c] + Sum(h, R)
    BY <1>2, <2>1, SumUnfolds
  <2>3. h[c] = a * f[c] + b * g[c] /\ Sum(h, R) = a * Sum(f, R) + b * Sum(g, R)
    BY <1>2, <2>1 DEF Combines
  <2>4. f[c] \in Int /\ g[c] \in Int
    BY <2>1
  <2>5. Sum(f, R) \in Int /\ Sum(g, R) \in Int
    BY <2>1, SumType
  <2>6. \A u, v, x, y \in Int :
          (a * u + b * v) + (a * x + b * y) = a * (u + x) + b * (v + y)
    BY Z3
  <2> HIDE DEF c, R
  <2>7. Sum(h, T) = a * Sum(f, T) + b * Sum(g, T)
    BY <2>2, <2>3, <2>4, <2>5, <2>6
  <2> QED
    BY <2>7
<1>3. \A T \in SUBSET S : T \in F
  <2> HIDE DEF F
  <2> QED
    BY <1>1, <1>2, SubsetInduction
<1> QED
  BY <1>3

\* The sum of a constant.
LEMMA SumConstant ==
    ASSUME NEW S, IsFiniteSet(S), NEW c \in Int, NEW f, \A x \in S : f[x] = c
    PROVE  Sum(f, S) = c * Cardinality(S)
<1> DEFINE F == {T \in SUBSET S : Sum(f, T) = c * Cardinality(T)}
<1>1. {} \in F
  BY SumEmpty, FS_EmptySet
<1>2. ASSUME NEW T \in SUBSET S, T # {}, \A x \in T : T \ {x} \in F
      PROVE  T \in F
  <2> DEFINE d == Chosen(T)
  <2>1. d \in T /\ IsFiniteSet(T)
    BY <1>2, ChosenIsIn, FS_Subset
  <2>2. Sum(f, T) = f[d] + Sum(f, T \ {d}) /\ f[d] = c
    BY <1>2, <2>1, SumUnfolds
  <2>3. Sum(f, T \ {d}) = c * Cardinality(T \ {d})
    BY <1>2, <2>1
  <2>4. Cardinality(T) \in Nat /\ Cardinality(T \ {d}) = Cardinality(T) - 1
    BY <2>1, FS_RemoveElement, FS_CardinalityType
  <2>5. \A m \in Int : c + c * (m - 1) = c * m
    BY Z3
  <2> QED
    BY <2>2, <2>3, <2>4, <2>5
<1>3. \A T \in SUBSET S : T \in F
  <2> HIDE DEF F
  <2> QED
    BY <1>1, <1>2, SubsetInduction
<1> QED
  BY <1>3

-----------------------------------------------------------------------------
(* How two quantities vary together.                                       *)

Products(f, g, S) == [x \in S |-> f[x] * g[x]]

\* As many times the sum of the products as there are, less the product of the
\* sums: what linear regression divides by, and into.
Together(f, g, S) ==
    Cardinality(S) * Sum(Products(f, g, S), S) - Sum(f, S) * Sum(g, S)

Deviations(f, g, a, S) == [x \in S |-> (f[x] - f[a]) * (g[x] - g[a])]

\* The sum of the products of the deviations from one of the pairs, multiplied out.
LEMMA DeviationsSum ==
    ASSUME NEW S, IsFiniteSet(S), NEW a,
           NEW f, \A x \in S \cup {a} : f[x] \in Int,
           NEW g, \A x \in S \cup {a} : g[x] \in Int
    PROVE  Sum(Deviations(f, g, a, S), S)
             = Sum(Products(f, g, S), S) - f[a] * Sum(g, S) - g[a] * Sum(f, S)
                 + f[a] * g[a] * Cardinality(S)
<1> DEFINE p == Products(f, g, S)
           q == Deviations(f, g, a, S)
           m == [x \in S |-> f[a] * g[x] + g[a] * f[x]]
           c == [x \in S |-> f[a] * g[a]]
           d == [x \in S |-> 1 * p[x] + (-1) * m[x]]
<1>1. f[a] \in Int /\ g[a] \in Int /\ f[a] * g[a] \in Int
  BY Z3
<1>2. \A x \in S : f[x] \in Int /\ g[x] \in Int
  OBVIOUS
<1>3. \A u, v \in Int : u * v \in Int
  BY Z3
<1>4. /\ \A x \in S : p[x] \in Int
      /\ \A x \in S : m[x] \in Int
      /\ \A x \in S : c[x] \in Int
  BY <1>1, <1>2, <1>3 DEF Products
<1>5. \A x \in S : d[x] \in Int
  BY <1>4
<1>6. \A x \in S : q[x] = 1 * d[x] + 1 * c[x]
  <2>1. \A u, v, s, t \in Int :
          (u - s) * (v - t) = 1 * (1 * (u * v) + (-1) * (s * v + t * u)) + 1 * (s * t)
    BY Z3
  <2> SUFFICES ASSUME NEW x \in S PROVE q[x] = 1 * d[x] + 1 * c[x]
    OBVIOUS
  <2>2. /\ q[x] = (f[x] - f[a]) * (g[x] - g[a])
        /\ d[x] = 1 * (f[x] * g[x]) + (-1) * (f[a] * g[x] + g[a] * f[x])
        /\ c[x] = f[a] * g[a]
    BY DEF Deviations, Products
  <2> HIDE DEF q, d, c
  <2> QED
    BY <1>1, <1>2, <2>1, <2>2
<1>7. \A x \in S : m[x] = f[a] * g[x] + g[a] * f[x]
  OBVIOUS
<1>8. \A x \in S : d[x] = 1 * p[x] + (-1) * m[x]
  OBVIOUS
<1>9. \A x \in S : c[x] = f[a] * g[a]
  OBVIOUS
<1>10. Sum(p, S) \in Int /\ Sum(f, S) \in Int /\ Sum(g, S) \in Int /\ Sum(c, S) \in Int
  <2> HIDE DEF p, c
  <2> QED
    BY <1>2, <1>4, SumType
<1> HIDE DEF p, q, m, c, d
<1>comb. /\ Combines(q, 1, d, 1, c, S)
         /\ Combines(d, 1, p, -1, m, S)
         /\ Combines(m, f[a], g, g[a], f, S)
  BY <1>6, <1>7, <1>8 DEF Combines
<1>11. Sum(q, S) = 1 * Sum(d, S) + 1 * Sum(c, S)
  BY <1>4, <1>5, <1>comb, SumLinear
<1>12. Sum(d, S) = 1 * Sum(p, S) + (-1) * Sum(m, S)
  <2> DEFINE one == 1
             minus == -1
  <2>1. one \in Int /\ minus \in Int
    OBVIOUS
  <2>2. Combines(d, one, p, minus, m, S)
    BY <1>comb
  <2> HIDE DEF one, minus
  <2>3. Sum(d, S) = one * Sum(p, S) + minus * Sum(m, S)
    BY <1>4, <2>1, <2>2, SumLinear
  <2> QED
    BY <2>3 DEF one, minus
<1>13. Sum(m, S) = f[a] * Sum(g, S) + g[a] * Sum(f, S)
  BY <1>1, <1>2, <1>comb, SumLinear
<1>14. Sum(c, S) = f[a] * g[a] * Cardinality(S)
  BY <1>1, <1>9, SumConstant
<1>15. f[a] * Sum(g, S) \in Int /\ g[a] * Sum(f, S) \in Int
  BY <1>1, <1>3, <1>10
<1>16. Sum(q, S) = Sum(p, S) - f[a] * Sum(g, S) - g[a] * Sum(f, S) + Sum(c, S)
  BY <1>10, <1>11, <1>12, <1>13, <1>15
<1> QED
  BY <1>14, <1>16 DEF p, q

\* One more pair adds what the others deviate from it.
LEMMA TogetherGrows ==
    ASSUME NEW S, IsFiniteSet(S), NEW a \in S,
           NEW f, \A x \in S : f[x] \in Int,
           NEW g, \A x \in S : g[x] \in Int
    PROVE  Together(f, g, S)
             = Together(f, g, S \ {a}) + Sum(Deviations(f, g, a, S \ {a}), S \ {a})
<1> DEFINE R == S \ {a}
           p == Products(f, g, S)
           r == Products(f, g, R)
           k == Cardinality(R)
           P == Sum(r, R)
           X == Sum(f, R)
           Y == Sum(g, R)
           u == f[a]
           v == g[a]
<1>1. IsFiniteSet(R) /\ k \in Nat /\ Cardinality(S) = k + 1
  <2>1. IsFiniteSet(R) /\ Cardinality(R) = Cardinality(S) - 1
    BY FS_RemoveElement
  <2>2. Cardinality(S) \in Nat /\ Cardinality(R) \in Nat
    BY <2>1, FS_CardinalityType
  <2> QED
    BY <2>1, <2>2
<1>2. \A i, j \in Int : i * j \in Int
  BY Z3
<1>3. /\ \A x \in S : p[x] \in Int
      /\ \A x \in R : r[x] \in Int
      /\ \A x \in R : p[x] = r[x]
      /\ p[a] = u * v
  BY <1>2 DEF Products
<1>4. Sum(f, S) = u + X /\ Sum(g, S) = v + Y
  BY SumTakesOut
<1>5. Sum(p, S) = u * v + P
  <2> HIDE DEF p, r
  <2>1. Sum(p, S) = p[a] + Sum(p, R)
    BY <1>3, SumTakesOut
  <2>2. Sum(p, R) = Sum(r, R)
    BY <1>1, <1>3, SumAgree
  <2> QED
    BY <1>3, <2>1, <2>2
<1>6. Sum(Deviations(f, g, a, R), R) = P - u * Y - v * X + u * v * k
  BY <1>1, DeviationsSum
<1>7. u \in Int /\ v \in Int /\ X \in Int /\ Y \in Int /\ P \in Int /\ k \in Int
  <2>1. X \in Int /\ Y \in Int
    BY <1>1, SumType
  <2>2. P \in Int
    <3> HIDE DEF r
    <3> QED
      BY <1>1, <1>3, SumType
  <2> QED
    BY <1>1, <2>1, <2>2
<1>8. Together(f, g, S) = (k + 1) * (u * v + P) - (u + X) * (v + Y)
  BY <1>1, <1>4, <1>5 DEF Together
<1>9. Together(f, g, R) = k * P - X * Y
  BY DEF Together
<1>10. \A i, s, t, x, y, q \in Int :
         (i + 1) * (s * t + q) - (s + x) * (t + y)
           = (i * q - x * y) + (q - s * y - t * x + s * t * i)
  BY Z3
<1> HIDE DEF R, k, P, X, Y, u, v
<1> QED
  BY <1>6, <1>7, <1>8, <1>9, <1>10 DEF R

\* Chebyshev's sum inequality.
LEMMA TogetherNatural ==
    ASSUME NEW S, IsFiniteSet(S),
           NEW f, \A x \in S : f[x] \in Int,
           NEW g, \A x \in S : g[x] \in Int,
           \A x, y \in S : (f[x] - f[y]) * (g[x] - g[y]) >= 0
    PROVE  Together(f, g, S) \in Nat
<1> DEFINE F == {T \in SUBSET S : Together(f, g, T) \in Nat}
<1>1. {} \in F
  BY SumEmpty, FS_EmptySet DEF Together
<1>2. ASSUME NEW T \in SUBSET S, T # {}, \A x \in T : T \ {x} \in F
      PROVE  T \in F
  <2> DEFINE a == Chosen(T)
             R == T \ {a}
             q == Deviations(f, g, a, R)
  <2>1. a \in T /\ IsFiniteSet(T) /\ IsFiniteSet(R)
    BY <1>2, ChosenIsIn, FS_Subset, FS_RemoveElement
  <2>2. Together(f, g, T) = Together(f, g, R) + Sum(q, R)
    BY <2>1, TogetherGrows
  <2>3. Together(f, g, R) \in Nat
    BY <1>2, <2>1
  <2>4. \A x \in R : q[x] \in Nat
    <3>1. \A i, j \in Int : i * j \in Int
      BY Z3
    <3>2. \A x \in R : (f[x] - f[a]) * (g[x] - g[a]) \in Int
      BY <2>1, <3>1
    <3>3. \A x \in R : (f[x] - f[a]) * (g[x] - g[a]) >= 0
      BY <2>1
    <3> QED
      BY <3>2, <3>3 DEF Deviations
  <2> HIDE DEF q
  <2>5. Sum(q, R) \in Nat
    BY <2>1, <2>4, SumType
  <2> QED
    BY <2>2, <2>3, <2>5
<1>3. \A T \in SUBSET S : T \in F
  <2> HIDE DEF F
  <2> QED
    BY <1>1, <1>2, SubsetInduction
<1> QED
  BY <1>3

\* Two pairs alone bound it from below.
LEMMA TogetherApart ==
    ASSUME NEW S, IsFiniteSet(S),
           NEW f, \A x \in S : f[x] \in Int,
           NEW g, \A x \in S : g[x] \in Int,
           \A x, y \in S : (f[x] - f[y]) * (g[x] - g[y]) >= 0,
           NEW a \in S, NEW b \in S, a # b
    PROVE  Together(f, g, S) >= (f[b] - f[a]) * (g[b] - g[a])
<1> DEFINE R == S \ {a}
           q == Deviations(f, g, a, R)
<1>1. IsFiniteSet(R) /\ IsFiniteSet(R \ {b}) /\ b \in R
  BY FS_RemoveElement
<1>2. \A x \in R : q[x] \in Nat
  <2>1. \A i, j \in Int : i * j \in Int
    BY Z3
  <2>2. \A x \in R : (f[x] - f[a]) * (g[x] - g[a]) \in Int
    BY <2>1
  <2> QED
    BY <2>2 DEF Deviations
<1>3. q[b] = (f[b] - f[a]) * (g[b] - g[a])
  BY DEF Deviations
<1>4. Together(f, g, R) \in Nat
  BY <1>1, TogetherNatural
<1>5. Together(f, g, S) = Together(f, g, R) + Sum(q, R)
  BY TogetherGrows
<1> HIDE DEF q
<1>6. Sum(q, R) = q[b] + Sum(q, R \ {b})
  <2>1. \A x \in R : q[x] \in Int
    BY <1>2
  <2> QED
    BY <1>1, <2>1, SumTakesOut
<1>7. Sum(q, R \ {b}) \in Nat
  BY <1>1, <1>2, SumType
<1>8. q[b] \in Nat
  BY <1>1, <1>2
<1> QED
  BY <1>3, <1>4, <1>5, <1>6, <1>7, <1>8

\* h is a line over g.
LinearIn(h, a, b, g, S) == \A x \in S : h[x] = a + b * g[x]

\* A linear change of one of two quantities scales how they vary together.
LEMMA TogetherLinear ==
    ASSUME NEW S, IsFiniteSet(S), NEW a \in Int, NEW b \in Int,
           NEW f, \A x \in S : f[x] \in Int,
           NEW g, \A x \in S : g[x] \in Int,
           NEW h, LinearIn(h, a, b, g, S)
    PROVE  /\ Sum(h, S) = a * Cardinality(S) + b * Sum(g, S)
           /\ Together(f, h, S) = b * Together(f, g, S)
<1> DEFINE one == [x \in S |-> 1]
           p == Products(f, g, S)
           q == Products(f, h, S)
           k == Cardinality(S)
<1>lin. \A x \in S : h[x] = a + b * g[x]
  BY DEF LinearIn
<1>1. \A i, j \in Int : i * j \in Int
  BY Z3
<1>2. /\ \A x \in S : one[x] = 1
      /\ \A x \in S : p[x] = f[x] * g[x]
      /\ \A x \in S : q[x] = f[x] * h[x]
  BY DEF Products
<1> HIDE DEF one, p, q, k
<1>3. k \in Int /\ Sum(f, S) \in Int /\ Sum(g, S) \in Int
  BY FS_CardinalityType, SumType DEF k
<1>4. \A x \in S : p[x] \in Int
  BY <1>1, <1>2
<1>5. Sum(p, S) \in Int
  BY <1>4, SumType
<1>6. Sum(h, S) = a * k + b * Sum(g, S)
  <2>1. Sum(one, S) = k
    <3>1. Sum(one, S) = 1 * Cardinality(S)
      BY <1>2, SumConstant
    <3> QED
      BY <1>3, <3>1 DEF k
  <2>2. Combines(h, a, one, b, g, S)
    BY <1>2, <1>lin DEF Combines
  <2>3. \A x \in S : one[x] \in Int
    BY <1>2
  <2>4. Sum(h, S) = a * Sum(one, S) + b * Sum(g, S)
    BY <2>2, <2>3, SumLinear
  <2> QED
    BY <2>1, <2>4
<1>7. Sum(q, S) = a * Sum(f, S) + b * Sum(p, S)
  <2>1. \A u, v \in Int : u * (a + b * v) = a * u + b * (u * v)
    BY Z3
  <2>2. Combines(q, a, f, b, p, S)
    BY <1>2, <1>lin, <2>1 DEF Combines
  <2> QED
    BY <1>4, <2>2, SumLinear
<1>8. \A n, sf, sg, sp \in Int :
        n * (a * sf + b * sp) - sf * (a * n + b * sg) = b * (n * sp - sf * sg)
  BY Z3
<1>9. Together(f, h, S) = k * Sum(q, S) - Sum(f, S) * Sum(h, S)
  BY DEF Together, q, k
<1>10. Together(f, g, S) = k * Sum(p, S) - Sum(f, S) * Sum(g, S)
  BY DEF Together, p, k
<1> QED
  BY <1>3, <1>5, <1>6, <1>7, <1>8, <1>9, <1>10 DEF k

\* Integers make integer sums.
LEMMA TogetherType ==
    ASSUME NEW S, IsFiniteSet(S),
           NEW f, \A x \in S : f[x] \in Int,
           NEW g, \A x \in S : g[x] \in Int
    PROVE  Together(f, g, S) \in Int
<1>1. \A i, j \in Int : i * j \in Int
  BY Z3
<1>2. \A x \in S : Products(f, g, S)[x] \in Int
  BY <1>1 DEF Products
<1>3. Sum(Products(f, g, S), S) \in Int /\ Sum(f, S) \in Int /\ Sum(g, S) \in Int
  BY <1>2, SumType
<1>4. Cardinality(S) \in Int
  BY FS_CardinalityType
<1> QED
  BY <1>1, <1>3, <1>4 DEF Together

\* A square is natural.
LEMMA Square == \A i \in Int : i * i \in Nat
BY Z3

\* A finite set of integers with an element has a greatest.
LEMMA MaxIs ==
    ASSUME NEW S \in SUBSET Int, IsFiniteSet(S), S # {}
    PROVE  Max(S) \in S /\ \A x \in S : x <= Max(S)
<1> DEFINE F == {T \in SUBSET S : T # {} => \E m \in T : \A x \in T : x <= m}
<1>1. {} \in F
  OBVIOUS
<1>2. ASSUME NEW T \in SUBSET S, T # {}, \A x \in T : T \ {x} \in F
      PROVE  T \in F
  <2> PICK c \in T : TRUE
    BY <1>2
  <2>1. CASE T \ {c} = {}
    BY <2>1
  <2>2. CASE T \ {c} # {}
    <3>1. PICK m \in T \ {c} : \A x \in T \ {c} : x <= m
      BY <1>2, <2>2
    <3>2. c \in Int /\ m \in Int
      OBVIOUS
    <3>3. \A x \in T : x <= (IF c <= m THEN m ELSE c)
      BY <3>1, <3>2
    <3> QED
      BY <3>3
  <2> QED
    BY <2>1, <2>2
<1>3. S \in F
  <2> HIDE DEF F
  <2> QED
    BY <1>1, <1>2, SubsetInduction
<1>4. \E m \in S : \A x \in S : m >= x
  BY <1>3
<1> QED
  BY <1>4 DEF Max

-----------------------------------------------------------------------------
(* The direct pool of a reputation.                                        *)

\* Decay only forgets: it leaves a natural number no larger than the weight.
LEMMA DecayForgets ==
    ASSUME NEW w \in Nat, NEW e \in Nat
    PROVE  Decay(w, e) \in 0 .. w
<1> DEFINE k == IF HalfLife = 0 THEN 0 ELSE e \div HalfLife
<1>1. k \in Nat
  BY WeightsAssumption
<1>2. CASE k < Len(Halvings)
  <2>1. Halvings[k + 1] \in Nat \ {0}
    BY <1>1, <1>2 DEF Halvings
  <2>2. w \div Halvings[k + 1] \in 0 .. w
    BY <2>1
  <2> QED
    BY <1>2, <2>2 DEF Decay
<1>3. CASE ~(k < Len(Halvings))
  BY <1>3 DEF Decay
<1> QED
  BY <1>2, <1>3

\* Adding evidence to a record yields a record, no lighter in successes and
\* failures than what was added.
LEMMA EvidenceType ==
    ASSUME NEW r \in Record, NEW kept \in Nat, NEW broken \in Nat,
           NEW strike \in Nat, NEW now \in Nat
    PROVE  AddEvidence(r, kept, broken, strike, now) \in Record
<1> DEFINE age == Elapsed(now, r.last)
<1>1. /\ r.successes \in Nat /\ r.failures \in Nat
      /\ r.dings \in Nat /\ r.last \in Nat
  BY DEF Record
<1>2. age \in Nat
  BY <1>1 DEF Elapsed
<1>3. Decay(r.successes, age) \in Nat /\ Decay(r.failures, age) \in Nat
  <2>1. Decay(r.successes, age) \in 0 .. r.successes
    BY <1>1, <1>2, DecayForgets
  <2>2. Decay(r.failures, age) \in 0 .. r.failures
    BY <1>1, <1>2, DecayForgets
  <2> QED
    BY <1>1, <2>1, <2>2
<1> QED
  BY <1>1, <1>3 DEF AddEvidence, DecayedSuccesses, DecayedFailures, Record

\* Scoring an outcome keeps a record a record.
LEMMA OutcomeType ==
    ASSUME NEW r \in Record, NEW ratio \in 0 .. Unit, NEW now \in Nat
    PROVE  RecordOutcome(r, ratio, now) \in Record
<1>1. ratio \in Nat /\ Unit - ratio \in Nat
  BY WeightsAssumption
<1> QED
  BY <1>1, EvidenceType DEF RecordOutcome

\* So does sweeping any number of broken bargains.
LEMMA BrokenType ==
    ASSUME NEW r \in Record, NEW k \in Nat, NEW now \in Nat
    PROVE  RecordBroken(r, k, now) \in Record
<1>1. k * Unit \in Nat
  BY WeightsAssumption
<1> QED
  BY <1>1, EvidenceType DEF RecordBroken

-----------------------------------------------------------------------------
(* Strikes.                                                                *)

\* The failures of a record weigh no more than Unit for each of its dings.
WithinDings(r, dings) == r.failures <= dings * Unit

\* One more ding covers one more outcome, whatever it was.
LEMMA OutcomeWithinDings ==
    ASSUME NEW r \in Record, NEW ratio \in 0 .. Unit, NEW now \in Nat,
           NEW n \in Nat, WithinDings(r, n)
    PROVE  /\ ratio < Unit => WithinDings(RecordOutcome(r, ratio, now), n + 1)
           /\ ratio = Unit => WithinDings(RecordOutcome(r, ratio, now), n)
<1> DEFINE old == Decay(r.failures, Elapsed(now, r.last))
<1>1. r.failures \in Nat /\ r.last \in Nat /\ Unit \in Nat \ {0} /\ ratio \in Nat
  BY WeightsAssumption DEF Record
<1>2. old \in 0 .. r.failures
  <2>1. Elapsed(now, r.last) \in Nat
    BY <1>1 DEF Elapsed
  <2> QED
    BY <1>1, <2>1, DecayForgets
<1>3. RecordOutcome(r, ratio, now).failures = old + (Unit - ratio)
  BY DEF RecordOutcome, AddEvidence, DecayedFailures
<1>4. n * Unit \in Nat /\ (n + 1) * Unit = n * Unit + Unit
  BY <1>1
<1> HIDE DEF old
<1> QED
  BY <1>1, <1>2, <1>3, <1>4 DEF WithinDings

\* k broken bargains are covered by k dings.
LEMMA BrokenWithinDings ==
    ASSUME NEW r \in Record, NEW k \in Nat, NEW now \in Nat,
           NEW n \in Nat, WithinDings(r, n)
    PROVE  WithinDings(RecordBroken(r, k, now), n + k)
<1> DEFINE old == Decay(r.failures, Elapsed(now, r.last))
<1>1. r.failures \in Nat /\ r.last \in Nat /\ Unit \in Nat \ {0}
  BY WeightsAssumption DEF Record
<1>2. old \in 0 .. r.failures
  <2>1. Elapsed(now, r.last) \in Nat
    BY <1>1 DEF Elapsed
  <2> QED
    BY <1>1, <2>1, DecayForgets
<1>3. RecordBroken(r, k, now).failures = old + k * Unit
  BY DEF RecordBroken, AddEvidence, DecayedFailures
<1>4. n * Unit \in Nat /\ k * Unit \in Nat /\ (n + k) * Unit = n * Unit + k * Unit
  BY <1>1
<1> HIDE DEF old
<1> QED
  BY <1>1, <1>2, <1>3, <1>4 DEF WithinDings

\* The threshold is above one Unit: a blacklisted peer has two dings.
LEMMA BlacklistedTwice ==
    ASSUME NEW r \in Record, NEW now \in Nat, NEW n \in Nat,
           WithinDings(r, n), Blacklisted(r, now)
    PROVE  n >= 2
<1> DEFINE old == Decay(r.failures, Elapsed(now, r.last))
<1>1. /\ r.failures \in Nat /\ r.last \in Nat /\ Unit \in Nat \ {0}
      /\ Threshold \in Nat /\ Unit < Threshold
  BY WeightsAssumption DEF Record
<1>2. old \in 0 .. r.failures
  <2>1. Elapsed(now, r.last) \in Nat
    BY <1>1 DEF Elapsed
  <2> QED
    BY <1>1, <2>1, DecayForgets
<1>3. old >= Threshold
  BY DEF Blacklisted, DecayedFailures
<1> HIDE DEF old
<1>4. Unit < n * Unit
  BY <1>1, <1>2, <1>3 DEF WithinDings
<1>5. n # 0 /\ n # 1
  BY <1>1, <1>4
<1> QED
  BY <1>5
=============================================================================
