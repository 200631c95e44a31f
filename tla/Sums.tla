-------------------------------- MODULE Sums --------------------------------
(***************************************************************************)
(* What the folds of the models add up to.  MapThenFoldSet is a function   *)
(* by recursion over subsets; that a finite set of weights has a sum, and  *)
(* that the recursion computes it whatever element it takes next, is shown *)
(* here by least counterexamples.                                          *)
(***************************************************************************)
EXTENDS Integers, FiniteSets, FiniteSetTheorems, WellFoundedInduction, TLAPS

\* g gives the subsets of S their sums of the weights w.
IsSum(g, w, S) ==
    /\ g \in [SUBSET S -> Nat] /\ g[{}] = 0
    /\ \A T \in SUBSET S : \A x \in T : g[T] = w[x] + g[T \ {x}]

\* c picks an element of each subset; h is what the recursion along c computes.
Picks(c, S) == \A T \in SUBSET S : T # {} => c[T] \in T
Recurses(h, w, c, S) ==
    h = [T \in SUBSET S |-> IF T = {} THEN 0 ELSE w[c[T]] + h[T \ {c[T]}]]

\* h adds the weights up by the element CHOOSE takes, as MapThenSumSet does.
AddsUp(h, w, S) ==
    h = [T \in SUBSET S |-> IF T = {} THEN 0
           ELSE w[CHOOSE x \in T : TRUE] + h[T \ {CHOOSE x \in T : TRUE}]]

\* Every set of numbers has a least one.
LEMMA LeastNumber == \A T \in SUBSET Nat : T # {} => \E x \in T : \A y \in T : x <= y
<1> SUFFICES ASSUME NEW T \in SUBSET Nat, T # {} PROVE \E x \in T : \A y \in T : x <= y
    OBVIOUS
<1>1. PICK x \in T : \A y \in T : ~(<<y, x>> \in OpToRel(<, Nat))
    BY NatLessThanWellFounded, WFMin
<1>2. \A y \in T : ~(y < x)
    BY <1>1 DEF OpToRel
<1> QED BY <1>2

\* Among finite sets with a flaw one is smallest: what is left of it when an element
\* is taken out has none.
LEMMA SmallestSet ==
    ASSUME NEW S, IsFiniteSet(S), NEW Bad \in SUBSET (SUBSET S), Bad # {}
    PROVE  \E T \in Bad : \A x \in T : T \ {x} \notin Bad
<1> DEFINE sizes == {Cardinality(T) : T \in Bad}
<1>1. \A T \in SUBSET S : IsFiniteSet(T) /\ Cardinality(T) \in Nat
    BY FS_Subset, FS_CardinalityType
<1>2. sizes \in SUBSET Nat /\ sizes # {}
    BY <1>1
<1>3. PICK n \in sizes : \A m \in sizes : n <= m
    BY <1>2, LeastNumber
<1>4. PICK T \in Bad : Cardinality(T) = n
    BY <1>3
<1>5. ASSUME NEW x \in T, T \ {x} \in Bad PROVE FALSE
    <2>1. Cardinality(T \ {x}) = Cardinality(T) - 1
        BY <1>1, FS_RemoveElement
    <2>2. n <= Cardinality(T \ {x})
        BY <1>3, <1>5
    <2> QED BY <1>1, <1>4, <2>1, <2>2
<1> QED BY <1>4, <1>5

\* Every finite set of weights has a sum.
LEMMA SumExists ==
    ASSUME NEW S, IsFiniteSet(S), NEW w \in [S -> Nat]
    PROVE  \E g : IsSum(g, w, S)
<1> DEFINE Bad == {T \in SUBSET S : ~ \E g : IsSum(g, w, T)}
<1>1. SUFFICES ASSUME Bad # {} PROVE FALSE
    BY DEF IsSum
<1>2. PICK T \in Bad : \A x \in T : T \ {x} \notin Bad
    <2>1. Bad \in SUBSET (SUBSET S)
        OBVIOUS
    <2> HIDE DEF Bad
    <2> QED BY <1>1, <2>1, SmallestSet
<1>3. T # {}
    <2>1. IsSum([s \in SUBSET {} |-> 0], w, {})
        BY DEF IsSum
    <2> QED BY <2>1
<1>4. PICK x : x \in T
    BY <1>3
<1> DEFINE R == T \ {x}
<1>5. R \in SUBSET S /\ R \notin Bad /\ T \in SUBSET S /\ x \in S
    BY <1>2, <1>4
<1>6. PICK g : IsSum(g, w, R)
    BY <1>5
<1> DEFINE h == [s \in SUBSET T |-> IF x \in s THEN w[x] + g[s \ {x}] ELSE g[s]]
<1>7. \A s \in SUBSET T : s \ {x} \in SUBSET R /\ (x \notin s => s \in SUBSET R)
    OBVIOUS
<1>8. \A s \in SUBSET R : g[s] \in Nat
    BY <1>6 DEF IsSum
<1>9. \A y \in T : w[y] \in Nat
    BY <1>5
<1>10. h \in [SUBSET T -> Nat]
    <2>1. ASSUME NEW s \in SUBSET T
          PROVE  (IF x \in s THEN w[x] + g[s \ {x}] ELSE g[s]) \in Nat
        BY <1>4, <1>7, <1>8, <1>9
    <2> QED BY <2>1
<1>11. h[{}] = 0
    BY <1>6 DEF IsSum
<1>12. ASSUME NEW s \in SUBSET T, NEW y \in s PROVE h[s] = w[y] + h[s \ {y}]
    <2> DEFINE q == s \ {x}
    <2>0. s \ {y} \in SUBSET T /\ q \in SUBSET R
        BY <1>7
    <2>1. CASE y = x
        <3>1. h[s] = w[x] + g[q] /\ h[s \ {y}] = g[q]
            BY <2>0, <2>1
        <3> QED BY <2>1, <3>1
    <2>2. CASE y # x /\ x \in s
        <3>1. y \in q /\ (s \ {y}) \ {x} = q \ {y} /\ q \ {y} \in SUBSET R
            BY <2>0, <2>2
        <3>2. g[q] = w[y] + g[q \ {y}]
            BY <1>6, <2>0, <3>1 DEF IsSum
        <3>3. h[s] = w[x] + g[q] /\ h[s \ {y}] = w[x] + g[q \ {y}]
            BY <2>0, <2>2, <3>1
        <3>4. w[x] \in Nat /\ w[y] \in Nat /\ g[q \ {y}] \in Nat
            BY <1>4, <1>8, <1>9, <3>1
        <3> HIDE DEF h, q
        <3> QED BY <3>2, <3>3, <3>4
    <2>3. CASE y # x /\ x \notin s
        <3>1. s \in SUBSET R /\ s \ {y} \in SUBSET R
            BY <2>3
        <3>2. g[s] = w[y] + g[s \ {y}]
            BY <1>6, <3>1 DEF IsSum
        <3> QED BY <2>0, <2>3, <3>2
    <2> QED BY <2>1, <2>2, <2>3
<1>13. IsSum(h, w, T)
    <2> HIDE DEF h
    <2> QED BY <1>10, <1>11, <1>12 DEF IsSum
<1> QED BY <1>2, <1>13

\* Whatever element the recursion takes next, it computes the sum.
LEMMA RecursionSums ==
    ASSUME NEW S, IsFiniteSet(S), NEW w, NEW g, IsSum(g, w, S),
           NEW c, Picks(c, S), NEW h, Recurses(h, w, c, S)
    PROVE  h = g
<1> DEFINE Bad == {T \in SUBSET S : h[T] # g[T]}
<1>1. ASSUME Bad # {} PROVE FALSE
    <2>1. PICK T \in Bad : \A x \in T : T \ {x} \notin Bad
        <3>1. Bad \in SUBSET (SUBSET S)
            OBVIOUS
        <3> HIDE DEF Bad
        <3> QED BY <1>1, <3>1, SmallestSet
    <2>2. T \in SUBSET S /\ h[T] = IF T = {} THEN 0 ELSE w[c[T]] + h[T \ {c[T]}]
        BY DEF Recurses
    <2>3. T # {}
        BY <2>1, <2>2 DEF IsSum
    <2>4. c[T] \in T /\ T \ {c[T]} \in SUBSET S
        BY <2>2, <2>3 DEF Picks
    <2>5. h[T \ {c[T]}] = g[T \ {c[T]}]
        BY <2>1, <2>4
    <2>6. g[T] = w[c[T]] + g[T \ {c[T]}]
        BY <2>2, <2>4 DEF IsSum
    <2> QED BY <2>1, <2>2, <2>3, <2>5, <2>6
<1>2. \A T \in SUBSET S : h[T] = g[T]
    BY <1>1
<1>3. g \in [SUBSET S -> Nat]
    BY DEF IsSum
<1>4. h = [T \in SUBSET S |-> h[T]] /\ g = [T \in SUBSET S |-> g[T]]
    BY <1>3 DEF Recurses
<1> QED BY <1>2, <1>4

\* A sum follows the recursion whatever element it takes next.
LEMMA SumRecurses ==
    ASSUME NEW S, NEW w, NEW g, IsSum(g, w, S),
           NEW c, Picks(c, S)
    PROVE  Recurses(g, w, c, S)
<1>1. g \in [SUBSET S -> Nat]
    BY DEF IsSum
<1>2. ASSUME NEW T \in SUBSET S
      PROVE  g[T] = IF T = {} THEN 0 ELSE w[c[T]] + g[T \ {c[T]}]
    BY DEF IsSum, Picks
<1>3. g = [T \in SUBSET S |-> g[T]]
    BY <1>1
<1> QED BY <1>2, <1>3 DEF Recurses

\* The same with any element, as MapThenSumSet takes it.
LEMMA AnySums ==
    ASSUME NEW S, IsFiniteSet(S), NEW w, NEW g, IsSum(g, w, S)
    PROVE  AddsUp(g, w, S) /\ \A h : AddsUp(h, w, S) => h = g
<1> DEFINE c == [T \in SUBSET S |-> CHOOSE x \in T : TRUE]
<1>1. \A T \in SUBSET S : c[T] = CHOOSE x \in T : TRUE
    OBVIOUS
<1>2. Picks(c, S)
    BY DEF Picks
<1> HIDE DEF c
<1>3. Recurses(g, w, c, S)
    BY <1>2, SumRecurses
<1>4. ASSUME NEW h PROVE Recurses(h, w, c, S) <=> AddsUp(h, w, S)
    <2>1. [T \in SUBSET S |-> IF T = {} THEN 0 ELSE w[c[T]] + h[T \ {c[T]}]]
          = [T \in SUBSET S |-> IF T = {} THEN 0
               ELSE w[CHOOSE x \in T : TRUE] + h[T \ {CHOOSE x \in T : TRUE}]]
        BY <1>1
    <2> QED BY <2>1 DEF Recurses, AddsUp
<1>5. ASSUME NEW h, AddsUp(h, w, S) PROVE h = g
    <2>1. Recurses(h, w, c, S)
        BY <1>4, <1>5
    <2> QED BY <1>2, <2>1, RecursionSums
<1> QED BY <1>3, <1>4, <1>5

\* There is one sum.
LEMMA SumIsUnique ==
    ASSUME NEW S, IsFiniteSet(S), NEW w, NEW g, IsSum(g, w, S), NEW h, IsSum(h, w, S)
    PROVE  h = g
<1> DEFINE c == [T \in SUBSET S |-> CHOOSE x \in T : TRUE]
<1>1. Picks(c, S)
    BY DEF Picks
<1> HIDE DEF c
<1>2. Recurses(h, w, c, S)
    BY <1>1, SumRecurses
<1> QED BY <1>1, <1>2, RecursionSums

\* h is what a recursion along c computes that passes over what is not in In.
Filters(h, t, In, c, S) ==
    h = [T \in SUBSET S |-> IF T = {} THEN 0 ELSE
           IF c[T] \in In THEN h[T \ {c[T]}] + t[c[T]] ELSE h[T \ {c[T]}]]

\* The weights of what is in In.
WeightsOf(w, t, In, S) == \A x \in S : w[x] = IF x \in In THEN t[x] ELSE 0

\* The recursion that passes over what it does not count.
LEMMA FilterRecurses ==
    ASSUME NEW S, IsFiniteSet(S), NEW In, NEW t,
           NEW w \in [S -> Nat], WeightsOf(w, t, In, S),
           NEW g, IsSum(g, w, S), NEW c, Picks(c, S)
    PROVE  \A h : Filters(h, t, In, c, S) <=> h = g
<1>1. g \in [SUBSET S -> Nat] /\ g[{}] = 0
    BY DEF IsSum
<1>2. ASSUME NEW T \in SUBSET S
      PROVE  g[T] = IF T = {} THEN 0 ELSE
                      IF c[T] \in In THEN g[T \ {c[T]}] + t[c[T]] ELSE g[T \ {c[T]}]
    <2>1. CASE T = {}
        BY <1>1, <2>1
    <2>2. CASE T # {}
        <3>1. c[T] \in T /\ c[T] \in S /\ T \ {c[T]} \in SUBSET S
            BY <2>2 DEF Picks
        <3>2. g[T] = w[c[T]] + g[T \ {c[T]}]
            BY <3>1 DEF IsSum
        <3>3. w[c[T]] \in Nat /\ g[T \ {c[T]}] \in Nat
            BY <1>1, <3>1
        <3>4. w[c[T]] = IF c[T] \in In THEN t[c[T]] ELSE 0
            BY <3>1 DEF WeightsOf
        <3> QED BY <2>2, <3>2, <3>3, <3>4
    <2> QED BY <2>1, <2>2
<1>3. Filters(g, t, In, c, S)
    <2>1. g = [T \in SUBSET S |-> g[T]]
        BY <1>1
    <2> QED BY <1>2, <2>1 DEF Filters
<1>4. ASSUME NEW h, Filters(h, t, In, c, S) PROVE h = g
    <2> DEFINE Bad == {T \in SUBSET S : h[T] # g[T]}
    <2>1. ASSUME NEW T \in SUBSET S
          PROVE  h[T] = IF T = {} THEN 0 ELSE
                          IF c[T] \in In THEN h[T \ {c[T]}] + t[c[T]] ELSE h[T \ {c[T]}]
        BY <1>4 DEF Filters
    <2>2. ASSUME Bad # {} PROVE FALSE
        <3>1. PICK T \in Bad : \A x \in T : T \ {x} \notin Bad
            <4>1. Bad \in SUBSET (SUBSET S)
                OBVIOUS
            <4> HIDE DEF Bad
            <4> QED BY <2>2, <4>1, SmallestSet
        <3>2. T # {}
            BY <1>1, <2>1, <3>1
        <3>3. c[T] \in T /\ T \ {c[T]} \in SUBSET S
            BY <3>1, <3>2 DEF Picks
        <3>4. h[T \ {c[T]}] = g[T \ {c[T]}]
            BY <3>1, <3>3
        <3>5. h[T] = g[T]
            BY <1>2, <2>1, <3>1, <3>2, <3>4
        <3> QED BY <3>1, <3>5
    <2>3. \A T \in SUBSET S : h[T] = g[T]
        BY <2>2
    <2>4. h = [T \in SUBSET S |-> h[T]]
        BY <1>4 DEF Filters
    <2> HIDE DEF Bad
    <2> QED BY <1>1, <2>3, <2>4
<1> QED BY <1>3, <1>4

\* The sums of the subsets of R only.
Part(g, R) == [T \in SUBSET R |-> g[T]]

\* Sums over a part, with the weights that matter there.
LEMMA SumOfPart ==
    ASSUME NEW S, NEW w, NEW g, IsSum(g, w, S), NEW R \in SUBSET S,
           NEW v, \A x \in R : v[x] = w[x]
    PROVE  IsSum(Part(g, R), v, R)
<1> DEFINE h == [T \in SUBSET R |-> g[T]]
<1>1. h \in [SUBSET R -> Nat] /\ h[{}] = 0
    BY DEF IsSum
<1>2. ASSUME NEW T \in SUBSET R, NEW x \in T PROVE h[T] = v[x] + h[T \ {x}]
    <2>1. g[T] = w[x] + g[T \ {x}]
        BY DEF IsSum
    <2> QED BY <2>1
<1> HIDE DEF h
<1>3. IsSum(h, v, R)
    BY <1>1, <1>2 DEF IsSum
<1> QED BY <1>3 DEF h, Part

\* The sums of disjoint sets add up.
LEMMA SumsAdd ==
    ASSUME NEW S, IsFiniteSet(S), NEW w \in [S -> Nat], NEW g, IsSum(g, w, S),
           NEW A \in SUBSET S, NEW B \in SUBSET S, A \cap B = {}
    PROVE  g[A \cup B] = g[A] + g[B]
<1> DEFINE Bad == {T \in SUBSET B : g[A \cup T] # g[A] + g[T]}
<1>1. \A T \in SUBSET S : g[T] \in Nat
    BY DEF IsSum
<1>2. ASSUME Bad # {} PROVE FALSE
    <2>1. PICK T \in Bad : \A x \in T : T \ {x} \notin Bad
        <3>1. Bad \in SUBSET (SUBSET B) /\ IsFiniteSet(B)
            BY FS_Subset
        <3> HIDE DEF Bad
        <3> QED BY <1>2, <3>1, SmallestSet
    <2>2. T \in SUBSET B /\ T \in SUBSET S /\ A \cup T \in SUBSET S
        OBVIOUS
    <2>3. T # {}
        <3>1. A \cup {} = A /\ g[{}] = 0 /\ g[A] \in Nat
            BY <1>1 DEF IsSum
        <3>2. g[A \cup T] # g[A] + g[T]
            BY <2>1
        <3> QED BY <3>1, <3>2
    <2>4. PICK x : x \in T
        BY <2>3
    <2> DEFINE R == T \ {x}
    <2>5. (A \cup T) \ {x} = A \cup R /\ A \cup R \in SUBSET S /\ R \in SUBSET S /\ x \in S
        BY <2>2, <2>4
    <2>6. g[A \cup R] = g[A] + g[R]
        BY <2>1, <2>2, <2>4
    <2>7. g[A \cup T] = w[x] + g[A \cup R] /\ g[T] = w[x] + g[R]
        <3>1. \A X \in SUBSET S : \A y \in X : g[X] = w[y] + g[X \ {y}]
            BY DEF IsSum
        <3>2. g[A \cup T] = w[x] + g[(A \cup T) \ {x}]
            BY <2>2, <2>4, <3>1
        <3>3. g[T] = w[x] + g[T \ {x}]
            BY <2>2, <2>4, <3>1
        <3> QED BY <2>5, <3>2, <3>3
    <2>8. g[A] \in Nat /\ g[R] \in Nat /\ w[x] \in Nat
        BY <1>1, <2>5
    <2>9. g[A \cup T] # g[A] + g[T]
        BY <2>1
    <2> HIDE DEF R
    <2> QED BY <2>6, <2>7, <2>8, <2>9
<1> QED BY <1>2

\* A sum does not shrink with the set.
LEMMA SumGrows ==
    ASSUME NEW S, IsFiniteSet(S), NEW w \in [S -> Nat], NEW g, IsSum(g, w, S),
           NEW A \in SUBSET S, NEW B \in SUBSET A
    PROVE  g[A] \in Nat /\ g[B] \in Nat /\ g[B] <= g[A]
<1>1. A \ B \in SUBSET S /\ B \in SUBSET S /\ B \cup (A \ B) = A /\ B \cap (A \ B) = {}
    OBVIOUS
<1>2. g[A] = g[B] + g[A \ B]
    <2>1. \A X, Y \in SUBSET S : X \cap Y = {} => g[X \cup Y] = g[X] + g[Y]
        BY SumsAdd
    <2>2. g[B \cup (A \ B)] = g[B] + g[A \ B]
        BY <1>1, <2>1
    <2> QED BY <1>1, <2>2
<1>3. g[A] \in Nat /\ g[B] \in Nat /\ g[A \ B] \in Nat
    BY <1>1 DEF IsSum
<1> QED BY <1>2, <1>3

\* Multiplying once more.
LEMMA OneMoreTimes ==
    ASSUME NEW m \in Nat, NEW n \in Nat
    PROVE  m * (n + 1) = m * n + m /\ m * n \in Nat
OBVIOUS

\* Products with a number, for the bounds below.
LEMMA Distributes ==
    ASSUME NEW m \in Nat, NEW a \in Nat, NEW b \in Nat
    PROVE  m * (a + b) = m * a + m * b /\ m * a \in Nat /\ m * b \in Nat
OBVIOUS

\* A product grows with its factor.
LEMMA TimesGrows ==
    ASSUME NEW m \in Nat, NEW a \in Nat, NEW b \in Nat, a <= b
    PROVE  m * a <= m * b /\ m * a \in Nat /\ m * b \in Nat
<1>1. PICK c \in Nat : b = a + c
    <2>1. b - a \in Nat /\ b = a + (b - a)
        OBVIOUS
    <2> QED BY <2>1
<1>2. m * (a + c) = m * a + m * c /\ m * a \in Nat /\ m * c \in Nat
    BY Distributes
<1> QED BY <1>1, <1>2

\* A sum is at most the largest weight for each element.
LEMMA SumIsBounded ==
    ASSUME NEW S, IsFiniteSet(S), NEW w \in [S -> Nat], NEW g, IsSum(g, w, S),
           NEW m \in Nat, \A x \in S : w[x] <= m
    PROVE  \A T \in SUBSET S : g[T] <= m * Cardinality(T)
<1> DEFINE Bad == {T \in SUBSET S : ~(g[T] <= m * Cardinality(T))}
<1>1. \A T \in SUBSET S : g[T] \in Nat /\ Cardinality(T) \in Nat /\ IsFiniteSet(T)
    BY FS_Subset, FS_CardinalityType DEF IsSum
<1>2. ASSUME Bad # {} PROVE FALSE
    <2>1. PICK T \in Bad : \A x \in T : T \ {x} \notin Bad
        <3>1. Bad \in SUBSET (SUBSET S)
            OBVIOUS
        <3> HIDE DEF Bad
        <3> QED BY <1>2, <3>1, SmallestSet
    <2>2. T \in SUBSET S /\ ~(g[T] <= m * Cardinality(T))
        OBVIOUS
    <2>3. T # {}
        <3>1. m * 0 = 0 /\ Cardinality({}) = 0 /\ g[{}] = 0
            BY FS_EmptySet DEF IsSum
        <3> QED BY <2>2, <3>1
    <2>4. PICK x : x \in T
        BY <2>3
    <2> DEFINE R == T \ {x}
               n == Cardinality(R)
    <2>5. R \in SUBSET S /\ x \in S
        BY <2>2, <2>4
    <2>6. g[R] <= m * n
        BY <2>1, <2>4, <2>5
    <2>7. g[T] = w[x] + g[R]
        BY <2>2, <2>4 DEF IsSum
    <2>8. n = Cardinality(T) - 1
        BY <1>1, <2>2, <2>4, FS_RemoveElement
    <2>9. w[x] \in Nat /\ w[x] <= m /\ g[R] \in Nat /\ n \in Nat /\ Cardinality(T) \in Nat
        BY <1>1, <2>2, <2>5
    <2>10. Cardinality(T) = n + 1
        BY <2>8, <2>9
    <2>11. m * (n + 1) = m * n + m /\ m * n \in Nat
        BY <2>9, OneMoreTimes
    <2>12. ~(g[T] <= m * (n + 1))
        BY <2>2, <2>10
    <2> HIDE DEF R, n
    <2> QED BY <2>6, <2>7, <2>9, <2>11, <2>12
<1> QED BY <1>2

\* The sums when the weight of i becomes n.
Moves(g, w, S, i, n) ==
    \E h : IsSum(h, [w EXCEPT ![i] = n], S) /\ h[S] = g[S \ {i}] + n

\* One weight changes.
LEMMA SumMoves ==
    ASSUME NEW S, NEW w \in [S -> Nat], NEW g, IsSum(g, w, S), NEW i \in S, NEW n \in Nat
    PROVE  Moves(g, w, S, i, n)
<1> DEFINE v == [w EXCEPT ![i] = n]
           h == [T \in SUBSET S |-> IF i \in T THEN n + g[T \ {i}] ELSE g[T]]
<1>1. \A T \in SUBSET S : g[T] \in Nat
    BY DEF IsSum
<1>2. v[i] = n /\ \A x \in S : x # i => v[x] = w[x]
    OBVIOUS
<1> HIDE DEF v
<1>3. h \in [SUBSET S -> Nat] /\ h[{}] = 0
    <2>1. ASSUME NEW T \in SUBSET S PROVE (IF i \in T THEN n + g[T \ {i}] ELSE g[T]) \in Nat
        <3>1. T \ {i} \in SUBSET S
            OBVIOUS
        <3> QED BY <1>1, <3>1
    <2>2. g[{}] = 0
        BY DEF IsSum
    <2> QED BY <2>1, <2>2
<1>4. ASSUME NEW T \in SUBSET S, NEW x \in T PROVE h[T] = v[x] + h[T \ {x}]
    <2> DEFINE q == T \ {i}
    <2>1. T \ {x} \in SUBSET S /\ q \in SUBSET S
        OBVIOUS
    <2>2. CASE x = i
        BY <1>2, <2>1, <2>2
    <2>3. CASE x # i /\ i \in T
        <3>1. x \in q /\ (T \ {x}) \ {i} = q \ {x} /\ q \ {x} \in SUBSET S /\ i \in T \ {x}
            BY <2>3
        <3>2. g[q] = w[x] + g[q \ {x}]
            BY <2>1, <3>1 DEF IsSum
        <3>3. h[T] = n + g[q] /\ h[T \ {x}] = n + g[q \ {x}]
            BY <2>1, <2>3, <3>1
        <3>4. w[x] \in Nat /\ g[q \ {x}] \in Nat /\ v[x] = w[x]
            BY <1>1, <1>2, <2>3, <3>1
        <3> HIDE DEF h, q
        <3> QED BY <3>2, <3>3, <3>4
    <2>4. CASE x # i /\ i \notin T
        <3>1. g[T] = w[x] + g[T \ {x}]
            BY DEF IsSum
        <3> QED BY <1>2, <2>1, <2>4, <3>1
    <2> QED BY <2>2, <2>3, <2>4
<1>5. h[S] = g[S \ {i}] + n
    <2>1. h[S] = n + g[S \ {i}] /\ g[S \ {i}] \in Nat
        BY <1>1
    <2> HIDE DEF h
    <2> QED BY <2>1
<1>6. IsSum(h, v, S)
    <2> HIDE DEF h
    <2> QED BY <1>3, <1>4 DEF IsSum
<1> QED BY <1>5, <1>6 DEF v, Moves

\* w numbers the elements of S at each place, where f says which is at which.
NumbersOf(w, S, f, I) == \A p \in I : w[p] = Cardinality({x \in S : f[x] = p})

\* Counting by places: the numbers at the places add up to all.
LEMMA CountByPlace ==
    ASSUME NEW S, IsFiniteSet(S), NEW I, IsFiniteSet(I), NEW f \in [S -> I],
           NEW w \in [I -> Nat], NumbersOf(w, S, f, I),
           NEW g, IsSum(g, w, I)
    PROVE  g[I] = Cardinality(S)
<1> DEFINE At(T) == {x \in S : f[x] \in T}
           Bad == {T \in SUBSET I : g[T] # Cardinality(At(T))}
<1>1. ASSUME Bad # {} PROVE FALSE
    <2>1. PICK T \in Bad : \A p \in T : T \ {p} \notin Bad
        <3>1. Bad \in SUBSET (SUBSET I)
            OBVIOUS
        <3> HIDE DEF Bad
        <3> QED BY <1>1, <3>1, SmallestSet
    <2>2. T # {}
        <3>1. At({}) = {} /\ Cardinality({}) = 0 /\ g[{}] = 0
            BY FS_EmptySet DEF IsSum
        <3> QED BY <2>1, <3>1
    <2>3. PICK p : p \in T
        BY <2>2
    <2>4. g[T \ {p}] = Cardinality(At(T \ {p}))
        BY <2>1, <2>3
    <2>5. g[T] = w[p] + g[T \ {p}] /\ w[p] = Cardinality({x \in S : f[x] = p})
        BY <2>1, <2>3 DEF IsSum, NumbersOf
    <2> DEFINE A == {x \in S : f[x] = p}
               B == At(T \ {p})
    <2>6. A \cup B = At(T) /\ A \cap B = {} /\ A \subseteq S /\ B \subseteq S
        BY <2>3
    <2> HIDE DEF A, B
    <2>7. /\ IsFiniteSet(A) /\ IsFiniteSet(B) /\ Cardinality(A) \in Nat /\ Cardinality(B) \in Nat
          /\ Cardinality(A \cap B) = 0
        BY <2>6, FS_Subset, FS_CardinalityType, FS_EmptySet
    <2>8. Cardinality(A \cup B) = Cardinality(A) + Cardinality(B)
        <3>1. Cardinality(A \cup B)
                = Cardinality(A) + Cardinality(B) - Cardinality(A \cap B)
            BY <2>7, FS_Union
        <3> QED BY <2>7, <3>1
    <2>9. g[T] # Cardinality(At(T))
        BY <2>1
    <2> QED BY <2>4, <2>5, <2>6, <2>8, <2>9 DEF A, B
<1>2. g[I] = Cardinality(At(I)) /\ At(I) = S
    BY <1>1
<1> QED BY <1>2
=============================================================================
