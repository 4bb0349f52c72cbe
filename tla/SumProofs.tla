------------------------------ MODULE SumProofs ------------------------------
(***************************************************************************)
(* Sums over finite sets: SumFunctionOnSet of the community modules is a   *)
(* recursive function that takes the elements in an unspecified order.     *)
(* That it has a value, that the order does not matter and how it behaves  *)
(* are shown by least counterexamples.                                     *)
(***************************************************************************)
EXTENDS Functions, FiniteSetTheorems, TLAPS

\* Sets of numbers have a least one.
LEMMA LeastNumber ==
  ASSUME NEW T, T \subseteq Nat, T # {}
  PROVE  \E m \in T : \A x \in T : m <= x
<1>1. PICK m \in T : \A x \in T : <<x, m>> \notin OpToRel(<, Nat)
  BY NatLessThanWellFounded, WFMin
<1>2. \A x \in T : ~ (x < m)
  BY <1>1 DEF OpToRel
<1>3. QED
  BY <1>2

\* Sets of subsets of a finite set have one that is least.
LEMMA LeastSubset ==
  ASSUME NEW S, IsFiniteSet(S), NEW C, C \subseteq SUBSET S, C # {}
  PROVE  \E T \in C : \A x \in T : T \ {x} \notin C
<1> DEFINE sizes == {Cardinality(T) : T \in C}
<1>1. \A T \in C : IsFiniteSet(T) /\ Cardinality(T) \in Nat
  BY FS_Subset, FS_CardinalityType
<1>2. sizes \subseteq Nat /\ sizes # {}
  BY <1>1
<1>3. PICK m \in sizes : \A n \in sizes : m <= n
  <2> HIDE DEF sizes
  <2>1. QED
    BY <1>2, LeastNumber
<1>4. PICK T \in C : m = Cardinality(T)
  OBVIOUS
<1>5. ASSUME NEW x \in T, T \ {x} \in C PROVE FALSE
  <2>1. Cardinality(T \ {x}) = Cardinality(T) - 1
    BY <1>1, FS_RemoveElement
  <2>2. m <= Cardinality(T \ {x})
    BY <1>3, <1>5
  <2>3. QED
    BY <1>1, <1>4, <2>1, <2>2
<1>6. QED
  BY <1>5

\* Finite sets of numbers have a greatest one.
LEMMA GreatestNumber ==
  ASSUME NEW S, IsFiniteSet(S), S \subseteq Nat, S # {}
  PROVE  \E m \in S : \A x \in S : x <= m
<1> DEFINE C == {T \in SUBSET S : T # {} /\ ~ \E m \in T : \A x \in T : x <= m}
<1>1. SUFFICES ASSUME C # {} PROVE FALSE
  OBVIOUS
<1>2. PICK T \in C : \A x \in T : T \ {x} \notin C
  <2>1. C \subseteq SUBSET S
    OBVIOUS
  <2> HIDE DEF C
  <2>2. QED
    BY <1>1, <2>1, LeastSubset
<1>3. PICK x : x \in T /\ x \in Nat
  OBVIOUS
<1>4. CASE T \ {x} = {}
  BY <1>2, <1>3, <1>4
<1>5. CASE T \ {x} # {}
  <2>1. PICK m \in T \ {x} : \A y \in T \ {x} : y <= m
    BY <1>2, <1>3, <1>5
  <2>2. CASE x <= m
    BY <1>2, <1>3, <2>1, <2>2
  <2>3. CASE ~ (x <= m)
    <3>1. \A y \in T : y <= x
      BY <1>3, <2>1, <2>3
    <3>2. QED
      BY <1>2, <1>3, <3>1
  <2>4. QED
    BY <2>2, <2>3
<1>6. QED
  BY <1>4, <1>5

\* Sum is the sum of g over each part of S, whatever element is taken first.
Totals(sum, g, S) ==
  /\ sum \in [SUBSET S -> Nat]
  /\ sum[{}] = 0
  /\ \A T \in SUBSET S : \A x \in T : sum[T] = g[x] + sum[T \ {x}]

\* One more element.
LEMMA TotalsGrow ==
  ASSUME NEW T, NEW x, x \notin T, NEW g, g[x] \in Nat, \A y \in T : g[y] \in Nat,
         NEW sum, Totals(sum, g, T)
  PROVE  \E more : Totals(more, g, T \cup {x})
<1> DEFINE S == T \cup {x}
           more == [U \in SUBSET S |-> IF x \in U THEN g[x] + sum[U \ {x}] ELSE sum[U]]
<1>1. /\ sum \in [SUBSET T -> Nat] /\ sum[{}] = 0
      /\ \A U \in SUBSET T : \A y \in U : sum[U] = g[y] + sum[U \ {y}]
  BY DEF Totals
<1>2. \A U \in SUBSET S : U \ {x} \in SUBSET T /\ (x \notin U => U \in SUBSET T)
  OBVIOUS
<1>3. more \in [SUBSET S -> Nat]
  BY <1>1, <1>2
<1>4. more[{}] = 0
  BY <1>1
<1>5. ASSUME NEW U \in SUBSET S, NEW y \in U
      PROVE  more[U] = g[y] + more[U \ {y}]
  <2>1. U \ {y} \in SUBSET S
    OBVIOUS
  <2>2. CASE y = x
    BY <1>2, <2>1, <2>2
  <2>3. CASE y # x /\ x \in U
    <3>1. more[U] = g[x] + sum[U \ {x}] /\ more[U \ {y}] = g[x] + sum[(U \ {y}) \ {x}]
      BY <2>1, <2>3
    <3>2. (U \ {y}) \ {x} = (U \ {x}) \ {y} /\ y \in U \ {x} /\ y \in T
      BY <2>3
    <3>3. sum[U \ {x}] = g[y] + sum[(U \ {x}) \ {y}]
      BY <1>1, <1>2, <3>2
    <3>4. sum[(U \ {x}) \ {y}] \in Nat /\ g[y] \in Nat
      BY <1>1, <1>2, <3>2
    <3> DEFINE rest == sum[(U \ {x}) \ {y}]
    <3>5. more[U] = g[x] + (g[y] + rest) /\ more[U \ {y}] = g[x] + rest /\ rest \in Nat
      <4> HIDE DEF more, S
      <4>1. QED
        BY <3>1, <3>2, <3>3, <3>4
    <3> HIDE DEF rest, more, S
    <3>6. g[x] + (g[y] + rest) = g[y] + (g[x] + rest)
      BY <3>4, <3>5
    <3>7. QED
      BY <3>5, <3>6
  <2>4. CASE x \notin U
    <3>1. more[U] = sum[U] /\ more[U \ {y}] = sum[U \ {y}]
      BY <2>1, <2>4
    <3>2. QED
      BY <1>1, <1>2, <2>4, <3>1
  <2>5. QED
    BY <2>2, <2>3, <2>4
<1> HIDE DEF more, S
<1>6. Totals(more, g, S)
  BY <1>3, <1>4, <1>5 DEF Totals
<1>7. QED
  BY <1>6 DEF S

\* There is such a function.
LEMMA TotalsExist ==
  ASSUME NEW S, IsFiniteSet(S), NEW g, \A x \in S : g[x] \in Nat
  PROVE  \E sum : Totals(sum, g, S)
<1> DEFINE C == {T \in SUBSET S : ~ \E sum : Totals(sum, g, T)}
<1>1. SUFFICES ASSUME C # {} PROVE FALSE
  OBVIOUS
<1>2. PICK T \in C : \A x \in T : T \ {x} \notin C
  <2>1. C \subseteq SUBSET S
    OBVIOUS
  <2> HIDE DEF C
  <2>2. QED
    BY <1>1, <2>1, LeastSubset
<1>3. CASE T = {}
  <2> DEFINE none == [U \in SUBSET {} |-> 0]
  <2>1. Totals(none, g, {})
    BY DEF Totals
  <2> HIDE DEF none
  <2>2. QED
    BY <1>2, <1>3, <2>1
<1>4. CASE T # {}
  <2>1. PICK x : x \in T
    BY <1>4
  <2>2. T \ {x} \in SUBSET S /\ T \ {x} \notin C
    BY <1>2, <2>1
  <2>3. PICK sum : Totals(sum, g, T \ {x})
    BY <2>2
  <2>4. /\ x \notin T \ {x} /\ (T \ {x}) \cup {x} = T
        /\ g[x] \in Nat /\ \A y \in T \ {x} : g[y] \in Nat
    BY <2>1
  <2>5. \E more : Totals(more, g, T)
    BY <2>3, <2>4, TotalsGrow
  <2>6. QED
    BY <1>2, <2>5
<1>5. QED
  BY <1>3, <1>4

\* SumFunctionOnSet is it.
LEMMA SumIsTotal ==
  ASSUME NEW S, IsFiniteSet(S), NEW g, \A x \in S : g[x] \in Nat,
         NEW sum, Totals(sum, g, S)
  PROVE  SumFunctionOnSet(g, S) = sum[S]
<1> DEFINE Step(f) == [T \in SUBSET S |->
                        IF T = {} THEN 0
                        ELSE g[CHOOSE x \in T : TRUE] + f[T \ {CHOOSE x \in T : TRUE}]]
           iter == CHOOSE f : f = Step(f)
<1>1. sum = Step(sum)
  <2>1. \A T \in SUBSET S : T # {} => (CHOOSE x \in T : TRUE) \in T
    OBVIOUS
  <2>2. \A T \in SUBSET S : sum[T] = Step(sum)[T]
    BY <2>1 DEF Totals
  <2>3. DOMAIN sum = SUBSET S /\ sum = [T \in SUBSET S |-> sum[T]]
    BY DEF Totals
  <2>4. QED
    BY <2>2, <2>3
<1>2. iter = Step(iter)
  BY <1>1, Zenon
<1>3. SumFunctionOnSet(g, S) = iter[S]
  BY Zenon DEF SumFunctionOnSet, FoldFunctionOnSet, MapThenFoldSet
<1> HIDE DEF iter
<1> DEFINE C == {T \in SUBSET S : iter[T] # sum[T]}
<1>4. ASSUME C # {} PROVE FALSE
  <2>1. PICK T \in C : \A x \in T : T \ {x} \notin C
    <3>1. C \subseteq SUBSET S
      OBVIOUS
    <3> HIDE DEF C
    <3>2. QED
      BY <1>4, <3>1, LeastSubset
  <2>2. iter[T] = Step(iter)[T]
    BY <1>2
  <2>3. CASE T = {}
    BY <2>1, <2>2, <2>3 DEF Totals
  <2>4. CASE T # {}
    <3> DEFINE x == CHOOSE x \in T : TRUE
    <3>1. x \in T
      BY <2>4
    <3>2. T \ {x} \in SUBSET S /\ T \ {x} \notin C
      BY <2>1, <3>1
    <3>3. iter[T] = g[x] + iter[T \ {x}]
      BY <2>2, <2>4
    <3>4. sum[T] = g[x] + sum[T \ {x}]
      BY <3>1 DEF Totals
    <3>5. QED
      BY <2>1, <3>2, <3>3, <3>4
  <2>5. QED
    BY <2>3, <2>4
<1>5. QED
  BY <1>3, <1>4

\* Also on the parts of the set.
LEMMA SumParts ==
  ASSUME NEW S, IsFiniteSet(S), NEW g, \A x \in S : g[x] \in Nat
  PROVE  \E sum : /\ Totals(sum, g, S)
                  /\ \A T \in SUBSET S : SumFunctionOnSet(g, T) = sum[T]
<1>1. PICK sum : Totals(sum, g, S)
  BY TotalsExist
<1>2. ASSUME NEW T \in SUBSET S
      PROVE  SumFunctionOnSet(g, T) = sum[T]
  <2> DEFINE part == [U \in SUBSET T |-> sum[U]]
  <2>1. \A U \in SUBSET T : U \in SUBSET S
    OBVIOUS
  <2>2. Totals(part, g, T)
    BY <1>1, <2>1 DEF Totals
  <2>3. part[T] = sum[T]
    OBVIOUS
  <2>4. IsFiniteSet(T) /\ \A x \in T : g[x] \in Nat
    BY FS_Subset
  <2> HIDE DEF part
  <2>5. QED
    BY <2>2, <2>3, <2>4, SumIsTotal
<1>3. QED
  BY <1>1, <1>2

\* A sum of natural numbers is one, and any element can be taken out.
LEMMA SumFacts ==
  ASSUME NEW S, IsFiniteSet(S), NEW g, \A x \in S : g[x] \in Nat
  PROVE  /\ SumFunctionOnSet(g, S) \in Nat
         /\ SumFunctionOnSet(g, {}) = 0
         /\ \A x \in S : SumFunctionOnSet(g, S) = g[x] + SumFunctionOnSet(g, S \ {x})
<1>1. PICK sum : /\ Totals(sum, g, S)
                 /\ \A T \in SUBSET S : SumFunctionOnSet(g, T) = sum[T]
  BY SumParts
<1>2. QED
  BY <1>1 DEF Totals

\* A sum depends only on the numbers of its elements.
LEMMA SumSame ==
  ASSUME NEW S, IsFiniteSet(S), NEW f, NEW g, \A x \in S : f[x] \in Nat /\ f[x] = g[x]
  PROVE  SumFunctionOnSet(f, S) = SumFunctionOnSet(g, S)
<1>1. PICK sum : Totals(sum, f, S)
  BY TotalsExist
<1>2. Totals(sum, g, S)
  BY <1>1 DEF Totals
<1>3. QED
  BY <1>1, <1>2, SumIsTotal

\* Greater numbers make a greater sum.
LEMMA SumLess ==
  ASSUME NEW S, IsFiniteSet(S), NEW f, NEW g,
         \A x \in S : f[x] \in Nat /\ g[x] \in Nat /\ f[x] <= g[x]
  PROVE  SumFunctionOnSet(f, S) <= SumFunctionOnSet(g, S)
<1> DEFINE C == {T \in SUBSET S : ~ (SumFunctionOnSet(f, T) <= SumFunctionOnSet(g, T))}
<1>1. SUFFICES ASSUME C # {} PROVE FALSE
  OBVIOUS
<1>2. PICK T \in C : \A x \in T : T \ {x} \notin C
  <2>1. C \subseteq SUBSET S
    OBVIOUS
  <2> HIDE DEF C
  <2>2. QED
    BY <1>1, <2>1, LeastSubset
<1>3. IsFiniteSet(T) /\ \A x \in T : f[x] \in Nat /\ g[x] \in Nat /\ f[x] <= g[x]
  BY FS_Subset
<1>4. CASE T = {}
  BY <1>2, <1>3, <1>4, SumFacts
<1>5. CASE T # {}
  <2>1. PICK x : x \in T
    BY <1>5
  <2> DEFINE R == T \ {x}
  <2>2. /\ SumFunctionOnSet(f, T) = f[x] + SumFunctionOnSet(f, R)
        /\ SumFunctionOnSet(g, T) = g[x] + SumFunctionOnSet(g, R)
    BY <1>3, <2>1, SumFacts
  <2>3. IsFiniteSet(R) /\ \A y \in R : f[y] \in Nat /\ g[y] \in Nat
    BY <1>3, FS_Subset
  <2>4. SumFunctionOnSet(f, R) <= SumFunctionOnSet(g, R)
    BY <1>2, <2>1
  <2> HIDE DEF R
  <2>5. SumFunctionOnSet(f, R) \in Nat /\ SumFunctionOnSet(g, R) \in Nat
    BY <2>3, SumFacts
  <2>6. SumFunctionOnSet(f, T) <= SumFunctionOnSet(g, T)
    BY <1>3, <2>1, <2>2, <2>4, <2>5
  <2>7. QED
    BY <1>2, <2>6
<1>6. QED
  BY <1>4, <1>5

\* Sums over disjoint sets add up.
LEMMA SumUnion ==
  ASSUME NEW S, IsFiniteSet(S), NEW T, IsFiniteSet(T), S \cap T = {},
         NEW g, \A x \in S \cup T : g[x] \in Nat
  PROVE  SumFunctionOnSet(g, S \cup T) = SumFunctionOnSet(g, S) + SumFunctionOnSet(g, T)
<1> DEFINE C == {U \in SUBSET S : SumFunctionOnSet(g, U \cup T) #
                                    SumFunctionOnSet(g, U) + SumFunctionOnSet(g, T)}
<1>1. SUFFICES ASSUME C # {} PROVE FALSE
  OBVIOUS
<1>2. PICK U \in C : \A x \in U : U \ {x} \notin C
  <2>1. C \subseteq SUBSET S
    OBVIOUS
  <2> HIDE DEF C
  <2>2. QED
    BY <1>1, <2>1, LeastSubset
<1>3. /\ IsFiniteSet(U) /\ IsFiniteSet(U \cup T)
      /\ \A x \in U \cup T : g[x] \in Nat
  BY FS_Subset, FS_Union
<1>4. SumFunctionOnSet(g, T) \in Nat
  BY SumFacts
<1>5. CASE U = {}
  <2>1. U \cup T = T /\ SumFunctionOnSet(g, U) = 0
    BY <1>3, <1>5, SumFacts
  <2>2. QED
    BY <1>2, <1>4, <2>1
<1>6. CASE U # {}
  <2>1. PICK x : x \in U
    BY <1>6
  <2> DEFINE R == U \ {x}
  <2>2. (U \cup T) \ {x} = R \cup T /\ x \in U \cup T
    BY <2>1
  <2>3. /\ SumFunctionOnSet(g, U) = g[x] + SumFunctionOnSet(g, R)
        /\ SumFunctionOnSet(g, U \cup T) = g[x] + SumFunctionOnSet(g, R \cup T)
    BY <1>3, <2>1, <2>2, SumFacts
  <2>4. SumFunctionOnSet(g, R \cup T) = SumFunctionOnSet(g, R) + SumFunctionOnSet(g, T)
    BY <1>2, <2>1
  <2>5. IsFiniteSet(R) /\ \A y \in R : g[y] \in Nat
    BY <1>3, FS_Subset
  <2> HIDE DEF R
  <2>6. SumFunctionOnSet(g, R) \in Nat /\ g[x] \in Nat
    BY <1>3, <2>1, <2>5, SumFacts
  <2>7. SumFunctionOnSet(g, U \cup T) = SumFunctionOnSet(g, U) + SumFunctionOnSet(g, T)
    BY <1>4, <2>3, <2>4, <2>6
  <2>8. QED
    BY <1>2, <2>7
<1>7. QED
  BY <1>5, <1>6

\* A part has no greater sum than the whole.
LEMMA SumPart ==
  ASSUME NEW S, IsFiniteSet(S), NEW T \in SUBSET S, NEW g, \A x \in S : g[x] \in Nat
  PROVE  SumFunctionOnSet(g, T) <= SumFunctionOnSet(g, S)
<1> DEFINE R == S \ T
<1>1. /\ IsFiniteSet(T) /\ IsFiniteSet(R) /\ T \cap R = {} /\ T \cup R = S
      /\ \A x \in T : g[x] \in Nat
      /\ \A x \in R : g[x] \in Nat
  BY FS_Subset
<1> HIDE DEF R
<1>2. SumFunctionOnSet(g, S) = SumFunctionOnSet(g, T) + SumFunctionOnSet(g, R)
  BY <1>1, SumUnion
<1>3. SumFunctionOnSet(g, T) \in Nat /\ SumFunctionOnSet(g, R) \in Nat
  BY <1>1, SumFacts
<1>4. QED
  BY <1>2, <1>3

\* Other names for the elements do not change a sum.
LEMMA SumRenamed ==
  ASSUME NEW S, IsFiniteSet(S), NEW T, IsFiniteSet(T), NEW b \in [S -> T],
         \A x, y \in S : b[x] = b[y] => x = y,
         \A z \in T : \E x \in S : b[x] = z,
         NEW f, NEW g, \A z \in T : g[z] \in Nat, \A x \in S : f[x] = g[b[x]]
  PROVE  SumFunctionOnSet(f, S) = SumFunctionOnSet(g, T)
<1> DEFINE Image(U) == {b[x] : x \in U}
           C == {U \in SUBSET S : SumFunctionOnSet(f, U) # SumFunctionOnSet(g, Image(U))}
<1>1. Image(S) = T
  OBVIOUS
<1>2. SUFFICES ASSUME C # {} PROVE FALSE
  BY <1>1
<1>3. PICK U \in C : \A x \in U : U \ {x} \notin C
  <2>1. C \subseteq SUBSET S
    OBVIOUS
  <2> HIDE DEF C
  <2>2. QED
    BY <1>2, <2>1, LeastSubset
<1>4. /\ IsFiniteSet(U) /\ \A x \in U : f[x] \in Nat
      /\ IsFiniteSet(Image(U)) /\ \A z \in Image(U) : g[z] \in Nat
  <2>1. Image(U) \in SUBSET T
    OBVIOUS
  <2> HIDE DEF Image
  <2>2. QED
    BY <2>1, FS_Subset
<1>5. CASE U = {}
  <2>1. Image(U) = {}
    BY <1>5
  <2>2. QED
    BY <1>3, <1>4, <1>5, <2>1, SumFacts
<1>6. CASE U # {}
  <2>1. PICK x : x \in U
    BY <1>6
  <2> DEFINE R == U \ {x}
  <2>2. Image(U) \ {b[x]} = Image(R) /\ b[x] \in Image(U) /\ f[x] = g[b[x]]
    BY <2>1
  <2>3. SumFunctionOnSet(f, R) = SumFunctionOnSet(g, Image(R))
    BY <1>3, <2>1
  <2> HIDE DEF Image
  <2> HIDE DEF C
  <2>4. SumFunctionOnSet(f, U) = f[x] + SumFunctionOnSet(f, R)
    BY <1>4, <2>1, SumFacts
  <2> DEFINE V == Image(U)
  <2>5. SumFunctionOnSet(g, V) = g[b[x]] + SumFunctionOnSet(g, Image(R))
    <3>1. IsFiniteSet(V) /\ b[x] \in V /\ V \ {b[x]} = Image(R) /\ \A z \in V : g[z] \in Nat
      BY <1>4, <2>2
    <3> HIDE DEF V
    <3>2. SumFunctionOnSet(g, V) = g[b[x]] + SumFunctionOnSet(g, V \ {b[x]})
      BY <3>1, SumFacts
    <3>3. QED
      BY <3>1, <3>2
  <2>6. SumFunctionOnSet(f, U) = SumFunctionOnSet(g, Image(U))
    BY <2>2, <2>3, <2>4, <2>5
  <2>7. QED
    BY <1>3, <2>6 DEF C
<1>7. QED
  BY <1>5, <1>6

\* Sums of nothing but zeros.
LEMMA SumZeros ==
  ASSUME NEW S, IsFiniteSet(S), NEW g, \A x \in S : g[x] = 0
  PROVE  SumFunctionOnSet(g, S) = 0
<1> DEFINE C == {T \in SUBSET S : SumFunctionOnSet(g, T) # 0}
<1>1. SUFFICES ASSUME C # {} PROVE FALSE
  OBVIOUS
<1>2. PICK T \in C : \A x \in T : T \ {x} \notin C
  <2>1. C \subseteq SUBSET S
    OBVIOUS
  <2> HIDE DEF C
  <2>2. QED
    BY <1>1, <2>1, LeastSubset
<1>3. IsFiniteSet(T) /\ \A x \in T : g[x] \in Nat /\ g[x] = 0
  BY FS_Subset
<1>4. /\ SumFunctionOnSet(g, {}) = 0
      /\ \A x \in T : SumFunctionOnSet(g, T) = g[x] + SumFunctionOnSet(g, T \ {x})
  BY <1>3, SumFacts
<1>5. PICK x : x \in T
  BY <1>4
<1> DEFINE rest == SumFunctionOnSet(g, T \ {x})
<1>6. rest = 0
  BY <1>2, <1>5
<1>7. SumFunctionOnSet(g, T) = g[x] + rest
  BY <1>4, <1>5
<1> HIDE DEF rest
<1>8. SumFunctionOnSet(g, T) = 0
  BY <1>3, <1>5, <1>6, <1>7
<1>9. QED
  BY <1>8

\* What is zero outside a part adds nothing to it.
LEMMA SumWithin ==
  ASSUME NEW S, IsFiniteSet(S), NEW T \in SUBSET S,
         NEW g, \A x \in T : g[x] \in Nat, \A x \in S \ T : g[x] = 0
  PROVE  SumFunctionOnSet(g, S) = SumFunctionOnSet(g, T)
<1> DEFINE R == S \ T
<1>1. /\ IsFiniteSet(T) /\ IsFiniteSet(R) /\ T \cap R = {} /\ T \cup R = S
      /\ \A x \in T \cup R : g[x] \in Nat
      /\ \A x \in R : g[x] = 0
  BY FS_Subset
<1> HIDE DEF R
<1>2. SumFunctionOnSet(g, T) \in Nat /\ SumFunctionOnSet(g, R) = 0
  BY <1>1, SumFacts, SumZeros
<1>3. SumFunctionOnSet(g, T \cup R) = SumFunctionOnSet(g, T) + SumFunctionOnSet(g, R)
  BY <1>1, SumUnion
<1>4. SumFunctionOnSet(g, T \cup R) = SumFunctionOnSet(g, T)
  BY <1>2, <1>3
<1>5. QED
  BY <1>1, <1>4

\* One number grows by one.
LEMMA SumCounts ==
  ASSUME NEW S, IsFiniteSet(S), NEW x \in S, NEW f, NEW g,
         \A y \in S : g[y] \in Nat,
         f[x] = g[x] + 1, \A y \in S \ {x} : f[y] = g[y]
  PROVE  SumFunctionOnSet(f, S) = SumFunctionOnSet(g, S) + 1
<1>1. \A y \in S : g[y] \in Nat /\ f[y] \in Nat
  OBVIOUS
<1> DEFINE R == S \ {x}
<1>2. IsFiniteSet(R) /\ \A y \in R : g[y] \in Nat /\ f[y] \in Nat /\ f[y] = g[y]
  BY <1>1, FS_Subset
<1> HIDE DEF R
<1>3. SumFunctionOnSet(f, R) = SumFunctionOnSet(g, R) /\ SumFunctionOnSet(g, R) \in Nat
  BY <1>2, SumSame, SumFacts
<1>4. SumFunctionOnSet(f, S) = f[x] + SumFunctionOnSet(f, R)
  BY <1>1, SumFacts DEF R
<1>5. SumFunctionOnSet(g, S) = g[x] + SumFunctionOnSet(g, R)
  BY <1>1, SumFacts DEF R
<1>6. QED
  BY <1>1, <1>3, <1>4, <1>5
=============================================================================
