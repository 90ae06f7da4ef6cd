------------------------------ MODULE FiniteSums ------------------------------
(***************************************************************************)
(* Sums over finite sets, as the models write them with MapThenSumSet:     *)
(* what they are when an element is added or removed. The library's        *)
(* induction theorems take a predicate as a parameter; here induction is a *)
(* fact about sets, the minimal counterexample (SmallestSet), and the      *)
(* recursion behind MapThenSumSet a fact about functions (IsSum).          *)
(***************************************************************************)
EXTENDS Integers, FiniteSetsExt, FiniteSetTheorems, WellFoundedInduction, TLAPS

Sum(f, S) == MapThenSumSet(LAMBDA x : f[x], S)

Chosen(s) == CHOOSE x \in s : TRUE

\* g is the sum of f over every subset of D, as MapThenSumSet computes it.
IsSum(f, D, g) ==
  g = [s \in SUBSET D |-> IF s = {} THEN 0 ELSE f[Chosen(s)] + g[s \ {Chosen(s)}]]

-----------------------------------------------------------------------------
(* Induction on finite sets.                                                *)

\* A set of finite sets has a member that no removal of one element keeps in.
LEMMA SmallestSet ==
  ASSUME NEW F, F # {}, \A s \in F : IsFiniteSet(s)
  PROVE  \E s \in F : \A x \in s : s \ {x} \notin F
<1> DEFINE sizes == {Cardinality(s) : s \in F}
<1>1. sizes \subseteq Nat /\ sizes # {}
  BY FS_CardinalityType
<1>2. \E n \in sizes : \A m \in sizes : ~(<<m, n>> \in OpToRel(<, Nat))
  BY <1>1, NatLessThanWellFounded, WFMin
<1>3. PICK n \in sizes : \A m \in sizes : ~(m < n)
  BY <1>1, <1>2 DEF OpToRel
<1>4. PICK s \in F : Cardinality(s) = n
  BY <1>3
<1>5. ASSUME NEW x \in s, s \ {x} \in F PROVE FALSE
  <2>1. Cardinality(s \ {x}) = Cardinality(s) - 1
    BY <1>5, FS_RemoveElement
  <2>2. Cardinality(s \ {x}) \in sizes
    BY <1>5
  <2> HIDE DEF sizes
  <2> QED BY <1>1, <1>3, <1>4, <2>1, <2>2
<1> QED BY <1>5

-----------------------------------------------------------------------------
(* The recursion is well defined.                                           *)

LEMMA ChosenIn == ASSUME NEW s, s # {} PROVE Chosen(s) \in s
BY DEF Chosen

LEMMA IsSumAt ==
  ASSUME NEW f, NEW D, NEW g, IsSum(f, D, g)
  PROVE  \A s \in SUBSET D :
           g[s] = IF s = {} THEN 0 ELSE f[Chosen(s)] + g[s \ {Chosen(s)}]
BY DEF IsSum

\* Sums of functions that agree on a set agree.
LEMMA SumsAgree ==
  ASSUME NEW f1, NEW D1, NEW g1, IsSum(f1, D1, g1),
         NEW f2, NEW D2, NEW g2, IsSum(f2, D2, g2),
         NEW S, S \subseteq D1, S \subseteq D2, IsFiniteSet(S),
         \A x \in S : f1[x] = f2[x]
  PROVE  g1[S] = g2[S]
<1> DEFINE F == {s \in SUBSET S : g1[s] # g2[s]}
<1>1. ASSUME F # {} PROVE FALSE
  <2>1. PICK s \in F : \A x \in s : s \ {x} \notin F
    BY <1>1, SmallestSet, FS_Subset
  <2>2. /\ g1[s] = IF s = {} THEN 0 ELSE f1[Chosen(s)] + g1[s \ {Chosen(s)}]
        /\ g2[s] = IF s = {} THEN 0 ELSE f2[Chosen(s)] + g2[s \ {Chosen(s)}]
    BY IsSumAt
  <2>3. s # {}
    BY <2>1, <2>2
  <2>4. g1[s \ {Chosen(s)}] = g2[s \ {Chosen(s)}] /\ f1[Chosen(s)] = f2[Chosen(s)]
    BY <2>1, <2>3, ChosenIn
  <2> QED BY <2>1, <2>2, <2>3, <2>4
<1> QED BY <1>1

LEMMA SumRestricts ==
  ASSUME NEW f, NEW D, NEW g, IsSum(f, D, g), NEW E, E \subseteq D
  PROVE  \E h : IsSum(f, E, h) /\ h[E] = g[E]
<1> DEFINE h == [s \in SUBSET E |-> g[s]]
<1>1. \A s \in SUBSET E :
        h[s] = IF s = {} THEN 0 ELSE f[Chosen(s)] + h[s \ {Chosen(s)}]
  <2> TAKE s \in SUBSET E
  <2>1. g[s] = IF s = {} THEN 0 ELSE f[Chosen(s)] + g[s \ {Chosen(s)}]
    BY IsSumAt
  <2> QED BY <2>1
<1>2. h = [s \in SUBSET E |-> h[s]]
  OBVIOUS
<1>3. h[E] = g[E]
  OBVIOUS
<1> HIDE DEF h
<1>4. IsSum(f, E, h)
  BY <1>1, <1>2 DEF IsSum
<1> QED BY <1>3, <1>4

LEMMA SumExists ==
  ASSUME NEW f, NEW D, IsFiniteSet(D)
  PROVE  \E g : IsSum(f, D, g)
<1> DEFINE Defined(E) == \E g : IsSum(f, E, g)
           F == {E \in SUBSET D : ~Defined(E)}
<1>1. ASSUME F # {} PROVE FALSE
  <2>1. PICK E \in F : \A x \in E : E \ {x} \notin F
    <3>1. \A s \in F : IsFiniteSet(s)
      BY FS_Subset
    <3> HIDE DEF F
    <3> QED BY <1>1, <3>1, SmallestSet
  <2>2. E \in SUBSET D /\ ~Defined(E) /\ \A x \in E : Defined(E \ {x})
    BY <2>1
  <2> DEFINE Value(s) == (CHOOSE g : IsSum(f, s, g))[s]
             g == [s \in SUBSET E |->
                     IF s = {} THEN 0
                     ELSE f[Chosen(s)] + Value(s \ {Chosen(s)})]
  <2>3. ASSUME NEW s \in SUBSET E, s # {}
        PROVE  Value(s \ {Chosen(s)}) = g[s \ {Chosen(s)}]
    <3> DEFINE c == Chosen(s)
    <3>1. c \in s /\ c \in E
      BY <2>3, ChosenIn
    <3>2. PICK h : IsSum(f, E \ {c}, h)
      BY <2>2, <3>1
    <3>3. ASSUME NEW t, t \subseteq E \ {c}
          PROVE  Value(t) = h[t]
      <4>1. PICK k : IsSum(f, t, k) /\ k[t] = h[t]
        BY <3>2, <3>3, SumRestricts
      <4>2. IsSum(f, t, CHOOSE m : IsSum(f, t, m))
        BY <4>1
      <4>3. IsFiniteSet(t)
        BY <2>2, <3>3, FS_Subset
      <4> QED BY <4>1, <4>2, <4>3, SumsAgree
    <3>4. ASSUME NEW t, t \subseteq E \ {c}
          PROVE  h[t] = IF t = {} THEN 0 ELSE f[Chosen(t)] + h[t \ {Chosen(t)}]
      BY <3>2, <3>4, IsSumAt
    <3> DEFINE t == s \ {c}
    <3>5. t \subseteq E \ {c} /\ t \ {Chosen(t)} \subseteq E \ {c} /\ t \in SUBSET E
      BY <3>1
    <3>6. Value(t) = h[t] /\ Value(t \ {Chosen(t)}) = h[t \ {Chosen(t)}]
      BY <3>3, <3>5
    <3>7. h[t] = IF t = {} THEN 0 ELSE f[Chosen(t)] + h[t \ {Chosen(t)}]
      BY <3>4, <3>5
    <3> HIDE DEF Value
    <3>8. g[t] = IF t = {} THEN 0 ELSE f[Chosen(t)] + Value(t \ {Chosen(t)})
      BY <3>5
    <3> QED BY <3>6, <3>7, <3>8
  <2> HIDE DEF Value
  <2>4. g = [s \in SUBSET E |-> IF s = {} THEN 0 ELSE f[Chosen(s)] + g[s \ {Chosen(s)}]]
    BY <2>3
  <2> HIDE DEF g
  <2> QED BY <2>2, <2>4 DEF IsSum
<1> QED BY <1>1

\* MapThenSumSet computes the sum.
LEMMA SumIsSum ==
  ASSUME NEW f, NEW D, IsFiniteSet(D)
  PROVE  \E g : IsSum(f, D, g) /\ Sum(f, D) = g[D]
<1> DEFINE P(g) == g = [s \in SUBSET D |->
                          IF s = {} THEN 0
                          ELSE f[CHOOSE x \in s : TRUE] + g[s \ {CHOOSE x \in s : TRUE}]]
<1>1. Sum(f, D) = (CHOOSE g : P(g))[D]
  BY DEF Sum, MapThenSumSet, MapThenFoldSet
<1>2. \A g : IsSum(f, D, g) <=> P(g)
  BY DEF IsSum, Chosen
<1> HIDE DEF P
<1>3. P(CHOOSE g : P(g))
  BY <1>2, SumExists
<1> QED BY <1>1, <1>2, <1>3

\* A sum of integers is one.
LEMMA SumIntegral ==
  ASSUME NEW D, IsFiniteSet(D), NEW f, \A x \in D : f[x] \in Int, NEW g, IsSum(f, D, g)
  PROVE  \A s \in SUBSET D : g[s] \in Int
<1> DEFINE F == {s \in SUBSET D : g[s] \notin Int}
<1>0. \A s \in SUBSET D : g[s] = IF s = {} THEN 0 ELSE f[Chosen(s)] + g[s \ {Chosen(s)}]
  BY DEF IsSum
<1>1. ASSUME F # {} PROVE FALSE
  <2>1. PICK s \in F : \A x \in s : s \ {x} \notin F
    <3>1. \A t \in F : IsFiniteSet(t)
      BY FS_Subset
    <3> HIDE DEF F
    <3> QED BY <1>1, <3>1, SmallestSet
  <2>2. s \in SUBSET D /\ g[s] \notin Int /\ \A x \in s : g[s \ {x}] \in Int
    BY <2>1
  <2> HIDE DEF F
  <2>3. g[s] = IF s = {} THEN 0 ELSE f[Chosen(s)] + g[s \ {Chosen(s)}]
    BY <1>0, <2>2
  <2>4. s # {} => Chosen(s) \in s
    BY ChosenIn
  <2>5. s # {} => f[Chosen(s)] \in Int /\ g[s \ {Chosen(s)}] \in Int
    BY <2>2, <2>4
  <2> QED BY <2>2, <2>3, <2>5
<1> QED BY <1>1

\* Which element the recursion takes first does not matter.
AnyFirst(f, D, g) == \A s \in SUBSET D : \A x \in s : g[s] = f[x] + g[s \ {x}]

LEMMA SumAnyFirst ==
  ASSUME NEW D, IsFiniteSet(D), NEW f, \A x \in D : f[x] \in Int, NEW g, IsSum(f, D, g)
  PROVE  AnyFirst(f, D, g)
<1> DEFINE F == {s \in SUBSET D : \E x \in s : g[s] # f[x] + g[s \ {x}]}
<1>0. \A s \in SUBSET D : g[s] = IF s = {} THEN 0 ELSE f[Chosen(s)] + g[s \ {Chosen(s)}]
  BY DEF IsSum
<1>1. ASSUME F # {} PROVE FALSE
  <2>1. PICK s \in F : \A x \in s : s \ {x} \notin F
    <3>1. \A t \in F : IsFiniteSet(t)
      BY FS_Subset
    <3> HIDE DEF F
    <3> QED BY <1>1, <3>1, SmallestSet
  <2>2. /\ s \in SUBSET D
        /\ \A x \in s : \A y \in s \ {x} : g[s \ {x}] = f[y] + g[(s \ {x}) \ {y}]
    BY <2>1
  <2>3. PICK x \in s : g[s] # f[x] + g[s \ {x}]
    BY <2>1
  <2> HIDE DEF F
  <2> DEFINE c == Chosen(s)
  <2>4. c \in s /\ g[s] = f[c] + g[s \ {c}]
    <3>1. s # {} /\ c \in s
      BY <2>3, ChosenIn
    <3> QED BY <1>0, <2>2, <3>1
  <2> HIDE DEF c
  <2>5. c # x
    BY <2>3, <2>4
  <2>6. g[s \ {c}] = f[x] + g[(s \ {c}) \ {x}] /\ g[s \ {x}] = f[c] + g[(s \ {x}) \ {c}]
    BY <2>2, <2>4, <2>5
  <2>7. (s \ {c}) \ {x} = (s \ {x}) \ {c}
    OBVIOUS
  <2>8. f[x] \in Int /\ f[c] \in Int /\ g[(s \ {x}) \ {c}] \in Int
    BY <2>2, <2>4, SumIntegral
  <2> DEFINE rest == g[(s \ {x}) \ {c}]
  <2>9. g[s \ {c}] = f[x] + rest /\ g[s \ {x}] = f[c] + rest
    BY <2>6, <2>7
  <2> HIDE DEF rest
  <2>10. f[c] + (f[x] + rest) = f[x] + (f[c] + rest)
    BY <2>8 DEF rest
  <2> QED BY <2>3, <2>4, <2>9, <2>10
<1> QED BY <1>1 DEF AnyFirst

-----------------------------------------------------------------------------
(* What the models use.                                                     *)

\* The sum over the empty set is zero.
THEOREM SumEmpty == ASSUME NEW f PROVE Sum(f, {}) = 0
<1>1. PICK g : IsSum(f, {}, g) /\ Sum(f, {}) = g[{}]
  BY SumIsSum, FS_EmptySet
<1> QED BY <1>1, IsSumAt

\* A sum of integers over a finite set is an integer.
THEOREM SumInt ==
  ASSUME NEW S, IsFiniteSet(S), NEW f, \A x \in S : f[x] \in Int
  PROVE  Sum(f, S) \in Int
<1>1. PICK g : IsSum(f, S, g) /\ Sum(f, S) = g[S]
  BY SumIsSum
<1> QED BY <1>1, SumIntegral

\* Sums of functions that agree on a set agree.
THEOREM SumAgree ==
  ASSUME NEW S, IsFiniteSet(S), NEW f1, NEW f2, \A x \in S : f1[x] = f2[x]
  PROVE  Sum(f1, S) = Sum(f2, S)
<1>1. PICK g1 : IsSum(f1, S, g1) /\ Sum(f1, S) = g1[S]
  BY SumIsSum
<1>2. PICK g2 : IsSum(f2, S, g2) /\ Sum(f2, S) = g2[S]
  BY SumIsSum
<1> QED BY <1>1, <1>2, SumsAgree

\* Any element of the set can be taken out of the sum.
THEOREM SumRemove ==
  ASSUME NEW S, IsFiniteSet(S), NEW f, \A x \in S : f[x] \in Int, NEW y \in S
  PROVE  Sum(f, S) = f[y] + Sum(f, S \ {y})
<1>1. PICK g : IsSum(f, S, g) /\ Sum(f, S) = g[S]
  BY SumIsSum
<1>2. IsFiniteSet(S \ {y})
  BY FS_Subset
<1>3. PICK h : IsSum(f, S \ {y}, h) /\ Sum(f, S \ {y}) = h[S \ {y}]
  BY <1>2, SumIsSum
<1>4. h[S \ {y}] = g[S \ {y}]
  BY <1>1, <1>2, <1>3, SumsAgree
<1>5. AnyFirst(f, S, g)
  BY <1>1, SumAnyFirst
<1>6. g[S] = f[y] + g[S \ {y}]
  BY <1>5 DEF AnyFirst
<1> QED BY <1>1, <1>3, <1>4, <1>6

\* An element that joins the set adds its value.
THEOREM SumAdd ==
  ASSUME NEW S, IsFiniteSet(S), NEW y, y \notin S, NEW f, \A x \in S \cup {y} : f[x] \in Int
  PROVE  Sum(f, S \cup {y}) = Sum(f, S) + f[y] /\ IsFiniteSet(S \cup {y})
<1>1. IsFiniteSet(S \cup {y}) /\ (S \cup {y}) \ {y} = S
  BY FS_AddElement
<1>2. Sum(f, S) \in Int
  BY SumInt
<1> QED BY <1>1, <1>2, SumRemove

\* What joins the set adds its own sum.
THEOREM SumUnion ==
  ASSUME NEW S, IsFiniteSet(S), NEW T, IsFiniteSet(T), S \cap T = {},
         NEW f, \A x \in S \cup T : f[x] \in Int
  PROVE  Sum(f, S \cup T) = Sum(f, S) + Sum(f, T)
<1> DEFINE Adds(t) == Sum(f, S \cup t) = Sum(f, S) + Sum(f, t)
           F == {t \in SUBSET T : ~Adds(t)}
<1>0. \A t \in SUBSET T : /\ IsFiniteSet(t) /\ IsFiniteSet(S \cup t)
                          /\ Sum(f, t) \in Int
  <2> TAKE t \in SUBSET T
  <2>1. IsFiniteSet(t) /\ IsFiniteSet(S \cup t)
    BY FS_Subset, FS_Union
  <2>2. \A x \in t : f[x] \in Int
    OBVIOUS
  <2> QED BY <2>1, <2>2, SumInt
<1>1. Sum(f, S) \in Int
  BY SumInt
<1>2. ASSUME F # {} PROVE FALSE
  <2>1. PICK t \in F : \A x \in t : t \ {x} \notin F
    <3>1. \A s \in F : IsFiniteSet(s)
      BY <1>0
    <3> HIDE DEF F
    <3> QED BY <1>2, <3>1, SmallestSet
  <2>2. t \in SUBSET T /\ ~Adds(t) /\ \A x \in t : Adds(t \ {x})
    BY <2>1
  <2> HIDE DEF F, Adds
  <2>3. Adds({})
    BY <1>1, SumEmpty DEF Adds
  <2>4. PICK x : x \in t
    BY <2>2, <2>3
  <2>5. (S \cup t) \ {x} = S \cup (t \ {x}) /\ x \in S \cup t /\ x \in T
    BY <2>2, <2>4
  <2>6. \A y \in S \cup t : f[y] \in Int
    BY <2>2
  <2>7. Sum(f, S \cup t) = f[x] + Sum(f, S \cup (t \ {x}))
    <3> DEFINE u == S \cup t
    <3>1. IsFiniteSet(u) /\ x \in u /\ \A y \in u : f[y] \in Int
      BY <1>0, <2>2, <2>5, <2>6
    <3> HIDE DEF u
    <3>2. Sum(f, u) = f[x] + Sum(f, u \ {x})
      BY <3>1, SumRemove
    <3> QED BY <2>5, <3>2 DEF u
  <2>8. Sum(f, t) = f[x] + Sum(f, t \ {x})
    BY <1>0, <2>2, <2>4, <2>6, SumRemove
  <2>9. Sum(f, S \cup (t \ {x})) = Sum(f, S) + Sum(f, t \ {x})
    BY <2>2, <2>4 DEF Adds
  <2>10. f[x] \in Int /\ Sum(f, t \ {x}) \in Int
    BY <1>0, <2>2, <2>5
  <2>11. Sum(f, S \cup t) = Sum(f, S) + Sum(f, t)
    BY <1>1, <2>7, <2>8, <2>9, <2>10
  <2> QED BY <2>2, <2>11 DEF Adds
<1>3. T \in SUBSET T /\ T \notin F
  BY <1>2
<1> QED BY <1>3

\* A sum over part of the set is not larger when nothing is negative.
THEOREM SumMonotonic ==
  ASSUME NEW S, IsFiniteSet(S), NEW f, \A x \in S : f[x] \in Nat, NEW T, T \subseteq S
  PROVE  Sum(f, T) <= Sum(f, S)
<1> DEFINE F == {s \in SUBSET S : T \subseteq s /\ ~(Sum(f, T) <= Sum(f, s))}
<1>0. \A s \in SUBSET S : IsFiniteSet(s) /\ Sum(f, s) \in Int
  <2> TAKE s \in SUBSET S
  <2>1. IsFiniteSet(s) /\ \A x \in s : f[x] \in Int
    BY FS_Subset
  <2> QED BY <2>1, SumInt
<1>1. ASSUME F # {} PROVE FALSE
  <2>1. PICK s \in F : \A x \in s : s \ {x} \notin F
    <3>1. \A t \in F : IsFiniteSet(t)
      BY <1>0
    <3> HIDE DEF F
    <3> QED BY <1>1, <3>1, SmallestSet
  <2>2. /\ s \in SUBSET S /\ T \subseteq s /\ ~(Sum(f, T) <= Sum(f, s))
        /\ \A x \in s \ T : Sum(f, T) <= Sum(f, s \ {x})
    BY <2>1
  <2> HIDE DEF F
  <2>3. Sum(f, s) \in Int /\ Sum(f, T) \in Int
    BY <1>0, <2>2
  <2>4. PICK x \in s : x \notin T
    BY <2>2, <2>3
  <2>5. IsFiniteSet(s) /\ Sum(f, s \ {x}) \in Int /\ f[x] \in Nat
    BY <1>0, <2>2
  <2>6. Sum(f, s) = f[x] + Sum(f, s \ {x})
    BY <2>2, <2>5, SumRemove
  <2> QED BY <2>2, <2>3, <2>4, <2>5, <2>6
<1> QED BY <1>1

=============================================================================
