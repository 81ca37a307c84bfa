---------------------------- MODULE TableLemmas -----------------------------
(***************************************************************************)
(* Lemmas about the operators of TableOps, for any players, wallets and    *)
(* raises and each of the three games, in four parts:                      *)
(*   - least numbers, greatest values and sums: the induction theorems of  *)
(*     the library take an operator as a parameter, and the proofs here go *)
(*     by a least counterexample, which needs none;                        *)
(*   - types: what each operator returns and which fields it leaves alone; *)
(*   - rings: each operator keeps a Sound table sound, what it does to the *)
(*     ring of a hand that goes on, and whom it may pay;                   *)
(*   - chips: what each operator does to the chips at the table.           *)
(***************************************************************************)
EXTENDS TableOps, FiniteSetTheorems, WellFoundedInduction, TLAPS

-----------------------------------------------------------------------------
(* Least numbers, greatest values, sums.                                    *)

\* A nonempty set of naturals has a least element.
LEMMA Least ==
  ASSUME NEW T, T \subseteq Nat, T # {}
  PROVE  \E x \in T : \A y \in T : x <= y
<1>1. PICK x \in T : \A y \in T : ~ (<<y, x>> \in OpToRel(<, Nat))
  BY NatLessThanWellFounded, WFMin, Zenon
<1>2. \A y \in T : y < x => <<y, x>> \in OpToRel(<, Nat)
  BY Zenon DEF OpToRel
<1>3. \A y \in T : ~ (y < x)
  BY <1>1, <1>2, Zenon
<1>4. \A y \in T : x <= y
  BY <1>3
<1> QED
  BY <1>4

\* A function with integer values that are bounded above has a maximum on any
\* nonempty set.
LEMMA Greatest ==
  ASSUME NEW S, S # {}, NEW f \in [S -> Int], NEW m \in Int, \A x \in S : f[x] <= m
  PROVE  \E x \in S : \A y \in S : f[y] <= f[x]
<1> DEFINE T == {m - f[x] : x \in S}
<1>1. T \subseteq Nat /\ T # {}
  OBVIOUS
<1>2. PICK d \in T : \A e \in T : d <= e
  BY <1>1, Least, Zenon
<1>3. PICK x \in S : d = m - f[x]
  OBVIOUS
<1>4. \A y \in S : m - f[x] <= m - f[y]
  BY <1>2, <1>3
<1>5. \A y \in S : f[y] <= f[x]
  BY <1>4
<1> QED
  BY <1>5

-----------------------------------------------------------------------------

\* The recursion that SumFunctionOnSet is defined by, for the subsets of S.
Summand(f, g, s) ==
  IF s = {} THEN 0 ELSE f[CHOOSE x \in s : TRUE] + g[s \ {CHOOSE x \in s : TRUE}]

Summing(f, S) == CHOOSE g : g = [s \in SUBSET S |-> Summand(f, g, s)]

LEMMA SumIsSumming ==
  ASSUME NEW f, NEW S
  PROVE  SumFunctionOnSet(f, S) = Summing(f, S)[S]
BY DEF SumFunctionOnSet, FoldFunctionOnSet, MapThenFoldSet, Summing, Summand

LEMMA SummingExists ==
  ASSUME NEW S, IsFiniteSet(S), NEW f, \A x \in S : f[x] \in Nat
  PROVE  \E g \in [SUBSET S -> Nat] : \A s \in SUBSET S : g[s] = Summand(f, g, s)
<1> DEFINE Small(n) == {s \in SUBSET S : Cardinality(s) <= n}
           IsSum(g, n) == /\ g \in [Small(n) -> Nat]
                          /\ \A s \in Small(n) : g[s] = Summand(f, g, s)
           Bad == {n \in Nat : \A g : ~IsSum(g, n)}
<1>1. \A s \in SUBSET S : IsFiniteSet(s) /\ Cardinality(s) \in Nat
                          /\ Cardinality(s) <= Cardinality(S)
  BY FS_Subset, FS_CardinalityType
<1>2. \A s \in SUBSET S : Cardinality(s) = 0 => s = {}
  BY <1>1, FS_EmptySet
<1>3. ASSUME NEW s \in SUBSET S, s # {}
      PROVE  LET x == CHOOSE x \in s : TRUE
             IN x \in S /\ s \ {x} \in SUBSET S /\ Cardinality(s \ {x}) = Cardinality(s) - 1
  <2> DEFINE x == CHOOSE x \in s : TRUE
  <2>1. x \in s
    BY <1>3
  <2>2. Cardinality(s \ {x}) = Cardinality(s) - 1
    BY <2>1, <1>1, FS_RemoveElement
  <2> QED
    BY <2>1, <2>2
<1>4. Bad = {}
  <2> SUFFICES ASSUME Bad # {}
               PROVE  FALSE
    OBVIOUS
  <2>1. PICK n \in Bad : \A k \in Bad : n <= k
    BY Least, Bad \subseteq Nat, Zenon
  <2>2. CASE n = 0
    <3> DEFINE g == [s \in Small(0) |-> 0]
    <3>1. \A s \in Small(0) : s = {}
      BY <1>1, <1>2
    <3>2. IsSum(g, 0)
      BY <3>1 DEF Summand
    <3> QED
      BY <2>1, <2>2, <3>2
  <2>3. CASE n # 0
    <3>1. n \in Nat /\ n - 1 \in Nat /\ n - 1 \notin Bad
      BY <2>1, <2>3
    <3>2. PICK h : IsSum(h, n - 1)
      BY <3>1
    <3> DEFINE g == [s \in Small(n) |->
                       IF s \in Small(n - 1) THEN h[s] ELSE Summand(f, h, s)]
    <3>3. \A s \in Small(n - 1) : s \in Small(n) /\ g[s] = h[s]
      BY <1>1, <3>1
    <3>4. ASSUME NEW s \in Small(n), s # {}
          PROVE  /\ (CHOOSE x \in s : TRUE) \in S
                 /\ s \ {CHOOSE x \in s : TRUE} \in Small(n - 1)
      BY <1>1, <1>3, <3>1, <3>4
    <3>5. ASSUME NEW s \in Small(n)
          PROVE  Summand(f, h, s) \in Nat /\ Summand(f, g, s) = Summand(f, h, s)
      <4>1. CASE s = {}
        BY <4>1 DEF Summand
      <4>2. CASE s # {}
        <5> DEFINE x == CHOOSE x \in s : TRUE
        <5>1. x \in S /\ s \ {x} \in Small(n - 1)
          BY <3>4, <4>2
        <5>2. h[s \ {x}] \in Nat /\ g[s \ {x}] = h[s \ {x}] /\ f[x] \in Nat
          BY <5>1, <3>2, <3>3
        <5> QED
          BY <5>2, <4>2 DEF Summand
      <4> QED
        BY <4>1, <4>2
    <3>6. IsSum(g, n)
      <4>1. \A s \in Small(n) : g[s] = Summand(f, h, s)
        BY <3>2
      <4>2. g \in [Small(n) -> Nat]
        BY <4>1, <3>5
      <4> QED
        BY <4>1, <4>2, <3>5
    <3> QED
      BY <2>1, <3>6
  <2> QED
    BY <2>2, <2>3
<1>5. PICK g : IsSum(g, Cardinality(S))
  BY <1>4, FS_CardinalityType
<1>6. Small(Cardinality(S)) = SUBSET S
  BY <1>1
<1> QED
  BY <1>5, <1>6

LEMMA SummingRecursion ==
  ASSUME NEW S, IsFiniteSet(S), NEW f, \A x \in S : f[x] \in Nat
  PROVE  Summing(f, S) = [s \in SUBSET S |-> Summand(f, Summing(f, S), s)]
<1>1. PICK g \in [SUBSET S -> Nat] : \A s \in SUBSET S : g[s] = Summand(f, g, s)
  BY SummingExists
<1>2. g = [s \in SUBSET S |-> Summand(f, g, s)]
  BY <1>1
<1> QED
  BY <1>2 DEF Summing

\* A sum of naturals is a natural.
THEOREM SumType ==
  ASSUME NEW S, IsFiniteSet(S), NEW f, \A x \in S : f[x] \in Nat
  PROVE  SumFunctionOnSet(f, S) \in Nat
<1> DEFINE g == Summing(f, S)
           Bad == {n \in Nat : \E s \in SUBSET S : Cardinality(s) = n /\ g[s] \notin Nat}
<1>1. \A s \in SUBSET S : g[s] = Summand(f, g, s)
  <2>1. g = [s \in SUBSET S |-> Summand(f, g, s)]
    BY SummingRecursion
  <2> HIDE DEF g
  <2> QED
    BY <2>1
<1>2. Bad = {}
  <2> SUFFICES ASSUME Bad # {}
               PROVE  FALSE
    OBVIOUS
  <2> HIDE DEF g
  <2>1. PICK n \in Bad : \A k \in Bad : n <= k
    BY Least, Bad \subseteq Nat, Zenon
  <2>2. PICK s \in SUBSET S : Cardinality(s) = n /\ g[s] \notin Nat
    BY <2>1
  <2> DEFINE x == CHOOSE x \in s : TRUE
  <2>3. s # {}
    BY <2>2, <1>1 DEF Summand
  <2>4. x \in s
    BY <2>3
  <2>5. Cardinality(s \ {x}) = n - 1 /\ n - 1 \in Nat
    <3>1. IsFiniteSet(s) /\ IsFiniteSet(s \ {x}) /\ Cardinality(s \ {x}) = Cardinality(s) - 1
      BY <2>4, FS_Subset, FS_RemoveElement
    <3> QED
      BY <3>1, <2>2, FS_CardinalityType
  <2>6. g[s \ {x}] \in Nat
    BY <2>1, <2>5
  <2>7. g[s] = f[x] + g[s \ {x}]
    BY <1>1, <2>3 DEF Summand
  <2> QED
    BY <2>2, <2>4, <2>6, <2>7
<1>3. g[S] \in Nat
  BY <1>2, FS_CardinalityType
<1> QED
  BY <1>3, SumIsSumming

\* The empty sum is zero.
THEOREM SumEmpty ==
  ASSUME NEW f
  PROVE  SumFunctionOnSet(f, {}) = 0
<1>1. Summing(f, {}) = [s \in SUBSET {} |-> Summand(f, Summing(f, {}), s)]
  BY SummingRecursion, FS_EmptySet
<1> QED
  BY <1>1, SumIsSumming DEF Summand

-----------------------------------------------------------------------------

\* Among sets of subsets of a finite set there is one from which no element can
\* be taken without leaving them: a least counterexample, for the proofs below.
LEMMA Smallest ==
  ASSUME NEW S, IsFiniteSet(S), NEW B, B \subseteq SUBSET S, B # {}
  PROVE  \E T \in B : \A x \in T : T \ {x} \notin B
<1>1. \A T \in B : IsFiniteSet(T) /\ Cardinality(T) \in Nat
  BY FS_Subset, FS_CardinalityType
<1> DEFINE sizes == {Cardinality(T) : T \in B}
<1>2. sizes \subseteq Nat /\ sizes # {}
  BY <1>1
<1>3. PICK n \in sizes : \A k \in sizes : n <= k
  BY <1>2, Least, Zenon
<1>4. PICK T \in B : Cardinality(T) = n
  BY <1>3
<1>5. ASSUME NEW x \in T, T \ {x} \in B
      PROVE  FALSE
  <2>1. Cardinality(T \ {x}) = Cardinality(T) - 1
    BY <1>1, FS_RemoveElement
  <2>2. n <= Cardinality(T \ {x})
    BY <1>3, <1>5
  <2> QED
    BY <1>1, <1>4, <2>1, <2>2
<1> QED
  BY <1>5

\* A finite set of numbers has a greatest one.
LEMMA GreatestOf ==
  ASSUME NEW S, IsFiniteSet(S), S \subseteq Nat, S # {}
  PROVE  \E x \in S : \A y \in S : y <= x
<1> DEFINE HasGreatest(T) == T = {} \/ \E x \in T : \A y \in T : y <= x
           B == {T \in SUBSET S : ~HasGreatest(T)}
<1>1. B = {}
  <2> SUFFICES ASSUME B # {}
               PROVE  FALSE
    OBVIOUS
  <2>1. PICK T \in B : \A x \in T : T \ {x} \notin B
    BY Smallest, B \subseteq SUBSET S, Zenon
  <2>2. T \subseteq S /\ T # {} /\ ~ \E x \in T : \A y \in T : y <= x
    BY <2>1
  <2>3. PICK z : z \in T
    BY <2>2
  <2>4. HasGreatest(T \ {z})
    BY <2>1, <2>3
  <2>5. CASE T \ {z} = {}
    BY <2>2, <2>3, <2>5
  <2>6. ASSUME NEW x \in T \ {z}, \A y \in T \ {z} : y <= x
        PROVE  FALSE
    <3>1. x \in Nat /\ z \in Nat /\ \A y \in T : y \in Nat
      BY <2>2, <2>3
    <3>2. CASE z <= x
      BY <2>2, <2>6, <3>2
    <3>3. CASE x <= z
      BY <2>2, <2>3, <2>6, <3>1, <3>3
    <3> QED
      BY <3>1, <3>2, <3>3
  <2> QED
    BY <2>4, <2>5, <2>6
<1> QED
  BY <1>1

\* The recursion for a set gives the sums of its subsets.
LEMMA SummingIsSum ==
  ASSUME NEW S, IsFiniteSet(S), NEW f, \A x \in S : f[x] \in Nat, NEW T \in SUBSET S
  PROVE  Summing(f, S)[T] = SumFunctionOnSet(f, T)
<1> DEFINE g == Summing(f, S)
           h == Summing(f, T)
           B == {U \in SUBSET T : g[U] # h[U]}
<1>1. IsFiniteSet(T) /\ \A x \in T : f[x] \in Nat
  BY FS_Subset
<1>2. g = [s \in SUBSET S |-> Summand(f, g, s)]
  BY SummingRecursion
<1>3. h = [s \in SUBSET T |-> Summand(f, h, s)]
  BY <1>1, SummingRecursion
<1> HIDE DEF g, h
<1>4. \A U \in SUBSET T : g[U] = Summand(f, g, U) /\ h[U] = Summand(f, h, U)
  BY <1>2, <1>3
<1>5. B = {}
  <2> SUFFICES ASSUME B # {}
               PROVE  FALSE
    OBVIOUS
  <2>1. PICK U \in B : \A x \in U : U \ {x} \notin B
    BY <1>1, Smallest, B \subseteq SUBSET T, Zenon
  <2>2. \A x \in U : g[U \ {x}] = h[U \ {x}]
    BY <2>1
  <2>3. Summand(f, g, U) = Summand(f, h, U)
    <3>1. CASE U = {}
      BY <3>1 DEF Summand
    <3>2. CASE U # {}
      <4>1. (CHOOSE x \in U : TRUE) \in U
        BY <3>2
      <4> QED
        BY <2>2, <4>1 DEF Summand
    <3> QED
      BY <3>1, <3>2
  <2> QED
    BY <1>4, <2>1, <2>3
<1>6. g[T] = h[T]
  BY <1>5
<1> QED
  BY <1>6, SumIsSumming DEF g, h

\* A sum is any one of its terms and the sum of the others.
THEOREM SumRemove ==
  ASSUME NEW S, IsFiniteSet(S), NEW f, \A x \in S : f[x] \in Nat, NEW x \in S
  PROVE  SumFunctionOnSet(f, S) = f[x] + SumFunctionOnSet(f, S \ {x})
<1> DEFINE Sum(T) == SumFunctionOnSet(f, T)
           B == {T \in SUBSET S : ~ \A y \in T : Sum(T) = f[y] + Sum(T \ {y})}
<1>1. \A T \in SUBSET S : IsFiniteSet(T) /\ Sum(T) \in Nat
  BY FS_Subset, SumType
<1>2. ASSUME NEW T \in SUBSET S, T # {}
      PROVE  LET c == CHOOSE c \in T : TRUE IN Sum(T) = f[c] + Sum(T \ {c})
  <2> DEFINE c == CHOOSE c \in T : TRUE
             g == Summing(f, S)
  <2>1. g = [s \in SUBSET S |-> Summand(f, g, s)]
    BY SummingRecursion
  <2>2. \A U \in SUBSET S : g[U] = Sum(U)
    BY SummingIsSum
  <2> HIDE DEF g, Sum
  <2>3. g[T] = f[c] + g[T \ {c}]
    BY <1>2, <2>1 DEF Summand
  <2> QED
    BY <2>2, <2>3
<1> HIDE DEF Sum
<1>3. B = {}
  <2> SUFFICES ASSUME B # {}
               PROVE  FALSE
    OBVIOUS
  <2>1. PICK T \in B : \A y \in T : T \ {y} \notin B
    BY Smallest, B \subseteq SUBSET S, Zenon
  <2>2. PICK y \in T : Sum(T) # f[y] + Sum(T \ {y})
    BY <2>1
  <2> DEFINE c == CHOOSE c \in T : TRUE
  <2>3. c \in T /\ Sum(T) = f[c] + Sum(T \ {c})
    BY <1>2, <2>2
  <2> HIDE DEF c
  <2>4. y # c
    BY <2>2, <2>3
  <2>5. \A z \in T \ {c} : Sum(T \ {c}) = f[z] + Sum((T \ {c}) \ {z})
    BY <2>1, <2>3
  <2>6. \A z \in T \ {y} : Sum(T \ {y}) = f[z] + Sum((T \ {y}) \ {z})
    BY <2>1, <2>2
  <2>7. (T \ {c}) \ {y} = (T \ {y}) \ {c}
    OBVIOUS
  <2>8. /\ f[c] \in Nat /\ f[y] \in Nat /\ Sum((T \ {y}) \ {c}) \in Nat
        /\ Sum(T \ {c}) = f[y] + Sum((T \ {y}) \ {c})
        /\ Sum(T \ {y}) = f[c] + Sum((T \ {y}) \ {c})
    BY <1>1, <2>2, <2>3, <2>4, <2>5, <2>6, <2>7
  <2> QED
    BY <2>2, <2>3, <2>8
<1>4. Sum(S) = f[x] + Sum(S \ {x})
  BY <1>3
<1> QED
  BY <1>4 DEF Sum

\* A sum of smaller terms is smaller.
THEOREM SumMonotone ==
  ASSUME NEW S, IsFiniteSet(S), NEW f, NEW g,
         \A x \in S : f[x] \in Nat /\ g[x] \in Nat /\ f[x] <= g[x]
  PROVE  SumFunctionOnSet(f, S) <= SumFunctionOnSet(g, S)
<1> DEFINE F(T) == SumFunctionOnSet(f, T)
           G(T) == SumFunctionOnSet(g, T)
           B == {T \in SUBSET S : ~ (F(T) <= G(T))}
<1>1. \A T \in SUBSET S : IsFiniteSet(T) /\ F(T) \in Nat /\ G(T) \in Nat
  BY FS_Subset, SumType
<1>2. \A T \in SUBSET S : \A x \in T : /\ F(T) = f[x] + F(T \ {x})
                                       /\ G(T) = g[x] + G(T \ {x})
  BY <1>1, SumRemove
<1>3. F({}) = 0 /\ G({}) = 0
  BY SumEmpty
<1> HIDE DEF F, G
<1>4. B = {}
  <2> SUFFICES ASSUME B # {}
               PROVE  FALSE
    OBVIOUS
  <2>1. PICK T \in B : \A x \in T : T \ {x} \notin B
    BY Smallest, B \subseteq SUBSET S, Zenon
  <2>2. PICK x : x \in T
    BY <1>3, <2>1
  <2>3. F(T \ {x}) <= G(T \ {x})
    BY <2>1, <2>2
  <2> QED
    BY <1>1, <1>2, <2>1, <2>2, <2>3
<1>5. F(S) <= G(S)
  BY <1>4
<1> QED
  BY <1>5 DEF F, G

\* A sum depends on its terms only.
COROLLARY SumSame ==
  ASSUME NEW S, IsFiniteSet(S), NEW f, NEW g, \A x \in S : f[x] \in Nat /\ g[x] = f[x]
  PROVE  SumFunctionOnSet(g, S) = SumFunctionOnSet(f, S)
<1>1. \A x \in S : f[x] \in Nat /\ g[x] \in Nat /\ f[x] <= g[x] /\ g[x] <= f[x]
  OBVIOUS
<1>2. /\ SumFunctionOnSet(f, S) \in Nat /\ SumFunctionOnSet(g, S) \in Nat
      /\ SumFunctionOnSet(f, S) <= SumFunctionOnSet(g, S)
      /\ SumFunctionOnSet(g, S) <= SumFunctionOnSet(f, S)
  BY <1>1, SumType, SumMonotone
<1> QED
  BY <1>2

\* Sums are added term by term.
THEOREM SumAdd ==
  ASSUME NEW S, IsFiniteSet(S), NEW f, NEW g, NEW h,
         \A x \in S : f[x] \in Nat /\ g[x] \in Nat /\ h[x] = f[x] + g[x]
  PROVE  SumFunctionOnSet(h, S) = SumFunctionOnSet(f, S) + SumFunctionOnSet(g, S)
<1> DEFINE F(T) == SumFunctionOnSet(f, T)
           G(T) == SumFunctionOnSet(g, T)
           H(T) == SumFunctionOnSet(h, T)
           B == {T \in SUBSET S : H(T) # F(T) + G(T)}
<1>0. \A x \in S : f[x] \in Nat /\ g[x] \in Nat /\ h[x] \in Nat
  OBVIOUS
<1>1. \A T \in SUBSET S : IsFiniteSet(T) /\ F(T) \in Nat /\ G(T) \in Nat /\ H(T) \in Nat
  BY <1>0, FS_Subset, SumType
<1>2. \A T \in SUBSET S : \A x \in T : /\ F(T) = f[x] + F(T \ {x})
                                       /\ G(T) = g[x] + G(T \ {x})
                                       /\ H(T) = h[x] + H(T \ {x})
  BY <1>0, <1>1, SumRemove
<1>3. F({}) = 0 /\ G({}) = 0 /\ H({}) = 0
  BY SumEmpty
<1> HIDE DEF F, G, H
<1>4. B = {}
  <2> SUFFICES ASSUME B # {}
               PROVE  FALSE
    OBVIOUS
  <2>1. PICK T \in B : \A x \in T : T \ {x} \notin B
    BY Smallest, B \subseteq SUBSET S, Zenon
  <2>2. PICK x : x \in T
    <3>1. H({}) = F({}) + G({})
      BY <1>3
    <3> QED
      BY <2>1, <3>1
  <2>3. H(T \ {x}) = F(T \ {x}) + G(T \ {x})
    BY <2>1, <2>2
  <2> QED
    BY <1>0, <1>1, <1>2, <2>1, <2>2, <2>3
<1>5. H(S) = F(S) + G(S)
  BY <1>4
<1> QED
  BY <1>5 DEF F, G, H

\* The sums of two parts.
THEOREM SumUnion ==
  ASSUME NEW S, IsFiniteSet(S), NEW f, \A x \in S : f[x] \in Nat, NEW P \in SUBSET S
  PROVE  SumFunctionOnSet(f, S) = SumFunctionOnSet(f, P) + SumFunctionOnSet(f, S \ P)
<1> DEFINE F(T) == SumFunctionOnSet(f, T)
           B == {T \in SUBSET P : F((S \ P) \cup T) # F(T) + F(S \ P)}
<1>1. \A T \in SUBSET S : IsFiniteSet(T) /\ F(T) \in Nat
  BY FS_Subset, SumType
<1>2. \A T \in SUBSET S : \A x \in T : F(T) = f[x] + F(T \ {x})
  BY <1>1, SumRemove
<1>3. F({}) = 0
  BY SumEmpty
<1> HIDE DEF F
<1>4. B = {}
  <2> SUFFICES ASSUME B # {}
               PROVE  FALSE
    OBVIOUS
  <2>1. PICK T \in B : \A x \in T : T \ {x} \notin B
    BY <1>1, Smallest, B \subseteq SUBSET P, Zenon
  <2>2. T # {}
    <3>1. (S \ P) \cup {} = S \ P /\ F(S \ P) \in Nat
      BY <1>1
    <3>2. F((S \ P) \cup {}) = F({}) + F(S \ P)
      BY <1>3, <3>1
    <3> QED
      BY <2>1, <3>2
  <2>3. PICK x : x \in T
    BY <2>2
  <2>4. F((S \ P) \cup (T \ {x})) = F(T \ {x}) + F(S \ P)
    BY <2>1, <2>3
  <2>5. ((S \ P) \cup T) \ {x} = (S \ P) \cup (T \ {x})
    BY <2>1, <2>3
  <2>6. (S \ P) \cup T \in SUBSET S /\ x \in (S \ P) \cup T /\ T \in SUBSET S /\ x \in S
    BY <2>1, <2>3
  <2>7. F((S \ P) \cup T) = f[x] + F((S \ P) \cup (T \ {x}))
    BY <1>2, <2>5, <2>6
  <2>8. /\ F(T) = f[x] + F(T \ {x})
        /\ f[x] \in Nat /\ F(T \ {x}) \in Nat /\ F(S \ P) \in Nat
    BY <1>1, <1>2, <2>3, <2>6
  <2>9. F((S \ P) \cup T) = F(T) + F(S \ P)
    BY <2>4, <2>7, <2>8
  <2> QED
    BY <2>1, <2>9
<1>5. F((S \ P) \cup P) = F(P) + F(S \ P) /\ (S \ P) \cup P = S
  BY <1>4
<1> QED
  BY <1>5 DEF F

\* The sum of a constant.
THEOREM SumConstant ==
  ASSUME NEW S, IsFiniteSet(S), NEW c \in Nat, NEW f, \A x \in S : f[x] = c
  PROVE  SumFunctionOnSet(f, S) = c * Cardinality(S)
<1> DEFINE F(T) == SumFunctionOnSet(f, T)
           B == {T \in SUBSET S : F(T) # c * Cardinality(T)}
<1>1. \A T \in SUBSET S : IsFiniteSet(T) /\ F(T) \in Nat /\ Cardinality(T) \in Nat
  BY FS_Subset, FS_CardinalityType, SumType
<1>2. \A T \in SUBSET S : \A x \in T : /\ F(T) = c + F(T \ {x})
                                       /\ Cardinality(T) = Cardinality(T \ {x}) + 1
  <2> SUFFICES ASSUME NEW T \in SUBSET S, NEW x \in T
               PROVE  /\ F(T) = c + F(T \ {x})
                      /\ Cardinality(T) = Cardinality(T \ {x}) + 1
    OBVIOUS
  <2>1. F(T) = f[x] + F(T \ {x})
    BY <1>1, SumRemove
  <2>2. Cardinality(T \ {x}) = Cardinality(T) - 1
    BY <1>1, FS_RemoveElement
  <2> HIDE DEF F
  <2> QED
    BY <1>1, <2>1, <2>2
<1>3. F({}) = 0 /\ Cardinality({}) = 0
  BY SumEmpty, FS_EmptySet
<1> HIDE DEF F
<1>4. B = {}
  <2> SUFFICES ASSUME B # {}
               PROVE  FALSE
    OBVIOUS
  <2>1. PICK T \in B : \A x \in T : T \ {x} \notin B
    BY Smallest, B \subseteq SUBSET S, Zenon
  <2>2. PICK x : x \in T
    BY <1>3, <2>1
  <2>3. F(T \ {x}) = c * Cardinality(T \ {x})
    BY <2>1, <2>2
  <2>4. /\ F(T) = c + F(T \ {x}) /\ Cardinality(T) = Cardinality(T \ {x}) + 1
        /\ Cardinality(T \ {x}) \in Nat
    BY <1>1, <1>2, <2>1, <2>2
  <2>5. \A n \in Nat : c * (n + 1) = c + c * n
    OBVIOUS
  <2> QED
    BY <2>1, <2>3, <2>4, <2>5
<1>5. F(S) = c * Cardinality(S)
  BY <1>4
<1> QED
  BY <1>5 DEF F

\* The sum of the sums of the parts.
THEOREM SumParts ==
  ASSUME NEW S, IsFiniteSet(S), NEW f, \A x \in S : f[x] \in Nat,
         NEW I, IsFiniteSet(I), NEW part, NEW h,
         \A i \in I : part[i] \in SUBSET S /\ h[i] = SumFunctionOnSet(f, part[i]),
         \A i, j \in I : i # j => part[i] \cap part[j] = {},
         \A x \in S : \E i \in I : x \in part[i]
  PROVE  SumFunctionOnSet(h, I) = SumFunctionOnSet(f, S)
<1> DEFINE F(T) == SumFunctionOnSet(f, T)
           H(T) == SumFunctionOnSet(h, T)
           Of(T) == {x \in S : \E i \in T : x \in part[i]}
           B == {T \in SUBSET I : H(T) # F(Of(T))}
<1>1. \A T \in SUBSET S : IsFiniteSet(T) /\ F(T) \in Nat
  BY FS_Subset, SumType
<1>2. \A i \in I : h[i] = F(part[i]) /\ h[i] \in Nat
  BY <1>1
<1>3. \A T \in SUBSET I : IsFiniteSet(T) /\ \A i \in T : H(T) = h[i] + H(T \ {i})
  BY <1>2, FS_Subset, SumRemove
<1>4. ASSUME NEW T \in SUBSET I, NEW i \in T
      PROVE  F(Of(T)) = h[i] + F(Of(T \ {i}))
  <2>1. part[i] \in SUBSET Of(T) /\ Of(T) \ part[i] = Of(T \ {i}) /\ Of(T) \in SUBSET S
    OBVIOUS
  <2>2. F(Of(T)) = F(part[i]) + F(Of(T) \ part[i])
    <3>1. IsFiniteSet(Of(T)) /\ \A x \in Of(T) : f[x] \in Nat
      BY <1>1, <2>1
    <3> HIDE DEF Of
    <3> QED
      BY <2>1, <3>1, SumUnion
  <2> QED
    BY <1>2, <2>1, <2>2
<1>5. H({}) = 0 /\ F({}) = 0 /\ Of({}) = {}
  BY SumEmpty
<1>6. Of(I) = S
  OBVIOUS
<1> HIDE DEF F, H, Of
<1>7. B = {}
  <2> SUFFICES ASSUME B # {}
               PROVE  FALSE
    OBVIOUS
  <2>1. PICK T \in B : \A i \in T : T \ {i} \notin B
    BY Smallest, B \subseteq SUBSET I, Zenon
  <2>2. PICK i : i \in T
    BY <1>5, <2>1
  <2>3. H(T \ {i}) = F(Of(T \ {i}))
    BY <2>1, <2>2
  <2> QED
    BY <1>3, <1>4, <2>1, <2>2, <2>3
<1>8. H(I) = F(S)
  BY <1>6, <1>7
<1> QED
  BY <1>8 DEF F, H

-----------------------------------------------------------------------------
(* The arbitrary choices: a ranking of hands, an order of the HashMap.      *)

LEMMA RankType ==
  ASSUME NEW C \in SUBSET Ids, NEW rank \in Ranks[C]
  PROVE  Cardinality(C) \in Nat /\ rank \in [C -> 1..Cardinality(C)]
<1>1. Cardinality(C) \in Nat
  BY IdsAssumption, FS_Subset, FS_CardinalityType
<1>2. rank \in Bijection(C, 1..Cardinality(C))
  BY DEF Ranks
<1> QED
  BY <1>1, <1>2 DEF Bijection, Injection, Surjection

LEMMA OrderType ==
  ASSUME NEW S \in SUBSET Ids, NEW order \in Orders[S]
  PROVE  LET n == Cardinality(S)
         IN /\ n \in Nat
            /\ S = {} <=> n = 0
            /\ order \in [1..n -> S]
            /\ \A i, j \in 1..n : order[i] = order[j] => i = j
            /\ \A p \in S : \E i \in 1..n : order[i] = p
<1>1. /\ Cardinality(S) \in Nat
      /\ S = {} <=> Cardinality(S) = 0
  BY IdsAssumption, FS_Subset, FS_CardinalityType, FS_EmptySet
<1>2. order \in Bijection(1..Cardinality(S), S)
  BY DEF Orders
<1> QED
  BY <1>1, <1>2 DEF Bijection, Injection, Surjection, IsInjective

\* There is a best hand among any contenders there are.
LEMMA BestChosen ==
  ASSUME NEW t, NEW C \in SUBSET Ids, NEW rank \in Ranks[C], NEW S \in SUBSET C
  PROVE  /\ Best(t, rank, S) \in S \cup {None}
         /\ S # {} => Best(t, rank, S) \in S
<1>1. Best(t, rank, S) \in S \cup {None}
  BY DEF Best
<1>2. ASSUME S # {}
      PROVE  \E p \in S : \A q \in S : Strength(t, rank, q) <= Strength(t, rank, p)
  <2> DEFINE f == [p \in S |-> Strength(t, rank, p)]
  <2>1. Cardinality(C) \in Nat /\ Cardinality(Ids) \in Nat
    BY RankType, IdsAssumption, FS_CardinalityType
  <2>2. \A p \in S : /\ Strength(t, rank, p) \in Int
                     /\ Strength(t, rank, p) <= Cardinality(C)
    BY <2>1, RankType DEF Strength
  <2>3. f \in [S -> Int] /\ \A p \in S : f[p] <= Cardinality(C)
    BY <2>2
  <2> HIDE DEF f
  <2>4. \E p \in S : \A q \in S : f[q] <= f[p]
    BY <1>2, <2>1, <2>3, Greatest
  <2> QED
    BY <2>4 DEF f
<1> QED
  BY <1>1, <1>2 DEF Best

-----------------------------------------------------------------------------
(* Types.  Every operator on tables yields a table.                         *)

LEMMA ContendersSubset ==
  ASSUME NEW t \in TableType
  PROVE  /\ Contenders(t) \in SUBSET t.players /\ Contenders(t) \in SUBSET Ids
         /\ t.players \in SUBSET Ids
         /\ \A S \in SUBSET Ids : IsFiniteSet(S) /\ Cardinality(S) \in Nat
BY IdsAssumption, FS_Subset, FS_CardinalityType DEF Contenders, TableType

LEMMA NewTableType == NewTable \in TableType
BY DEF NewTable, TableType, Pointer

LEMMA MarkTurnStartedType ==
  ASSUME NEW t \in TableType
  PROVE  MarkTurnStarted(t) \in TableType
BY DEF MarkTurnStarted, TableType

LEMMA RaiseType ==
  ASSUME NEW t \in TableType, NEW p \in Ids, NEW amount \in Nat
  PROVE  Raise(t, p, amount) \in TableType
<1> DEFINE wallet == [t.wallet EXCEPT ![p] = @ - amount]
           pbet   == [t.pbet EXCEPT ![p] = @ + amount]
<1>1. t.wallet \in [Ids -> Nat] /\ t.pbet \in [Ids -> Nat]
  BY DEF TableType
<1>2. CASE t.wallet[p] < amount
  BY <1>2 DEF Raise, TableType, Pointer
<1>3. CASE ~ (t.wallet[p] < amount)
  <2>1. wallet \in [Ids -> Nat] /\ pbet \in [Ids -> Nat] /\ t.pbet[p] + amount \in Nat
    BY <1>1, <1>3
  <2>2. t.pot + amount \in Nat
    BY DEF TableType
  <2>3. [t EXCEPT !.bettor = p, !.wallet = wallet, !.pbet = pbet, !.pot = @ + amount,
                  !.bet = t.pbet[p] + amount] \in TableType
    <3> HIDE DEF wallet, pbet
    <3> QED
      BY <2>1, <2>2 DEF TableType, Pointer
  <2> QED
    BY <2>3, <1>3 DEF Raise
<1> QED
  BY <1>2, <1>3

LEMMA AllInType ==
  ASSUME NEW t \in TableType, NEW p \in Ids
  PROVE  AllIn(t, p) \in TableType
<1> DEFINE total  == t.pbet[p] + t.wallet[p]
           wallet == [t.wallet EXCEPT ![p] = 0]
           pbet   == [t.pbet EXCEPT ![p] = total]
<1>1. t.wallet \in [Ids -> Nat] /\ t.pbet \in [Ids -> Nat]
  BY DEF TableType
<1>2. wallet \in [Ids -> Nat] /\ pbet \in [Ids -> Nat] /\ total \in Nat
  BY <1>1
<1>3. t.pot + t.wallet[p] \in Nat
  BY <1>1 DEF TableType
<1>4. [t EXCEPT !.wallet = wallet, !.pbet = pbet, !.pot = @ + t.wallet[p],
                !.bet = IF total > @ THEN total ELSE @,
                !.bettor = IF total > t.bet THEN p ELSE @] \in TableType
  <2> DEFINE bet    == IF total > t.bet THEN total ELSE t.bet
             bettor == IF total > t.bet THEN p ELSE t.bettor
             pot    == t.pot + t.wallet[p]
  <2>1. bet \in Nat /\ bettor \in Pointer /\ pot \in Nat
    BY <1>2, <1>3 DEF TableType, Pointer
  <2>2. wallet \in [Ids -> Nat] /\ pbet \in [Ids -> Nat]
    BY <1>2
  <2> HIDE DEF wallet, pbet, total, bet, bettor, pot
  <2>3. [t EXCEPT !.wallet = wallet, !.pbet = pbet, !.pot = pot, !.bet = bet,
                  !.bettor = bettor] \in TableType
    BY <2>1, <2>2 DEF TableType
  <2> QED
    BY <2>3 DEF bet, bettor, pot
<1> QED
  BY <1>4 DEF AllIn

LEMMA OwedType ==
  ASSUME NEW t \in TableType, NEW p \in Ids
  PROVE  Owed(t, p) \in Nat
BY NumberAssumption DEF Owed, TableType

LEMMA CheckType ==
  ASSUME NEW t \in TableType, NEW p \in Ids
  PROVE  Check(t, p) \in TableType
<1>1. Owed(t, p) \in Nat
  BY OwedType
<1> DEFINE wallet == [t.wallet EXCEPT ![p] = @ - Owed(t, p)]
           pbet   == [t.pbet EXCEPT ![p] = t.bet]
<1>2. t.wallet \in [Ids -> Nat] /\ t.pbet \in [Ids -> Nat] /\ t.bet \in Nat
  BY DEF TableType
<1>3. CASE t.wallet[p] < Owed(t, p) \/ Underflows(t, p)
  BY <1>3 DEF Check, TableType
<1>4. CASE ~ (t.wallet[p] < Owed(t, p) \/ Underflows(t, p))
  <2>1. wallet \in [Ids -> Nat] /\ pbet \in [Ids -> Nat]
    BY <1>1, <1>2, <1>4
  <2>2. t.pot + Owed(t, p) \in Nat
    BY <1>1 DEF TableType
  <2>3. [t EXCEPT !.pot = @ + Owed(t, p), !.pbet = pbet, !.wallet = wallet] \in TableType
    <3> HIDE DEF wallet, pbet
    <3> QED
      BY <2>1, <2>2 DEF TableType
  <2> QED
    BY <2>3, <1>4 DEF Check
<1> QED
  BY <1>3, <1>4

LEMMA CutFromRingType ==
  ASSUME NEW t \in TableType, NEW p \in Ids
  PROVE  CutFromRing(t, p) \in TableType
BY DEF CutFromRing, TableType, Pointer

LEMMA MovePointersType ==
  ASSUME NEW t \in TableType, NEW p \in Ids, NEW before \in Pointer, NEW after \in Pointer
  PROVE  MovePointers(t, p, before, after) \in TableType
<1> DEFINE head == Replace(t.head, p, after)  bettor == Replace(t.bettor, p, before)
           blind == Replace(t.blind, p, before)  turn == Replace(t.turn, p, before)
           m == [t EXCEPT !.head = head, !.bettor = bettor, !.blind = blind, !.turn = turn]
<1>1. head \in Pointer /\ bettor \in Pointer /\ blind \in Pointer /\ turn \in Pointer
  BY DEF Replace, TableType
<1> HIDE DEF head, bettor, blind, turn
<1>2. m \in TableType
  BY <1>1 DEF TableType
<1> HIDE DEF m
<1>3. MarkTurnStarted(m) \in TableType
  BY <1>2 DEF MarkTurnStarted, TableType
<1> QED
  BY <1>3 DEF MovePointers, m, head, bettor, blind, turn

LEMMA KeepPlayingType ==
  ASSUME NEW t \in TableType, NEW p \in Ids
  PROVE  KeepPlaying(t, p) \in TableType
BY DEF KeepPlaying, TableType

LEMMA DropType ==
  ASSUME NEW t \in TableType, NEW S \in SUBSET Ids
  PROVE  Drop(t, S) \in TableType
BY DEF Drop, TableType, Pointer

LEMMA AddPlayerType ==
  ASSUME NEW t \in TableType, NEW p \in Ids, NEW chips \in Nat
  PROVE  AddPlayer(t, p, chips) \in TableType
<1> DEFINE seated == [t EXCEPT !.players = @ \cup {p}, !.wallet[p] = chips, !.folded[p] = FALSE]
<1>1. seated \in TableType
  <2>1. [t.wallet EXCEPT ![p] = chips] \in [Ids -> Nat]
        /\ [t.folded EXCEPT ![p] = FALSE] \in [Ids -> BOOLEAN]
    BY DEF TableType
  <2> QED
    BY <2>1 DEF TableType
<1>2. ASSUME NEW u \in TableType
      PROVE  [u EXCEPT !.head = p, !.blind = p, !.nextf[p] = p, !.prevf[p] = p] \in TableType
  <2>1. [u.nextf EXCEPT ![p] = p] \in [Ids -> Pointer] /\ [u.prevf EXCEPT ![p] = p] \in [Ids -> Pointer]
    BY DEF TableType, Pointer
  <2> QED
    BY <2>1 DEF TableType, Pointer
<1>3. ASSUME NEW u \in TableType, NEW tail \in Pointer
      PROVE  LinkNode(u, p, tail) \in TableType
  <2>1. [u.nextf EXCEPT ![tail] = p, ![p] = u.head] \in [Ids -> Pointer]
    BY DEF TableType, Pointer
  <2>2. [u.prevf EXCEPT ![u.head] = p, ![p] = tail] \in [Ids -> Pointer]
    BY DEF TableType, Pointer
  <2> QED
    BY <2>1, <2>2 DEF LinkNode, TableType
<1>4. [t EXCEPT !.health = "unwrap"] \in TableType
  BY DEF TableType
<1>5. t.head # None => t.prevf[t.head] \in Pointer
  BY DEF TableType, Pointer
<1> HIDE DEF seated
<1>6. CASE p \in t.players \/ Cardinality(t.players) >= MaxPlayers
  BY <1>6 DEF AddPlayer
<1>7. CASE ~ (p \in t.players \/ Cardinality(t.players) >= MaxPlayers)
  BY <1>1, <1>2, <1>3, <1>4, <1>5, <1>7 DEF AddPlayer, seated
<1> QED
  BY <1>6, <1>7

LEMMA LevelsFinite ==
  ASSUME NEW t \in TableType
  PROVE  /\ IsFiniteSet(Levels(t)) /\ Levels(t) \in SUBSET Nat
         /\ \A S \in SUBSET Levels(t) : IsFiniteSet(S)
<1> DEFINE bets == {t.pbet[p] : p \in t.players}
<1>1. IsFiniteSet(t.players)
  BY ContendersSubset
<1>2. [p \in t.players |-> t.pbet[p]] \in Surjection(t.players, bets)
  BY DEF Surjection
<1>3. IsFiniteSet(bets)
  BY <1>1, <1>2, FS_Surjection
<1>4. Levels(t) \in SUBSET bets /\ Levels(t) \in SUBSET Nat
  BY DEF Levels, TableType
<1> QED
  BY <1>3, <1>4, FS_Subset

\* There is a highest level below a level, or none and it is 0.
LEMMA LevelBelow ==
  ASSUME NEW t \in TableType, NEW level \in Nat
  PROVE  LET lower == {0} \cup {l \in Levels(t) : l < level}
         IN Max(lower) \in lower /\ \A l \in lower : l <= Max(lower)
<1> DEFINE lower == {0} \cup {l \in Levels(t) : l < level}
           f     == [l \in lower |-> l]
<1>1. lower \in SUBSET Nat /\ lower # {} /\ \A l \in lower : l <= level
  BY LevelsFinite
<1>2. level \in Int /\ f \in [lower -> Int] /\ \A l \in lower : f[l] <= level
  BY <1>1
<1>3. \E l \in lower : \A k \in lower : f[k] <= f[l]
  <2> HIDE DEF f, lower
  <2> QED
    BY <1>1, <1>2, Greatest, Zenon
<1>4. \E l \in lower : \A k \in lower : l >= k
  BY <1>1, <1>3
<1>5. Max(lower) \in lower /\ \A l \in lower : Max(lower) >= l
  <2> HIDE DEF lower
  <2> QED
    BY <1>4 DEF Max
<1> QED
  BY <1>1, <1>5

LEMMA LevelPotType ==
  ASSUME NEW t \in TableType, NEW level \in Nat
  PROVE  LevelPot(t, level) \in Nat
<1> DEFINE lower == {0} \cup {l \in Levels(t) : l < level}
<1>1. lower \in SUBSET Nat /\ \A l \in lower : l <= level
  BY LevelsFinite
<1>2. level - Max(lower) \in Nat
  BY <1>1, LevelBelow
<1>3. Cardinality({p \in t.players : t.pbet[p] >= level}) \in Nat
  BY ContendersSubset
<1> QED
  BY <1>2, <1>3 DEF LevelPot

LEMMA PotsType ==
  ASSUME NEW t \in TableType, NEW S \in SUBSET Levels(t)
  PROVE  Pots(t, S) \in Nat
<1> DEFINE f == [l \in Levels(t) |-> LevelPot(t, l)]
<1>1. IsFiniteSet(S) /\ \A l \in S : f[l] \in Nat
  BY LevelsFinite, LevelPotType
<1> HIDE DEF f
<1>2. SumFunctionOnSet(f, S) \in Nat
  BY <1>1, SumType
<1> QED
  BY <1>2 DEF Pots, f

LEMMA PayShowdownPotsType ==
  ASSUME NEW t \in TableType, NEW rank
  PROVE  PayShowdownPots(t, rank) \in [Ids -> Nat]
<1> DEFINE paid == Pots(t, Levels(t) \ LevelsWon(t, rank, None))
           rest == IF paid < t.pot THEN t.pot - paid ELSE 0
<1>1. \A p : LevelsWon(t, rank, p) \in SUBSET Levels(t)
  BY DEF LevelsWon
<1>2. \A p : Pots(t, LevelsWon(t, rank, p)) \in Nat
  BY <1>1, PotsType
<1>3. paid \in Nat
  BY PotsType
<1>4. rest \in Nat /\ t.wallet \in [Ids -> Nat]
  BY <1>3 DEF TableType
<1> HIDE DEF paid
<1> QED
  BY <1>2, <1>4 DEF PayShowdownPots, paid

LEMMA ClearHandType ==
  ASSUME NEW t \in TableType
  PROVE  ClearHand(t) \in TableType
BY DEF ClearHand, TableType, Pointer

LEMMA EndGameType ==
  ASSUME NEW t \in TableType, NEW C \in SUBSET Ids, NEW rank \in Ranks[C],
         Contenders(t) \subseteq C
  PROVE  EndGame(t, rank) \in TableType
<1> DEFINE winner == Best(t, rank, Contenders(t))
           wallet == PayShowdownPots(t, rank)
           blind  == IF t.blind = None THEN None ELSE t.nextf[t.blind]
           paid   == [t EXCEPT !.showdown = winner, !.confirmed = {}, !.wallet = wallet,
                               !.head = winner, !.blind = blind]
<1>1. winner \in Pointer /\ blind \in Pointer
  BY BestChosen, ContendersSubset DEF Pointer, TableType
<1>2. wallet \in [Ids -> Nat]
  BY PayShowdownPotsType
<1>3. paid \in TableType
  <2> HIDE DEF winner, wallet, blind
  <2> QED
    BY <1>1, <1>2 DEF TableType
<1>4. ClearHand(paid) \in TableType
  BY <1>3, ClearHandType
<1> QED
  BY <1>4 DEF EndGame

LEMMA FoldType ==
  ASSUME NEW t \in TableType, NEW p \in Ids, NEW rank \in Ranks[Contenders(t)]
  PROVE  Fold(t, p, rank) \in TableType
<1> DEFINE out    == CutFromRing(t, p)
           folded == MovePointers(out, p, t.prev[p], t.next[p])
<1>1. t.prev[p] \in Pointer /\ t.next[p] \in Pointer
  BY DEF TableType
<1>2. folded \in TableType
  BY <1>1, CutFromRingType, MovePointersType
<1>3. Contenders(folded) \subseteq Contenders(t) /\ Contenders(t) \in SUBSET Ids
  BY ContendersSubset
     DEF Contenders, MovePointers, MarkTurnStarted, CutFromRing, TableType
<1>4. EndGame(folded, rank) \in TableType
  BY <1>2, <1>3, EndGameType
<1>5. [t EXCEPT !.health = "selflock"] \in TableType
  BY DEF TableType
<1> QED
  BY <1>2, <1>4, <1>5 DEF Fold

LEMMA RebuildType ==
  ASSUME NEW t \in TableType, NEW order \in Orders[t.players]
  PROVE  Rebuild(t, order) \in TableType
<1> DEFINE n     == Cardinality(t.players)
           at    == [p \in t.players |-> CHOOSE i \in 1..n : order[i] = p]
           head  == IF t.head \in t.players THEN t.head ELSE order[1]
           nextf == [p \in Ids |-> IF p \in t.players
                       THEN order[IF at[p] = n THEN 1 ELSE at[p] + 1] ELSE None]
           prevf == [p \in Ids |-> IF p \in t.players
                       THEN order[IF at[p] = 1 THEN n ELSE at[p] - 1] ELSE None]
           blind == IF t.blind \in t.players THEN t.blind ELSE head
<1>1. t.players \in SUBSET Ids
  BY DEF TableType
<1>2. CASE t.players = {}
  BY <1>2 DEF Rebuild, TableType, Pointer
<1>3. CASE t.players # {}
  <2>1. n \in Nat \ {0} /\ order \in [1..n -> t.players]
        /\ \A p \in t.players : \E i \in 1..n : order[i] = p
    BY <1>1, <1>3, OrderType
  <2>2. \A p \in t.players : at[p] \in 1..n
    BY <2>1
  <2>3. \A p \in t.players :
          /\ (IF at[p] = n THEN 1 ELSE at[p] + 1) \in 1..n
          /\ (IF at[p] = 1 THEN n ELSE at[p] - 1) \in 1..n
    <3> HIDE DEF at, n
    <3> QED
      BY <2>1, <2>2
  <2>4. nextf \in [Ids -> Pointer] /\ prevf \in [Ids -> Pointer]
    <3> HIDE DEF at, n
    <3> QED
      BY <2>1, <2>3, <1>1 DEF Pointer
  <2>5. head \in Pointer /\ blind \in Pointer
    <3>1. 1 \in 1..n
      BY <2>1
    <3>2. order[1] \in t.players
      BY <2>1, <3>1
    <3> QED
      BY <1>1, <3>2 DEF Pointer
  <2>6. [t EXCEPT !.nextf = nextf, !.prevf = prevf, !.head = head, !.blind = blind] \in TableType
    <3> HIDE DEF nextf, prevf, head, blind
    <3> QED
      BY <2>4, <2>5 DEF TableType
  <2> QED
    BY <2>6, <1>3 DEF Rebuild
<1> QED
  BY <1>2, <1>3

LEMMA RemoveType ==
  ASSUME NEW t \in TableType, NEW p \in Ids, NEW rank \in Ranks[Contenders(t)],
         NEW order \in Orders[t.players \ {p}]
  PROVE  Remove(t, p, order, rank) \in TableType
<1> DEFINE out  == Fold(t, p, rank)
           head == IF out.head # p THEN out.head
                   ELSE IF out.nextf[p] = p THEN None ELSE out.nextf[p]
           left == Drop([out EXCEPT !.head = head], {p})
<1>1. out \in TableType
  BY FoldType
<1>2. out.players = t.players
  BY DEF Fold, EndGame, ClearHand, MovePointers, MarkTurnStarted, CutFromRing, TableType
<1>3. [out EXCEPT !.head = head] \in TableType
  <2> HIDE DEF out
  <2>1. head \in Pointer
    BY <1>1 DEF TableType, Pointer
  <2> HIDE DEF head
  <2> QED
    BY <1>1, <2>1 DEF TableType
<1>4. left \in TableType
  BY <1>3, DropType
<1>5. left.players = t.players \ {p}
  <2> HIDE DEF out
  <2> QED
    BY <1>1, <1>2 DEF Drop, TableType
<1>6. Rebuild(left, order) \in TableType
  <2> HIDE DEF left
  <2> QED
    BY <1>4, <1>5, RebuildType
<1> QED
  BY <1>1, <1>6 DEF Remove

LEMMA AnteType ==
  ASSUME NEW t \in TableType
  PROVE  Ante(t) \in TableType
<1> DEFINE payers == {p \in t.players : Owed(t, p) <= t.wallet[p]}
           owed   == [p \in Ids |-> Owed(t, p)]
           pbet   == [p \in Ids |-> IF p \in payers THEN t.bet ELSE t.pbet[p]]
           wallet == [p \in Ids |-> IF p \in payers THEN t.wallet[p] - Owed(t, p)
                                                    ELSE t.wallet[p]]
           pot    == t.pot + SumFunctionOnSet(owed, payers)
<1>1. t.players \in SUBSET Ids /\ t.wallet \in [Ids -> Nat] /\ t.pbet \in [Ids -> Nat]
      /\ t.bet \in Nat /\ t.pot \in Nat
  BY DEF TableType
<1>2. \A p \in Ids : Owed(t, p) \in Nat
  BY OwedType
<1>3. pbet \in [Ids -> Nat] /\ wallet \in [Ids -> Nat]
  BY <1>1, <1>2
<1>4. IsFiniteSet(payers) /\ \A p \in payers : owed[p] \in Nat
  <2>1. payers \in SUBSET Ids
    BY <1>1
  <2> QED
    BY <1>2, <2>1, ContendersSubset
<1>5. pot \in Nat
  <2> HIDE DEF owed, payers
  <2> QED
    BY <1>1, <1>4, SumType
<1>6. [t EXCEPT !.pot = pot, !.pbet = pbet, !.wallet = wallet] \in TableType
  <2> HIDE DEF pot, pbet, wallet
  <2> QED
    BY <1>3, <1>5 DEF TableType
<1>7. [t EXCEPT !.health = "overflow"] \in TableType
  BY DEF TableType
<1> QED
  BY <1>6, <1>7 DEF Ante

LEMMA DealType ==
  ASSUME NEW t \in TableType, t.blind \in Ids
  PROVE  Deal(t) \in TableType
<1> DEFINE folded  == [p \in Ids |-> p \notin t.players]
           dealt   == [t EXCEPT !.showdown = None, !.confirmed = {}, !.folded = folded,
                                !.next = t.nextf, !.prev = t.prevf, !.bet = 0, !.pot = 0,
                                !.round = 0]
           blinded == Raise(dealt, t.blind, BlindBet)
<1>1. folded \in [Ids -> BOOLEAN]
  OBVIOUS
<1>2. dealt \in TableType
  <2> HIDE DEF folded
  <2> QED
    BY <1>1 DEF TableType, Pointer
<1>3. blinded \in TableType
  <2> HIDE DEF dealt
  <2> QED
    BY <1>2, RaiseType, NumberAssumption
<1>4. \A pointer \in Pointer : [blinded EXCEPT !.turn = pointer] \in TableType
  <2> HIDE DEF blinded
  <2> QED
    BY <1>3 DEF TableType
<1>5. t.blind \in Pointer /\ t.nextf[t.blind] \in Pointer
  BY DEF TableType, Pointer
<1>6. IF IsAnte THEN Ante([blinded EXCEPT !.turn = t.blind]) \in TableType
                ELSE [blinded EXCEPT !.turn = t.nextf[t.blind]] \in TableType
  BY <1>4, <1>5, AnteType
<1> QED
  BY <1>6, MarkTurnStartedType DEF Deal

\* What rebuild_full_ring changes, and what it leaves alone, when there are
\* players.
LEMMA RebuildFields ==
  ASSUME NEW t \in TableType, NEW order \in Orders[t.players], t.players # {}
  PROVE  LET r == Rebuild(t, order)
         IN /\ r.head \in t.players /\ r.blind \in t.players
            /\ r.head = IF t.head \in t.players THEN t.head ELSE order[1]
            /\ r.blind = IF t.blind \in t.players THEN t.blind ELSE r.head
            /\ r.players = t.players /\ r.wallet = t.wallet /\ r.pbet = t.pbet
            /\ r.folded = t.folded /\ r.next = t.next /\ r.prev = t.prev
            /\ r.bettor = t.bettor /\ r.turn = t.turn /\ r.bet = t.bet /\ r.pot = t.pot
            /\ r.round = t.round /\ r.showdown = t.showdown /\ r.confirmed = t.confirmed
            /\ r.clock = t.clock /\ r.health = t.health
<1>1. t.players \in SUBSET Ids
  BY DEF TableType
<1>2. 1 \in 1..Cardinality(t.players) /\ order[1] \in t.players
  BY <1>1, OrderType
<1> QED
  BY <1>2 DEF Rebuild, TableType

LEMMA StartGameType ==
  ASSUME NEW t \in TableType, NEW order \in Orders[t.players]
  PROVE  StartGame(t, order) \in TableType
<1>1. Rebuild(t, order) \in TableType
  BY RebuildType
<1>2. t.players # {} => Rebuild(t, order).blind \in Ids
  BY RebuildFields DEF TableType
<1> QED
  BY <1>1, <1>2, DealType DEF StartGame

LEMMA NextBettingNodeOnRing ==
  ASSUME NEW t, NEW p
  PROVE  NextBettingNode(t, p) \in (Ring(t) \ {p}) \cup {None}
<1> DEFINE S == {q \in Ring(t) \ {p} : CanBet(t, q)}
           IsNearest(q) == \A r \in S : Distance(t, p, q) <= Distance(t, p, r)
<1>1. (\E q \in S : IsNearest(q)) => (CHOOSE q \in S : IsNearest(q)) \in S
  <2> HIDE DEF S, IsNearest
  <2> QED
    OBVIOUS
<1>2. NextBettingNode(t, p) \in S \cup {None}
  BY <1>1, Zenon DEF NextBettingNode
<1> QED
  BY <1>2

LEMMA EndRoundType == EndRound \in Nat \ {0}
BY GameAssumption DEF EndRound

LEMMA NextRoundType ==
  ASSUME NEW t \in TableType, NEW C \in SUBSET Ids, NEW rank \in Ranks[C],
         Contenders(t) \subseteq C
  PROVE  NextRound(t, rank) \in TableType /\ FinishRemainingRounds(t, rank) \in TableType
<1> DEFINE later(r) == [t EXCEPT !.round = r]
<1>1. \A r \in Nat : later(r) \in TableType
  BY DEF TableType
<1>2. \A r \in Nat : Contenders(later(r)) = Contenders(t)
  BY DEF Contenders, TableType
<1>4. \A r \in Nat : EndGame(later(r), rank) \in TableType
  <2> HIDE DEF later
  <2> QED
    BY <1>1, <1>2, EndGameType
<1>5. t.round \in Nat /\ t.round + 1 \in Nat /\ EndRound \in Nat
  BY EndRoundType DEF TableType
<1>6. NextRound(t, rank) \in TableType
  BY <1>1, <1>4, <1>5 DEF NextRound
<1>7. FinishRemainingRounds(t, rank) = EndGame(later(IF t.round < EndRound THEN EndRound ELSE t.round + 1), rank)
  BY DEF FinishRemainingRounds
<1> QED
  BY <1>4, <1>5, <1>6, <1>7

LEMMA AdvanceTurnType ==
  ASSUME NEW t \in TableType, NEW C \in SUBSET Ids, NEW rank \in Ranks[C],
         Contenders(t) \subseteq C
  PROVE  AdvanceTurn(t, rank) \in TableType
<1> DEFINE next  == NextBettingNode(t, t.turn)
           moved == MarkTurnStarted([t EXCEPT !.turn = next])
<1>1. next \in Pointer
  BY NextBettingNodeOnRing DEF Ring, Pointer
<1>2. [t EXCEPT !.turn = next] \in TableType
  <2> HIDE DEF next
  <2> QED
    BY <1>1 DEF TableType
<1>3. moved \in TableType
  BY <1>2, MarkTurnStartedType
<1>4. Contenders(moved) = Contenders(t)
  <2> HIDE DEF next
  <2> QED
    BY DEF Contenders, MarkTurnStarted, TableType
<1>5. [t EXCEPT !.health = "selflock"] \in TableType
  BY DEF TableType
<1> HIDE DEF moved
<1>6. NextRound(moved, rank) \in TableType /\ FinishRemainingRounds(t, rank) \in TableType
  BY <1>3, <1>4, NextRoundType
<1> QED
  BY <1>3, <1>5, <1>6 DEF AdvanceTurn, moved

\* The table between a fold and the end of the hand the fold may bring.
Folded(t, p) == MovePointers(CutFromRing(t, p), p, t.prev[p], t.next[p])

LEMMA FoldedFields ==
  ASSUME NEW t \in TableType, NEW p \in Ids
  PROVE  LET f == Folded(t, p)
         IN /\ f.players = t.players /\ f.wallet = t.wallet /\ f.pbet = t.pbet
            /\ f.nextf = t.nextf /\ f.prevf = t.prevf
            /\ f.folded = [t.folded EXCEPT ![p] = TRUE]
            /\ f.next = [q \in Ids |-> IF q = p THEN None
                                       ELSE IF q = t.prev[p] THEN t.next[p] ELSE t.next[q]]
            /\ f.prev = [q \in Ids |-> IF q = p THEN None
                                       ELSE IF q = t.next[p] THEN t.prev[p] ELSE t.prev[q]]
            /\ f.head = Replace(t.head, p, t.next[p])
            /\ f.bettor = Replace(t.bettor, p, t.prev[p])
            /\ f.blind = Replace(t.blind, p, t.prev[p])
            /\ f.turn = Replace(t.turn, p, t.prev[p])
            /\ f.clock = IF f.turn # None THEN "fresh" ELSE "off"
            /\ f.bet = t.bet /\ f.pot = t.pot /\ f.round = t.round
            /\ f.showdown = t.showdown /\ f.confirmed = t.confirmed /\ f.health = t.health
<1> DEFINE c == CutFromRing(t, p)
<1>1. /\ c.players = t.players /\ c.wallet = t.wallet /\ c.pbet = t.pbet
      /\ c.nextf = t.nextf /\ c.prevf = t.prevf
      /\ c.folded = [t.folded EXCEPT ![p] = TRUE]
      /\ c.next = [q \in Ids |-> IF q = p THEN None
                                 ELSE IF q = t.prev[p] THEN t.next[p] ELSE t.next[q]]
      /\ c.prev = [q \in Ids |-> IF q = p THEN None
                                 ELSE IF q = t.next[p] THEN t.prev[p] ELSE t.prev[q]]
      /\ c.head = t.head /\ c.bettor = t.bettor /\ c.blind = t.blind /\ c.turn = t.turn
      /\ c.bet = t.bet /\ c.pot = t.pot /\ c.round = t.round
      /\ c.showdown = t.showdown /\ c.confirmed = t.confirmed /\ c.health = t.health
  BY DEF CutFromRing, TableType
<1>2. c \in TableType
  BY CutFromRingType
<1> HIDE DEF c
<1> QED
  BY <1>1, <1>2 DEF Folded, MovePointers, MarkTurnStarted, IsRunning, TableType, c

LEMMA EndGameFields ==
  ASSUME NEW t \in TableType, NEW rank, Best(t, rank, Contenders(t)) # None
  PROVE  LET e      == EndGame(t, rank)
             winner == Best(t, rank, Contenders(t))
         IN /\ e.players = t.players /\ e.nextf = t.nextf /\ e.prevf = t.prevf
            /\ e.wallet = PayShowdownPots(t, rank)
            /\ e.pbet = [p \in Ids |-> 0] /\ e.folded = [p \in Ids |-> TRUE]
            /\ e.next = [p \in Ids |-> None] /\ e.prev = [p \in Ids |-> None]
            /\ e.head = winner /\ e.showdown = winner /\ e.confirmed = {}
            /\ e.blind = IF t.blind = None THEN None ELSE t.nextf[t.blind]
            /\ e.turn = None /\ e.bettor = None /\ e.clock = "off"
            /\ e.bet = t.bet /\ e.pot = 0 /\ e.round = t.round /\ e.health = t.health
BY DEF EndGame, ClearHand, TableType

LEMMA ContendersFold ==
  ASSUME NEW t \in TableType, NEW p \in Ids, NEW rank \in Ranks[Contenders(t)]
  PROVE  /\ Contenders(Fold(t, p, rank)) \subseteq Contenders(t)
         /\ Fold(t, p, rank).players = t.players
<1> DEFINE f == Folded(t, p)
           Good(u) == Contenders(u) \subseteq Contenders(t) /\ u.players = t.players
<1>1. f \in TableType /\ Good(f)
  <2>1. f \in TableType
    BY CutFromRingType, MovePointersType DEF Folded, TableType
  <2>2. f.players = t.players /\ f.folded = [t.folded EXCEPT ![p] = TRUE]
    BY FoldedFields
  <2> HIDE DEF f
  <2> QED
    BY <2>1, <2>2 DEF Contenders, TableType
<1>2. Good(EndGame(f, rank))
  <2> HIDE DEF f
  <2>1. CASE Best(f, rank, Contenders(f)) = None
    BY <1>1, <2>1 DEF EndGame
  <2>2. CASE Best(f, rank, Contenders(f)) # None
    BY <1>1, <2>2, EndGameFields DEF Contenders, TableType
  <2> QED
    BY <2>1, <2>2
<1>3. Good(t) /\ Good([t EXCEPT !.health = "selflock"])
  BY DEF Contenders, TableType
<1> QED
  BY <1>1, <1>2, <1>3 DEF Fold, Folded

LEMMA ContendersRemove ==
  ASSUME NEW t \in TableType, NEW p \in Ids, NEW rank \in Ranks[Contenders(t)],
         NEW order \in Orders[t.players \ {p}]
  PROVE  /\ Contenders(Remove(t, p, order, rank)) \subseteq Contenders(t)
         /\ Remove(t, p, order, rank).players \subseteq t.players
<1> DEFINE out == Fold(t, p, rank)
           head == IF out.head # p THEN out.head
                   ELSE IF out.nextf[p] = p THEN None ELSE out.nextf[p]
           left == Drop([out EXCEPT !.head = head], {p})
<1>1. out \in TableType /\ Contenders(out) \subseteq Contenders(t) /\ out.players = t.players
  BY FoldType, ContendersFold
<1> HIDE DEF out
<1>2. left \in TableType
  <2>1. head \in Pointer
    BY <1>1 DEF TableType, Pointer
  <2>2. [out EXCEPT !.head = head] \in TableType
    <3> HIDE DEF head
    <3> QED
      BY <1>1, <2>1 DEF TableType
  <2> QED
    BY <2>2, DropType
<1>3. left.players = t.players \ {p} /\ Contenders(left) \subseteq Contenders(t)
  BY <1>1 DEF Drop, Contenders, TableType
<1> HIDE DEF left
<1>4. /\ Rebuild(left, order).players = left.players
      /\ Contenders(Rebuild(left, order)) = Contenders(left)
  <2>1. CASE left.players = {}
    BY <1>2, <2>1 DEF Rebuild, Contenders, TableType
  <2>2. CASE left.players # {}
    <3>1. /\ Rebuild(left, order).players = left.players
          /\ Rebuild(left, order).folded = left.folded
      <4>1. left \in TableType /\ order \in Orders[left.players] /\ left.players # {}
        BY <1>2, <1>3, <2>2
      <4> QED
        BY <4>1, RebuildFields
    <3> QED
      BY <3>1 DEF Contenders
  <2> QED
    BY <2>1, <2>2
<1> QED
  BY <1>1, <1>3, <1>4 DEF Remove, out, left

LEMMA ExpireTurnType ==
  ASSUME NEW t \in TableType, t.turn \in Ids, NEW rank \in Ranks[Contenders(t)],
         NEW order \in Orders[t.players \ {t.turn}]
  PROVE  ExpireTurn(t, order, rank) \in TableType
<1>1. Remove(t, t.turn, order, rank) \in TableType
  BY RemoveType
<1>2. Contenders(Remove(t, t.turn, order, rank)) \subseteq Contenders(t)
  BY ContendersRemove
<1>3. AdvanceTurn(Remove(t, t.turn, order, rank), rank) \in TableType
  BY <1>1, <1>2, ContendersSubset, AdvanceTurnType
<1> QED
  BY <1>1, <1>3 DEF ExpireTurn

LEMMA RemoveUnconfirmedType ==
  ASSUME NEW t \in TableType, NEW order \in Orders[t.confirmed \cap t.players]
  PROVE  RemoveUnconfirmed(t, order) \in TableType
<1> DEFINE out == t.players \ t.confirmed
           Clear(pointer) == IF pointer \in out THEN None ELSE pointer
           cleared == [t EXCEPT !.head = Clear(@), !.bettor = Clear(@), !.blind = Clear(@),
                                !.clock = "off"]
           left == Drop(cleared, out)
<1>1. cleared \in TableType
  <2>1. Clear(t.head) \in Pointer /\ Clear(t.bettor) \in Pointer /\ Clear(t.blind) \in Pointer
    BY DEF TableType, Pointer
  <2> HIDE DEF Clear
  <2> QED
    BY <2>1 DEF TableType
<1>2. cleared.players = t.players /\ out \in SUBSET Ids
  BY DEF TableType
<1> HIDE DEF cleared
<1>3. left \in TableType /\ left.players = t.confirmed \cap t.players
  <2>1. left \in TableType
    <3> HIDE DEF out
    <3> QED
      BY <1>1, <1>2, DropType
  <2> QED
    BY <1>1, <1>2, <2>1 DEF Drop, TableType
<1> HIDE DEF left
<1>4. Rebuild(left, order) \in TableType
  BY <1>3, RebuildType
<1> QED
  BY <1>4 DEF RemoveUnconfirmed, left, cleared

-----------------------------------------------------------------------------
(***************************************************************************)
(* Rings and pointers: they stay sound whatever calls come in whatever     *)
(* order.  Sound is the inductive invariant; for each operator of TableOps *)
(* there is a lemma that it keeps a sound table sound.  From what is sound *)
(* follows, for each operator again, what it does to the ring of a hand    *)
(* that goes on and whom it may pay.                                       *)
(***************************************************************************)

\* A hand that runs has a round left to play and shows no showdown.
HandOpen(t) == IsRunning(t) => t.showdown = None /\ t.round < EndRound

Sound(t) ==
  /\ t \in TableType
  /\ t.health \in {"ok", "overflow"}
  /\ RingLinks(t) /\ TurnOnRing(t) /\ OneCycle(t)
  /\ PointersSeated(t) /\ SeatLinks(t)
  /\ HandOpen(t)

LEMMA NewTableSound == Sound(NewTable)
<1>1. Ring(NewTable) = {}
  BY DEF Ring, NewTable
<1>2. /\ NewTable.players = {} /\ NewTable.health = "ok" /\ NewTable.clock = "off"
      /\ NewTable.head = None /\ NewTable.blind = None /\ NewTable.bettor = None
      /\ NewTable.turn = None /\ NewTable.prev = [p \in Ids |-> None]
  BY DEF NewTable
<1> QED
  BY <1>1, <1>2, NewTableType
     DEF Sound, RingLinks, TurnOnRing, OneCycle, PointersSeated, SeatLinks, HandOpen, IsRunning

\* What Sound says does not depend on wallets and bets.
LEMMA SameLinksSound ==
  ASSUME NEW t, Sound(t), NEW u \in TableType,
         u.players = t.players, u.folded = t.folded,
         u.nextf = t.nextf, u.prevf = t.prevf, u.next = t.next, u.prev = t.prev,
         u.head = t.head, u.blind = t.blind, u.turn = t.turn,
         u.bettor \in t.players \cup {None},
         u.round = t.round, u.showdown = t.showdown, u.clock = t.clock,
         u.health \in {"ok", "overflow"}
  PROVE  Sound(u)
<1>1. Ring(u) = Ring(t) /\ Contenders(u) = Contenders(t)
  BY DEF Ring, Contenders
<1>2. RingLinks(u) /\ TurnOnRing(u) /\ OneCycle(u) /\ HandOpen(u)
  BY <1>1 DEF Sound, RingLinks, TurnOnRing, OneCycle, HandOpen, IsRunning
<1> QED
  BY <1>2 DEF Sound, PointersSeated, SeatLinks

LEMMA RingSeated ==
  ASSUME NEW t, Sound(t)
  PROVE  /\ Ring(t) \subseteq Contenders(t) /\ Contenders(t) \subseteq t.players
         /\ t.players \subseteq Ids /\ None \notin Ids
         /\ IsRunning(t) => t.turn \in Ring(t)
BY IdsAssumption DEF Sound, RingLinks, TurnOnRing, Contenders, TableType

\* Time passes; no pointer depends on it.
LEMMA TickSound ==
  ASSUME NEW t, Sound(t), t.clock = "fresh"
  PROVE  Sound([t EXCEPT !.clock = "expired"])
<1> DEFINE u == [t EXCEPT !.clock = "expired"]
<1>1. /\ u \in TableType /\ u.clock = "expired" /\ u.health = t.health
      /\ u.players = t.players /\ u.folded = t.folded
      /\ u.nextf = t.nextf /\ u.prevf = t.prevf /\ u.next = t.next /\ u.prev = t.prev
      /\ u.head = t.head /\ u.blind = t.blind /\ u.turn = t.turn /\ u.bettor = t.bettor
      /\ u.round = t.round /\ u.showdown = t.showdown
  BY DEF Sound, TableType
<1> HIDE DEF u
<1>2. Ring(u) = Ring(t) /\ Contenders(u) = Contenders(t) /\ (IsRunning(u) <=> IsRunning(t))
  BY <1>1 DEF Ring, Contenders, IsRunning
<1>3. RingLinks(u) /\ TurnOnRing(u) /\ OneCycle(u) /\ HandOpen(u)
  BY <1>1, <1>2 DEF Sound, RingLinks, TurnOnRing, OneCycle, HandOpen
<1>4. PointersSeated(u) /\ SeatLinks(u)
  BY <1>1 DEF Sound, PointersSeated, SeatLinks
<1> QED
  BY <1>1, <1>3, <1>4 DEF Sound, u

LEMMA RaiseSound ==
  ASSUME NEW t, Sound(t), NEW p \in Ids, NEW amount \in Nat
  PROVE  Sound(Raise(t, p, amount))
<1> DEFINE u == Raise(t, p, amount)
<1>1. t \in TableType /\ u \in TableType
  BY RaiseType DEF Sound
<1>2. p \in t.players =>
        /\ u.players = t.players /\ u.folded = t.folded
        /\ u.nextf = t.nextf /\ u.prevf = t.prevf /\ u.next = t.next /\ u.prev = t.prev
        /\ u.head = t.head /\ u.blind = t.blind /\ u.turn = t.turn
        /\ u.bettor \in {t.bettor, p}
        /\ u.round = t.round /\ u.showdown = t.showdown /\ u.clock = t.clock
        /\ u.health = t.health
  BY <1>1 DEF Raise, TableType
<1>3. CASE p \notin t.players
  BY <1>3 DEF Raise
<1>4. CASE p \in t.players
  <2>1. t.bettor \in t.players \cup {None} /\ t.health \in {"ok", "overflow"}
    BY DEF Sound, PointersSeated
  <2> HIDE DEF u
  <2>2. Sound(u)
    BY <1>1, <1>2, <1>4, <2>1, SameLinksSound
  <2> QED
    BY <2>2 DEF u
<1> QED
  BY <1>3, <1>4

LEMMA AllInSound ==
  ASSUME NEW t, Sound(t), NEW p \in Ids
  PROVE  Sound(AllIn(t, p))
<1> DEFINE u == AllIn(t, p)
<1>1. t \in TableType /\ u \in TableType
  BY AllInType DEF Sound
<1>2. p \in t.players =>
        /\ u.players = t.players /\ u.folded = t.folded
        /\ u.nextf = t.nextf /\ u.prevf = t.prevf /\ u.next = t.next /\ u.prev = t.prev
        /\ u.head = t.head /\ u.blind = t.blind /\ u.turn = t.turn
        /\ u.bettor \in {t.bettor, p}
        /\ u.round = t.round /\ u.showdown = t.showdown /\ u.clock = t.clock
        /\ u.health = t.health
  BY <1>1 DEF AllIn, TableType
<1>3. CASE p \notin t.players
  BY <1>3 DEF AllIn
<1>4. CASE p \in t.players
  <2>1. t.bettor \in t.players \cup {None} /\ t.health \in {"ok", "overflow"}
    BY DEF Sound, PointersSeated
  <2> HIDE DEF u
  <2>2. Sound(u)
    BY <1>1, <1>2, <1>4, <2>1, SameLinksSound
  <2> QED
    BY <2>2 DEF u
<1> QED
  BY <1>3, <1>4

LEMMA CheckSound ==
  ASSUME NEW t, Sound(t), NEW p \in Ids
  PROVE  Sound(Check(t, p))
<1> DEFINE u == Check(t, p)
<1>1. t \in TableType /\ u \in TableType
  BY CheckType DEF Sound
<1>2. /\ u.players = t.players /\ u.folded = t.folded
      /\ u.nextf = t.nextf /\ u.prevf = t.prevf /\ u.next = t.next /\ u.prev = t.prev
      /\ u.head = t.head /\ u.blind = t.blind /\ u.turn = t.turn
      /\ u.bettor = t.bettor
      /\ u.round = t.round /\ u.showdown = t.showdown /\ u.clock = t.clock
      /\ u.health \in {t.health, "overflow"}
  BY <1>1 DEF Check, TableType
<1>3. t.bettor \in t.players \cup {None} /\ t.health \in {"ok", "overflow"}
  BY DEF Sound, PointersSeated
<1> HIDE DEF u
<1>4. Sound(u)
  BY <1>1, <1>2, <1>3, SameLinksSound
<1> QED
  BY <1>4 DEF u

LEMMA KeepPlayingSound ==
  ASSUME NEW t, Sound(t), NEW p \in Ids
  PROVE  Sound(KeepPlaying(t, p))
<1> DEFINE u == KeepPlaying(t, p)
<1>1. t \in TableType /\ u \in TableType
  BY KeepPlayingType DEF Sound
<1>2. /\ u.players = t.players /\ u.folded = t.folded
      /\ u.nextf = t.nextf /\ u.prevf = t.prevf /\ u.next = t.next /\ u.prev = t.prev
      /\ u.head = t.head /\ u.blind = t.blind /\ u.turn = t.turn
      /\ u.bettor = t.bettor
      /\ u.round = t.round /\ u.showdown = t.showdown /\ u.clock = t.clock
      /\ u.health = t.health
  BY <1>1 DEF KeepPlaying, TableType
<1>3. t.bettor \in t.players \cup {None} /\ t.health \in {"ok", "overflow"}
  BY DEF Sound, PointersSeated
<1> HIDE DEF u
<1>4. Sound(u)
  BY <1>1, <1>2, <1>3, SameLinksSound
<1> QED
  BY <1>4 DEF u

-----------------------------------------------------------------------------
(* Ending a hand and leaving it.                                            *)

\* end_game finds a winner among any contenders, and clears the ring.
LEMMA EndGameSound ==
  ASSUME NEW t \in TableType, t.health \in {"ok", "overflow"},
         PointersSeated(t), SeatLinks(t),
         NEW C \in SUBSET Ids, NEW rank \in Ranks[C],
         Contenders(t) \subseteq C, Contenders(t) # {}
  PROVE  /\ Sound(EndGame(t, rank))
         /\ ~IsRunning(EndGame(t, rank)) /\ EndGame(t, rank).bettor = None
         /\ EndGame(t, rank).players = t.players
         /\ EndGame(t, rank).health = t.health
<1> DEFINE e == EndGame(t, rank)
           winner == Best(t, rank, Contenders(t))
<1>1. winner \in t.players /\ winner # None
  <2>1. winner \in Contenders(t)
    BY BestChosen
  <2> QED
    BY <2>1, ContendersSubset, IdsAssumption
<1>2. e \in TableType
  BY EndGameType
<1>3. /\ e.players = t.players /\ e.nextf = t.nextf /\ e.prevf = t.prevf
      /\ e.next = [p \in Ids |-> None] /\ e.prev = [p \in Ids |-> None]
      /\ e.head = winner /\ e.turn = None /\ e.bettor = None /\ e.clock = "off"
      /\ e.blind = IF t.blind = None THEN None ELSE t.nextf[t.blind]
      /\ e.health = t.health
  BY <1>1, EndGameFields
<1>4. e.blind \in t.players \cup {None}
  BY <1>3 DEF PointersSeated, SeatLinks
<1> HIDE DEF e, winner
<1>5. Ring(e) = {}
  BY <1>3 DEF Ring
<1>6. RingLinks(e) /\ TurnOnRing(e) /\ OneCycle(e) /\ HandOpen(e) /\ ~IsRunning(e)
  BY <1>3, <1>5 DEF RingLinks, TurnOnRing, OneCycle, HandOpen, IsRunning
<1>7. PointersSeated(e) /\ SeatLinks(e)
  BY <1>1, <1>3, <1>4 DEF PointersSeated, SeatLinks
<1>8. Sound(e)
  BY <1>2, <1>3, <1>6, <1>7 DEF Sound
<1> QED
  BY <1>3, <1>6, <1>8 DEF e

\* The links of the hand's ring when p is off it.
NextWithout(t, p) ==
  [q \in Ids |-> IF q = p THEN None ELSE IF q = t.prev[p] THEN t.next[p] ELSE t.next[q]]

\* A fold keeps a sound table sound, and what it leaves has no pointer to the
\* player who folded but, for the next hand, perhaps the head and the blind.
LEMMA FoldSound ==
  ASSUME NEW t, Sound(t), NEW p \in t.players, NEW rank \in Ranks[Contenders(t)]
  PROVE  LET f == Fold(t, p, rank)
         IN /\ Sound(f) /\ f.players = t.players /\ f.health = t.health
            /\ p \notin Ring(f) /\ f.turn # p /\ f.bettor # p
<1> DEFINE f      == Folded(t, p)
           before == t.prev[p]
           after  == t.next[p]
<1>0. t \in TableType /\ p \in Ids /\ None \notin Ids /\ p # None
      /\ before \in Pointer /\ after \in Pointer
  BY IdsAssumption DEF Sound, TableType
<1>1. f \in TableType
  BY <1>0, CutFromRingType, MovePointersType DEF Folded
<1>2. /\ f.players = t.players /\ f.nextf = t.nextf /\ f.prevf = t.prevf
      /\ f.folded = [t.folded EXCEPT ![p] = TRUE]
      /\ f.next = [q \in Ids |-> IF q = p THEN None
                                 ELSE IF q = before THEN after ELSE t.next[q]]
      /\ f.prev = [q \in Ids |-> IF q = p THEN None
                                 ELSE IF q = after THEN before ELSE t.prev[q]]
      /\ f.head = Replace(t.head, p, after)
      /\ f.bettor = Replace(t.bettor, p, before)
      /\ f.blind = Replace(t.blind, p, before)
      /\ f.turn = Replace(t.turn, p, before)
      /\ f.clock = IF f.turn # None THEN "fresh" ELSE "off"
      /\ f.round = t.round /\ f.showdown = t.showdown /\ f.health = t.health
  <2>1. t \in TableType /\ p \in Ids
    BY <1>0
  <2>2. /\ f.players = t.players /\ f.nextf = t.nextf /\ f.prevf = t.prevf
        /\ f.folded = [t.folded EXCEPT ![p] = TRUE]
    BY <2>1, FoldedFields
  <2>3. /\ f.next = [q \in Ids |-> IF q = p THEN None
                                   ELSE IF q = before THEN after ELSE t.next[q]]
        /\ f.prev = [q \in Ids |-> IF q = p THEN None
                                   ELSE IF q = after THEN before ELSE t.prev[q]]
    BY <2>1, FoldedFields
  <2>4. /\ f.head = Replace(t.head, p, after)
        /\ f.bettor = Replace(t.bettor, p, before)
        /\ f.blind = Replace(t.blind, p, before)
        /\ f.turn = Replace(t.turn, p, before)
    BY <2>1, FoldedFields
  <2>5. /\ f.clock = IF f.turn # None THEN "fresh" ELSE "off"
        /\ f.round = t.round /\ f.showdown = t.showdown /\ f.health = t.health
    BY <2>1, FoldedFields
  <2> QED
    BY <2>2, <2>3, <2>4, <2>5
<1>3. \/ p \in Ring(t) /\ before \in Ring(t) \ {p} /\ after \in Ring(t) \ {p}
      \/ p \notin Ring(t) /\ before = None /\ after = None
  BY <1>0 DEF Sound, RingLinks, TurnOnRing, Ring
<1>4. p \notin {before, after}
  BY <1>0, <1>3
<1>5. before \in t.players \cup {None} /\ after \in t.players \cup {None}
  BY <1>3, RingSeated
<1> HIDE DEF f
<1>6. PointersSeated(f) /\ SeatLinks(f)
  BY <1>2, <1>5 DEF PointersSeated, SeatLinks, Sound, Replace
<1>7. Contenders(f) = Contenders(t) \ {p}
  BY <1>0, <1>2 DEF Contenders, TableType
<1>8. f.turn # p /\ f.bettor # p
  BY <1>2, <1>4 DEF Replace
<1>9. CASE before # None /\ before = after
  <2>1. before \in Contenders(f)
    BY <1>3, <1>7, <1>9, RingSeated
  <2>2. /\ Sound(EndGame(f, rank)) /\ ~IsRunning(EndGame(f, rank))
        /\ EndGame(f, rank).bettor = None
        /\ EndGame(f, rank).players = f.players
        /\ EndGame(f, rank).health = f.health
    <3>1. f.health \in {"ok", "overflow"}
      BY <1>2 DEF Sound
    <3>2. Contenders(t) \in SUBSET Ids /\ Contenders(f) \subseteq Contenders(t)
      BY <1>0, <1>7, ContendersSubset
    <3> QED
      BY <1>1, <1>6, <2>1, <3>1, <3>2, EndGameSound
  <2>3. Ring(EndGame(f, rank)) = {} /\ EndGame(f, rank).turn = None
    BY <2>2 DEF Sound, TurnOnRing, IsRunning
  <2>4. Fold(t, p, rank) = EndGame(f, rank)
    BY <1>4, <1>9 DEF Fold, Folded, f
  <2> QED
    BY <1>0, <1>2, <2>2, <2>3, <2>4
<1>10. CASE before = None \/ before # after
  <2>1. Ring(f) = Ring(t) \ {p}
    BY <1>0, <1>2, <1>3 DEF Ring
  <2>2. RingLinks(f)
    <3> SUFFICES ASSUME NEW q \in Ring(f)
                 PROVE  /\ q \in Contenders(f)
                        /\ f.next[q] \in Ring(f) \ {q} /\ f.prev[f.next[q]] = q
                        /\ f.prev[q] \in Ring(f) \ {q} /\ f.next[f.prev[q]] = q
      BY DEF RingLinks
    <3>1. q \in Ring(t) /\ q # p /\ q \in Ids /\ q \in Contenders(f)
      BY <2>1, <1>7, RingSeated DEF Ring
    <3>2. /\ t.next[q] \in Ring(t) \ {q} /\ t.prev[t.next[q]] = q
          /\ t.prev[q] \in Ring(t) \ {q} /\ t.next[t.prev[q]] = q
      BY <3>1 DEF Sound, RingLinks
    <3>3. p \in Ring(t) => t.next[before] = p /\ t.prev[after] = p
      BY DEF Sound, RingLinks
    <3>4. f.next[q] \in Ring(f) \ {q} /\ f.prev[f.next[q]] = q
      <4>1. CASE q = before
        <5>1. before # None /\ p \in Ring(t) /\ after \in Ring(t) \ {p} /\ after \in Ids
          BY <1>0, <1>3, <3>1, <4>1 DEF Ring
        <5>2. f.next[q] = after /\ f.prev[after] = before
          BY <1>2, <3>1, <4>1, <5>1
        <5> QED
          BY <1>10, <2>1, <4>1, <5>1, <5>2
      <4>2. CASE q # before
        <5>1. f.next[q] = t.next[q] /\ t.next[q] \in Ids
          BY <1>2, <3>1, <3>2, <4>2 DEF Ring
        <5>2. t.next[q] # p /\ t.next[q] # after
          BY <1>0, <1>3, <3>1, <3>2, <3>3, <4>2 DEF Ring
        <5>3. f.prev[t.next[q]] = q
          BY <1>2, <3>2, <5>1, <5>2
        <5> QED
          BY <2>1, <3>2, <5>1, <5>2, <5>3
      <4> QED
        BY <4>1, <4>2
    <3>5. f.prev[q] \in Ring(f) \ {q} /\ f.next[f.prev[q]] = q
      <4>1. CASE q = after
        <5>1. after # None /\ p \in Ring(t) /\ before \in Ring(t) \ {p} /\ before \in Ids
          BY <1>0, <1>3, <3>1, <4>1 DEF Ring
        <5>2. f.prev[q] = before /\ f.next[before] = after
          BY <1>2, <3>1, <4>1, <5>1
        <5> QED
          BY <1>10, <2>1, <4>1, <5>1, <5>2
      <4>2. CASE q # after
        <5>1. f.prev[q] = t.prev[q] /\ t.prev[q] \in Ids
          BY <1>2, <3>1, <3>2, <4>2 DEF Ring
        <5>2. t.prev[q] # p /\ t.prev[q] # before
          BY <1>0, <1>3, <3>1, <3>2, <3>3, <4>2 DEF Ring
        <5>3. f.next[t.prev[q]] = q
          BY <1>2, <3>2, <5>1, <5>2
        <5> QED
          BY <2>1, <3>2, <5>1, <5>2, <5>3
      <4> QED
        BY <4>1, <4>2
    <3> QED
      BY <3>1, <3>4, <3>5
  <2>3. IsRunning(f) <=> IsRunning(t)
    <3>1. t.turn = p => before # None
      BY <1>0, <1>3 DEF Sound, TurnOnRing, IsRunning, Ring
    <3> QED
      BY <1>0, <1>2, <3>1 DEF IsRunning, Replace
  <2>4. TurnOnRing(f)
    <3>1. \A q \in Ids \ Ring(f) : f.prev[q] = None
      BY <1>0, <1>2, <1>3, <2>1 DEF Sound, TurnOnRing
    <3>2. IsRunning(f) => f.turn \in Ring(f)
      BY <1>0, <1>2, <1>3, <1>4, <2>1, <2>3 DEF Sound, TurnOnRing, Replace
    <3>3. ~IsRunning(f) => Ring(f) = {}
      BY <2>1, <2>3 DEF Sound, TurnOnRing
    <3> QED
      BY <1>2, <3>1, <3>2, <3>3 DEF TurnOnRing, IsRunning
  <2>5. HandOpen(f)
    BY <1>2, <2>3 DEF Sound, HandOpen
  <2>6. OneCycle(f)
    <3>1. CASE p \notin Ring(t)
      <4>1. before = None /\ \A q \in Ring(t) : f.next[q] = t.next[q]
        BY <1>0, <1>2, <1>3, <3>1 DEF Ring
      <4> QED
        BY <2>1, <3>1, <4>1 DEF Sound, OneCycle
    <3>2. CASE p \in Ring(t)
      <4> SUFFICES ASSUME NEW S \in (SUBSET Ring(f)) \ {{}}, \A q \in S : f.next[q] \in S
                   PROVE  S = Ring(f)
        BY DEF OneCycle
      <4>1. S \in SUBSET Ring(t) /\ p \notin S /\ S # {} /\ t.next[before] = p
        BY <2>1, <3>2 DEF Sound, RingLinks
      <4>2. \A q \in S : f.next[q] = IF q = before THEN after ELSE t.next[q]
        BY <1>2, <4>1 DEF Ring
      <4>3. CASE before \in S
        <5>1. after \in S
          BY <4>2, <4>3
        <5>2. \A q \in S \cup {p} : t.next[q] \in S \cup {p}
          BY <4>1, <4>2, <5>1
        <5>3. S \cup {p} \in (SUBSET Ring(t)) \ {{}}
          BY <3>2, <4>1
        <5>4. S \cup {p} = Ring(t)
          BY <5>2, <5>3, Zenon DEF Sound, OneCycle
        <5> QED
          BY <2>1, <4>1, <5>4
      <4>4. CASE before \notin S
        <5>1. \A q \in S : t.next[q] \in S
          BY <4>2, <4>4
        <5>2. S = Ring(t)
          BY <4>1, <5>1 DEF Sound, OneCycle
        <5> QED
          BY <3>2, <4>1, <5>2
      <4> QED
        BY <4>3, <4>4
    <3> QED
      BY <3>1, <3>2
  <2>7. Sound(f)
    BY <1>1, <1>2, <1>6, <2>2, <2>4, <2>5, <2>6 DEF Sound
  <2>8. Fold(t, p, rank) = f
    BY <1>4, <1>10 DEF Fold, Folded, f
  <2> QED
    BY <1>2, <1>8, <2>1, <2>7, <2>8
<1> QED
  BY <1>9, <1>10

\* The table between a fold and the end of the hand the fold may bring.
LEMMA FoldedRing ==
  ASSUME NEW t, Sound(t), NEW p \in t.players
  PROVE  LET f == Folded(t, p)
             before == t.prev[p]
         IN /\ p \in Ids /\ p \notin {before, t.next[p]}
            /\ f \in TableType /\ f.next = NextWithout(t, p)
            /\ Ring(f) = Ring(t) \ {p}
            /\ Contenders(f) = Contenders(t) \ {p}
            /\ IsRunning(f) <=> IsRunning(t)
            /\ p \in Ring(t) <=> before # None
            /\ before # None => before \in Ring(f)
<1> DEFINE f == Folded(t, p)
           before == t.prev[p]
<1>1. t \in TableType /\ p \in Ids /\ None \notin Ids /\ p \notin {before, t.next[p]}
      /\ before \in Pointer /\ t.next[p] \in Pointer
  BY IdsAssumption DEF Sound, RingLinks, TurnOnRing, Ring, TableType
<1>2. f \in TableType
  BY <1>1, CutFromRingType, MovePointersType DEF Folded
<1>3. /\ f.players = t.players /\ f.folded = [t.folded EXCEPT ![p] = TRUE]
      /\ f.next = NextWithout(t, p) /\ f.turn = Replace(t.turn, p, before)
  BY <1>1, FoldedFields DEF NextWithout
<1>4. Contenders(f) = Contenders(t) \ {p}
  BY <1>1, <1>3 DEF Contenders, TableType
<1>5. \/ p \in Ring(t) /\ before \in Ring(t) \ {p} /\ t.next[p] \in Ring(t)
      \/ p \notin Ring(t) /\ before = None /\ t.next[p] = None
  BY <1>1 DEF Sound, RingLinks, TurnOnRing, Ring
<1> HIDE DEF f
<1>6. Ring(f) = Ring(t) \ {p}
  BY <1>1, <1>3, <1>5 DEF Ring, NextWithout
<1>7. IsRunning(f) <=> IsRunning(t)
  <2>1. t.turn = p => before # None
    BY <1>1, <1>5 DEF Sound, TurnOnRing, IsRunning, Ring
  <2> QED
    BY <1>1, <1>3, <2>1 DEF IsRunning, Replace
<1>8. (p \in Ring(t) <=> before # None) /\ (before # None => before \in Ring(f))
  BY <1>1, <1>5, <1>6 DEF Ring
<1> QED
  BY <1>1, <1>2, <1>3, <1>4, <1>6, <1>7, <1>8 DEF f

-----------------------------------------------------------------------------
(* The full ring.                                                           *)

\* Whatever the order in which the HashMap yields the players, rebuild_full_ring
\* links each of them both ways, to somebody else if there is somebody, and all
\* of them in one cycle.
LEMMA RebuildLinks ==
  ASSUME NEW t \in TableType, NEW order \in Orders[t.players], t.players # {}
  PROVE  LET r == Rebuild(t, order)
         IN /\ SeatLinks(r)
            /\ \A p \in Ids \ t.players : r.nextf[p] = None /\ r.prevf[p] = None
            /\ Cardinality(t.players) >= 2 =>
                 \A p \in t.players : r.nextf[p] # p /\ r.prevf[p] # p
            /\ \A S \in (SUBSET t.players) \ {{}} :
                 (\A p \in S : r.nextf[p] \in S) => S = t.players
<1> DEFINE n  == Cardinality(t.players)
           at == [p \in t.players |-> CHOOSE i \in 1..n : order[i] = p]
           up(i)   == IF i = n THEN 1 ELSE i + 1
           down(i) == IF i = 1 THEN n ELSE i - 1
           r  == Rebuild(t, order)
<1>1. t.players \in SUBSET Ids
  BY DEF TableType
<1>2. /\ n \in Nat \ {0} /\ order \in [1..n -> t.players]
      /\ \A i, j \in 1..n : order[i] = order[j] => i = j
      /\ \A p \in t.players : \E i \in 1..n : order[i] = p
  BY <1>1, OrderType
<1>3. \A p \in t.players : at[p] \in 1..n /\ order[at[p]] = p
  BY <1>2
<1>4. /\ r.players = t.players
      /\ r.nextf = [p \in Ids |-> IF p \in t.players THEN order[up(at[p])] ELSE None]
      /\ r.prevf = [p \in Ids |-> IF p \in t.players THEN order[down(at[p])] ELSE None]
  BY DEF Rebuild, TableType
<1> HIDE DEF n, at, r
<1>5. \A i \in 1..n : /\ up(i) \in 1..n /\ down(i) \in 1..n
                      /\ down(up(i)) = i /\ up(down(i)) = i
                      /\ n >= 2 => up(i) # i /\ down(i) # i
                      /\ i # n => up(i) = i + 1
                      /\ up(n) = 1
  BY <1>2
<1> HIDE DEF up, down
<1>6. \A i \in 1..n : at[order[i]] = i
  BY <1>2, <1>3
<1>7. ASSUME NEW p \in t.players
      PROVE  /\ r.nextf[p] = order[up(at[p])] /\ r.prevf[p] = order[down(at[p])]
             /\ r.nextf[p] \in t.players /\ r.prevf[p] \in t.players
             /\ at[r.nextf[p]] = up(at[p]) /\ at[r.prevf[p]] = down(at[p])
  <2>1. p \in Ids /\ at[p] \in 1..n /\ up(at[p]) \in 1..n /\ down(at[p]) \in 1..n
    BY <1>1, <1>3, <1>5
  <2>2. r.nextf[p] = order[up(at[p])] /\ r.prevf[p] = order[down(at[p])]
    BY <1>4, <2>1
  <2> QED
    BY <1>2, <1>6, <2>1, <2>2
<1>8. ASSUME NEW p \in t.players
      PROVE  r.prevf[r.nextf[p]] = p /\ r.nextf[r.prevf[p]] = p
  <2>1. r.prevf[r.nextf[p]] = order[down(up(at[p]))]
    BY <1>7
  <2>2. r.nextf[r.prevf[p]] = order[up(down(at[p]))]
    BY <1>7
  <2> QED
    BY <1>3, <1>5, <2>1, <2>2
<1>9. SeatLinks(r)
  BY <1>4, <1>7, <1>8 DEF SeatLinks
<1>10. \A p \in Ids \ t.players : r.nextf[p] = None /\ r.prevf[p] = None
  BY <1>4
<1>11. ASSUME n >= 2, NEW p \in t.players
       PROVE  r.nextf[p] # p /\ r.prevf[p] # p
  <2>1. at[p] \in 1..n /\ up(at[p]) # at[p] /\ down(at[p]) # at[p]
    BY <1>3, <1>5, <1>11
  <2>2. at[r.nextf[p]] # at[p] /\ at[r.prevf[p]] # at[p]
    BY <1>7, <2>1
  <2> QED
    BY <2>2
<1>12. ASSUME NEW S \in (SUBSET t.players) \ {{}}, \A p \in S : r.nextf[p] \in S
       PROVE  S = t.players
  <2> DEFINE T == {i \in 1..n : order[i] \in S}
  <2>1. \A i \in T : up(i) \in T
    <3> SUFFICES ASSUME NEW i \in 1..n, order[i] \in S
                 PROVE  up(i) \in 1..n /\ order[up(i)] \in S
      OBVIOUS
    <3>1. r.nextf[order[i]] = order[up(i)]
      BY <1>6, <1>7
    <3> QED
      BY <1>5, <1>12, <3>1
  <2>2. T # {} /\ T \in SUBSET (1..n)
    BY <1>2
  <2> HIDE DEF T
  <2>3. n \in T
    <3> DEFINE f == [i \in T |-> i]
    <3>1. n \in Int /\ f \in [T -> Int] /\ \A i \in T : f[i] <= n
      BY <1>2, <2>2
    <3>2. PICK m \in T : \A i \in T : f[i] <= f[m]
      <4> HIDE DEF f
      <4> QED
        BY <2>2, <3>1, Greatest, Zenon
    <3>3. \A i \in T : i <= m
      BY <3>2
    <3>4. CASE m # n
      <4>1. m \in 1..n /\ up(m) = m + 1 /\ m + 1 \in T
        BY <1>5, <2>1, <2>2, <3>4
      <4> QED
        BY <3>3, <4>1
    <3> QED
      BY <3>4
  <2>4. 1..n \subseteq T
    <3> SUFFICES ASSUME (1..n) \ T # {}
                 PROVE  FALSE
      OBVIOUS
    <3>1. (1..n) \ T \subseteq Nat
      BY <1>2
    <3>2. PICK k \in (1..n) \ T : \A i \in (1..n) \ T : k <= i
      BY <3>1, Least, Zenon
    <3>3. 1 \in T
      BY <1>2, <1>5, <2>1, <2>3
    <3>4. k \in 1..n /\ k # 1 /\ n \in Nat
      BY <1>2, <3>3
    <3>5. k - 1 \in 1..n /\ k - 1 # n /\ ~ (k <= k - 1)
      BY <3>4
    <3>6. k - 1 \in T /\ up(k - 1) = k - 1 + 1
      BY <1>5, <3>2, <3>5
    <3> QED
      BY <2>1, <3>4, <3>6
  <2>5. \A i \in 1..n : order[i] \in S
    BY <2>4 DEF T
  <2>6. \A p \in t.players : p \in S
    BY <1>2, <2>5
  <2> QED
    BY <2>6
<1> QED
  BY <1>9, <1>10, <1>11, <1>12 DEF r, n

\* The rebuild makes a table sound whose only flaws are the full ring, and a
\* head or a blind that is gone.
LEMMA RebuildSound ==
  ASSUME NEW t \in TableType, NEW order \in Orders[t.players],
         t.health \in {"ok", "overflow"},
         RingLinks(t), TurnOnRing(t), OneCycle(t), HandOpen(t),
         {t.bettor, t.turn} \subseteq t.players \cup {None}
  PROVE  /\ Sound(Rebuild(t, order))
         /\ Rebuild(t, order).players = t.players
         /\ Rebuild(t, order).health = t.health
         /\ Rebuild(t, order).turn = t.turn
<1> DEFINE r == Rebuild(t, order)
<1>1. r \in TableType
  BY RebuildType
<1>2. CASE t.players = {}
  <2>1. /\ r.players = {} /\ r.next = t.next /\ r.prev = t.prev /\ r.health = t.health
        /\ r.head = None /\ r.bettor = None /\ r.blind = None /\ r.turn = None
        /\ r.clock = "off"
    BY <1>2 DEF Rebuild, TableType
  <2> HIDE DEF r
  <2>2. Ring(t) = {} /\ t.turn = None
    BY <1>2 DEF RingLinks, Contenders, TurnOnRing, IsRunning
  <2>3. Ring(r) = {}
    BY <2>1, <2>2 DEF Ring
  <2>4. RingLinks(r) /\ TurnOnRing(r) /\ OneCycle(r) /\ HandOpen(r)
    BY <2>1, <2>2, <2>3 DEF RingLinks, TurnOnRing, OneCycle, HandOpen, IsRunning
  <2>5. PointersSeated(r) /\ SeatLinks(r)
    BY <2>1 DEF PointersSeated, SeatLinks
  <2> QED
    BY <1>1, <1>2, <2>1, <2>2, <2>4, <2>5 DEF Sound, r
<1>3. CASE t.players # {}
  <2>1. /\ r.head \in t.players /\ r.blind \in t.players /\ r.players = t.players
        /\ r.folded = t.folded /\ r.next = t.next /\ r.prev = t.prev
        /\ r.bettor = t.bettor /\ r.turn = t.turn
        /\ r.round = t.round /\ r.showdown = t.showdown
        /\ r.clock = t.clock /\ r.health = t.health
    BY <1>3, RebuildFields
  <2>2. SeatLinks(r)
    BY <1>3, RebuildLinks
  <2> HIDE DEF r
  <2>3. PointersSeated(r)
    BY <2>1 DEF PointersSeated
  <2>4. RingLinks(r) /\ TurnOnRing(r) /\ OneCycle(r) /\ HandOpen(r)
    BY <2>1 DEF RingLinks, TurnOnRing, OneCycle, HandOpen, IsRunning, Ring, Contenders
  <2>5. Sound(r)
    BY <1>1, <2>1, <2>2, <2>3, <2>4 DEF Sound
  <2> QED
    BY <2>1, <2>5 DEF r
<1> QED
  BY <1>2, <1>3

\* remove_player gives the head to another node before it takes a player off.
LEMMA HeadFields ==
  ASSUME NEW t \in TableType, NEW head \in Pointer
  PROVE  LET m == [t EXCEPT !.head = head]
         IN /\ m \in TableType
            /\ m.players = t.players /\ m.folded = t.folded /\ m.next = t.next
            /\ m.prev = t.prev /\ m.bettor = t.bettor /\ m.turn = t.turn
            /\ m.clock = t.clock /\ m.round = t.round /\ m.showdown = t.showdown
            /\ m.health = t.health
<1> DEFINE m == [t EXCEPT !.head = head]
<1>1. m \in TableType
  BY DEF TableType
<1>2. m.players = t.players /\ m.folded = t.folded /\ m.next = t.next /\ m.prev = t.prev
  BY DEF TableType
<1>3. m.bettor = t.bettor /\ m.turn = t.turn /\ m.clock = t.clock
  BY DEF TableType
<1>4. m.round = t.round /\ m.showdown = t.showdown /\ m.health = t.health
  BY DEF TableType
<1> QED
  BY <1>1, <1>2, <1>3, <1>4

LEMMA DropFields ==
  ASSUME NEW t \in TableType, NEW S \in SUBSET Ids
  PROVE  LET d == Drop(t, S)
         IN /\ d.players = t.players \ S /\ d.next = t.next /\ d.prev = t.prev
            /\ d.folded = [p \in Ids |-> p \in S \/ t.folded[p]]
            /\ d.bettor = t.bettor /\ d.turn = t.turn /\ d.clock = t.clock
            /\ d.round = t.round /\ d.showdown = t.showdown /\ d.health = t.health
BY DEF Drop, TableType

\* remove_player: after the fold, the player is on no ring the rebuild keeps.
LEMMA RemoveSound ==
  ASSUME NEW t, Sound(t), t.health = "ok", NEW p \in t.players,
         NEW rank \in Ranks[Contenders(t)], NEW order \in Orders[t.players \ {p}]
  PROVE  Sound(Remove(t, p, order, rank))
<1> DEFINE out  == Fold(t, p, rank)
           head == IF out.head # p THEN out.head
                   ELSE IF out.nextf[p] = p THEN None ELSE out.nextf[p]
           moved == [out EXCEPT !.head = head]
           left == Drop(moved, {p})
<1>1. /\ Sound(out) /\ out.players = t.players /\ out.health = "ok"
      /\ p \notin Ring(out) /\ out.turn # p /\ out.bettor # p
  BY FoldSound
<1>2. p \in Ids
  BY DEF Sound, TableType
<1> HIDE DEF out
<1>3. /\ moved \in TableType /\ moved.players = out.players
      /\ moved.folded = out.folded /\ moved.next = out.next /\ moved.prev = out.prev
      /\ moved.bettor = out.bettor /\ moved.turn = out.turn /\ moved.clock = out.clock
      /\ moved.round = out.round /\ moved.showdown = out.showdown
      /\ moved.health = out.health
  <2>1. out \in TableType
    BY <1>1 DEF Sound
  <2>2. head \in Pointer
    BY <1>2, <2>1 DEF TableType, Pointer
  <2> HIDE DEF head
  <2> QED
    BY <2>1, <2>2, HeadFields
<1> HIDE DEF moved
<1>4. left \in TableType
  BY <1>2, <1>3, DropType
<1>5. /\ left.players = t.players \ {p} /\ left.next = out.next /\ left.prev = out.prev
      /\ left.folded = [q \in Ids |-> q \in {p} \/ out.folded[q]]
      /\ left.bettor = out.bettor /\ left.turn = out.turn /\ left.clock = out.clock
      /\ left.round = out.round /\ left.showdown = out.showdown /\ left.health = "ok"
  BY <1>1, <1>2, <1>3, DropFields
<1> HIDE DEF left
<1>6. Ring(left) = Ring(out) /\ Contenders(left) = Contenders(out) \ {p}
  BY <1>1, <1>5 DEF Ring, Contenders, Sound, TableType
<1>7. RingLinks(left) /\ TurnOnRing(left) /\ OneCycle(left) /\ HandOpen(left)
  BY <1>1, <1>5, <1>6 DEF Sound, RingLinks, TurnOnRing, OneCycle, HandOpen, IsRunning
<1>8. {left.bettor, left.turn} \subseteq left.players \cup {None}
  BY <1>1, <1>5 DEF Sound, PointersSeated
<1>9. Sound(Rebuild(left, order))
  BY <1>4, <1>5, <1>7, <1>8, RebuildSound
<1> QED
  BY <1>1, <1>9 DEF Remove, out, moved, left

\* add_player: the newcomer goes into the full ring and not into the hand's,
\* and the head it unwraps the predecessor of has one.
LEMMA AddPlayerSound ==
  ASSUME NEW t, Sound(t), NEW p \in Ids, NEW chips \in Nat
  PROVE  Sound(AddPlayer(t, p, chips))
<1> DEFINE a == AddPlayer(t, p, chips)
           tail == t.prevf[t.head]
<1>1. t \in TableType /\ a \in TableType
  BY AddPlayerType DEF Sound
<1>2. CASE p \in t.players \/ Cardinality(t.players) >= MaxPlayers
  BY <1>2 DEF AddPlayer
<1>3. CASE p \notin t.players /\ ~ (Cardinality(t.players) >= MaxPlayers)
  <2>1. t.head # None => t.head \in t.players /\ tail \in t.players /\ tail # None
                         /\ t.nextf[tail] = t.head
    BY <1>1, IdsAssumption DEF Sound, PointersSeated, SeatLinks, TableType
  <2>2. /\ a.players = t.players \cup {p} /\ a.folded = [t.folded EXCEPT ![p] = FALSE]
        /\ a.next = t.next /\ a.prev = t.prev /\ a.bettor = t.bettor /\ a.turn = t.turn
        /\ a.round = t.round /\ a.showdown = t.showdown /\ a.clock = t.clock
        /\ a.health = t.health
    BY <1>1, <1>3, <2>1 DEF AddPlayer, LinkNode, TableType
  <2>3. /\ t.head = None => /\ a.head = p /\ a.blind = p
                            /\ a.nextf = [t.nextf EXCEPT ![p] = p]
                            /\ a.prevf = [t.prevf EXCEPT ![p] = p]
        /\ t.head # None => /\ a.head = t.head /\ a.blind = t.blind
                            /\ a.nextf = [t.nextf EXCEPT ![tail] = p, ![p] = t.head]
                            /\ a.prevf = [t.prevf EXCEPT ![t.head] = p, ![p] = tail]
    BY <1>1, <1>3, <2>1 DEF AddPlayer, LinkNode, TableType
  <2> HIDE DEF a
  <2>4. Ring(a) = Ring(t) /\ Contenders(t) \subseteq Contenders(a)
    BY <1>1, <1>3, <2>2 DEF Ring, Contenders, TableType
  <2>5. RingLinks(a) /\ TurnOnRing(a) /\ OneCycle(a) /\ HandOpen(a)
    BY <2>2, <2>4 DEF Sound, RingLinks, TurnOnRing, OneCycle, HandOpen, IsRunning
  <2>6. PointersSeated(a)
    BY <2>2, <2>3 DEF Sound, PointersSeated
  <2>7. t.players \subseteq Ids /\ t.nextf \in [Ids -> Pointer] /\ t.prevf \in [Ids -> Pointer]
    BY <1>1 DEF TableType
  <2>8. \A q \in t.players : /\ t.nextf[q] \in t.players /\ t.prevf[t.nextf[q]] = q
                             /\ t.prevf[q] \in t.players /\ t.nextf[t.prevf[q]] = q
    BY DEF Sound, SeatLinks
  <2> HIDE DEF tail
  <2>9. ASSUME NEW q \in a.players
        PROVE  /\ a.nextf[q] \in a.players /\ a.prevf[a.nextf[q]] = q
               /\ a.prevf[q] \in a.players /\ a.nextf[a.prevf[q]] = q
    <3>1. CASE t.head = None
      <4>1. a.nextf[p] = p /\ a.prevf[p] = p
        BY <2>3, <2>7, <3>1
      <4>2. \A r \in t.players : a.nextf[r] = t.nextf[r] /\ a.prevf[r] = t.prevf[r]
        BY <1>3, <2>3, <2>7, <3>1
      <4>3. CASE q = p
        BY <2>2, <4>1, <4>3
      <4>4. CASE q \in t.players
        <5>1. /\ t.nextf[q] \in t.players /\ t.prevf[t.nextf[q]] = q
              /\ t.prevf[q] \in t.players /\ t.nextf[t.prevf[q]] = q
          BY <2>8, <4>4
        <5>2. a.nextf[q] = t.nextf[q] /\ a.prevf[q] = t.prevf[q]
          BY <4>2, <4>4
        <5>3. a.prevf[t.nextf[q]] = q /\ a.nextf[t.prevf[q]] = q
          BY <4>2, <5>1
        <5> QED
          BY <2>2, <5>1, <5>2, <5>3
      <4> QED
        BY <2>2, <4>3, <4>4
    <3>2. CASE t.head # None
      <4>1. /\ a.nextf[p] = t.head /\ a.prevf[p] = tail
            /\ a.nextf[tail] = p /\ a.prevf[t.head] = p
        BY <1>3, <2>1, <2>3, <2>7, <3>2
      <4>2. \A r \in t.players : /\ r # tail => a.nextf[r] = t.nextf[r]
                                 /\ r # t.head => a.prevf[r] = t.prevf[r]
        BY <1>3, <2>1, <2>3, <2>7, <3>2
      <4>3. t.prevf[t.head] = tail
        BY DEF tail
      <4>4. \A r \in t.players : /\ r # tail => t.nextf[r] # t.head
                                 /\ r # t.head => t.prevf[r] # tail
        BY <2>1, <2>8, <3>2, <4>3
      <4>5. CASE q = p
        BY <2>1, <2>2, <3>2, <4>1, <4>5
      <4>6. q \in t.players => a.prevf[q] \in a.players /\ a.nextf[a.prevf[q]] = q
        <5> SUFFICES ASSUME q \in t.players
                     PROVE  a.prevf[q] \in a.players /\ a.nextf[a.prevf[q]] = q
          OBVIOUS
        <5>1. t.prevf[q] \in t.players /\ t.nextf[t.prevf[q]] = q
          BY <2>8
        <5>2. CASE q = t.head
          BY <2>2, <4>1, <5>2
        <5>3. CASE q # t.head
          <6>1. a.prevf[q] = t.prevf[q] /\ t.prevf[q] # tail
            BY <4>2, <4>4, <5>3
          <6>2. a.nextf[t.prevf[q]] = t.nextf[t.prevf[q]]
            BY <4>2, <5>1, <6>1
          <6> QED
            BY <2>2, <5>1, <6>1, <6>2
        <5> QED
          BY <5>2, <5>3
      <4>7. CASE q \in t.players
        <5>1. /\ t.nextf[q] \in t.players /\ t.prevf[t.nextf[q]] = q
              /\ t.prevf[q] \in t.players /\ t.nextf[t.prevf[q]] = q
          BY <2>8, <4>7
        <5>2. CASE q = tail
          <6>1. a.nextf[q] \in a.players /\ a.prevf[a.nextf[q]] = q
            BY <2>2, <4>1, <5>2
          <6> QED
            BY <4>6, <4>7, <6>1
        <5>3. CASE q # tail
          <6>1. a.nextf[q] = t.nextf[q] /\ t.nextf[q] # t.head
            BY <4>2, <4>4, <4>7, <5>3
          <6>2. a.prevf[t.nextf[q]] = t.prevf[t.nextf[q]]
            BY <4>2, <5>1, <6>1
          <6> QED
            BY <2>2, <4>6, <4>7, <5>1, <6>1, <6>2
        <5> QED
          BY <5>2, <5>3
      <4> QED
        BY <2>2, <4>5, <4>7
    <3> QED
      BY <3>1, <3>2
  <2>10. a.health \in {"ok", "overflow"}
    BY <2>2 DEF Sound
  <2>11. Sound(a)
    BY <1>1, <2>5, <2>6, <2>9, <2>10 DEF Sound, SeatLinks
  <2> QED
    BY <2>11 DEF a
<1> QED
  BY <1>2, <1>3

-----------------------------------------------------------------------------
(* A hand's course.                                                         *)

LEMMA AnteFields ==
  ASSUME NEW t \in TableType
  PROVE  LET a == Ante(t)
         IN /\ a.players = t.players /\ a.folded = t.folded
            /\ a.nextf = t.nextf /\ a.prevf = t.prevf /\ a.next = t.next /\ a.prev = t.prev
            /\ a.head = t.head /\ a.blind = t.blind /\ a.bettor = t.bettor
            /\ a.turn = t.turn /\ a.round = t.round /\ a.showdown = t.showdown
            /\ a.clock = t.clock /\ a.health \in {t.health, "overflow"}
BY DEF Ante, TableType

\* What a deal sets.  The turn is the blind's or its successor's.
LEMMA DealFields ==
  ASSUME NEW t \in TableType, t.blind \in t.players
  PROVE  LET d == Deal(t)
         IN /\ d.players = t.players /\ d.folded = [p \in Ids |-> p \notin t.players]
            /\ d.nextf = t.nextf /\ d.prevf = t.prevf /\ d.next = t.nextf /\ d.prev = t.prevf
            /\ d.head = t.head /\ d.blind = t.blind /\ d.bettor = t.blind
            /\ d.turn \in {t.blind, t.nextf[t.blind]}
            /\ d.round = 0 /\ d.showdown = None
            /\ d.clock = IF d.turn # None THEN "fresh" ELSE "off"
            /\ d.health \in {t.health, "overflow"}
<1> DEFINE dealt   == [t EXCEPT !.showdown = None, !.confirmed = {},
                                !.folded = [p \in Ids |-> p \notin t.players],
                                !.next = t.nextf, !.prev = t.prevf, !.bet = 0, !.pot = 0,
                                !.round = 0]
           blinded == Raise(dealt, t.blind, BlindBet)
           Dealt(u) == /\ u.players = t.players
                       /\ u.folded = [p \in Ids |-> p \notin t.players]
                       /\ u.nextf = t.nextf /\ u.prevf = t.prevf
                       /\ u.next = t.nextf /\ u.prev = t.prevf
                       /\ u.head = t.head /\ u.blind = t.blind
                       /\ u.round = 0 /\ u.showdown = None
<1>1. dealt \in TableType /\ Dealt(dealt) /\ dealt.health = t.health
  BY DEF TableType, Pointer
<1>2. t.blind \in Ids /\ BlindBet \in Nat \ {0}
  BY NumberAssumption DEF TableType
<1> HIDE DEF dealt
<1>3. blinded \in TableType
  BY <1>1, <1>2, RaiseType
<1>4. Dealt(blinded) /\ blinded.health = t.health /\ blinded.bettor = t.blind
  BY <1>1, <1>2 DEF Raise, TableType
<1> HIDE DEF blinded
<1> DEFINE turned(p) == [blinded EXCEPT !.turn = p]
           last == IF IsAnte THEN Ante(turned(t.blind)) ELSE turned(t.nextf[t.blind])
<1>5. ASSUME NEW p \in Pointer
      PROVE  /\ turned(p) \in TableType /\ Dealt(turned(p)) /\ turned(p).turn = p
             /\ turned(p).bettor = t.blind /\ turned(p).health = t.health
  BY <1>3, <1>4 DEF TableType
<1>6. t.blind \in Pointer /\ t.nextf[t.blind] \in Pointer
  BY <1>2 DEF TableType, Pointer
<1> HIDE DEF turned
<1>7. /\ last \in TableType /\ Dealt(last) /\ last.bettor = t.blind
      /\ last.turn \in {t.blind, t.nextf[t.blind]}
      /\ last.health \in {t.health, "overflow"}
  <2>1. CASE IsAnte
    BY <1>5, <1>6, <2>1, AnteType, AnteFields
  <2>2. CASE ~IsAnte
    BY <1>5, <1>6, <2>2
  <2> QED
    BY <2>1, <2>2
<1>8. Deal(t) = MarkTurnStarted(last)
  BY Zenon DEF Deal, last, turned, blinded, dealt
<1> HIDE DEF last
<1> QED
  BY <1>7, <1>8 DEF MarkTurnStarted, IsRunning, TableType

\* start_game: the rings of the rebuild are the rings of the hand.  The caller
\* has counted two players, without which the ring would lead to itself.
LEMMA StartGameSound ==
  ASSUME NEW t, Sound(t), Cardinality(t.players) >= 2, NEW order \in Orders[t.players]
  PROVE  Sound(StartGame(t, order))
<1> DEFINE s == Rebuild(t, order)
           d == Deal(s)
<1>1. t \in TableType /\ t.players # {} /\ t.players \subseteq Ids /\ None \notin Ids
  <2>1. t \in TableType /\ t.players \subseteq Ids
    BY DEF Sound, TableType
  <2>2. t.players = {} => Cardinality(t.players) = 0
    BY <2>1, OrderType
  <2> QED
    BY <2>1, <2>2, IdsAssumption
<1>2. /\ s \in TableType /\ s.players = t.players
      /\ s.head \in t.players /\ s.blind \in t.players /\ s.health = t.health
  BY <1>1, RebuildType, RebuildFields
<1>3. /\ SeatLinks(s)
      /\ \A p \in Ids \ t.players : s.nextf[p] = None /\ s.prevf[p] = None
      /\ \A p \in t.players : s.nextf[p] # p /\ s.prevf[p] # p
      /\ \A S \in (SUBSET t.players) \ {{}} :
           (\A p \in S : s.nextf[p] \in S) => S = t.players
  BY <1>1, RebuildLinks
<1>4. StartGame(t, order) = d
  BY <1>1 DEF StartGame
<1> HIDE DEF s
<1>5. /\ d \in TableType
      /\ d.players = t.players /\ d.folded = [p \in Ids |-> p \notin t.players]
      /\ d.nextf = s.nextf /\ d.prevf = s.prevf /\ d.next = s.nextf /\ d.prev = s.prevf
      /\ d.head = s.head /\ d.blind = s.blind /\ d.bettor = s.blind
      /\ d.turn \in {s.blind, s.nextf[s.blind]}
      /\ d.round = 0 /\ d.showdown = None
      /\ d.clock = IF d.turn # None THEN "fresh" ELSE "off"
      /\ d.health \in {s.health, "overflow"}
  BY <1>1, <1>2, DealType, DealFields
<1>6. \A p \in t.players :
        /\ s.nextf[p] \in t.players \ {p} /\ s.prevf[s.nextf[p]] = p
        /\ s.prevf[p] \in t.players \ {p} /\ s.nextf[s.prevf[p]] = p
  BY <1>2, <1>3 DEF SeatLinks
<1>7. d.turn \in t.players
  BY <1>2, <1>5, <1>6
<1> HIDE DEF d
<1>8. Ring(d) = t.players /\ Contenders(d) = t.players
  <2>1. \A p \in Ids : s.nextf[p] # None <=> p \in t.players
    BY <1>1, <1>3, <1>6
  <2>2. \A p \in t.players : ~d.folded[p]
    BY <1>1, <1>5
  <2> QED
    BY <1>1, <1>5, <2>1, <2>2 DEF Ring, Contenders
<1>9. RingLinks(d) /\ OneCycle(d)
  BY <1>3, <1>5, <1>6, <1>8 DEF RingLinks, OneCycle
<1>10. TurnOnRing(d) /\ HandOpen(d)
  BY <1>1, <1>3, <1>5, <1>7, <1>8, EndRoundType DEF TurnOnRing, HandOpen, IsRunning
<1>11. PointersSeated(d) /\ SeatLinks(d)
  BY <1>2, <1>5, <1>6, <1>7 DEF PointersSeated, SeatLinks
<1>12. d.health \in {"ok", "overflow"}
  BY <1>2, <1>5 DEF Sound
<1> QED
  BY <1>4, <1>5, <1>9, <1>10, <1>11, <1>12 DEF Sound

\* Giving the turn on leaves the rest of the table as it was.
LEMMA TurnFields ==
  ASSUME NEW t \in TableType, NEW p \in Ids, p # None
  PROVE  LET m == MarkTurnStarted([t EXCEPT !.turn = p])
         IN /\ m \in TableType /\ m.turn = p /\ m.clock = "fresh"
            /\ m.players = t.players /\ m.folded = t.folded
            /\ m.nextf = t.nextf /\ m.prevf = t.prevf
            /\ m.next = t.next /\ m.prev = t.prev
            /\ m.head = t.head /\ m.blind = t.blind /\ m.bettor = t.bettor
            /\ m.round = t.round /\ m.showdown = t.showdown /\ m.health = t.health
<1> DEFINE m == [t EXCEPT !.turn = p, !.clock = "fresh"]
<1>1. MarkTurnStarted([t EXCEPT !.turn = p]) = m
  BY DEF MarkTurnStarted, IsRunning, TableType
<1>2. m \in TableType
  BY DEF TableType, Pointer
<1>3. m.turn = p /\ m.clock = "fresh"
  BY DEF TableType
<1>4. m.players = t.players /\ m.folded = t.folded /\ m.nextf = t.nextf /\ m.prevf = t.prevf
  BY DEF TableType
<1>5. m.next = t.next /\ m.prev = t.prev /\ m.head = t.head /\ m.blind = t.blind
  BY DEF TableType
<1>6. m.bettor = t.bettor /\ m.round = t.round /\ m.showdown = t.showdown /\ m.health = t.health
  BY DEF TableType
<1> HIDE DEF m
<1> QED
  BY <1>1, <1>2, <1>3, <1>4, <1>5, <1>6

\* advance_turn: while a hand is on there are two players on the ring, so its
\* walk locks two nodes, and the last round's end finds a winner.
LEMMA AdvanceTurnSound ==
  ASSUME NEW t, Sound(t), t.health = "ok",
         NEW C \in SUBSET Ids, NEW rank \in Ranks[C], Contenders(t) \subseteq C
  PROVE  Sound(AdvanceTurn(t, rank))
<1> DEFINE current == t.turn
           next    == NextBettingNode(t, current)
           moved   == MarkTurnStarted([t EXCEPT !.turn = next])
<1>1. t \in TableType /\ None \notin Ids
  BY IdsAssumption DEF Sound
<1>2. CASE current = None
  BY <1>2 DEF AdvanceTurn
<1>3. CASE current # None
  <2>1. current \in Ring(t) /\ t.next[current] # current
    BY <1>3, RingSeated DEF IsRunning, Sound, RingLinks
  <2>2. next \in Ring(t) \cup {None}
    BY NextBettingNodeOnRing
  <2>3. /\ t.showdown = None /\ t.round < EndRound
        /\ t.round \in Nat /\ EndRound \in Nat
    BY <1>1, <1>3, EndRoundType DEF Sound, HandOpen, IsRunning, TableType
  <2>4. /\ RingLinks(t) /\ TurnOnRing(t) /\ OneCycle(t) /\ PointersSeated(t) /\ SeatLinks(t)
        /\ Ring(t) \subseteq Contenders(t) /\ Ring(t) \subseteq t.players
        /\ Contenders(t) # {} /\ t.players \subseteq Ids
    BY <2>1, RingSeated DEF Sound
  <2> HIDE DEF next
  <2>5. ASSUME next # None
        PROVE  /\ moved \in TableType
               /\ moved.turn = next /\ moved.clock = "fresh"
               /\ moved.players = t.players /\ moved.folded = t.folded
               /\ moved.nextf = t.nextf /\ moved.prevf = t.prevf
               /\ moved.next = t.next /\ moved.prev = t.prev
               /\ moved.head = t.head /\ moved.blind = t.blind /\ moved.bettor = t.bettor
               /\ moved.round = t.round /\ moved.showdown = t.showdown
               /\ moved.health = "ok"
    <3>1. next \in Ids
      BY <2>2, <2>4, <2>5
    <3> QED
      BY <1>1, <2>5, <3>1, TurnFields
  <2> HIDE DEF moved
  <2>6. ASSUME NEW r \in Nat, NEW u \in TableType,
               u.players = t.players, u.folded = t.folded,
               u.nextf = t.nextf, u.prevf = t.prevf,
               u.head = t.head, u.blind = t.blind, u.bettor = t.bettor,
               u.turn \in Ring(t), u.health = "ok"
        PROVE  Sound(EndGame([u EXCEPT !.round = r], rank))
    <3> DEFINE v == [u EXCEPT !.round = r]
    <3>1. /\ v \in TableType /\ v.health = "ok"
          /\ v.players = t.players /\ v.folded = t.folded
          /\ v.nextf = t.nextf /\ v.prevf = t.prevf
          /\ v.head = t.head /\ v.blind = t.blind /\ v.bettor = t.bettor /\ v.turn = u.turn
      BY <2>6 DEF TableType
    <3> HIDE DEF v
    <3>2. PointersSeated(v) /\ SeatLinks(v) /\ Contenders(v) = Contenders(t)
      BY <2>4, <2>6, <3>1 DEF PointersSeated, SeatLinks, Contenders
    <3>3. Sound(EndGame(v, rank))
      BY <2>4, <3>1, <3>2, EndGameSound
    <3> QED
      BY <3>3 DEF v
  <2>7. CASE next = None
    <3>1. AdvanceTurn(t, rank) = FinishRemainingRounds(t, rank)
      BY <1>3, <2>1, <2>7, Zenon DEF AdvanceTurn, next
    <3>2. (IF t.round < EndRound THEN EndRound ELSE t.round + 1) \in Nat
      BY <2>3
    <3>3. Sound(FinishRemainingRounds(t, rank))
      BY <1>1, <2>1, <2>6, <3>2 DEF FinishRemainingRounds
    <3> QED
      BY <3>1, <3>3
  <2>8. CASE next # None
    <3>1. AdvanceTurn(t, rank) \in {moved, NextRound(moved, rank)}
      BY <1>3, <2>1, <2>8 DEF AdvanceTurn, next, moved
    <3>2. ASSUME NEW r \in Nat, r < EndRound
          PROVE  Sound([moved EXCEPT !.round = r])
      <4> DEFINE u == [moved EXCEPT !.round = r]
      <4>1. /\ u \in TableType /\ u.health = "ok"
            /\ u.players = t.players /\ u.folded = t.folded
            /\ u.nextf = t.nextf /\ u.prevf = t.prevf /\ u.next = t.next /\ u.prev = t.prev
            /\ u.head = t.head /\ u.blind = t.blind /\ u.bettor = t.bettor
            /\ u.turn = next /\ u.clock = "fresh" /\ u.round = r /\ u.showdown = t.showdown
        BY <2>5, <2>8 DEF TableType
      <4> HIDE DEF u
      <4>2. Ring(u) = Ring(t) /\ Contenders(u) = Contenders(t)
        BY <4>1 DEF Ring, Contenders
      <4>3. RingLinks(u) /\ TurnOnRing(u) /\ OneCycle(u) /\ HandOpen(u)
        BY <2>2, <2>3, <2>4, <2>8, <3>2, <4>1, <4>2
           DEF RingLinks, TurnOnRing, OneCycle, HandOpen, IsRunning
      <4>4. PointersSeated(u) /\ SeatLinks(u)
        BY <2>2, <2>4, <2>8, <4>1 DEF PointersSeated, SeatLinks
      <4> QED
        BY <4>1, <4>3, <4>4 DEF Sound, u
    <3>3. Sound(moved)
      <4>1. moved = [moved EXCEPT !.round = t.round]
        BY <2>5, <2>8 DEF TableType
      <4> QED
        BY <2>3, <3>2, <4>1
    <3>4. Sound(NextRound(moved, rank))
      <4>1. moved.round + 1 = t.round + 1 /\ t.round + 1 \in Nat
        BY <2>3, <2>5, <2>8
      <4>2. [moved EXCEPT !.round = @ + 1] = [moved EXCEPT !.round = t.round + 1]
        BY <2>5, <2>8
      <4>3. [moved EXCEPT !.round = t.round + 1].round = t.round + 1
        BY <2>5, <2>8 DEF TableType
      <4>4. CASE t.round + 1 >= EndRound
        <5>1. Sound(EndGame([moved EXCEPT !.round = t.round + 1], rank))
          BY <2>2, <2>5, <2>6, <2>8, <4>1
        <5> QED
          BY <4>2, <4>3, <4>4, <5>1 DEF NextRound
      <4>5. CASE ~ (t.round + 1 >= EndRound)
        <5>1. Sound([moved EXCEPT !.round = t.round + 1])
          BY <2>3, <3>2, <4>1, <4>5
        <5> QED
          BY <4>2, <4>3, <4>5, <5>1 DEF NextRound
      <4> QED
        BY <4>4, <4>5
    <3> QED
      BY <3>1, <3>3, <3>4
  <2> QED
    BY <2>7, <2>8
<1> QED
  BY <1>2, <1>3

\* Another player of the same hand has the turn, perhaps in another round.
SameHand(t, u) ==
  /\ u.players = t.players /\ u.folded = t.folded
  /\ u.wallet = t.wallet /\ u.pbet = t.pbet /\ u.bet = t.bet /\ u.pot = t.pot
  /\ u.nextf = t.nextf /\ u.prevf = t.prevf /\ u.next = t.next /\ u.prev = t.prev
  /\ u.head = t.head /\ u.blind = t.blind /\ u.bettor = t.bettor
  /\ u.showdown = t.showdown /\ u.confirmed = t.confirmed /\ u.health = t.health
  /\ u.turn \in Ring(t)

\* advance_turn has nothing to do, moves on in the hand, or ends it.
LEMMA AdvanceTurnCases ==
  ASSUME NEW t, Sound(t), NEW rank
  PROVE  LET u == AdvanceTurn(t, rank)
         IN \/ u = t
            \/ SameHand(t, u)
            \/ \E v \in TableType : SameHand(t, v) /\ u = EndGame(v, rank)
<1> DEFINE next  == NextBettingNode(t, t.turn)
           moved == MarkTurnStarted([t EXCEPT !.turn = next])
           Good(u) == \/ u = t
                      \/ SameHand(t, u)
                      \/ \E v \in TableType : SameHand(t, v) /\ u = EndGame(v, rank)
<1>1. t \in TableType /\ t.round \in Nat
  BY DEF Sound, TableType
<1>2. next \in Ring(t) \cup {None}
  BY NextBettingNodeOnRing
<1>3. CASE t.turn = None
  BY <1>3 DEF AdvanceTurn
<1>4. CASE t.turn # None
  <2>1. t.turn \in Ring(t) /\ t.next[t.turn] # t.turn
    BY <1>4 DEF IsRunning, Sound, TurnOnRing, RingLinks
  <2> HIDE DEF next, Good
  <2>2. ASSUME NEW v \in TableType, SameHand(t, v), NEW r \in Nat
        PROVE  /\ [v EXCEPT !.round = r] \in TableType
               /\ SameHand(t, [v EXCEPT !.round = r])
    BY <2>2 DEF TableType, SameHand
  <2>3. ASSUME NEW v \in TableType, SameHand(t, v), NEW r \in Nat
        PROVE  /\ Good([v EXCEPT !.round = r])
               /\ Good(EndGame([v EXCEPT !.round = r], rank))
    <3> DEFINE w == [v EXCEPT !.round = r]
    <3>1. w \in TableType /\ SameHand(t, w)
      BY <2>2, <2>3
    <3> HIDE DEF w
    <3>2. Good(w) /\ Good(EndGame(w, rank))
      BY <3>1 DEF Good
    <3> QED
      BY <3>2 DEF w
  <2>4. CASE next = None
    <3>1. AdvanceTurn(t, rank) = FinishRemainingRounds(t, rank)
      BY <1>4, <2>1, <2>4, Zenon DEF AdvanceTurn, next
    <3>2. (IF t.round < EndRound THEN EndRound ELSE t.round + 1) \in Nat
      BY <1>1, EndRoundType
    <3>3. SameHand(t, t)
      BY <2>1 DEF SameHand
    <3>4. Good(FinishRemainingRounds(t, rank))
      BY <1>1, <2>3, <3>2, <3>3 DEF FinishRemainingRounds
    <3> QED
      BY <3>1, <3>4 DEF Good
  <2>5. CASE next # None
    <3>1. next \in Pointer
      BY <1>2 DEF Ring, Pointer
    <3>2. moved \in TableType /\ SameHand(t, moved) /\ moved.round = t.round
      BY <1>1, <1>2, <2>5, <3>1 DEF MarkTurnStarted, TableType, SameHand
    <3>3. AdvanceTurn(t, rank) \in {moved, NextRound(moved, rank)}
      BY <1>4, <2>1, <2>5 DEF AdvanceTurn, next, moved
    <3> HIDE DEF moved
    <3>4. /\ [moved EXCEPT !.round = @ + 1] = [moved EXCEPT !.round = t.round + 1]
          /\ t.round + 1 \in Nat
      BY <1>1, <3>2
    <3>5. NextRound(moved, rank) \in {[moved EXCEPT !.round = t.round + 1],
                                      EndGame([moved EXCEPT !.round = t.round + 1], rank)}
      BY <3>4 DEF NextRound
    <3>6. Good(moved) /\ Good(NextRound(moved, rank))
      BY <2>3, <3>2, <3>4, <3>5 DEF Good
    <3> QED
      BY <3>3, <3>6 DEF Good
  <2> QED
    BY <2>4, <2>5
<1> QED
  BY <1>3, <1>4

\* expire_timed_out_turn removes the late player and moves the turn on.
LEMMA ExpireTurnSound ==
  ASSUME NEW t, Sound(t), t.health = "ok", IsRunning(t),
         NEW rank \in Ranks[Contenders(t)], NEW order \in Orders[t.players \ {t.turn}]
  PROVE  Sound(ExpireTurn(t, order, rank))
<1> DEFINE removed == Remove(t, t.turn, order, rank)
<1>1. t \in TableType /\ t.turn \in t.players /\ t.turn \in Ids
  BY RingSeated DEF Sound, TableType
<1>2. Sound(removed)
  BY <1>1, RemoveSound
<1>3. Contenders(removed) \subseteq Contenders(t) /\ Contenders(t) \in SUBSET Ids
  BY <1>1, ContendersRemove, ContendersSubset
<1> HIDE DEF removed
<1>4. removed.health = "ok" => Sound(AdvanceTurn(removed, rank))
  BY <1>2, <1>3, AdvanceTurnSound
<1> QED
  BY <1>2, <1>4 DEF ExpireTurn, removed

\* remove_unconfirmed_players: between two hands there is no ring to keep.
LEMMA RemoveUnconfirmedSound ==
  ASSUME NEW t, Sound(t), NEW order \in Orders[t.confirmed \cap t.players]
  PROVE  Sound(RemoveUnconfirmed(t, order))
<1> DEFINE out == t.players \ t.confirmed
           Clear(pointer) == IF pointer \in out THEN None ELSE pointer
           cleared == [t EXCEPT !.head = Clear(@), !.bettor = Clear(@), !.blind = Clear(@),
                                !.clock = "off"]
           left == Drop(cleared, out)
<1>1. CASE t.showdown = None \/ out = {}
  BY <1>1 DEF RemoveUnconfirmed
<1>2. CASE t.showdown # None /\ out # {}
  <2>1. t \in TableType /\ ~IsRunning(t) /\ Ring(t) = {} /\ t.health \in {"ok", "overflow"}
    BY <1>2 DEF Sound, HandOpen, TurnOnRing
  <2>2. out \in SUBSET Ids /\ t.players \ out = t.confirmed \cap t.players
    BY <2>1 DEF TableType
  <2>3. Clear(t.head) \in Pointer /\ Clear(t.bettor) \in Pointer /\ Clear(t.blind) \in Pointer
    BY <2>1 DEF TableType, Pointer
  <2>4. Clear(t.bettor) \in (t.players \ out) \cup {None}
    BY DEF Sound, PointersSeated
  <2> HIDE DEF out, Clear
  <2>5. /\ cleared \in TableType /\ cleared.players = t.players
        /\ cleared.next = t.next /\ cleared.prev = t.prev
        /\ cleared.bettor = Clear(t.bettor) /\ cleared.turn = t.turn
        /\ cleared.clock = "off" /\ cleared.health = t.health
    BY <2>1, <2>3 DEF TableType
  <2> HIDE DEF cleared
  <2>6. left \in TableType
    BY <2>2, <2>5, DropType
  <2>7. /\ left.players = t.confirmed \cap t.players
        /\ left.next = t.next /\ left.prev = t.prev
        /\ left.bettor = Clear(t.bettor) /\ left.turn = t.turn
        /\ left.clock = "off" /\ left.health = t.health
    BY <2>2, <2>5, DropFields
  <2> HIDE DEF left
  <2>8. Ring(left) = {} /\ ~IsRunning(left)
    BY <2>1, <2>7 DEF Ring, IsRunning
  <2>9. RingLinks(left) /\ TurnOnRing(left) /\ OneCycle(left) /\ HandOpen(left)
    BY <2>1, <2>7, <2>8 DEF Sound, RingLinks, TurnOnRing, OneCycle, HandOpen
  <2>10. {left.bettor, left.turn} \subseteq left.players \cup {None}
    BY <2>1, <2>2, <2>4, <2>7 DEF IsRunning
  <2>11. Sound(Rebuild(left, order))
    BY <2>1, <2>6, <2>7, <2>9, <2>10, RebuildSound
  <2>12. RemoveUnconfirmed(t, order) = Rebuild(left, order)
    BY <1>2, Zenon DEF RemoveUnconfirmed, left, cleared, out, Clear
  <2> QED
    BY <2>11, <2>12
<1> QED
  BY <1>1, <1>2

-----------------------------------------------------------------------------
(* What one call does to the ring of a hand that goes on.                   *)

LEMMA SameRingInOrder ==
  ASSUME NEW t, NEW u, u.next = t.next
  PROVE  SeatOrder(t, u)
<1>1. Ring(u) = Ring(t)
  BY DEF Ring
<1>2. Ring(t) \ Ring(u) = {}
  BY <1>1
<1>3. Cardinality(Ring(t) \ Ring(u)) = 0
  BY <1>2, FS_EmptySet
<1> QED
  BY <1>1, <1>3 DEF SeatOrder

\* Who is cut from the ring leaves the others where they were.
LEMMA CutInOrder ==
  ASSUME NEW t, Sound(t), NEW p \in Ids, NEW u, u.next = NextWithout(t, p)
  PROVE  SeatOrder(t, u)
<1>1. None \notin Ids /\ t.prev[p] \in Pointer
  BY IdsAssumption DEF Sound, TableType
<1>2. CASE p \in Ring(t)
  <2>1. /\ t.next[p] \in Ring(t) \ {p} /\ t.prev[p] \in Ring(t) \ {p}
        /\ t.next[t.prev[p]] = p
    BY <1>2 DEF Sound, RingLinks
  <2>2. Ring(u) = Ring(t) \ {p}
    BY <1>1, <2>1 DEF NextWithout, Ring
  <2>3. Ring(t) \ Ring(u) = {p}
    BY <1>2, <2>2
  <2>4. Cardinality(Ring(t) \ Ring(u)) = 1
    BY <2>3, FS_Singleton
  <2>5. ASSUME NEW q \in Ring(u)
        PROVE  /\ q \in Ring(t)
               /\ \/ u.next[q] = t.next[q]
                  \/ u.next[q] = t.next[t.next[q]] /\ t.next[q] \notin Ring(u)
    <3>1. q \in Ids /\ q # p /\ q \in Ring(t)
      BY <2>2 DEF Ring
    <3>2. u.next[q] = IF q = t.prev[p] THEN t.next[p] ELSE t.next[q]
      BY <3>1 DEF NextWithout
    <3> QED
      BY <2>1, <2>2, <3>1, <3>2
  <2> QED
    BY <2>4, <2>5 DEF SeatOrder
<1>3. CASE p \notin Ring(t)
  <2>1. t.next[p] = None /\ t.prev[p] = None
    BY <1>3 DEF Sound, TurnOnRing, Ring
  <2>2. u.next = t.next
    BY <1>1, <2>1 DEF NextWithout, Sound, TableType
  <2> QED
    BY <2>2, SameRingInOrder
<1> QED
  BY <1>2, <1>3

LEMMA EndGameNext ==
  ASSUME NEW t \in TableType, NEW rank
  PROVE  EndGame(t, rank).turn = None \/ EndGame(t, rank).next = t.next
<1>1. CASE Best(t, rank, Contenders(t)) = None
  BY <1>1 DEF EndGame
<1>2. CASE Best(t, rank, Contenders(t)) # None
  BY <1>2, EndGameFields
<1> QED
  BY <1>1, <1>2

LEMMA FoldNext ==
  ASSUME NEW t, Sound(t), NEW p \in t.players, NEW rank \in Ranks[Contenders(t)]
  PROVE  Fold(t, p, rank).turn = None \/ Fold(t, p, rank).next = NextWithout(t, p)
<1>1. t \in TableType /\ p \in Ids /\ p \notin {t.prev[p], t.next[p]}
  BY IdsAssumption DEF Sound, RingLinks, TurnOnRing, Ring, TableType
<1>2. Folded(t, p) \in TableType /\ Folded(t, p).next = NextWithout(t, p)
  <2>1. t.prev[p] \in Pointer /\ t.next[p] \in Pointer
    BY <1>1 DEF TableType
  <2>2. Folded(t, p) \in TableType
    BY <1>1, <2>1, CutFromRingType, MovePointersType DEF Folded
  <2> QED
    BY <1>1, <2>2, FoldedFields DEF NextWithout
<1>3. Fold(t, p, rank) \in {Folded(t, p), EndGame(Folded(t, p), rank)}
  BY <1>1 DEF Fold, Folded
<1> QED
  BY <1>2, <1>3, EndGameNext

LEMMA RebuildNext ==
  ASSUME NEW t \in TableType, NEW order
  PROVE  Rebuild(t, order).turn = None \/ Rebuild(t, order).next = t.next
BY DEF Rebuild, TableType

LEMMA RemoveNext ==
  ASSUME NEW t, Sound(t), t.health = "ok", NEW p \in t.players,
         NEW rank \in Ranks[Contenders(t)], NEW order \in Orders[t.players \ {p}]
  PROVE  LET r == Remove(t, p, order, rank)
         IN r.turn = None \/ r.next = NextWithout(t, p)
<1> DEFINE out   == Fold(t, p, rank)
           head  == IF out.head # p THEN out.head
                    ELSE IF out.nextf[p] = p THEN None ELSE out.nextf[p]
           moved == [out EXCEPT !.head = head]
           left  == Drop(moved, {p})
<1>1. /\ out \in TableType /\ out.health = "ok" /\ p \in Ids
      /\ out.turn = None \/ out.next = NextWithout(t, p)
  <2>1. Sound(out) /\ out.health = "ok"
    BY FoldSound
  <2> QED
    BY <2>1, FoldNext DEF Sound, TableType
<1> HIDE DEF out
<1>2. moved \in TableType /\ moved.next = out.next /\ moved.turn = out.turn
  BY <1>1 DEF TableType, Pointer
<1> HIDE DEF moved
<1>3. left \in TableType /\ left.next = out.next /\ left.turn = out.turn
  <2>1. {p} \in SUBSET Ids
    BY <1>1
  <2>2. left \in TableType
    BY <1>2, <2>1, DropType
  <2>3. left.next = moved.next /\ left.turn = moved.turn
    BY <1>2, <2>1, DropFields
  <2> QED
    BY <1>2, <2>2, <2>3
<1> HIDE DEF left
<1>4. Rebuild(left, order).turn = None \/ Rebuild(left, order).next = left.next
  BY <1>3, RebuildNext
<1>5. Rebuild(left, order).turn \in {None, left.turn}
  BY <1>3 DEF Rebuild, TableType
<1>6. Remove(t, p, order, rank) = Rebuild(left, order)
  BY <1>1 DEF Remove, out, moved, left
<1> QED
  BY <1>1, <1>3, <1>4, <1>5, <1>6

LEMMA AdvanceTurnNext ==
  ASSUME NEW t \in TableType, NEW rank
  PROVE  AdvanceTurn(t, rank).turn = None \/ AdvanceTurn(t, rank).next = t.next
<1> DEFINE moved == MarkTurnStarted([t EXCEPT !.turn = NextBettingNode(t, t.turn)])
<1>1. ASSUME NEW u \in TableType, u.next = t.next, NEW r \in Nat
      PROVE  LET v == EndGame([u EXCEPT !.round = r], rank)
             IN v.turn = None \/ v.next = t.next
  <2> DEFINE w == [u EXCEPT !.round = r]
  <2>1. w \in TableType /\ w.next = t.next
    BY <1>1 DEF TableType
  <2> HIDE DEF w
  <2>2. EndGame(w, rank).turn = None \/ EndGame(w, rank).next = w.next
    BY <2>1, EndGameNext
  <2> QED
    BY <2>1, <2>2 DEF w
<1>2. moved \in TableType /\ moved.next = t.next
  <2>1. NextBettingNode(t, t.turn) \in Pointer
    BY NextBettingNodeOnRing DEF Ring, Pointer
  <2> QED
    BY <2>1 DEF MarkTurnStarted, TableType
<1> HIDE DEF moved
<1>3. LET v == FinishRemainingRounds(t, rank) IN v.turn = None \/ v.next = t.next
  <2>1. (IF t.round < EndRound THEN EndRound ELSE t.round + 1) \in Nat
    BY EndRoundType DEF TableType
  <2> QED
    BY <1>1, <2>1 DEF FinishRemainingRounds
<1>4. LET v == NextRound(moved, rank) IN v.turn = None \/ v.next = t.next
  <2>1. moved.round + 1 \in Nat
    BY <1>2 DEF TableType
  <2>2. LET v == EndGame([moved EXCEPT !.round = moved.round + 1], rank)
        IN v.turn = None \/ v.next = t.next
    BY <1>1, <1>2, <2>1
  <2>3. [moved EXCEPT !.round = @ + 1] = [moved EXCEPT !.round = moved.round + 1]
    OBVIOUS
  <2>4. [moved EXCEPT !.round = moved.round + 1].next = t.next
    BY <1>2
  <2> QED
    BY <2>2, <2>3, <2>4 DEF NextRound
<1>5. AdvanceTurn(t, rank) \in {t, [t EXCEPT !.health = "selflock"], moved,
                                FinishRemainingRounds(t, rank), NextRound(moved, rank)}
  BY DEF AdvanceTurn, moved
<1> QED
  BY <1>2, <1>3, <1>4, <1>5 DEF TableType

LEMMA ExpireTurnNext ==
  ASSUME NEW t, Sound(t), t.health = "ok", IsRunning(t),
         NEW rank \in Ranks[Contenders(t)], NEW order \in Orders[t.players \ {t.turn}]
  PROVE  LET e == ExpireTurn(t, order, rank)
         IN e.turn = None \/ e.next = NextWithout(t, t.turn)
<1> DEFINE removed == Remove(t, t.turn, order, rank)
<1>1. t.turn \in t.players
  BY RingSeated
<1>2. removed \in TableType
  BY <1>1, RemoveSound DEF Sound
<1>3. removed.turn = None \/ removed.next = NextWithout(t, t.turn)
  BY <1>1, RemoveNext
<1> HIDE DEF removed
<1>4. ExpireTurn(t, order, rank) \in {removed, AdvanceTurn(removed, rank)}
  BY DEF ExpireTurn, removed
<1>5. removed.turn = None => AdvanceTurn(removed, rank) = removed
  BY DEF AdvanceTurn
<1> QED
  BY <1>2, <1>3, <1>4, <1>5, AdvanceTurnNext


-----------------------------------------------------------------------------
(* Who is paid.                                                             *)

\* What OnlyContendersWin says of a step, for every id there is.
PaysRight(t, u) ==
  /\ \A p \in Ids : u.wallet[p] > t.wallet[p] => HandEnds(t, u) /\ p \in Contenders(t)
  /\ WinnerWasDealtIn(t, u)

\* Before it pays, a call may take players off the ring and chips off wallets.
LEMMA PaysThen ==
  ASSUME NEW t \in TableType, NEW r \in TableType, NEW u \in TableType,
         IsRunning(t), IsRunning(r),
         \A p \in Ids : r.wallet[p] <= t.wallet[p],
         Contenders(r) \subseteq Contenders(t), Ring(r) \subseteq Ring(t),
         PaysRight(r, u)
  PROVE  PaysRight(t, u)
<1>1. \A p \in Ids : /\ t.wallet[p] \in Nat /\ r.wallet[p] \in Nat /\ u.wallet[p] \in Nat
                     /\ r.wallet[p] <= t.wallet[p]
  BY DEF TableType
<1>2. HandEnds(r, u) => HandEnds(t, u)
  BY DEF HandEnds
<1>3. ASSUME NEW p \in Ids, u.wallet[p] > t.wallet[p]
      PROVE  HandEnds(t, u) /\ p \in Contenders(t)
  <2>1. u.wallet[p] > r.wallet[p]
    BY <1>1, <1>3
  <2> QED
    BY <1>2, <2>1 DEF PaysRight
<1>4. WinnerWasDealtIn(t, u)
  BY DEF PaysRight, WinnerWasDealtIn, HandEnds
<1> QED
  BY <1>3, <1>4 DEF PaysRight

LEMMA SameWalletsPay ==
  ASSUME NEW t \in TableType, NEW u \in TableType,
         \A p \in Ids : u.wallet[p] <= t.wallet[p],
         ~HandEnds(t, u) \/ u.showdown = None
  PROVE  PaysRight(t, u)
<1>1. \A p \in Ids : t.wallet[p] \in Nat /\ u.wallet[p] \in Nat /\ ~(u.wallet[p] > t.wallet[p])
  BY DEF TableType
<1> QED
  BY <1>1 DEF PaysRight, WinnerWasDealtIn

\* A player without cards loses to any player with cards.
LEMMA BestDealtIn ==
  ASSUME Game # "TexasHoldem", NEW t, NEW C \in SUBSET Ids, NEW rank \in Ranks[C],
         NEW S \in SUBSET C, NEW r \in S, r \in Ring(t)
  PROVE  Best(t, rank, S) \in Ring(t)
<1> DEFINE b == Best(t, rank, S)
<1>1. /\ Cardinality(C) \in Nat /\ rank \in [C -> 1..Cardinality(C)]
      /\ Cardinality(Ids) \in Nat /\ Cardinality(C) <= Cardinality(Ids)
  BY RankType, IdsAssumption, FS_Subset, FS_CardinalityType
<1>2. b \in S /\ b # None
  BY BestChosen, IdsAssumption
<1>3. Strength(t, rank, r) <= Strength(t, rank, b)
  BY <1>2 DEF Best
<1>4. b \in Ids /\ r \in Ids /\ t.next[r] # None
  BY <1>2 DEF Ring
<1>5. Strength(t, rank, r) = rank[r]
  BY <1>4 DEF Strength, HasCards
<1>6. t.next[b] = None => Strength(t, rank, b) = rank[b] - Cardinality(Ids)
  BY DEF Strength, HasCards
<1> HIDE DEF b
<1>7. rank[r] \in 1..Cardinality(C) /\ rank[b] \in 1..Cardinality(C)
  BY <1>1, <1>2
<1>8. t.next[b] # None
  BY <1>1, <1>3, <1>5, <1>6, <1>7
<1> QED
  BY <1>4, <1>8 DEF Ring, b

\* pay_showdown_pots pays the winners of the pots and the best of all, who are
\* all contenders.
LEMMA PayShowdownPotsPays ==
  ASSUME NEW t \in TableType, NEW rank, NEW p \in Ids, p \notin Contenders(t)
  PROVE  PayShowdownPots(t, rank)[p] = t.wallet[p]
<1>1. p # None
  BY IdsAssumption
<1>2. \A S : Best(t, rank, S) \in S \cup {None}
  BY DEF Best
<1>3. LevelsWon(t, rank, p) = {}
  <2> SUFFICES ASSUME NEW l \in Levels(t), LevelWinner(t, rank, l) = p
               PROVE  FALSE
    BY DEF LevelsWon
  <2>1. p \in {q \in Contenders(t) : t.pbet[q] >= l}
    BY <1>1, <1>2 DEF LevelWinner
  <2> QED
    BY <2>1
<1>4. p # Best(t, rank, Contenders(t))
  BY <1>1, <1>2
<1>5. Pots(t, {}) = 0
  BY SumEmpty DEF Pots
<1>6. t.wallet[p] \in Nat
  BY DEF TableType
<1>7. PayShowdownPots(t, rank)[p] = t.wallet[p] + 0 + 0
  BY <1>3, <1>4, <1>5 DEF PayShowdownPots
<1> QED
  BY <1>6, <1>7

LEMMA EndGamePays ==
  ASSUME NEW t \in TableType, IsRunning(t), Ring(t) \subseteq Contenders(t), Ring(t) # {},
         NEW C \in SUBSET Ids, NEW rank \in Ranks[C], Contenders(t) \subseteq C
  PROVE  PaysRight(t, EndGame(t, rank))
<1> DEFINE e == EndGame(t, rank)
<1>1. Best(t, rank, Contenders(t)) # None
  BY BestChosen, IdsAssumption
<1>2. /\ e.wallet = PayShowdownPots(t, rank) /\ e.turn = None
      /\ e.showdown = Best(t, rank, Contenders(t)) /\ e \in TableType
  BY <1>1, EndGameFields, EndGameType
<1> HIDE DEF e
<1>3. ASSUME NEW p \in Ids, e.wallet[p] > t.wallet[p]
      PROVE  HandEnds(t, e) /\ p \in Contenders(t)
  <2>1. e.wallet[p] # t.wallet[p]
    BY <1>3 DEF TableType
  <2> QED
    BY <1>2, <2>1, PayShowdownPotsPays DEF HandEnds, IsRunning
<1>4. WinnerWasDealtIn(t, e)
  BY <1>2, BestDealtIn DEF WinnerWasDealtIn
<1> QED
  BY <1>3, <1>4 DEF PaysRight, e

LEMMA FoldPays ==
  ASSUME NEW t, Sound(t), NEW p \in t.players, NEW rank \in Ranks[Contenders(t)]
  PROVE  PaysRight(t, Fold(t, p, rank))
<1> DEFINE f == Folded(t, p)
           before == t.prev[p]
<1>1. t \in TableType /\ p \in Ids /\ None \notin Ids /\ p \notin {before, t.next[p]}
      /\ before \in Pointer /\ t.next[p] \in Pointer
  BY IdsAssumption DEF Sound, RingLinks, TurnOnRing, Ring, TableType
<1>2. f \in TableType
  BY <1>1, CutFromRingType, MovePointersType DEF Folded
<1>3. /\ f.players = t.players /\ f.wallet = t.wallet /\ f.showdown = t.showdown
      /\ f.folded = [t.folded EXCEPT ![p] = TRUE]
      /\ f.next = NextWithout(t, p)
      /\ f.turn = Replace(t.turn, p, before)
  <2>1. t \in TableType /\ p \in Ids
    BY <1>1
  <2>2. /\ f.players = t.players /\ f.wallet = t.wallet /\ f.showdown = t.showdown
        /\ f.folded = [t.folded EXCEPT ![p] = TRUE]
        /\ f.turn = Replace(t.turn, p, before)
    BY <2>1, FoldedFields
  <2>3. f.next = NextWithout(t, p)
    BY <2>1, FoldedFields DEF NextWithout
  <2> QED
    BY <2>2, <2>3
<1> HIDE DEF f
<1>4. Contenders(f) = Contenders(t) \ {p}
  BY <1>1, <1>3 DEF Contenders, TableType
<1>5. CASE before # None /\ before = t.next[p]
  <2>1. p \in Ring(t) /\ before \in Ring(t) \ {p} /\ t.next[before] = p
    BY <1>1, <1>5 DEF Ring, Sound, RingLinks
  <2>2. Ring(f) = Ring(t) \ {p}
    BY <1>1, <1>3, <1>5, <2>1 DEF Ring, NextWithout
  <2>3. IsRunning(t) /\ IsRunning(f)
    BY <1>3, <1>5, <2>1 DEF IsRunning, Replace, Sound, TurnOnRing
  <2>4. Ring(f) \subseteq Contenders(f) /\ Ring(f) # {}
    BY <1>4, <2>1, <2>2, RingSeated
  <2>5. Contenders(f) \subseteq Contenders(t) /\ Contenders(t) \in SUBSET Ids
    BY <1>1, <1>4, ContendersSubset
  <2>6. PaysRight(f, EndGame(f, rank)) /\ EndGame(f, rank) \in TableType
    BY <1>2, <2>3, <2>4, <2>5, EndGamePays, EndGameType
  <2>7. \A q \in Ids : f.wallet[q] <= t.wallet[q]
    BY <1>1, <1>3 DEF TableType
  <2>8. PaysRight(t, EndGame(f, rank))
    BY <1>1, <1>2, <2>2, <2>3, <2>5, <2>6, <2>7, PaysThen
  <2> QED
    BY <1>1, <1>5, <2>8 DEF Fold, Folded, f
<1>6. CASE ~ (before # None /\ before = t.next[p])
  <2>1. Fold(t, p, rank) = f
    BY <1>1, <1>6 DEF Fold, Folded, f
  <2>2. IsRunning(t) => IsRunning(f)
    <3>1. t.turn = p => before # None
      BY <1>1 DEF Sound, TurnOnRing, RingLinks, IsRunning, Ring
    <3> QED
      BY <1>3, <3>1 DEF IsRunning, Replace
  <2>3. \A q \in Ids : f.wallet[q] <= t.wallet[q]
    BY <1>1, <1>3 DEF TableType
  <2> QED
    BY <1>1, <1>2, <2>1, <2>2, <2>3, SameWalletsPay DEF HandEnds
<1> QED
  BY <1>5, <1>6

\* The fields of a removal that the wallets and the end of a hand depend on.
LEMMA RemoveFields ==
  ASSUME NEW t, Sound(t), t.health = "ok", NEW p \in t.players,
         NEW rank \in Ranks[Contenders(t)], NEW order \in Orders[t.players \ {p}]
  PROVE  LET out == Fold(t, p, rank)
             r   == Remove(t, p, order, rank)
         IN /\ r.players = t.players \ {p}
            /\ \A q \in Ids : r.wallet[q] = IF q = p THEN 0 ELSE out.wallet[q]
            /\ r.turn \in {None, out.turn} /\ r.showdown \in {None, out.showdown}
            /\ r.turn = None => out.turn = None \/ r.showdown = None
<1> DEFINE out   == Fold(t, p, rank)
           head  == IF out.head # p THEN out.head
                    ELSE IF out.nextf[p] = p THEN None ELSE out.nextf[p]
           moved == [out EXCEPT !.head = head]
           left  == Drop(moved, {p})
           r     == Rebuild(left, order)
<1>1. out \in TableType /\ out.health = "ok" /\ out.players = t.players /\ p \in Ids
  BY FoldSound DEF Sound, TableType
<1> HIDE DEF out
<1>2. /\ moved \in TableType /\ moved.wallet = out.wallet /\ moved.players = t.players
      /\ moved.turn = out.turn /\ moved.showdown = out.showdown
  BY <1>1 DEF TableType, Pointer
<1> HIDE DEF moved
<1>3. {p} \in SUBSET Ids
  BY <1>1
<1>4. left \in TableType
  BY <1>2, <1>3, DropType
<1>5. left.players = t.players \ {p}
  BY <1>2 DEF Drop, TableType
<1>6. left.turn = out.turn /\ left.showdown = out.showdown
  BY <1>2, <1>3, DropFields
<1>7. \A q \in Ids : left.wallet[q] = IF q = p THEN 0 ELSE out.wallet[q]
  BY <1>1, <1>2 DEF Drop, TableType
<1> HIDE DEF left
<1>8. /\ r.wallet = left.wallet /\ r.players = left.players
      /\ r.turn \in {None, left.turn} /\ r.showdown \in {None, left.showdown}
      /\ r.turn = None => left.turn = None \/ r.showdown = None
  BY <1>4 DEF Rebuild, TableType
<1>9. Remove(t, p, order, rank) = r
  BY <1>1 DEF Remove, out, moved, left
<1> QED
  BY <1>5, <1>6, <1>7, <1>8, <1>9 DEF out

LEMMA RemovePays ==
  ASSUME NEW t, Sound(t), t.health = "ok", NEW p \in t.players,
         NEW rank \in Ranks[Contenders(t)], NEW order \in Orders[t.players \ {p}]
  PROVE  PaysRight(t, Remove(t, p, order, rank))
<1> DEFINE out == Fold(t, p, rank)
           r   == Remove(t, p, order, rank)
<1>1. t \in TableType /\ out \in TableType /\ r \in TableType
  BY FoldSound, RemoveSound DEF Sound
<1>2. /\ \A q \in Ids : r.wallet[q] = IF q = p THEN 0 ELSE out.wallet[q]
      /\ r.turn \in {None, out.turn} /\ r.showdown \in {None, out.showdown}
      /\ r.turn = None => out.turn = None \/ r.showdown = None
  BY RemoveFields
<1>3. PaysRight(t, out)
  BY FoldPays
<1> HIDE DEF out, r
<1>4. ASSUME NEW q \in Ids, r.wallet[q] > t.wallet[q]
      PROVE  HandEnds(t, r) /\ q \in Contenders(t)
  <2>1. out.wallet[q] > t.wallet[q]
    BY <1>1, <1>2, <1>4 DEF TableType
  <2>2. HandEnds(t, out) /\ q \in Contenders(t)
    BY <1>3, <2>1 DEF PaysRight
  <2> QED
    BY <1>2, <2>2 DEF HandEnds, IsRunning
<1>5. WinnerWasDealtIn(t, r)
  BY <1>2, <1>3 DEF PaysRight, WinnerWasDealtIn, HandEnds, IsRunning
<1> QED
  BY <1>4, <1>5 DEF PaysRight, r

LEMMA AdvanceTurnPays ==
  ASSUME NEW t, Sound(t), t.health = "ok",
         NEW C \in SUBSET Ids, NEW rank \in Ranks[C], Contenders(t) \subseteq C
  PROVE  PaysRight(t, AdvanceTurn(t, rank))
<1> DEFINE u == AdvanceTurn(t, rank)
<1>1. t \in TableType /\ u \in TableType /\ \A p \in Ids : t.wallet[p] <= t.wallet[p]
  BY AdvanceTurnSound DEF Sound, TableType
<1>2. \/ u = t
      \/ SameHand(t, u)
      \/ \E v \in TableType : SameHand(t, v) /\ u = EndGame(v, rank)
  BY AdvanceTurnCases
<1> HIDE DEF u
<1>3. CASE u = t
  BY <1>1, <1>3, SameWalletsPay DEF HandEnds, u
<1>4. CASE SameHand(t, u)
  BY <1>1, <1>4, SameWalletsPay, IdsAssumption DEF SameHand, Ring, HandEnds, IsRunning, u
<1>5. ASSUME NEW v \in TableType, SameHand(t, v), u = EndGame(v, rank)
      PROVE  PaysRight(t, u)
  <2>1. /\ v.wallet = t.wallet /\ Ring(v) = Ring(t) /\ Contenders(v) = Contenders(t)
        /\ v.turn \in Ring(t) /\ v.turn # None
    BY <1>5, IdsAssumption DEF SameHand, Ring, Contenders
  <2>2. Ring(t) \subseteq Contenders(t) /\ IsRunning(t) /\ IsRunning(v)
    BY <2>1, RingSeated DEF IsRunning, Sound, TurnOnRing
  <2>3. PaysRight(v, u)
    BY <1>5, <2>1, <2>2, EndGamePays
  <2> QED
    BY <1>1, <2>1, <2>2, <2>3, PaysThen
<1> QED
  BY <1>2, <1>3, <1>4, <1>5 DEF u

LEMMA ExpireTurnPays ==
  ASSUME NEW t, Sound(t), t.health = "ok", IsRunning(t),
         NEW rank \in Ranks[Contenders(t)], NEW order \in Orders[t.players \ {t.turn}]
  PROVE  PaysRight(t, ExpireTurn(t, order, rank))
<1> DEFINE r == Remove(t, t.turn, order, rank)
<1>1. t.turn \in t.players /\ t \in TableType /\ t.turn \in Ids
  BY RingSeated DEF Sound, TableType
<1>2. Sound(r) /\ r \in TableType /\ PaysRight(t, r)
  BY <1>1, RemoveSound, RemovePays DEF Sound
<1>3. Contenders(r) \subseteq Contenders(t) /\ Contenders(t) \in SUBSET Ids
  BY <1>1, ContendersRemove, ContendersSubset
<1>4. r.turn = None \/ r.next = NextWithout(t, t.turn)
  BY <1>1, RemoveNext
<1> HIDE DEF r
<1>5. CASE r.turn = None \/ r.health # "ok"
  BY <1>2, <1>5 DEF ExpireTurn, AdvanceTurn, r
<1>6. CASE r.turn # None /\ r.health = "ok"
  <2>1. SeatOrder(t, r)
    BY <1>1, <1>4, <1>6, CutInOrder
  <2>2. Ring(r) \subseteq Ring(t)
    BY <2>1 DEF SeatOrder
  <2>3. \A q \in Ids : r.wallet[q] <= t.wallet[q]
    <3>1. \A q \in Ids : ~(r.wallet[q] > t.wallet[q])
      BY <1>2, <1>6 DEF PaysRight, HandEnds, IsRunning
    <3> QED
      BY <1>1, <1>2, <3>1 DEF TableType
  <2>4. PaysRight(r, AdvanceTurn(r, rank)) /\ AdvanceTurn(r, rank) \in TableType
    <3>1. Sound(AdvanceTurn(r, rank))
      BY <1>2, <1>3, <1>6, AdvanceTurnSound
    <3> QED
      BY <1>2, <1>3, <1>6, <3>1, AdvanceTurnPays DEF Sound
  <2>5. PaysRight(t, AdvanceTurn(r, rank))
    BY <1>1, <1>2, <1>3, <1>6, <2>2, <2>3, <2>4, PaysThen DEF IsRunning
  <2> QED
    BY <1>6, <2>5 DEF ExpireTurn, r
<1> QED
  BY <1>5, <1>6

\* Whoever pays the blind or an ante has the chips, and is at the table.
LEMMA StartGameWallets ==
  ASSUME NEW t, Sound(t), t.players # {}, NEW order \in Orders[t.players]
  PROVE  LET d == StartGame(t, order)
         IN /\ \A p \in Ids : d.wallet[p] <= t.wallet[p]
            /\ \A p \in Ids \ t.players : d.pbet[p] = t.pbet[p]
<1> DEFINE s       == Rebuild(t, order)
           dealt   == [s EXCEPT !.showdown = None, !.confirmed = {},
                                !.folded = [p \in Ids |-> p \notin s.players],
                                !.next = s.nextf, !.prev = s.prevf, !.bet = 0, !.pot = 0,
                                !.round = 0]
           blinded == Raise(dealt, s.blind, BlindBet)
           turned(p) == [blinded EXCEPT !.turn = p]
           last == IF IsAnte THEN Ante(turned(s.blind)) ELSE turned(s.nextf[s.blind])
           Paid(u, v) == /\ v \in TableType /\ v.players = u.players
                         /\ \A p \in Ids : v.wallet[p] <= u.wallet[p]
                         /\ \A p \in Ids \ u.players : v.pbet[p] = u.pbet[p]
<1>1. \A u \in TableType : \A p \in Ids : u.wallet[p] \in Nat /\ u.pbet[p] \in Nat
  BY DEF TableType
<1>2. /\ t \in TableType
      /\ s \in TableType /\ s.wallet = t.wallet /\ s.pbet = t.pbet /\ s.players = t.players
      /\ s.blind \in t.players /\ s.blind \in Ids
  <2>1. t \in TableType /\ t.players \subseteq Ids
    BY DEF Sound, TableType
  <2> QED
    BY <2>1, RebuildType, RebuildFields
<1>3. StartGame(t, order) = MarkTurnStarted(last)
  BY Zenon DEF StartGame, Deal, last, turned, blinded, dealt, s
<1> HIDE DEF s
<1>4. /\ dealt \in TableType /\ dealt.players = t.players
      /\ dealt.wallet = t.wallet /\ dealt.pbet = t.pbet
  BY <1>2 DEF TableType, Pointer
<1> HIDE DEF dealt
<1>5. Paid(dealt, blinded)
  <2>1. blinded \in TableType
    BY <1>2, <1>4, RaiseType, NumberAssumption
  <2>2. blinded.players = dealt.players
    BY <1>2, <1>4 DEF Raise, TableType
  <2>3. \A p \in Ids : blinded.wallet[p] <= dealt.wallet[p]
    BY <1>1, <1>2, <1>4, NumberAssumption DEF Raise, TableType
  <2>4. \A p \in Ids \ dealt.players : blinded.pbet[p] = dealt.pbet[p]
    BY <1>2, <1>4 DEF Raise, TableType
  <2> QED
    BY <2>1, <2>2, <2>3, <2>4
<1> HIDE DEF blinded
<1>6. s.nextf[s.blind] \in Pointer /\ s.blind \in Pointer
  BY <1>2 DEF TableType, Pointer
<1>7. \A p \in Pointer : /\ turned(p) \in TableType /\ turned(p).players = blinded.players
                         /\ turned(p).wallet = blinded.wallet /\ turned(p).pbet = blinded.pbet
  BY <1>5 DEF TableType
<1> HIDE DEF turned
<1>8. ASSUME NEW u \in TableType
      PROVE  Paid(u, Ante(u))
  <2>1. \A p \in Ids : Owed(u, p) \in Nat /\ u.wallet[p] \in Nat
    BY OwedType DEF TableType
  <2>2. \A p \in Ids : Ante(u).wallet[p] <= u.wallet[p]
    BY <2>1 DEF Ante, TableType
  <2>3. \A p \in Ids \ u.players : Ante(u).pbet[p] = u.pbet[p]
    BY DEF Ante, TableType
  <2> QED
    BY <2>2, <2>3, AnteType, AnteFields
<1>9. \A u \in TableType : Paid(u, u)
  BY <1>1
<1>10. /\ last \in TableType /\ last.players = t.players
       /\ \A p \in Ids : last.wallet[p] <= blinded.wallet[p]
       /\ \A p \in Ids \ t.players : last.pbet[p] = blinded.pbet[p]
  <2> HIDE DEF Paid
  <2>1. \E p \in Pointer : Paid(turned(p), last)
    BY <1>6, <1>7, <1>8, <1>9
  <2> QED
    BY <1>4, <1>5, <1>7, <2>1 DEF Paid
<1> HIDE DEF last
<1>11. /\ MarkTurnStarted(last).wallet = last.wallet
       /\ MarkTurnStarted(last).pbet = last.pbet
  BY <1>10 DEF MarkTurnStarted, TableType
<1>12. ASSUME NEW p \in Ids
       PROVE  last.wallet[p] <= t.wallet[p]
  BY <1>1, <1>2, <1>4, <1>5, <1>10
<1> QED
  BY <1>3, <1>4, <1>5, <1>10, <1>11, <1>12

LEMMA RemoveUnconfirmedWallets ==
  ASSUME NEW t \in TableType, NEW order \in Orders[t.confirmed \cap t.players]
  PROVE  /\ \A p \in Ids : RemoveUnconfirmed(t, order).wallet[p] <= t.wallet[p]
         /\ RemoveUnconfirmed(t, order).players \subseteq t.players
<1> DEFINE out == t.players \ t.confirmed
           Clear(pointer) == IF pointer \in out THEN None ELSE pointer
           cleared == [t EXCEPT !.head = Clear(@), !.bettor = Clear(@), !.blind = Clear(@),
                                !.clock = "off"]
           left == Drop(cleared, out)
<1>1. Clear(t.head) \in Pointer /\ Clear(t.bettor) \in Pointer /\ Clear(t.blind) \in Pointer
  BY DEF TableType, Pointer
<1>2. t.wallet \in [Ids -> Nat] /\ out \in SUBSET Ids
  BY DEF TableType
<1>3. RemoveUnconfirmed(t, order) \in {t, Rebuild(left, order)}
  BY Zenon DEF RemoveUnconfirmed, left, cleared, out, Clear
<1> HIDE DEF out, Clear
<1>4. cleared \in TableType /\ cleared.wallet = t.wallet /\ cleared.players = t.players
  BY <1>1 DEF TableType
<1> HIDE DEF cleared
<1>5. left \in TableType
  BY <1>2, <1>4, DropType
<1>6. /\ \A p \in Ids : left.wallet[p] <= t.wallet[p]
      /\ left.players \subseteq t.players
  BY <1>2, <1>4 DEF Drop, TableType
<1> HIDE DEF left
<1>7. /\ Rebuild(left, order).wallet = left.wallet
      /\ Rebuild(left, order).players = left.players
  BY <1>5 DEF Rebuild, TableType
<1>8. \A p \in Ids : t.wallet[p] <= t.wallet[p]
  BY <1>2
<1> QED
  BY <1>3, <1>6, <1>7, <1>8

-----------------------------------------------------------------------------
(***************************************************************************)
(* Where the chips of a table go.  A bet moves them from a wallet to the   *)
(* pot, a showdown pays at most what the pot and the bets are, and a       *)
(* player who leaves takes their wallet and nothing else.  The lemmas hold *)
(* for any bets, of players who left or folded too.                        *)
(***************************************************************************)

LEMMA MaxOfTwo ==
  ASSUME NEW m \in Int, NEW n \in Int
  PROVE  Max({m, n}) = IF m >= n THEN m ELSE n
<1>1. \E x \in {m, n} : \A y \in {m, n} : x >= y
  OBVIOUS
<1>2. Max({m, n}) \in {m, n} /\ \A y \in {m, n} : Max({m, n}) >= y
  BY <1>1 DEF Max
<1> QED
  BY <1>2

\* What a difference of numbers below the modulus wraps around to.
LEMMA SmallRemainder ==
  ASSUME NEW w \in Nat \ {0}, NEW d \in Int, -w < d, d < w
  PROVE  d % w = IF d >= 0 THEN d ELSE d + w
<1>1. CASE d >= 0
  BY <1>1
<1>2. CASE d < 0
  BY <1>2
<1> QED
  BY <1>1, <1>2

LEMMA ChipsType ==
  ASSUME NEW t \in TableType
  PROVE  /\ IsFiniteSet(t.players) /\ t.pot \in Nat /\ Bets(t) \in Nat
         /\ \A S \in SUBSET Ids : Wallets(t, S) \in Nat
         /\ Chips(t) = Wallets(t, t.players) + IF t.pot >= Bets(t) THEN t.pot ELSE Bets(t)
         /\ Chips(t) \in Nat
<1>1. /\ IsFiniteSet(t.players) /\ \A S \in SUBSET Ids : IsFiniteSet(S)
      /\ t.players \in SUBSET Ids /\ t.pot \in Nat
      /\ \A p \in Ids : t.wallet[p] \in Nat /\ t.pbet[p] \in Nat
  BY ContendersSubset DEF TableType
<1>2. Bets(t) \in Nat /\ \A S \in SUBSET Ids : Wallets(t, S) \in Nat
  BY <1>1, SumType DEF Bets, Wallets
<1> QED
  BY <1>1, <1>2, MaxOfTwo DEF Chips

-----------------------------------------------------------------------------
(* The pots of all levels are all the bets.                                 *)

\* The pots of the levels up to one are what everybody bet up to there.
LEMMA PotsUpTo ==
  ASSUME NEW t \in TableType, NEW level \in Levels(t) \cup {0}
  PROVE  Pots(t, {l \in Levels(t) : l <= level})
           = SumFunctionOnSet([p \in t.players |-> IF t.pbet[p] <= level THEN t.pbet[p]
                                                                         ELSE level], t.players)
<1> DEFINE UpTo(n) == {l \in Levels(t) : l <= n}
           Put(n)  == [p \in t.players |-> IF t.pbet[p] <= n THEN t.pbet[p] ELSE n]
           Good(n) == Pots(t, UpTo(n)) = SumFunctionOnSet(Put(n), t.players)
           Bad     == {l \in Levels(t) : ~Good(l)}
           pot     == [l \in Levels(t) |-> LevelPot(t, l)]
<1>1. /\ Levels(t) \in SUBSET Nat /\ 0 \notin Levels(t)
      /\ \A S \in SUBSET Levels(t) : IsFiniteSet(S)
      /\ \A l \in Levels(t) : pot[l] \in Nat
  BY LevelsFinite, LevelPotType DEF Levels
<1>2. /\ IsFiniteSet(t.players) /\ \A p \in t.players : t.pbet[p] \in Levels(t) \cup {0}
      /\ \A p \in t.players : t.pbet[p] \in Nat
      /\ \A S \in SUBSET t.players : IsFiniteSet(S) /\ Cardinality(S) \in Nat
  BY ContendersSubset DEF TableType, Levels
<1>3. Good(0)
  <2>1. UpTo(0) = {}
    BY <1>1
  <2>2. \A p \in t.players : Put(0)[p] = 0
    BY <1>2
  <2>3. SumFunctionOnSet(Put(0), t.players) = 0 * Cardinality(t.players)
    <3> HIDE DEF Put
    <3> QED
      BY <1>2, <2>2, SumConstant
  <2>4. Pots(t, {}) = 0
    BY SumEmpty DEF Pots
  <2>5. 0 * Cardinality(t.players) = 0
    BY <1>2
  <2> HIDE DEF Put, UpTo
  <2> QED
    BY <2>1, <2>3, <2>4, <2>5
<1>4. Bad = {}
  <2> SUFFICES ASSUME Bad # {}
               PROVE  FALSE
    OBVIOUS
  <2>1. PICK l \in Bad : \A k \in Bad : l <= k
    <3>1. Bad \subseteq Nat
      BY <1>1
    <3> HIDE DEF Bad
    <3> QED
      BY <3>1, Least, Zenon
  <2> DEFINE below == Max({0} \cup {k \in Levels(t) : k < l})
             more  == [p \in t.players |-> IF t.pbet[p] >= l THEN l - below ELSE 0]
             Full  == {p \in t.players : t.pbet[p] >= l}
  <2>2. l \in Levels(t) /\ l \in Nat /\ ~Good(l)
    BY <1>1, <2>1
  <2>3. /\ below \in {0} \cup {k \in Levels(t) : k < l}
        /\ \A k \in {0} \cup {k \in Levels(t) : k < l} : k <= below
    BY <2>2, LevelBelow
  <2>4. LevelPot(t, l) = (l - below) * Cardinality(Full)
    BY DEF LevelPot
  <2> HIDE DEF below
  <2>5. below \in Nat /\ below < l /\ l - below \in Nat
    BY <1>1, <2>2, <2>3
  <2>6. Good(below)
    <3>1. below \notin Bad
      BY <1>1, <2>1, <2>5
    <3> QED
      BY <1>3, <2>3, <3>1
  <2>7. Pots(t, UpTo(l)) = LevelPot(t, l) + Pots(t, UpTo(below))
    <3>1. UpTo(l) \ {l} = UpTo(below) /\ l \in UpTo(l) /\ UpTo(l) \in SUBSET Levels(t)
      BY <1>1, <2>2, <2>3, <2>5
    <3>2. pot[l] = LevelPot(t, l) /\ \A k \in UpTo(l) : pot[k] \in Nat
      BY <1>1, <2>2
    <3> HIDE DEF pot, UpTo
    <3>3. SumFunctionOnSet(pot, UpTo(l)) = pot[l] + SumFunctionOnSet(pot, UpTo(l) \ {l})
      BY <1>1, <3>1, <3>2, SumRemove
    <3> QED
      BY <3>1, <3>2, <3>3 DEF Pots, pot
  <2>8. SumFunctionOnSet(more, t.players) = LevelPot(t, l)
    <3>1. /\ Full \in SUBSET t.players
          /\ \A p \in Full : more[p] = l - below
          /\ \A p \in t.players \ Full : more[p] = 0
          /\ \A p \in t.players : more[p] \in Nat
      BY <2>5
    <3> HIDE DEF Full, more
    <3>2. SumFunctionOnSet(more, t.players)
            = SumFunctionOnSet(more, Full) + SumFunctionOnSet(more, t.players \ Full)
      BY <1>2, <3>1, SumUnion
    <3>3. SumFunctionOnSet(more, Full) = (l - below) * Cardinality(Full)
      BY <1>2, <2>5, <3>1, SumConstant
    <3>4. SumFunctionOnSet(more, t.players \ Full) = 0 * Cardinality(t.players \ Full)
      BY <1>2, <3>1, SumConstant
    <3>5. SumFunctionOnSet(more, t.players \ Full) = 0 /\ SumFunctionOnSet(more, Full) \in Nat
      BY <1>2, <3>1, <3>4, SumType
    <3> QED
      BY <2>4, <3>2, <3>3, <3>5
  <2>9. SumFunctionOnSet(Put(l), t.players)
          = SumFunctionOnSet(Put(below), t.players) + SumFunctionOnSet(more, t.players)
    <3>1. \A p \in t.players : t.pbet[p] < l => t.pbet[p] <= below
      BY <1>2, <2>3
    <3>2. \A p \in t.players : /\ Put(below)[p] \in Nat /\ more[p] \in Nat
                               /\ Put(l)[p] = Put(below)[p] + more[p]
      BY <1>2, <2>2, <2>5, <3>1
    <3> HIDE DEF Put, more
    <3> QED
      BY <1>2, <3>2, SumAdd
  <2>10. LevelPot(t, l) \in Nat /\ Pots(t, UpTo(below)) \in Nat
    BY <2>2, LevelPotType, PotsType
  <2> QED
    BY <2>2, <2>6, <2>7, <2>8, <2>9, <2>10
<1>5. Good(level)
  BY <1>3, <1>4
<1> QED
  BY <1>5

LEMMA PotsAreBets ==
  ASSUME NEW t \in TableType
  PROVE  Pots(t, Levels(t)) = Bets(t)
<1> DEFINE Put(n) == [p \in t.players |-> IF t.pbet[p] <= n THEN t.pbet[p] ELSE n]
<1>1. /\ IsFiniteSet(t.players) /\ Levels(t) \in SUBSET Nat
      /\ \A p \in t.players : t.pbet[p] \in Levels(t) \cup {0} /\ t.pbet[p] \in Nat
  BY ContendersSubset, LevelsFinite DEF TableType, Levels
<1>2. \E n \in Levels(t) \cup {0} : \A l \in Levels(t) \cup {0} : l <= n
  <2>1. CASE Levels(t) = {}
    BY <2>1
  <2>2. CASE Levels(t) # {}
    <3>1. \E n \in Levels(t) : \A l \in Levels(t) : l <= n
      BY <1>1, <2>2, LevelsFinite, GreatestOf
    <3> QED
      BY <1>1, <3>1
  <2> QED
    BY <2>1, <2>2
<1>3. PICK n \in Levels(t) \cup {0} : \A l \in Levels(t) \cup {0} : l <= n
  BY <1>2
<1>4. {l \in Levels(t) : l <= n} = Levels(t) /\ \A p \in t.players : Put(n)[p] = t.pbet[p]
  BY <1>1, <1>3
<1>5. SumFunctionOnSet(Put(n), t.players) = Bets(t)
  <2> HIDE DEF Put
  <2> QED
    BY <1>1, <1>4, SumSame DEF Bets
<1> QED
  BY <1>4, <1>5, PotsUpTo

-----------------------------------------------------------------------------
(* The showdown.                                                            *)

\* What the levels and the fallback get is what they leave of pot and bets.
LEMMA PaidOut ==
  ASSUME NEW t \in TableType, NEW C \in SUBSET Ids, NEW rank \in Ranks[C],
         Contenders(t) \subseteq C, Contenders(t) # {}
  PROVE  \E paid \in Nat :
           /\ paid <= Bets(t)
           /\ SumFunctionOnSet(PayShowdownPots(t, rank), t.players)
                = Wallets(t, t.players) + IF paid < t.pot THEN t.pot ELSE paid
<1> DEFINE lost   == LevelsWon(t, rank, None)
           won    == [p \in Ids |-> Pots(t, LevelsWon(t, rank, p))]
           paid   == Pots(t, Levels(t) \ lost)
           rest   == IF paid < t.pot THEN t.pot - paid ELSE 0
           best   == Best(t, rank, Contenders(t))
           extra  == [p \in Ids |-> IF p = best THEN rest ELSE 0]
           both   == [p \in Ids |-> won[p] + extra[p]]
           pays   == PayShowdownPots(t, rank)
           Sum(f) == SumFunctionOnSet(f, t.players)
<1>1. /\ IsFiniteSet(t.players) /\ t.players \subseteq Ids /\ t.pot \in Nat
      /\ Contenders(t) \subseteq t.players
      /\ \A p \in Ids : t.wallet[p] \in Nat
      /\ \A S \in SUBSET Ids : IsFiniteSet(S)
  BY ContendersSubset DEF TableType
<1>2. best \in t.players
  BY <1>1, BestChosen
<1>3. \A p : LevelsWon(t, rank, p) \in SUBSET Levels(t) /\ Pots(t, LevelsWon(t, rank, p)) \in Nat
  <2>1. \A p : LevelsWon(t, rank, p) \in SUBSET Levels(t)
    BY DEF LevelsWon
  <2> QED
    BY <2>1, PotsType
<1>4. paid \in Nat /\ rest \in Nat /\ paid + rest = IF paid < t.pot THEN t.pot ELSE paid
  <2>1. paid \in Nat
    BY PotsType
  <2> HIDE DEF paid
  <2> QED
    BY <1>1, <2>1
<1>5. paid <= Bets(t)
  <2> DEFINE f == [l \in Levels(t) |-> LevelPot(t, l)]
  <2>1. IsFiniteSet(Levels(t)) /\ lost \in SUBSET Levels(t) /\ \A l \in Levels(t) : f[l] \in Nat
    BY <1>3, LevelsFinite, LevelPotType
  <2> HIDE DEF f, lost
  <2>2. Pots(t, Levels(t)) = Pots(t, lost) + Pots(t, Levels(t) \ lost)
    BY <2>1, SumUnion DEF Pots, f
  <2>3. Pots(t, lost) \in Nat /\ Bets(t) \in Nat
    BY <2>1, PotsType, ChipsType
  <2> QED
    BY <1>4, <2>2, <2>3, PotsAreBets DEF paid
<1>6. Sum(won) = paid
  <2> DEFINE f      == [l \in Levels(t) |-> LevelPot(t, l)]
             levels == Levels(t) \ lost
             part   == [p \in Ids |-> LevelsWon(t, rank, p)]
  <2>1. IsFiniteSet(levels) /\ \A l \in levels : f[l] \in Nat
    BY LevelsFinite, LevelPotType
  <2>2. \A l \in Levels(t) : LevelWinner(t, rank, l) \in t.players \cup {None}
    BY <1>1 DEF LevelWinner, Best
  <2>3. None \notin t.players
    BY <1>1, IdsAssumption
  <2>4. /\ \A p \in t.players : part[p] \in SUBSET levels
        /\ \A p, q \in t.players : p # q => part[p] \cap part[q] = {}
        /\ \A l \in levels : \E p \in t.players : l \in part[p]
    BY <1>1, <2>2, <2>3 DEF LevelsWon
  <2>5. \A p \in t.players : won[p] = SumFunctionOnSet(f, part[p])
    BY <1>1 DEF Pots
  <2> HIDE DEF f, part, won, levels
  <2>6. SumFunctionOnSet(won, t.players) = SumFunctionOnSet(f, levels)
    BY <1>1, <2>1, <2>4, <2>5, SumParts
  <2> QED
    BY <2>6 DEF Pots, f, levels
<1>7. Sum(extra) = rest
  <2>1. /\ \A p \in t.players \ {best} : extra[p] = 0
        /\ extra[best] = rest /\ \A p \in t.players : extra[p] \in Nat
    BY <1>1, <1>2, <1>4
  <2>2. IsFiniteSet(t.players \ {best}) /\ Cardinality(t.players \ {best}) \in Nat
    BY <1>1, FS_Subset, FS_CardinalityType
  <2> HIDE DEF extra, best, rest
  <2>3. Sum(extra) = extra[best] + SumFunctionOnSet(extra, t.players \ {best})
    BY <1>1, <1>2, <2>1, SumRemove
  <2>4. SumFunctionOnSet(extra, t.players \ {best}) = 0 * Cardinality(t.players \ {best})
    BY <2>1, <2>2, SumConstant
  <2>5. 0 * Cardinality(t.players \ {best}) = 0
    BY <2>2
  <2> QED
    BY <1>4, <2>1, <2>3, <2>4, <2>5
<1>8. \A p \in t.players : won[p] \in Nat /\ extra[p] \in Nat /\ both[p] \in Nat
                           /\ both[p] = won[p] + extra[p]
                           /\ pays[p] = t.wallet[p] + both[p]
  <2>1. \A p \in Ids : won[p] \in Nat /\ extra[p] \in Nat
    BY <1>3, <1>4
  <2>2. \A p \in Ids : pays[p] = t.wallet[p] + won[p] + extra[p]
    BY Zenon DEF PayShowdownPots, pays, won, extra, rest, paid, lost, best
  <2> HIDE DEF won, extra, pays
  <2> QED
    BY <1>1, <2>1, <2>2
<1> HIDE DEF won, extra, both, pays
<1>9. Sum(both) = Sum(won) + Sum(extra)
  BY <1>1, <1>8, SumAdd
<1>10. Sum(pays) = Sum(t.wallet) + Sum(both)
  BY <1>1, <1>8, SumAdd
<1> HIDE DEF paid, rest, Sum
<1>11. Sum(pays) = Sum(t.wallet) + IF paid < t.pot THEN t.pot ELSE paid
  BY <1>4, <1>6, <1>7, <1>9, <1>10
<1> QED
  BY <1>4, <1>5, <1>11 DEF Sum, pays, Wallets

\* A showdown pays no more than there is, and all there is if the pot covers
\* the bets.
LEMMA EndGameChips ==
  ASSUME NEW t \in TableType, NEW C \in SUBSET Ids, NEW rank \in Ranks[C],
         Contenders(t) \subseteq C
  PROVE  LET e == EndGame(t, rank)
         IN /\ e.players = t.players /\ Chips(e) <= Chips(t)
            /\ Bets(t) <= t.pot => Bets(e) <= e.pot /\ Chips(e) = Chips(t)
<1> DEFINE e == EndGame(t, rank)
<1>1. CASE Contenders(t) = {}
  <2>1. Best(t, rank, Contenders(t)) = None
    BY <1>1 DEF Best
  <2> QED
    BY <2>1, ChipsType DEF EndGame
<1>2. CASE Contenders(t) # {}
  <2>1. Best(t, rank, Contenders(t)) # None
    BY <1>2, BestChosen, IdsAssumption
  <2>2. /\ e.players = t.players /\ e.wallet = PayShowdownPots(t, rank)
        /\ e.pbet = [p \in Ids |-> 0] /\ e.pot = 0 /\ e \in TableType
    BY <2>1, EndGameFields, EndGameType
  <2> HIDE DEF e
  <2>3. Bets(e) = 0 * Cardinality(e.players) /\ Cardinality(e.players) \in Nat
    <3>1. \A p \in e.players : e.pbet[p] = 0
      BY <2>2 DEF TableType
    <3>2. IsFiniteSet(e.players)
      BY <2>2, ChipsType
    <3> QED
      BY <3>1, <3>2, SumConstant, FS_CardinalityType DEF Bets
  <2>4. Bets(e) = 0
    BY <2>3
  <2>5. Chips(e) = Wallets(e, e.players) /\ Wallets(e, e.players) \in Nat
    <3>1. e.players \in SUBSET Ids
      BY <2>2 DEF TableType
    <3> QED
      BY <2>2, <2>4, <3>1, ChipsType
  <2>6. PICK paid \in Nat :
          /\ paid <= Bets(t)
          /\ Wallets(e, e.players) = Wallets(t, t.players) + IF paid < t.pot THEN t.pot ELSE paid
    BY <1>2, <2>2, PaidOut DEF Wallets
  <2>7. t.players \in SUBSET Ids
    BY DEF TableType
  <2>8. /\ t.pot \in Nat /\ Bets(t) \in Nat /\ Wallets(t, t.players) \in Nat
        /\ Chips(t) = Wallets(t, t.players) + IF t.pot >= Bets(t) THEN t.pot ELSE Bets(t)
    BY <2>7, ChipsType
  <2> QED
    BY <2>2, <2>4, <2>5, <2>6, <2>8 DEF e
<1> QED
  BY <1>1, <1>2

-----------------------------------------------------------------------------
(* Bets.                                                                    *)

\* Chips went from wallets of seated players into their bets and the pot.
BetsMade(t, u) ==
  /\ u \in TableType /\ u.players = t.players
  /\ \E n \in Nat : /\ Wallets(t, t.players) = Wallets(u, t.players) + n
                    /\ Bets(u) = Bets(t) + n
                    /\ u.pot = t.pot + n
  /\ \A p \in Ids \ t.players : u.wallet[p] = t.wallet[p] /\ u.pbet[p] = t.pbet[p]

LEMMA SameBetsMade ==
  ASSUME NEW t \in TableType, NEW u \in TableType, u.players = t.players,
         u.wallet = t.wallet, u.pbet = t.pbet, u.pot = t.pot
  PROVE  BetsMade(t, u)
<1>1. /\ Wallets(t, t.players) = Wallets(u, t.players) /\ Bets(u) = Bets(t)
      /\ Wallets(t, t.players) \in Nat /\ Bets(t) \in Nat /\ t.pot \in Nat
      /\ t.players \in SUBSET Ids
  BY ChipsType DEF Wallets, Bets, TableType
<1>2. 0 \in Nat /\ \A n \in Nat : n = n + 0
  OBVIOUS
<1> QED
  BY <1>1, <1>2 DEF BetsMade

LEMMA BetsMadeThen ==
  ASSUME NEW t \in TableType, NEW u, NEW v, BetsMade(t, u), BetsMade(u, v)
  PROVE  BetsMade(t, v)
<1>1. PICK n \in Nat : /\ Wallets(t, t.players) = Wallets(u, t.players) + n
                       /\ Bets(u) = Bets(t) + n /\ u.pot = t.pot + n
  BY DEF BetsMade
<1>2. PICK m \in Nat : /\ Wallets(u, u.players) = Wallets(v, u.players) + m
                       /\ Bets(v) = Bets(u) + m /\ v.pot = u.pot + m
  BY DEF BetsMade
<1>3. /\ u.players = t.players /\ v.players = t.players
      /\ u \in TableType /\ v \in TableType /\ t.players \in SUBSET Ids
      /\ \A p \in Ids \ t.players : v.wallet[p] = t.wallet[p] /\ v.pbet[p] = t.pbet[p]
  BY DEF BetsMade, TableType
<1>4. Wallets(v, t.players) \in Nat /\ Bets(t) \in Nat /\ t.pot \in Nat
  BY <1>3, ChipsType
<1>5. /\ n + m \in Nat /\ Wallets(t, t.players) = Wallets(v, t.players) + (n + m)
      /\ Bets(v) = Bets(t) + (n + m) /\ v.pot = t.pot + (n + m)
  BY <1>1, <1>2, <1>3, <1>4
<1> QED
  BY <1>3, <1>5 DEF BetsMade

LEMMA BetsMadeChips ==
  ASSUME NEW t \in TableType, NEW u, BetsMade(t, u)
  PROVE  /\ u.players = t.players /\ Chips(u) = Chips(t)
         /\ Bets(t) <= t.pot <=> Bets(u) <= u.pot
<1>1. PICK n \in Nat : /\ Wallets(t, t.players) = Wallets(u, t.players) + n
                       /\ Bets(u) = Bets(t) + n /\ u.pot = t.pot + n
  BY DEF BetsMade
<1>2. u.players = t.players /\ u \in TableType /\ t.players \in SUBSET Ids
  BY DEF BetsMade, TableType
<1>3. /\ Wallets(u, t.players) \in Nat /\ Bets(t) \in Nat /\ t.pot \in Nat
      /\ Chips(t) = Wallets(t, t.players) + IF t.pot >= Bets(t) THEN t.pot ELSE Bets(t)
      /\ Chips(u) = Wallets(u, t.players) + IF u.pot >= Bets(u) THEN u.pot ELSE Bets(u)
  BY <1>2, ChipsType
<1> QED
  BY <1>1, <1>2, <1>3

\* One player's bet.
LEMMA OneBetMade ==
  ASSUME NEW t \in TableType, NEW u \in TableType, u.players = t.players,
         NEW p \in t.players, NEW n \in Nat,
         t.wallet[p] = u.wallet[p] + n, u.pbet[p] = t.pbet[p] + n, u.pot = t.pot + n,
         \A q \in Ids \ {p} : u.wallet[q] = t.wallet[q] /\ u.pbet[q] = t.pbet[q]
  PROVE  BetsMade(t, u)
<1>1. /\ IsFiniteSet(t.players) /\ t.players \in SUBSET Ids
      /\ \A q \in Ids : /\ t.wallet[q] \in Nat /\ t.pbet[q] \in Nat
                        /\ u.wallet[q] \in Nat /\ u.pbet[q] \in Nat
  BY ContendersSubset DEF TableType
<1> DEFINE rest   == t.players \ {p}
           Sum(f) == SumFunctionOnSet(f, rest)
<1>2. IsFiniteSet(rest) /\ rest \in SUBSET Ids
  BY <1>1, FS_Subset
<1>3. /\ Wallets(t, t.players) = t.wallet[p] + Sum(t.wallet)
      /\ Wallets(u, t.players) = u.wallet[p] + Sum(u.wallet)
      /\ Bets(t) = t.pbet[p] + Sum(t.pbet) /\ Bets(u) = u.pbet[p] + Sum(u.pbet)
  BY <1>1, SumRemove DEF Wallets, Bets
<1>4. \A q \in rest : /\ t.wallet[q] \in Nat /\ u.wallet[q] = t.wallet[q]
                      /\ t.pbet[q] \in Nat /\ u.pbet[q] = t.pbet[q]
  BY <1>1
<1> HIDE DEF rest
<1>5. Sum(u.wallet) = Sum(t.wallet) /\ Sum(u.pbet) = Sum(t.pbet)
  BY <1>2, <1>4, SumSame
<1>6. Sum(t.wallet) \in Nat /\ Sum(t.pbet) \in Nat
  BY <1>2, <1>4, SumType
<1> HIDE DEF Sum
<1>7. Wallets(t, t.players) = Wallets(u, t.players) + n /\ Bets(u) = Bets(t) + n
  BY <1>1, <1>3, <1>5, <1>6
<1> QED
  BY <1>1, <1>7 DEF BetsMade

\* What is small enough never to wrap around: no more than max chips are at the
\* table, and nobody owes more; who is not at the table has nothing on it.
Within(t, max) ==
  /\ Chips(t) <= max /\ t.bet <= max
  /\ \A p \in Ids \ t.players : t.wallet[p] = 0 /\ t.pbet[p] = 0

LEMMA WithinAtFirst ==
  ASSUME NEW t, t = NewTable, NEW max \in Nat
  PROVE  Within(t, max)
<1>1. t \in TableType
  BY NewTableType
<1>2. /\ t.players = {} /\ t.pot = 0 /\ t.bet = 0
      /\ \A p \in Ids : t.wallet[p] = 0 /\ t.pbet[p] = 0
  BY DEF NewTable
<1>3. Wallets(t, t.players) = 0 /\ Bets(t) = 0
  BY <1>2, SumEmpty DEF Wallets, Bets
<1>4. Chips(t) = 0
  <2>1. Chips(t) = Wallets(t, t.players) + IF t.pot >= Bets(t) THEN t.pot ELSE Bets(t)
    BY <1>1, ChipsType
  <2> QED
    BY <1>2, <1>3, <2>1
<1> QED
  BY <1>2, <1>4 DEF Within

LEMMA PlayerWithin ==
  ASSUME NEW t \in TableType, NEW max \in Nat, Within(t, max), NEW p \in t.players
  PROVE  t.wallet[p] + t.pbet[p] <= max
<1>1. /\ IsFiniteSet(t.players) /\ t.players \in SUBSET Ids
      /\ \A q \in t.players : t.wallet[q] \in Nat /\ t.pbet[q] \in Nat
  BY ContendersSubset DEF TableType
<1>2. /\ IsFiniteSet(t.players \ {p})
      /\ Wallets(t, t.players) = t.wallet[p] + Wallets(t, t.players \ {p})
      /\ Bets(t) = t.pbet[p] + SumFunctionOnSet(t.pbet, t.players \ {p})
  BY <1>1, FS_Subset, SumRemove DEF Wallets, Bets
<1>3. Wallets(t, t.players \ {p}) \in Nat /\ SumFunctionOnSet(t.pbet, t.players \ {p}) \in Nat
  BY <1>1, <1>2, SumType DEF Wallets
<1>4. /\ t.pot \in Nat /\ Bets(t) \in Nat
      /\ Chips(t) = Wallets(t, t.players) + IF t.pot >= Bets(t) THEN t.pot ELSE Bets(t)
  BY ChipsType
<1> QED
  BY <1>1, <1>2, <1>3, <1>4 DEF Within

\* self.bet - player.bet may wrap around, but then the player cannot pay it.
LEMMA OwedWithin ==
  ASSUME NEW t \in TableType, NEW max \in Nat, max < WordSize, Within(t, max),
         NEW p \in t.players, Owed(t, p) <= t.wallet[p]
  PROVE  t.pbet[p] + Owed(t, p) = t.bet
<1>1. /\ t.bet \in Nat /\ t.pbet[p] \in Nat /\ t.wallet[p] \in Nat
      /\ WordSize \in Nat \ {0}
  BY NumberAssumption DEF TableType
<1>2. t.wallet[p] + t.pbet[p] <= max /\ t.bet <= max
  BY PlayerWithin DEF Within
<1>3. CASE t.pbet[p] <= t.bet
  <2>1. t.bet - t.pbet[p] \in Nat /\ t.bet - t.pbet[p] < WordSize
    BY <1>1, <1>2, <1>3
  <2>2. (t.bet - t.pbet[p]) % WordSize = t.bet - t.pbet[p]
    BY <1>1, <2>1, SmallRemainder
  <2> QED
    BY <1>1, <2>2 DEF Owed
<1>4. CASE t.bet < t.pbet[p]
  <2>1. t.bet - t.pbet[p] \in Int /\ -WordSize < t.bet - t.pbet[p] /\ t.bet - t.pbet[p] < 0
    BY <1>1, <1>2, <1>4
  <2>2. (t.bet - t.pbet[p]) % WordSize = (t.bet - t.pbet[p]) + WordSize
    BY <1>1, <2>1, SmallRemainder
  <2> QED
    BY <1>1, <1>2, <2>2 DEF Owed
<1> QED
  BY <1>1, <1>3, <1>4

LEMMA BetsMadeWithin ==
  ASSUME NEW t \in TableType, NEW u, BetsMade(t, u), NEW max \in Nat, Within(t, max),
         u.bet <= max
  PROVE  Within(u, max)
<1>1. u.players = t.players /\ Chips(u) = Chips(t)
  BY BetsMadeChips
<1> QED
  BY <1>1 DEF BetsMade, Within

LEMMA RaiseChips ==
  ASSUME NEW t \in TableType, NEW p \in Ids, NEW amount \in Nat
  PROVE  LET u == Raise(t, p, amount)
         IN /\ BetsMade(t, u)
            /\ \A max \in Nat : Within(t, max) => Within(u, max)
<1> DEFINE u == Raise(t, p, amount)
<1>1. u \in TableType /\ u.players = t.players
  <2>1. u \in TableType
    BY RaiseType
  <2>2. u.players = t.players
    BY DEF Raise, TableType
  <2> QED
    BY <2>1, <2>2
<1>2. CASE RaiseOk(t, p, amount)
  <2>1. /\ t.wallet[p] = u.wallet[p] + amount /\ u.pbet[p] = t.pbet[p] + amount
        /\ u.pot = t.pot + amount /\ u.bet = t.pbet[p] + amount
        /\ \A q \in Ids \ {p} : u.wallet[q] = t.wallet[q] /\ u.pbet[q] = t.pbet[q]
    BY <1>2 DEF RaiseOk, Raise, TableType
  <2>2. p \in t.players /\ amount <= t.wallet[p] /\ t.wallet[p] \in Nat /\ t.pbet[p] \in Nat
    BY <1>2 DEF RaiseOk, TableType
  <2> HIDE DEF u
  <2>3. BetsMade(t, u)
    BY <1>1, <2>1, <2>2, OneBetMade
  <2>4. ASSUME NEW max \in Nat, Within(t, max)
        PROVE  Within(u, max)
    <3>1. t.wallet[p] + t.pbet[p] <= max
      BY <2>2, <2>4, PlayerWithin
    <3>2. u.bet <= max
      BY <2>1, <2>2, <3>1
    <3> QED
      BY <2>3, <2>4, <3>2, BetsMadeWithin
  <2> QED
    BY <2>3, <2>4 DEF u
<1>3. CASE ~RaiseOk(t, p, amount)
  <2>1. u.wallet = t.wallet /\ u.pbet = t.pbet /\ u.pot = t.pot /\ u.bet = t.bet
    BY <1>3 DEF RaiseOk, Raise, TableType
  <2> HIDE DEF u
  <2>2. BetsMade(t, u)
    BY <1>1, <2>1, SameBetsMade
  <2>3. \A max \in Nat : Within(t, max) => Within(u, max)
    BY <2>1, <2>2, BetsMadeWithin DEF Within
  <2> QED
    BY <2>2, <2>3 DEF u
<1> QED
  BY <1>2, <1>3

LEMMA AllInChips ==
  ASSUME NEW t \in TableType, NEW p \in Ids
  PROVE  LET u == AllIn(t, p)
         IN /\ BetsMade(t, u)
            /\ \A max \in Nat : Within(t, max) => Within(u, max)
<1> DEFINE u == AllIn(t, p)
<1>1. u \in TableType /\ u.players = t.players
  <2>1. u \in TableType
    BY AllInType
  <2>2. u.players = t.players
    BY DEF AllIn, TableType
  <2> QED
    BY <2>1, <2>2
<1>2. CASE AllInOk(t, p)
  <2>1. p \in t.players /\ t.wallet[p] \in Nat /\ t.pbet[p] \in Nat /\ t.bet \in Nat
    BY <1>2 DEF AllInOk, TableType
  <2>2. /\ t.wallet[p] = u.wallet[p] + t.wallet[p] /\ u.pbet[p] = t.pbet[p] + t.wallet[p]
        /\ u.pot = t.pot + t.wallet[p] /\ u.bet \in {t.bet, t.pbet[p] + t.wallet[p]}
    BY <1>2, <2>1 DEF AllInOk, AllIn, TableType
  <2>3. \A q \in Ids \ {p} : u.wallet[q] = t.wallet[q] /\ u.pbet[q] = t.pbet[q]
    BY <1>2 DEF AllInOk, AllIn, TableType
  <2> HIDE DEF u
  <2>4. BetsMade(t, u)
    BY <1>1, <2>1, <2>2, <2>3, OneBetMade
  <2>5. ASSUME NEW max \in Nat, Within(t, max)
        PROVE  Within(u, max)
    <3>1. t.wallet[p] + t.pbet[p] <= max /\ t.bet <= max
      BY <2>1, <2>5, PlayerWithin DEF Within
    <3>2. u.bet <= max
      BY <2>1, <2>2, <3>1
    <3> QED
      BY <2>4, <2>5, <3>2, BetsMadeWithin
  <2> QED
    BY <2>4, <2>5 DEF u
<1>3. CASE ~AllInOk(t, p)
  <2>1. u.wallet = t.wallet /\ u.pbet = t.pbet /\ u.pot = t.pot /\ u.bet = t.bet
    BY <1>3 DEF AllInOk, AllIn, TableType
  <2> HIDE DEF u
  <2>2. BetsMade(t, u)
    BY <1>1, <2>1, SameBetsMade
  <2>3. \A max \in Nat : Within(t, max) => Within(u, max)
    BY <2>1, <2>2, BetsMadeWithin DEF Within
  <2> QED
    BY <2>2, <2>3 DEF u
<1> QED
  BY <1>2, <1>3

LEMMA CheckChips ==
  ASSUME NEW t \in TableType, NEW p \in Ids, NEW max \in Nat, max < WordSize, Within(t, max)
  PROVE  BetsMade(t, Check(t, p)) /\ Within(Check(t, p), max)
<1> DEFINE u == Check(t, p)
<1>1. u \in TableType /\ u.players = t.players /\ u.bet = t.bet
  <2>1. u \in TableType
    BY CheckType
  <2>2. \/ u = t \/ u = [t EXCEPT !.health = "overflow"]
        \/ u = [t EXCEPT !.pot = @ + Owed(t, p), !.pbet[p] = t.bet,
                         !.wallet[p] = @ - Owed(t, p)]
    BY DEF Check
  <2> HIDE DEF u
  <2>3. u.players = t.players
    BY <2>2 DEF TableType
  <2>4. u.bet = t.bet
    BY <2>2 DEF TableType
  <2> QED
    BY <2>1, <2>3, <2>4
<1>2. BetsMade(t, u)
  <2>1. CASE CheckOk(t, p)
    <3>1. p \in t.players /\ Owed(t, p) <= t.wallet[p] /\ t.wallet[p] \in Nat
          /\ Owed(t, p) \in Nat
      BY <2>1, OwedType DEF CheckOk, TableType
    <3>2. /\ t.wallet[p] = u.wallet[p] + Owed(t, p) /\ u.pbet[p] = t.bet
          /\ u.pot = t.pot + Owed(t, p)
      BY <2>1, <3>1 DEF CheckOk, Check, TableType
    <3>3. \A q \in Ids \ {p} : u.wallet[q] = t.wallet[q] /\ u.pbet[q] = t.pbet[q]
      BY <2>1, <3>1 DEF CheckOk, Check, TableType
    <3> HIDE DEF u
    <3>4. t.pbet[p] + Owed(t, p) = t.bet
      BY <3>1, OwedWithin
    <3> QED
      BY <1>1, <3>1, <3>2, <3>3, <3>4, OneBetMade
  <2>2. CASE ~CheckOk(t, p)
    <3>1. t.wallet[p] \in Nat /\ Owed(t, p) \in Nat
      BY OwedType DEF TableType
    <3>2. u.wallet = t.wallet /\ u.pbet = t.pbet /\ u.pot = t.pot
      BY <2>2, <3>1 DEF CheckOk, Check, TableType
    <3> HIDE DEF u
    <3> QED
      BY <1>1, <3>2, SameBetsMade
  <2> QED
    BY <2>1, <2>2
<1> HIDE DEF u
<1>3. Within(u, max)
  BY <1>1, <1>2, BetsMadeWithin DEF Within
<1> QED
  BY <1>2, <1>3 DEF u

\* The ante is a bet of every player who can pay what they owe.
LEMMA AnteChips ==
  ASSUME NEW t \in TableType, NEW max \in Nat, max < WordSize, Within(t, max)
  PROVE  BetsMade(t, Ante(t)) /\ Within(Ante(t), max)
<1> DEFINE u      == Ante(t)
           payers == {p \in t.players : Owed(t, p) <= t.wallet[p]}
           owed   == [p \in Ids |-> Owed(t, p)]
           given  == [p \in Ids |-> IF p \in payers THEN owed[p] ELSE 0]
           n      == SumFunctionOnSet(owed, payers)
<1>1. u \in TableType /\ u.players = t.players /\ u.bet = t.bet
  BY AnteType DEF Ante, TableType
<1>2. CASE \E p \in t.players : Underflows(t, p)
  <2>1. u.wallet = t.wallet /\ u.pbet = t.pbet /\ u.pot = t.pot
    BY <1>2 DEF Ante, TableType
  <2> HIDE DEF u
  <2>2. BetsMade(t, u)
    BY <1>1, <2>1, SameBetsMade
  <2>3. Within(u, max)
    BY <1>1, <2>2, BetsMadeWithin DEF Within
  <2> QED
    BY <2>2, <2>3 DEF u
<1>3. CASE ~ \E p \in t.players : Underflows(t, p)
  <2>1. /\ IsFiniteSet(t.players) /\ t.players \in SUBSET Ids /\ payers \in SUBSET t.players
        /\ \A p \in Ids : /\ t.wallet[p] \in Nat /\ t.pbet[p] \in Nat /\ owed[p] \in Nat
        /\ \A S \in SUBSET Ids : IsFiniteSet(S) /\ Cardinality(S) \in Nat
    BY ContendersSubset, OwedType DEF TableType
  <2>2. /\ u.pot = t.pot + n
        /\ \A p \in Ids : /\ u.wallet[p] = IF p \in payers THEN t.wallet[p] - owed[p]
                                                           ELSE t.wallet[p]
                          /\ u.pbet[p] = IF p \in payers THEN t.bet ELSE t.pbet[p]
    BY <1>3 DEF Ante, TableType
  <2>3. \A p \in payers : owed[p] <= t.wallet[p] /\ t.pbet[p] + owed[p] = t.bet
    BY <2>1, OwedWithin
  <2> HIDE DEF u, owed, payers
  <2>4. \A p \in t.players : given[p] \in Nat
    BY <2>1
  <2>5. \A p \in t.players : /\ t.wallet[p] = u.wallet[p] + given[p]
                             /\ u.pbet[p] = t.pbet[p] + given[p]
                             /\ u.wallet[p] \in Nat
    BY <2>1, <2>2, <2>3
  <2>6. SumFunctionOnSet(given, t.players) = n /\ n \in Nat
    <3>1. IsFiniteSet(payers) /\ IsFiniteSet(t.players \ payers)
          /\ Cardinality(t.players \ payers) \in Nat
      BY <2>1
    <3>2. /\ \A p \in payers : owed[p] \in Nat /\ given[p] = owed[p]
          /\ \A p \in t.players \ payers : given[p] = 0
      BY <2>1
    <3> HIDE DEF given
    <3>3. SumFunctionOnSet(given, t.players)
            = SumFunctionOnSet(given, payers) + SumFunctionOnSet(given, t.players \ payers)
      BY <2>1, <2>4, SumUnion
    <3>4. SumFunctionOnSet(given, payers) = n
      BY <3>1, <3>2, SumSame
    <3>5. SumFunctionOnSet(given, t.players \ payers) = 0 * Cardinality(t.players \ payers)
      BY <3>1, <3>2, SumConstant
    <3>6. n \in Nat
      BY <3>1, <3>2, SumType
    <3>7. 0 * Cardinality(t.players \ payers) = 0
      BY <3>1
    <3> HIDE DEF n
    <3> QED
      BY <3>3, <3>4, <3>5, <3>6, <3>7
  <2> HIDE DEF given, n
  <2>7. Wallets(t, t.players) = Wallets(u, t.players) + n
    <3>1. \A p \in t.players : u.wallet[p] \in Nat /\ given[p] \in Nat
                               /\ t.wallet[p] = u.wallet[p] + given[p]
      BY <2>4, <2>5
    <3> QED
      BY <2>1, <2>6, <3>1, SumAdd DEF Wallets
  <2>8. Bets(u) = Bets(t) + n
    <3>1. \A p \in t.players : t.pbet[p] \in Nat /\ given[p] \in Nat
                               /\ u.pbet[p] = t.pbet[p] + given[p]
      BY <2>1, <2>4, <2>5
    <3> QED
      BY <1>1, <2>1, <2>6, <3>1, SumAdd DEF Bets
  <2>9. \A p \in Ids \ t.players : u.wallet[p] = t.wallet[p] /\ u.pbet[p] = t.pbet[p]
    BY <2>1, <2>2
  <2>10. BetsMade(t, u)
    BY <1>1, <2>2, <2>6, <2>7, <2>8, <2>9 DEF BetsMade
  <2>11. Within(u, max)
    BY <1>1, <2>10, BetsMadeWithin DEF Within
  <2> QED
    BY <2>10, <2>11 DEF u
<1> QED
  BY <1>2, <1>3

-----------------------------------------------------------------------------
(* Chips that leave, and none that come.                                    *)

\* Nobody came, and no chips came.
NoneCome(t, u) ==
  /\ u \in TableType /\ u.players \subseteq t.players /\ Chips(u) <= Chips(t)
  /\ \A max \in Nat : Within(t, max) => Within(u, max)

\* The chips that went are the wallets of the players who went.
OthersStay(t, u) ==
  /\ Bets(u) <= u.pot
  /\ Chips(u) = Chips(t) - Wallets(t, t.players \ u.players)

LEMMA BetsMadeNoneCome ==
  ASSUME NEW t \in TableType, NEW u, BetsMade(t, u), u.bet <= t.bet
  PROVE  NoneCome(t, u)
<1>1. /\ u.players = t.players /\ Chips(u) = Chips(t) /\ u \in TableType
      /\ Chips(t) \in Nat /\ t.bet \in Nat /\ u.bet \in Nat
  BY BetsMadeChips, ChipsType DEF BetsMade, TableType
<1>2. ASSUME NEW max \in Nat, Within(t, max)
      PROVE  Within(u, max)
  <2>1. u.bet <= max
    BY <1>1, <1>2 DEF Within
  <2> QED
    BY <1>2, <2>1, BetsMadeWithin
<1> QED
  BY <1>1, <1>2 DEF NoneCome

LEMMA NoneComeThen ==
  ASSUME NEW t \in TableType, NEW u, NEW v, NoneCome(t, u), NoneCome(u, v)
  PROVE  NoneCome(t, v)
<1>1. Chips(t) \in Nat /\ Chips(u) \in Nat /\ Chips(v) \in Nat
  BY ChipsType DEF NoneCome
<1> QED
  BY <1>1 DEF NoneCome

LEMMA NobodyGoes ==
  ASSUME NEW t \in TableType
  PROVE  Wallets(t, {}) = 0 /\ Chips(t) = Chips(t) - Wallets(t, {})
<1>1. Wallets(t, {}) = 0 /\ Chips(t) \in Nat
  BY SumEmpty, ChipsType DEF Wallets
<1> QED
  BY <1>1

LEMMA EndGameNoneCome ==
  ASSUME NEW t \in TableType, NEW C \in SUBSET Ids, NEW rank \in Ranks[C],
         Contenders(t) \subseteq C
  PROVE  LET e == EndGame(t, rank)
         IN /\ NoneCome(t, e) /\ e.players = t.players
            /\ Bets(t) <= t.pot => Bets(e) <= e.pot /\ Chips(e) = Chips(t)
            /\ \A p \in Ids : p \notin Contenders(t) => e.wallet[p] = t.wallet[p]
<1> DEFINE e == EndGame(t, rank)
<1>1. /\ e.players = t.players /\ Chips(e) <= Chips(t) /\ e \in TableType
      /\ Bets(t) <= t.pot => Bets(e) <= e.pot /\ Chips(e) = Chips(t)
  BY EndGameChips, EndGameType
<1>2. CASE Best(t, rank, Contenders(t)) = None
  <2>1. e = t
    BY <1>2 DEF EndGame
  <2> QED
    BY <1>1, <2>1 DEF NoneCome
<1>3. CASE Best(t, rank, Contenders(t)) # None
  <2>1. /\ e.wallet = PayShowdownPots(t, rank) /\ e.pbet = [p \in Ids |-> 0] /\ e.bet = t.bet
    BY <1>3, EndGameFields
  <2>2. \A p \in Ids : p \notin Contenders(t) => e.wallet[p] = t.wallet[p]
    BY <2>1, PayShowdownPotsPays
  <2>3. Chips(e) \in Nat /\ Chips(t) \in Nat
    BY <1>1, ChipsType
  <2> HIDE DEF e
  <2>4. \A p \in Ids \ t.players : e.wallet[p] = t.wallet[p] /\ e.pbet[p] = 0
    BY <2>1, <2>2 DEF Contenders
  <2>5. \A max \in Nat : Within(t, max) => Within(e, max)
    BY <1>1, <2>1, <2>3, <2>4 DEF Within
  <2> QED
    BY <1>1, <2>2, <2>5 DEF NoneCome, e
<1> QED
  BY <1>2, <1>3

LEMMA FoldChips ==
  ASSUME NEW t, Sound(t), NEW p \in t.players, NEW rank \in Ranks[Contenders(t)]
  PROVE  LET u == Fold(t, p, rank)
         IN /\ NoneCome(t, u) /\ u.players = t.players
            /\ Bets(t) <= t.pot => Bets(u) <= u.pot /\ Chips(u) = Chips(t)
            /\ u.wallet[p] = t.wallet[p]
            /\ t.players = {p} => u.pot = t.pot
<1> DEFINE f == Folded(t, p)
           e == EndGame(f, rank)
           before == t.prev[p]
<1>1. /\ t \in TableType /\ p \in Ids /\ p \notin {before, t.next[p]}
      /\ f \in TableType /\ Contenders(f) = Contenders(t) \ {p}
      /\ Ring(f) = Ring(t) \ {p}
      /\ before # None => before \in Ring(f)
      /\ Contenders(t) \in SUBSET Ids
  BY FoldedRing, ContendersSubset DEF Sound
<1>2. Fold(t, p, rank) = IF before # None /\ before = t.next[p] THEN e ELSE f
  BY <1>1 DEF Fold, Folded
<1>3. /\ f.players = t.players /\ f.wallet = t.wallet /\ f.pbet = t.pbet /\ f.pot = t.pot
      /\ f.bet = t.bet
  <2>1. t \in TableType /\ p \in Ids
    BY <1>1
  <2> QED
    BY <2>1, FoldedFields
<1> HIDE DEF f
<1>4. BetsMade(t, f) /\ f.bet <= t.bet
  <2>1. t.bet <= t.bet
    BY <1>1 DEF TableType
  <2> QED
    BY <1>1, <1>3, <2>1, SameBetsMade
<1>5. NoneCome(t, f) /\ Chips(f) = Chips(t) /\ Bets(f) = Bets(t)
  BY <1>1, <1>3, <1>4, BetsMadeNoneCome, BetsMadeChips DEF Bets
<1>6. /\ NoneCome(f, e) /\ e.players = f.players
      /\ Bets(f) <= f.pot => Bets(e) <= e.pot /\ Chips(e) = Chips(f)
      /\ e.wallet[p] = f.wallet[p]
  BY <1>1, EndGameNoneCome
<1>7. t.players = {p} => before = None
  <2>1. Ring(t) \subseteq t.players
    BY RingSeated
  <2>2. Ring(f) = Ring(t) \ {p}
    BY <1>1
  <2>3. before # None => before \in Ring(f)
    BY <1>1
  <2> HIDE DEF before
  <2> QED
    BY <2>1, <2>2, <2>3
<1> HIDE DEF e
<1>8. NoneCome(t, e)
  BY <1>1, <1>5, <1>6, NoneComeThen
<1> QED
  BY <1>2, <1>3, <1>5, <1>6, <1>7, <1>8

LEMMA DropChips ==
  ASSUME NEW t \in TableType, NEW S \in SUBSET t.players
  PROVE  LET u == Drop(t, S)
         IN /\ NoneCome(t, u) /\ u.players = t.players \ S /\ u.pot = t.pot
            /\ Bets(t) <= t.pot => OthersStay(t, u)
<1> DEFINE u    == Drop(t, S)
           stay == t.players \ S
<1>1. /\ IsFiniteSet(t.players) /\ t.players \in SUBSET Ids /\ S \in SUBSET Ids
      /\ IsFiniteSet(S) /\ IsFiniteSet(stay) /\ stay \in SUBSET Ids
      /\ \A p \in Ids : t.wallet[p] \in Nat /\ t.pbet[p] \in Nat
  BY ContendersSubset DEF TableType
<1>2. u \in TableType
  BY <1>1, DropType
<1>3. /\ u.players = stay /\ u.pot = t.pot /\ u.bet = t.bet
      /\ \A p \in Ids : /\ u.wallet[p] = IF p \in S THEN 0 ELSE t.wallet[p]
                        /\ u.pbet[p] = IF p \in S THEN 0 ELSE t.pbet[p]
  BY DEF Drop, TableType
<1> HIDE DEF u
<1>4. /\ Wallets(t, t.players) = Wallets(t, S) + Wallets(t, stay)
      /\ Bets(t) = SumFunctionOnSet(t.pbet, S) + SumFunctionOnSet(t.pbet, stay)
  BY <1>1, SumUnion DEF Wallets, Bets
<1>5. \A p \in stay : /\ t.wallet[p] \in Nat /\ u.wallet[p] = t.wallet[p]
                      /\ t.pbet[p] \in Nat /\ u.pbet[p] = t.pbet[p]
  BY <1>1, <1>3
<1>6. \A p \in S : t.wallet[p] \in Nat /\ t.pbet[p] \in Nat
  BY <1>1
<1> HIDE DEF stay
<1>7. Wallets(u, stay) = Wallets(t, stay) /\ Bets(u) = SumFunctionOnSet(t.pbet, stay)
  BY <1>1, <1>3, <1>5, SumSame DEF Wallets, Bets
<1>8. /\ Wallets(t, S) \in Nat /\ Wallets(t, stay) \in Nat
      /\ SumFunctionOnSet(t.pbet, S) \in Nat /\ SumFunctionOnSet(t.pbet, stay) \in Nat
  BY <1>1, <1>5, <1>6, SumType DEF Wallets
<1>9. /\ t.pot \in Nat
      /\ Chips(t) = Wallets(t, t.players) + IF t.pot >= Bets(t) THEN t.pot ELSE Bets(t)
      /\ Chips(u) = Wallets(u, stay) + IF u.pot >= Bets(u) THEN u.pot ELSE Bets(u)
  BY <1>2, <1>3, ChipsType
<1>10. Chips(u) <= Chips(t)
  BY <1>3, <1>4, <1>7, <1>8, <1>9
<1>11. Bets(t) <= t.pot => Bets(u) <= u.pot /\ Chips(u) = Chips(t) - Wallets(t, S)
  BY <1>3, <1>4, <1>7, <1>8, <1>9
<1>12. t.players \ u.players = S
  BY <1>3 DEF stay
<1>13. \A max \in Nat : Within(t, max) => Within(u, max)
  <2>1. Chips(u) \in Nat /\ Chips(t) \in Nat
    BY <1>2, ChipsType
  <2>2. \A p \in Ids \ u.players : p \in S \/ p \in Ids \ t.players
    BY <1>12
  <2> QED
    BY <1>3, <1>10, <2>1, <2>2 DEF Within
<1>14. u.players \subseteq t.players /\ u.players = t.players \ S
  BY <1>3 DEF stay
<1> QED
  BY <1>2, <1>3, <1>10, <1>11, <1>12, <1>13, <1>14 DEF NoneCome, OthersStay, u

\* An empty table forgets its pot; otherwise a rebuild moves no chips.
LEMMA RebuildChips ==
  ASSUME NEW t \in TableType, NEW order \in Orders[t.players]
  PROVE  LET u == Rebuild(t, order)
         IN /\ NoneCome(t, u) /\ u.players = t.players
            /\ t.players # {} \/ t.pot = 0 => BetsMade(t, u)
<1> DEFINE u == Rebuild(t, order)
<1>1. u \in TableType /\ t.bet \in Nat /\ t.pot \in Nat
  BY RebuildType DEF TableType
<1>2. u.players = t.players /\ u.wallet = t.wallet /\ u.pbet = t.pbet
  BY DEF Rebuild, TableType
<1>3. CASE t.players # {}
  <2>1. u.pot = t.pot /\ u.bet = t.bet
    BY <1>3 DEF Rebuild, TableType
  <2> HIDE DEF u
  <2>2. BetsMade(t, u) /\ u.bet <= t.bet
    BY <1>1, <1>2, <2>1, SameBetsMade
  <2> QED
    BY <1>2, <2>2, BetsMadeNoneCome DEF u
<1>4. CASE t.players = {}
  <2>1. u.pot = 0 /\ u.bet = 0
    BY <1>4 DEF Rebuild, TableType
  <2> HIDE DEF u
  <2>2. /\ Bets(u) = 0 /\ Wallets(u, u.players) = 0
        /\ Bets(t) = 0 /\ Wallets(t, t.players) = 0
    BY <1>2, <1>4, SumEmpty DEF Bets, Wallets
  <2>3. Chips(u) = 0 /\ Chips(t) \in Nat
    BY <1>1, <2>1, <2>2, ChipsType
  <2>4. NoneCome(t, u)
    BY <1>1, <1>2, <2>1, <2>3 DEF NoneCome, Within
  <2>5. t.pot = 0 => BetsMade(t, u)
    BY <1>1, <1>2, <2>1, SameBetsMade
  <2> QED
    BY <1>2, <1>4, <2>4, <2>5 DEF u
<1> QED
  BY <1>3, <1>4

LEMMA RemoveChips ==
  ASSUME NEW t, Sound(t), t.health = "ok", NEW p \in t.players,
         NEW rank \in Ranks[Contenders(t)], NEW order \in Orders[t.players \ {p}]
  PROVE  LET u == Remove(t, p, order, rank)
         IN /\ NoneCome(t, u) /\ u.players = t.players \ {p}
            /\ Bets(t) <= t.pot /\ (t.players = {p} => t.pot = 0) => OthersStay(t, u)
<1> DEFINE out   == Fold(t, p, rank)
           head  == IF out.head # p THEN out.head
                    ELSE IF out.nextf[p] = p THEN None ELSE out.nextf[p]
           moved == [out EXCEPT !.head = head]
           left  == Drop(moved, {p})
           u     == Rebuild(left, order)
<1>1. /\ out \in TableType /\ out.health = "ok" /\ out.players = t.players /\ p \in Ids
      /\ t \in TableType /\ t.players \subseteq Ids
  BY FoldSound DEF Sound, TableType
<1>2. /\ NoneCome(t, out)
      /\ Bets(t) <= t.pot => Bets(out) <= out.pot /\ Chips(out) = Chips(t)
      /\ out.wallet[p] = t.wallet[p]
      /\ t.players = {p} => out.pot = t.pot
  BY FoldChips
<1>3. Remove(t, p, order, rank) = u
  BY <1>1 DEF Remove, out, moved, left
<1> HIDE DEF out
<1>4. moved \in TableType
  <2>1. head \in Pointer
    BY <1>1 DEF TableType, Pointer
  <2> HIDE DEF head
  <2> QED
    BY <1>1, <2>1 DEF TableType
<1>4a. /\ moved.wallet = out.wallet /\ moved.players = t.players
       /\ moved.pbet = out.pbet /\ moved.pot = out.pot /\ moved.bet = out.bet
  BY <1>1 DEF TableType
<1> HIDE DEF moved
<1>5. BetsMade(out, moved) /\ moved.bet <= out.bet
  <2>1. out.bet <= out.bet
    BY <1>1 DEF TableType
  <2> QED
    BY <1>1, <1>4, <1>4a, <2>1, SameBetsMade
<1>6. /\ NoneCome(out, moved) /\ Chips(moved) = Chips(out)
      /\ Bets(out) <= out.pot => Bets(moved) <= moved.pot
  BY <1>1, <1>5, BetsMadeNoneCome, BetsMadeChips
<1>7. /\ NoneCome(moved, left) /\ left.players = t.players \ {p} /\ left.pot = moved.pot
      /\ Bets(moved) <= moved.pot => OthersStay(moved, left)
  <2>1. {p} \in SUBSET moved.players
    BY <1>4, <1>4a
  <2> QED
    BY <1>4, <1>4a, <2>1, DropChips
<1> HIDE DEF left
<1>8. /\ NoneCome(left, u) /\ u.players = left.players
      /\ left.players # {} \/ left.pot = 0 => BetsMade(left, u)
  <2>1. left \in TableType /\ order \in Orders[left.players]
    BY <1>7 DEF NoneCome
  <2> QED
    BY <2>1, RebuildChips
<1> HIDE DEF u
<1>9. NoneCome(t, u)
  <2>1. moved \in TableType /\ out \in TableType /\ t \in TableType
    BY <1>1, <1>4, <1>4a
  <2> QED
    BY <1>2, <1>6, <1>7, <1>8, <2>1, NoneComeThen
<1>10. ASSUME Bets(t) <= t.pot, t.players = {p} => t.pot = 0
       PROVE  OthersStay(t, u)
  <2>1. left.players # {} \/ left.pot = 0
    BY <1>2, <1>4, <1>4a, <1>7, <1>10
  <2>2. Chips(u) = Chips(left) /\ (Bets(left) <= left.pot => Bets(u) <= u.pot)
    BY <1>7, <1>8, <2>1, BetsMadeChips DEF NoneCome
  <2>3. OthersStay(moved, left) /\ Chips(moved) = Chips(t)
    BY <1>2, <1>6, <1>7, <1>10
  <2>4. /\ moved.players \ left.players = {p} /\ t.players \ u.players = {p}
    BY <1>1, <1>4, <1>4a, <1>7, <1>8
  <2>5. Wallets(moved, {p}) = Wallets(t, {p})
    <3>1. IsFiniteSet({p}) /\ \A q \in {p} : t.wallet[q] \in Nat /\ moved.wallet[q] = t.wallet[q]
      <4>1. p \in Ids /\ t.wallet \in [Ids -> Nat]
        BY <1>1 DEF TableType
      <4>2. moved.wallet[p] = t.wallet[p]
        BY <1>2, <1>4a
      <4> QED
        BY <4>1, <4>2, FS_Singleton
    <3> QED
      BY <3>1, SumSame DEF Wallets
  <2> QED
    BY <2>2, <2>3, <2>4, <2>5 DEF OthersStay
<1> QED
  BY <1>3, <1>7, <1>8, <1>9, <1>10

LEMMA AdvanceTurnChips ==
  ASSUME NEW t, Sound(t), NEW C \in SUBSET Ids, NEW rank \in Ranks[C],
         Contenders(t) \subseteq C
  PROVE  LET u == AdvanceTurn(t, rank)
         IN /\ NoneCome(t, u) /\ u.players = t.players
            /\ Bets(t) <= t.pot => Bets(u) <= u.pot /\ Chips(u) = Chips(t)
<1> DEFINE u == AdvanceTurn(t, rank)
<1>1. \/ u = t
      \/ SameHand(t, u)
      \/ \E v \in TableType : SameHand(t, v) /\ u = EndGame(v, rank)
  BY AdvanceTurnCases
<1>2. t \in TableType /\ u \in TableType /\ t.bet <= t.bet
  BY AdvanceTurnType DEF Sound, TableType
<1>3. ASSUME NEW v \in TableType, v = t \/ SameHand(t, v)
      PROVE  /\ NoneCome(t, v) /\ v.players = t.players /\ Chips(v) = Chips(t)
             /\ Bets(t) <= t.pot => Bets(v) <= v.pot
             /\ Contenders(v) = Contenders(t)
  <2>1. BetsMade(t, v) /\ v.bet <= t.bet
    BY <1>2, <1>3, SameBetsMade DEF SameHand
  <2>2. Contenders(v) = Contenders(t)
    BY <1>3 DEF SameHand, Contenders
  <2> QED
    BY <1>2, <2>1, <2>2, BetsMadeNoneCome, BetsMadeChips
<1>4. CASE u = t \/ SameHand(t, u)
  BY <1>2, <1>3, <1>4
<1>5. ASSUME NEW v \in TableType, SameHand(t, v), u = EndGame(v, rank)
      PROVE  /\ NoneCome(t, u) /\ u.players = t.players
             /\ Bets(t) <= t.pot => Bets(u) <= u.pot /\ Chips(u) = Chips(t)
  <2>1. /\ NoneCome(t, v) /\ v.players = t.players /\ Chips(v) = Chips(t)
        /\ Bets(t) <= t.pot => Bets(v) <= v.pot
        /\ Contenders(v) = Contenders(t)
    BY <1>3, <1>5
  <2>2. /\ NoneCome(v, u) /\ u.players = v.players
        /\ Bets(v) <= v.pot => Bets(u) <= u.pot /\ Chips(u) = Chips(v)
    BY <1>5, <2>1, EndGameNoneCome
  <2> HIDE DEF u
  <2> QED
    BY <1>2, <2>1, <2>2, NoneComeThen
<1> QED
  BY <1>1, <1>4, <1>5

LEMMA ExpireTurnChips ==
  ASSUME NEW t, Sound(t), t.health = "ok", IsRunning(t),
         NEW rank \in Ranks[Contenders(t)], NEW order \in Orders[t.players \ {t.turn}]
  PROVE  LET u == ExpireTurn(t, order, rank)
         IN /\ NoneCome(t, u)
            /\ Bets(t) <= t.pot /\ t.players # {t.turn} => OthersStay(t, u)
<1> DEFINE r == Remove(t, t.turn, order, rank)
           a == AdvanceTurn(r, rank)
<1>1. t.turn \in t.players /\ t \in TableType /\ Contenders(t) \in SUBSET Ids
  BY RingSeated, ContendersSubset DEF Sound
<1>2. /\ NoneCome(t, r) /\ r.players = t.players \ {t.turn}
      /\ Bets(t) <= t.pot /\ t.players # {t.turn} => OthersStay(t, r)
  BY <1>1, RemoveChips
<1>3. Sound(r) /\ Contenders(r) \subseteq Contenders(t)
  <2>1. Sound(r)
    BY <1>1, RemoveSound
  <2>2. t.turn \in t.players /\ t.turn \in Ids /\ t \in TableType
    BY <1>1 DEF TableType
  <2>3. Contenders(r) \subseteq Contenders(t)
    BY <2>2, ContendersRemove
  <2> QED
    BY <2>1, <2>3
<1>4. ExpireTurn(t, order, rank) = IF r.health = "ok" THEN a ELSE r
  BY DEF ExpireTurn
<1> HIDE DEF r
<1>5. /\ NoneCome(r, a) /\ a.players = r.players
      /\ Bets(r) <= r.pot => Bets(a) <= a.pot /\ Chips(a) = Chips(r)
  BY <1>1, <1>3, AdvanceTurnChips
<1> HIDE DEF a
<1>6. NoneCome(t, a)
  BY <1>1, <1>2, <1>5, NoneComeThen
<1>7. OthersStay(t, r) => OthersStay(t, a)
  BY <1>5 DEF OthersStay
<1> QED
  BY <1>2, <1>4, <1>6, <1>7

-----------------------------------------------------------------------------
(* Starting a hand, confirming, purging and joining.                        *)

\* start_game forgets the pot, but not the bets that late calls may have left
\* on the table; the blind and the antes are bets.
LEMMA StartGameChips ==
  ASSUME NEW t \in TableType, t.players # {}, NEW order \in Orders[t.players],
         NEW max \in Nat, max < WordSize, Within(t, max)
  PROVE  LET u == StartGame(t, order)
         IN /\ u \in TableType /\ u.players = t.players /\ Within(u, max)
            /\ Chips(u) <= Chips(t)
            /\ Bets(t) = 0 /\ t.pot = 0 => Bets(u) <= u.pot /\ Chips(u) = Chips(t)
<1> DEFINE s       == Rebuild(t, order)
           dealt   == [s EXCEPT !.showdown = None, !.confirmed = {},
                                !.folded = [p \in Ids |-> p \notin s.players],
                                !.next = s.nextf, !.prev = s.prevf, !.bet = 0, !.pot = 0,
                                !.round = 0]
           blinded == Raise(dealt, s.blind, BlindBet)
           turned(p) == [blinded EXCEPT !.turn = p]
           turn    == IF IsAnte THEN s.blind ELSE s.nextf[s.blind]
           last    == IF IsAnte THEN Ante(turned(turn)) ELSE turned(turn)
           u       == MarkTurnStarted(last)
<1>1. /\ s \in TableType /\ s.wallet = t.wallet /\ s.pbet = t.pbet /\ s.players = t.players
      /\ s.blind \in t.players /\ s.blind \in Ids
  <2>1. t.players \subseteq Ids
    BY DEF TableType
  <2> QED
    BY <2>1, RebuildType, RebuildFields
<1>2. StartGame(t, order) = u
  BY Zenon DEF StartGame, Deal, u, last, turn, turned, blinded, dealt, s
<1>3. turn \in Pointer
  BY <1>1 DEF TableType, Pointer
<1> HIDE DEF s, turn
<1>4. dealt \in TableType
  BY <1>1 DEF TableType, Pointer
<1>5. /\ dealt.players = t.players /\ dealt.wallet = t.wallet /\ dealt.pbet = t.pbet
      /\ dealt.pot = 0 /\ dealt.bet = 0
  BY <1>1 DEF TableType
<1> HIDE DEF dealt
<1>6. /\ Within(dealt, max) /\ Chips(dealt) <= Chips(t)
      /\ Bets(t) = 0 /\ t.pot = 0 => Bets(dealt) <= dealt.pot /\ Chips(dealt) = Chips(t)
  <2>1. Wallets(dealt, dealt.players) = Wallets(t, t.players) /\ Bets(dealt) = Bets(t)
    BY <1>5 DEF Wallets, Bets
  <2>2. /\ Bets(t) \in Nat /\ t.pot \in Nat /\ Chips(t) \in Nat /\ Chips(dealt) \in Nat
        /\ t.players \in SUBSET Ids
    BY <1>4, ChipsType DEF TableType
  <2>3. Wallets(t, t.players) \in Nat
    BY <2>2, ChipsType
  <2>4. /\ Chips(t) = Wallets(t, t.players) + IF t.pot >= Bets(t) THEN t.pot ELSE Bets(t)
        /\ Chips(dealt) = Wallets(dealt, dealt.players)
                            + IF dealt.pot >= Bets(dealt) THEN dealt.pot ELSE Bets(dealt)
    BY <1>4, ChipsType
  <2>5. Chips(dealt) <= Chips(t)
    BY <1>5, <2>1, <2>2, <2>3, <2>4
  <2>6. Within(dealt, max)
    BY <1>5, <2>2, <2>5 DEF Within
  <2> QED
    BY <1>5, <2>1, <2>2, <2>3, <2>4, <2>5, <2>6
<1>7. BetsMade(dealt, blinded) /\ Within(blinded, max)
  BY <1>1, <1>4, <1>6, RaiseChips, NumberAssumption
<1>8. blinded \in TableType
  BY <1>7 DEF BetsMade
<1> HIDE DEF blinded
<1>9. /\ turned(turn) \in TableType /\ turned(turn).players = blinded.players
      /\ turned(turn).wallet = blinded.wallet /\ turned(turn).pbet = blinded.pbet
      /\ turned(turn).pot = blinded.pot /\ turned(turn).bet = blinded.bet
  BY <1>3, <1>8 DEF TableType
<1> HIDE DEF turned
<1>10. BetsMade(blinded, turned(turn)) /\ Within(turned(turn), max)
  <2>1. BetsMade(blinded, turned(turn))
    BY <1>8, <1>9, SameBetsMade
  <2> QED
    BY <1>7, <1>8, <1>9, <2>1, BetsMadeWithin DEF Within
<1>11. BetsMade(blinded, last) /\ Within(last, max)
  <2>1. CASE IsAnte
    BY <1>8, <1>9, <1>10, <2>1, AnteChips, BetsMadeThen
  <2>2. CASE ~IsAnte
    BY <1>10, <2>2
  <2> QED
    BY <2>1, <2>2
<1>12. last \in TableType
  BY <1>11 DEF BetsMade
<1> HIDE DEF last
<1>13. /\ u \in TableType /\ u.players = last.players /\ u.wallet = last.wallet
       /\ u.pbet = last.pbet /\ u.pot = last.pot /\ u.bet = last.bet
  BY <1>12 DEF MarkTurnStarted, IsRunning, TableType
<1> HIDE DEF u
<1>14. BetsMade(last, u) /\ Within(u, max)
  <2>1. BetsMade(last, u)
    BY <1>12, <1>13, SameBetsMade
  <2> QED
    BY <1>11, <1>12, <1>13, <2>1, BetsMadeWithin DEF Within
<1>15. BetsMade(dealt, u)
  BY <1>4, <1>7, <1>8, <1>11, <1>14, BetsMadeThen
<1>16. /\ u.players = dealt.players /\ Chips(u) = Chips(dealt)
       /\ Bets(dealt) <= dealt.pot <=> Bets(u) <= u.pot
  BY <1>4, <1>15, BetsMadeChips
<1> QED
  BY <1>2, <1>5, <1>6, <1>13, <1>14, <1>16

LEMMA KeepPlayingChips ==
  ASSUME NEW t \in TableType, NEW p \in Ids
  PROVE  BetsMade(t, KeepPlaying(t, p)) /\ NoneCome(t, KeepPlaying(t, p))
<1> DEFINE u == KeepPlaying(t, p)
<1>1. u \in TableType /\ t.bet \in Nat
  BY KeepPlayingType DEF TableType
<1>2. /\ u.players = t.players /\ u.wallet = t.wallet /\ u.pbet = t.pbet /\ u.pot = t.pot
      /\ u.bet = t.bet
  BY DEF KeepPlaying, TableType
<1> HIDE DEF u
<1>3. BetsMade(t, u) /\ u.bet <= t.bet
  BY <1>1, <1>2, SameBetsMade
<1> QED
  BY <1>3, BetsMadeNoneCome DEF u

LEMMA TickChips ==
  ASSUME NEW t \in TableType
  PROVE  LET u == [t EXCEPT !.clock = "expired"]
         IN BetsMade(t, u) /\ NoneCome(t, u)
<1> DEFINE u == [t EXCEPT !.clock = "expired"]
<1>1. u \in TableType /\ t.bet \in Nat
  BY DEF TableType
<1>2. /\ u.players = t.players /\ u.wallet = t.wallet /\ u.pbet = t.pbet /\ u.pot = t.pot
      /\ u.bet = t.bet
  BY DEF TableType
<1> HIDE DEF u
<1>3. BetsMade(t, u) /\ u.bet <= t.bet
  BY <1>1, <1>2, SameBetsMade
<1> QED
  BY <1>3, BetsMadeNoneCome DEF u

LEMMA RemoveUnconfirmedChips ==
  ASSUME NEW t \in TableType, NEW order \in Orders[t.confirmed \cap t.players]
  PROVE  LET u == RemoveUnconfirmed(t, order)
         IN /\ NoneCome(t, u)
            /\ t.pot = 0 /\ Bets(t) <= t.pot => OthersStay(t, u)
<1> DEFINE out == t.players \ t.confirmed
           Clear(pointer) == IF pointer \in out THEN None ELSE pointer
           cleared == [t EXCEPT !.head = Clear(@), !.bettor = Clear(@), !.blind = Clear(@),
                                !.clock = "off"]
           left == Drop(cleared, out)
           u    == Rebuild(left, order)
<1>1. /\ out \in SUBSET t.players /\ t.players \ out = t.confirmed \cap t.players
      /\ t.bet \in Nat
      /\ Clear(t.head) \in Pointer /\ Clear(t.bettor) \in Pointer /\ Clear(t.blind) \in Pointer
  BY DEF TableType, Pointer
<1>2. RemoveUnconfirmed(t, order) = IF t.showdown = None \/ out = {} THEN t ELSE u
  BY Zenon DEF RemoveUnconfirmed, u, left, cleared, out, Clear
<1> HIDE DEF out, Clear
<1>3. cleared \in TableType
  BY <1>1 DEF TableType
<1>4. /\ cleared.players = t.players /\ cleared.wallet = t.wallet /\ cleared.pbet = t.pbet
      /\ cleared.pot = t.pot /\ cleared.bet = t.bet
  BY DEF TableType
<1> HIDE DEF cleared
<1>5. BetsMade(t, cleared) /\ cleared.bet <= t.bet
  BY <1>1, <1>3, <1>4, SameBetsMade
<1>6. /\ NoneCome(t, cleared) /\ Chips(cleared) = Chips(t)
      /\ Bets(t) <= t.pot => Bets(cleared) <= cleared.pot
  BY <1>5, BetsMadeNoneCome, BetsMadeChips
<1>7. /\ NoneCome(cleared, left) /\ left.players = t.players \ out /\ left.pot = t.pot
      /\ Bets(cleared) <= cleared.pot => OthersStay(cleared, left)
  BY <1>1, <1>3, <1>4, DropChips
<1> HIDE DEF left
<1>8. /\ NoneCome(left, u) /\ u.players = left.players
      /\ left.players # {} \/ left.pot = 0 => BetsMade(left, u)
  <2>1. left \in TableType /\ order \in Orders[left.players]
    BY <1>1, <1>7 DEF NoneCome
  <2> QED
    BY <2>1, RebuildChips
<1> HIDE DEF u
<1>9. NoneCome(t, u)
  BY <1>3, <1>6, <1>7, <1>8, NoneComeThen
<1>10. ASSUME t.pot = 0, Bets(t) <= t.pot
       PROVE  OthersStay(t, u)
  <2>1. Chips(u) = Chips(left) /\ (Bets(left) <= left.pot => Bets(u) <= u.pot)
    BY <1>7, <1>8, <1>10, BetsMadeChips DEF NoneCome
  <2>2. OthersStay(cleared, left) /\ Chips(cleared) = Chips(t)
    BY <1>6, <1>7, <1>10
  <2>3. cleared.players \ left.players = t.players \ u.players
    BY <1>4, <1>8
  <2>4. \A S : Wallets(cleared, S) = Wallets(t, S)
    BY <1>4 DEF Wallets
  <2> QED
    BY <2>1, <2>2, <2>3, <2>4 DEF OthersStay
<1>11. NoneCome(t, t)
  <2>1. Chips(t) <= Chips(t)
    BY ChipsType
  <2> QED
    BY <2>1 DEF NoneCome
<1>12. Bets(t) <= t.pot => OthersStay(t, t)
  <2>1. t.players \ t.players = {}
    OBVIOUS
  <2>2. Chips(t) = Chips(t) - Wallets(t, t.players \ t.players)
    BY <2>1, NobodyGoes, Zenon
  <2> QED
    BY <2>2 DEF OthersStay
<1> QED
  BY <1>2, <1>9, <1>10, <1>11, <1>12

\* Who joins brings chips, and finds no bet of theirs on the table.
LEMMA AddPlayerChips ==
  ASSUME NEW t \in TableType, NEW p \in Ids, p \notin t.players, NEW chips \in Nat,
         t.pbet[p] = 0
  PROVE  LET u == AddPlayer(t, p, chips)
         IN /\ u \in TableType
            /\ \/ u.players = t.players /\ BetsMade(t, u)
               \/ /\ u.players = t.players \cup {p}
                  /\ Chips(u) = Chips(t) + chips /\ Wallets(u, {p}) = chips
            /\ Bets(u) = Bets(t) /\ u.pot = t.pot /\ u.bet = t.bet
            /\ \A q \in Ids \ {p} : u.wallet[q] = t.wallet[q] /\ u.pbet[q] = t.pbet[q]
<1> DEFINE u == AddPlayer(t, p, chips)
           Joined(v) ==
             /\ \/ v.players = t.players /\ BetsMade(t, v)
                \/ /\ v.players = t.players \cup {p}
                   /\ Chips(v) = Chips(t) + chips /\ Wallets(v, {p}) = chips
             /\ Bets(v) = Bets(t)
             /\ \A q \in Ids \ {p} : v.wallet[q] = t.wallet[q] /\ v.pbet[q] = t.pbet[q]
<1>1. u \in TableType /\ t.players \in SUBSET Ids /\ IsFiniteSet(t.players)
  BY AddPlayerType, ContendersSubset DEF TableType
<1>2. /\ u.pbet = t.pbet /\ u.pot = t.pot /\ u.bet = t.bet
      /\ \/ u.players = t.players /\ u.wallet = t.wallet
         \/ u.players = t.players \cup {p} /\ u.wallet = [t.wallet EXCEPT ![p] = chips]
  BY DEF AddPlayer, LinkNode, TableType
<1> HIDE DEF u
<1>3. ASSUME u.players = t.players, u.wallet = t.wallet
      PROVE  Joined(u)
  BY <1>1, <1>2, <1>3, SameBetsMade DEF Bets
<1>4. ASSUME u.players = t.players \cup {p}, u.wallet = [t.wallet EXCEPT ![p] = chips]
      PROVE  Joined(u)
  <2>1. /\ p \in u.players /\ u.players \ {p} = t.players
        /\ IsFiniteSet(u.players)
        /\ \A q \in u.players : u.wallet[q] \in Nat /\ u.pbet[q] \in Nat
    <3>1. p \in u.players /\ u.players \ {p} = t.players
      BY <1>4
    <3>2. IsFiniteSet(u.players)
      BY <1>1, ChipsType
    <3>3. \A q \in u.players : u.wallet[q] \in Nat /\ u.pbet[q] \in Nat
      BY <1>1 DEF TableType
    <3> QED
      BY <3>1, <3>2, <3>3
  <2>2. u.wallet[p] = chips /\ \A q \in Ids \ {p} : u.wallet[q] = t.wallet[q]
    BY <1>4 DEF TableType
  <2>3. /\ Wallets(u, u.players) = chips + Wallets(u, t.players)
        /\ Bets(u) = 0 + SumFunctionOnSet(t.pbet, t.players)
    BY <1>2, <2>1, <2>2, SumRemove DEF Wallets, Bets
  <2>4. \A q \in t.players : t.wallet[q] \in Nat /\ u.wallet[q] = t.wallet[q]
    BY <1>1, <2>2 DEF TableType
  <2>5. Wallets(u, t.players) = Wallets(t, t.players)
    BY <1>1, <2>4, SumSame DEF Wallets
  <2>6. Bets(t) \in Nat /\ t.pot \in Nat /\ Wallets(t, t.players) \in Nat
    BY <1>1, ChipsType
  <2>7. Bets(u) = Bets(t)
    BY <2>3, <2>6 DEF Bets
  <2>8. Chips(u) = Chips(t) + chips
    <3>1. /\ Chips(t) = Wallets(t, t.players) + IF t.pot >= Bets(t) THEN t.pot ELSE Bets(t)
          /\ Chips(u) = Wallets(u, u.players) + IF u.pot >= Bets(u) THEN u.pot ELSE Bets(u)
      BY <1>1, ChipsType
    <3> QED
      BY <1>2, <2>3, <2>5, <2>6, <2>7, <3>1
  <2>9. Wallets(u, {p}) = chips
    <3>1. IsFiniteSet({p}) /\ p \in {p} /\ {p} \ {p} = {} /\ \A q \in {p} : u.wallet[q] \in Nat
      BY <2>1, FS_Singleton
    <3>2. Wallets(u, {p}) = u.wallet[p] + Wallets(u, {})
      BY <3>1, SumRemove DEF Wallets
    <3> QED
      BY <2>2, <3>2, SumEmpty DEF Wallets
  <2> QED
    BY <1>1, <1>2, <1>4, <2>2, <2>7, <2>8, <2>9
<1>5. Joined(u)
  BY <1>2, <1>3, <1>4
<1> QED
  BY <1>1, <1>2, <1>5 DEF u
=============================================================================
