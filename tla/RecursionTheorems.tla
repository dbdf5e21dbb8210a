--------------------------- MODULE RecursionTheorems ---------------------------
(***************************************************************************)
(* Induction over naturals and finite sets, stated for sets where the       *)
(* library states it for predicates; the greatest and least of sets of      *)
(* numbers; that folds over finite sets satisfy the equation they are       *)
(* defined by; and the laws of sums.                                        *)
(***************************************************************************)
EXTENDS Integers, FiniteSetsExt, FiniteSetTheorems, WellFoundedInduction, TLAPS

-----------------------------------------------------------------------------
(* Induction *)

(* Every nonempty set of naturals has a least element.                     *)
LEMMA LeastNatural ==
  ASSUME NEW T, T \subseteq Nat, T # {}
  PROVE  \E x \in T : \A y \in T : x <= y
<1>1. PICK x \in T : \A y \in T : ~(<<y, x>> \in OpToRel(<, Nat))
  BY NatLessThanWellFounded, WFMin
<1>2. ASSUME NEW y \in T PROVE x <= y
  <2>1. y \in Nat /\ x \in Nat /\ <<y, x>> \in Nat \X Nat
    OBVIOUS
  <2>2. ~(y < x)
    BY <1>1, <2>1 DEF OpToRel
  <2> QED
    BY <2>1, <2>2
<1> QED
  BY <1>2

(* Induction over the naturals, for a set of them.                         *)
LEMMA NatSetInduction ==
  ASSUME NEW K, 0 \in K, \A n \in Nat : n \in K => n + 1 \in K
  PROVE  Nat \subseteq K
<1> DEFINE T == Nat \ K
<1>1. ASSUME T # {} PROVE FALSE
  <2>1. PICK x \in T : \A y \in T : x <= y
    BY <1>1, LeastNatural
  <2>2. x \in Nat /\ x \notin K /\ x # 0
    BY <2>1
  <2>3. x - 1 \in Nat /\ x = (x - 1) + 1 /\ ~(x <= x - 1)
    BY <2>2
  <2>4. x - 1 \in K
    BY <2>1, <2>3
  <2> QED
    BY <2>2, <2>3, <2>4
<1> QED
  BY <1>1

(* A finite set can be folded, in the order C takes its elements: what the  *)
(* recursive function in MapThenFoldSet stands for exists.                 *)
IsFold(h, S, D, base, G, C) ==
  /\ h \in [SUBSET S -> D]
  /\ \A s \in SUBSET S : h[s] = IF s = {} THEN base ELSE G[<<C[s], h[s \ {C[s]}]>>]

(* Folds of finite sets exist, by induction over their size.               *)
LEMMA FoldExists ==
  ASSUME NEW S, IsFiniteSet(S), NEW D, NEW base \in D, NEW G \in [S \X D -> D],
         NEW C, \A s \in SUBSET S : s # {} => C[s] \in s
  PROVE  \E h : IsFold(h, S, D, base, G, C)
<1> DEFINE Step(h, s) == IF s = {} THEN base ELSE G[<<C[s], h[s \ {C[s]}]>>]
           Good(k) == \E h \in [SUBSET S -> D] :
                        \A s \in SUBSET S : Cardinality(s) <= k => h[s] = Step(h, s)
           K == {k \in Nat : Good(k)}
<1>1. \A s \in SUBSET S : IsFiniteSet(s) /\ Cardinality(s) \in Nat
  BY FS_Subset, FS_CardinalityType
<1>2. 0 \in K
  <2> DEFINE h == [s \in SUBSET S |-> base]
  <2>1. h \in [SUBSET S -> D]
    OBVIOUS
  <2>2. \A s \in SUBSET S : Cardinality(s) <= 0 => h[s] = Step(h, s)
    <3> SUFFICES ASSUME NEW s \in SUBSET S, Cardinality(s) <= 0 PROVE h[s] = Step(h, s)
      OBVIOUS
    <3>1. Cardinality(s) = 0
      BY <1>1
    <3>2. s = {}
      BY <1>1, <3>1, FS_EmptySet
    <3> QED
      BY <3>2
  <2> HIDE DEF h, Step
  <2>3. Good(0)
    BY <2>1, <2>2
  <2> QED
    BY <2>3
<1>3. ASSUME NEW k \in Nat, k \in K PROVE k + 1 \in K
  <2>1. PICK h \in [SUBSET S -> D] :
          \A s \in SUBSET S : Cardinality(s) <= k => h[s] = Step(h, s)
    BY <1>3
  <2> DEFINE g == [s \in SUBSET S |-> Step(h, s)]
  <2>2. \A s \in SUBSET S : Step(h, s) \in D
    <3> SUFFICES ASSUME NEW s \in SUBSET S, s # {} PROVE G[<<C[s], h[s \ {C[s]}]>>] \in D
      OBVIOUS
    <3>1. C[s] \in S /\ s \ {C[s]} \in SUBSET S
      OBVIOUS
    <3>2. h[s \ {C[s]}] \in D
      BY <3>1
    <3> QED
      BY <3>1, <3>2
  <2>3. g \in [SUBSET S -> D]
    BY <2>2
  <2>4. \A s \in SUBSET S : Cardinality(s) <= k + 1 => g[s] = Step(g, s)
    <3> SUFFICES ASSUME NEW s \in SUBSET S, Cardinality(s) <= k + 1, s # {}
                 PROVE  g[s] = Step(g, s)
      OBVIOUS
    <3>1. PICK r \in SUBSET S : r = s \ {C[s]}
      OBVIOUS
    <3>2. Cardinality(r) = Cardinality(s) - 1
      BY <1>1, <3>1, FS_RemoveElement
    <3>3. Cardinality(r) <= k
      BY <1>1, <3>2
    <3>4. g[r] = h[r]
      BY <2>1, <3>3
    <3>5. g[s] = G[<<C[s], h[r]>>]
      BY <3>1
    <3>6. Step(g, s) = G[<<C[s], g[r]>>]
      <4> HIDE DEF g
      <4> QED
        BY <3>1
    <3> HIDE DEF g, Step
    <3> QED
      BY <3>4, <3>5, <3>6
  <2> HIDE DEF g, Step
  <2>5. Good(k + 1)
    BY <2>3, <2>4
  <2> QED
    BY <2>5
<1>4. Nat \subseteq K
  <2> HIDE DEF K
  <2> QED
    BY <1>2, <1>3, NatSetInduction
<1>5. Good(Cardinality(S))
  <2>1. Cardinality(S) \in Nat
    BY <1>1
  <2> QED
    BY <1>4, <2>1
<1>6. PICK h \in [SUBSET S -> D] :
        \A s \in SUBSET S : Cardinality(s) <= Cardinality(S) => h[s] = Step(h, s)
  BY <1>5
<1>7. \A s \in SUBSET S : h[s] = Step(h, s)
  BY <1>6, FS_Subset
<1> QED
  BY <1>7 DEF IsFold

(* Induction over the subsets of a finite set: what holds of a set if it    *)
(* holds of all that have one element less holds of all.                    *)
LEMMA SubsetInduction ==
  ASSUME NEW S, IsFiniteSet(S),
         NEW F, \A s \in SUBSET S : (\A x \in s : s \ {x} \in F) => s \in F
  PROVE  \A s \in SUBSET S : s \in F
<1> DEFINE K == {k \in Nat : \A s \in SUBSET S : Cardinality(s) <= k => s \in F}
<1>1. \A s \in SUBSET S : IsFiniteSet(s) /\ Cardinality(s) \in Nat
  BY FS_Subset, FS_CardinalityType
<1>2. 0 \in K
  <2> SUFFICES ASSUME NEW s \in SUBSET S, Cardinality(s) <= 0 PROVE s \in F
    OBVIOUS
  <2>1. Cardinality(s) = 0
    BY <1>1
  <2>2. s = {}
    BY <1>1, <2>1, FS_EmptySet
  <2> QED
    BY <2>2
<1>3. ASSUME NEW k \in Nat, k \in K PROVE k + 1 \in K
  <2> SUFFICES ASSUME NEW s \in SUBSET S, Cardinality(s) <= k + 1 PROVE s \in F
    OBVIOUS
  <2>1. ASSUME NEW x \in s PROVE s \ {x} \in F
    <3>1. Cardinality(s \ {x}) = Cardinality(s) - 1
      BY <1>1, FS_RemoveElement
    <3>2. Cardinality(s \ {x}) <= k /\ s \ {x} \in SUBSET S
      BY <1>1, <3>1
    <3> QED
      BY <1>3, <3>2
  <2> QED
    BY <2>1
<1>4. Nat \subseteq K
  <2> HIDE DEF K
  <2> QED
    BY <1>2, <1>3, NatSetInduction
<1> QED
  <2> SUFFICES ASSUME NEW s \in SUBSET S PROVE s \in F
    OBVIOUS
  <2>1. Cardinality(s) \in K
    BY <1>1, <1>4
  <2>2. Cardinality(s) <= Cardinality(s)
    BY <1>1
  <2> QED
    BY <2>1, <2>2

-----------------------------------------------------------------------------
(* The greatest and the least *)

(* Max of FiniteSetsExt on a set that has a greatest element.              *)
LEMMA MaxIs ==
  ASSUME NEW S, NEW m \in S, S \subseteq Int, \A x \in S : x <= m
  PROVE  Max(S) = m
<1>1. \E x \in S : \A y \in S : x >= y
  <2>1. \A y \in S : m >= y
    OBVIOUS
  <2> QED
    BY <2>1
<1>2. Max(S) \in S /\ \A y \in S : Max(S) >= y
  BY <1>1, ZenonT(20) DEF Max
<1>3. Max(S) \in Int /\ Max(S) >= m /\ Max(S) <= m
  BY <1>2
<1> QED
  BY <1>3

(* Min of FiniteSetsExt on a set that has a least element.                 *)
LEMMA MinIs ==
  ASSUME NEW S, NEW m \in S, S \subseteq Int, \A x \in S : m <= x
  PROVE  Min(S) = m
<1>1. \E x \in S : \A y \in S : x <= y
  OBVIOUS
<1>2. Min(S) \in S /\ \A y \in S : Min(S) <= y
  BY <1>1, ZenonT(20) DEF Min
<1>3. Min(S) \in Int /\ Min(S) >= m /\ Min(S) <= m
  BY <1>2
<1> QED
  BY <1>3

(* Max of FiniteSetsExt on two numbers.                                    *)
LEMMA MaxOfTwo ==
  ASSUME NEW x \in Int, NEW y \in Int
  PROVE  /\ Max({x, y}) \in Int
         /\ Max({x, y}) >= x /\ Max({x, y}) >= y
         /\ Max({x, y}) = x \/ Max({x, y}) = y
<1> DEFINE S == {x, y}
           m == IF x >= y THEN x ELSE y
<1>1. m \in S /\ \A z \in S : m >= z
  OBVIOUS
<1> HIDE DEF m
<1>2. \E z \in S : \A w \in S : z >= w
  BY <1>1
<1>3. Max(S) \in S /\ \A w \in S : Max(S) >= w
  BY <1>2, ZenonT(20) DEF Max
<1> QED
  BY <1>3

(* Min of FiniteSetsExt on two numbers.                                    *)
LEMMA MinOfTwo ==
  ASSUME NEW x \in Nat, NEW y \in Nat
  PROVE  Min({x, y}) = IF x <= y THEN x ELSE y
<1>1. CASE x <= y
  <2>1. x \in {x, y} /\ {x, y} \subseteq Int /\ \A z \in {x, y} : x <= z
    BY <1>1
  <2>2. Min({x, y}) = x
    BY <2>1, MinIs
  <2> QED
    BY <1>1, <2>2
<1>2. CASE ~(x <= y)
  <2>1. y \in {x, y} /\ {x, y} \subseteq Int /\ \A z \in {x, y} : y <= z
    BY <1>2
  <2>2. Min({x, y}) = y
    BY <2>1, MinIs
  <2> QED
    BY <1>2, <2>2
<1> QED
  BY <1>1, <1>2

-----------------------------------------------------------------------------
(* Sums over finite sets *)

IntegersOn(fun, S) == \A x \in S : fun[x] \in Int

SumStep(h, fun, s) ==
  IF s = {} THEN 0
  ELSE LET x == CHOOSE y \in s : TRUE IN fun[x] + h[s \ {x}]

IsSumOf(h, fun, S) ==
  /\ h \in [SUBSET S -> Int]
  /\ \A s \in SUBSET S : h[s] = SumStep(h, fun, s)

(* The recursive function behind a sum exists.                             *)
LEMMA SumExists ==
  ASSUME NEW S, IsFiniteSet(S), NEW fun, IntegersOn(fun, S)
  PROVE  \E h : IsSumOf(h, fun, S)
<1> DEFINE D == Int
           G == [p \in S \X D |-> fun[p[1]] + p[2]]
           C == [s \in SUBSET S |-> CHOOSE y \in s : TRUE]
<1>1. G \in [S \X D -> D]
  BY DEF IntegersOn
<1>2. \A s \in SUBSET S : s # {} => C[s] \in s
  OBVIOUS
<1>3. \E h : IsFold(h, S, D, 0, G, C)
  <2> HIDE DEF G, C
  <2> QED
    BY <1>1, <1>2, FoldExists
<1>4. PICK h : IsFold(h, S, D, 0, G, C)
  BY <1>3
<1>5. h \in [SUBSET S -> Int]
  BY <1>4 DEF IsFold
<1>6. ASSUME NEW s \in SUBSET S PROVE h[s] = SumStep(h, fun, s)
  <2>1. CASE s = {}
    BY <1>4, <2>1 DEF IsFold, SumStep
  <2>2. CASE s # {}
    <3>1. PICK x \in S : x = C[s] /\ x = CHOOSE y \in s : TRUE
      BY <1>2, <2>2
    <3>2. h[s] = G[<<x, h[s \ {x}]>>]
      <4> HIDE DEF G, C
      <4> QED
        BY <1>4, <2>2, <3>1 DEF IsFold
    <3>3. h[s \ {x}] \in Int
      BY <1>5
    <3>4. G[<<x, h[s \ {x}]>>] = fun[x] + h[s \ {x}]
      BY <3>3
    <3> HIDE DEF G, C
    <3> QED
      BY <2>2, <3>1, <3>2, <3>4 DEF SumStep
  <2> QED
    BY <2>1, <2>2
<1> QED
  BY <1>5, <1>6 DEF IsSumOf

(* So a sum is the value of a function that satisfies its equation.        *)
LEMMA SumIsStep ==
  ASSUME NEW S, IsFiniteSet(S), NEW fun, IntegersOn(fun, S)
  PROVE  \E h : IsSumOf(h, fun, S) /\ SumFunctionOnSet(fun, S) = h[S]
<1> DEFINE h == CHOOSE h : h = [s \in SUBSET S |-> SumStep(h, fun, s)]
<1>1. \E g : g = [s \in SUBSET S |-> SumStep(g, fun, s)] /\ IsSumOf(g, fun, S)
  <2>1. PICK g : IsSumOf(g, fun, S)
    BY SumExists
  <2>2. g = [s \in SUBSET S |-> SumStep(g, fun, s)]
    BY <2>1 DEF IsSumOf
  <2> QED
    BY <2>1, <2>2
<1>2. h = [s \in SUBSET S |-> SumStep(h, fun, s)]
  BY <1>1
<1>3. SumFunctionOnSet(fun, S) = h[S]
  BY DEF SumFunctionOnSet, FoldFunctionOnSet, MapThenFoldSet, SumStep
<1>4. \A s \in SUBSET S : h[s] = SumStep(h, fun, s)
  <2> HIDE DEF h
  <2>1. \A s \in SUBSET S : [r \in SUBSET S |-> SumStep(h, fun, r)][s] = SumStep(h, fun, s)
    OBVIOUS
  <2> QED
    BY <1>2, <2>1
<1>5. h \in [SUBSET S -> Int]
  <2> HIDE DEF h
  <2> DEFINE F == {s \in SUBSET S : h[s] \in Int}
  <2>1. ASSUME NEW s \in SUBSET S, \A x \in s : s \ {x} \in F
        PROVE  s \in F
    <3>1. CASE s = {}
      <4>1. h[s] = 0
        BY <1>4, <3>1 DEF SumStep
      <4> QED
        BY <4>1
    <3>2. CASE s # {}
      <4>1. PICK x \in s : x = CHOOSE y \in s : TRUE
        BY <3>2
      <4>2. h[s \ {x}] \in Int /\ fun[x] \in Int
        BY <2>1, <4>1 DEF IntegersOn
      <4>3. h[s] = fun[x] + h[s \ {x}]
        BY <1>4, <3>2, <4>1 DEF SumStep
      <4> QED
        BY <4>2, <4>3
    <3> QED
      BY <3>1, <3>2
  <2>2. \A s \in SUBSET S : s \in F
    <3> HIDE DEF F
    <3> QED
      BY <2>1, SubsetInduction
  <2>3. h = [s \in SUBSET S |-> h[s]]
    BY <1>2
  <2> QED
    BY <2>2, <2>3
<1> HIDE DEF h
<1>6. IsSumOf(h, fun, S)
  BY <1>4, <1>5 DEF IsSumOf
<1> QED
  BY <1>3, <1>6

(* Two functions that satisfy the equation agree, wherever both are defined. *)
LEMMA SumIsUnique ==
  ASSUME NEW S, IsFiniteSet(S), NEW f, NEW g, \A x \in S : f[x] = g[x],
         NEW h, NEW k,
         \A s \in SUBSET S : h[s] = SumStep(h, f, s) /\ k[s] = SumStep(k, g, s)
  PROVE  \A s \in SUBSET S : h[s] = k[s]
<1> DEFINE F == {s \in SUBSET S : h[s] = k[s]}
<1>1. ASSUME NEW s \in SUBSET S, \A x \in s : s \ {x} \in F
      PROVE  s \in F
  <2>1. CASE s = {}
    BY <2>1 DEF SumStep
  <2>2. CASE s # {}
    <3>1. PICK x \in s : x = CHOOSE y \in s : TRUE
      BY <2>2
    <3>2. h[s \ {x}] = k[s \ {x}] /\ f[x] = g[x]
      BY <1>1, <3>1
    <3>3. h[s] = f[x] + h[s \ {x}] /\ k[s] = g[x] + k[s \ {x}]
      BY <2>2, <3>1 DEF SumStep
    <3> QED
      BY <3>2, <3>3
  <2> QED
    BY <2>1, <2>2
<1>2. \A s \in SUBSET S : s \in F
  <2> HIDE DEF F
  <2> QED
    BY <1>1, SubsetInduction
<1> QED
  BY <1>2

(* A sum depends on its terms only.                                        *)
LEMMA SumCongruence ==
  ASSUME NEW S, IsFiniteSet(S), NEW f, NEW g, IntegersOn(f, S), \A x \in S : f[x] = g[x]
  PROVE  SumFunctionOnSet(f, S) = SumFunctionOnSet(g, S)
<1>1. PICK h : IsSumOf(h, f, S) /\ SumFunctionOnSet(f, S) = h[S]
  BY SumIsStep
<1>2. IntegersOn(g, S)
  BY DEF IntegersOn
<1>3. PICK k : IsSumOf(k, g, S) /\ SumFunctionOnSet(g, S) = k[S]
  BY <1>2, SumIsStep
<1>4. \A s \in SUBSET S : h[s] = SumStep(h, f, s) /\ k[s] = SumStep(k, g, s)
  BY <1>1, <1>3 DEF IsSumOf
<1>5. h[S] = k[S]
  BY <1>4, SumIsUnique
<1> QED
  BY <1>1, <1>3, <1>5

(* Integers add up to an integer.                                          *)
LEMMA SumType ==
  ASSUME NEW S, IsFiniteSet(S), NEW fun, IntegersOn(fun, S)
  PROVE  SumFunctionOnSet(fun, S) \in Int
<1>1. PICK h : IsSumOf(h, fun, S) /\ SumFunctionOnSet(fun, S) = h[S]
  BY SumIsStep
<1> QED
  BY <1>1 DEF IsSumOf

(* The solution for a set is the sum of each of its subsets.               *)
LEMMA SumOfSubsets ==
  ASSUME NEW S, IsFiniteSet(S), NEW fun, IntegersOn(fun, S)
  PROVE  \E h : \A s \in SUBSET S : h[s] = SumStep(h, fun, s) /\ SumFunctionOnSet(fun, s) = h[s]
<1>1. PICK h : IsSumOf(h, fun, S) /\ SumFunctionOnSet(fun, S) = h[S]
  BY SumIsStep
<1>2. ASSUME NEW s \in SUBSET S PROVE SumFunctionOnSet(fun, s) = h[s]
  <2>1. IsFiniteSet(s) /\ IntegersOn(fun, s)
    BY FS_Subset DEF IntegersOn
  <2>2. PICK k : IsSumOf(k, fun, s) /\ SumFunctionOnSet(fun, s) = k[s]
    BY <2>1, SumIsStep
  <2>3. \A r \in SUBSET s : k[r] = SumStep(k, fun, r) /\ h[r] = SumStep(h, fun, r)
    BY <1>1, <2>2 DEF IsSumOf
  <2>4. \A r \in SUBSET s : k[r] = h[r]
    <3>1. \A x \in s : fun[x] = fun[x]
      OBVIOUS
    <3> QED
      BY <2>1, <2>3, <3>1, SumIsUnique
  <2> QED
    BY <2>2, <2>4
<1> QED
  BY <1>1, <1>2 DEF IsSumOf

(* Nothing adds up to zero.                                                *)
LEMMA SumEmpty ==
  ASSUME NEW fun
  PROVE  SumFunctionOnSet(fun, {}) = 0
<1>1. IsFiniteSet({}) /\ IntegersOn(fun, {})
  BY FS_EmptySet DEF IntegersOn
<1> QED
  BY <1>1, SumOfSubsets DEF SumStep

(* The order in which a sum takes its elements makes no difference.        *)
LEMMA SumRemove ==
  ASSUME NEW S, IsFiniteSet(S), NEW fun, IntegersOn(fun, S), NEW z \in S
  PROVE  SumFunctionOnSet(fun, S) = fun[z] + SumFunctionOnSet(fun, S \ {z})
<1>1. PICK h : \A s \in SUBSET S : h[s] = SumStep(h, fun, s) /\ SumFunctionOnSet(fun, s) = h[s]
  BY SumOfSubsets
<1>2. \A s \in SUBSET S : h[s] \in Int
  <2> SUFFICES ASSUME NEW s \in SUBSET S PROVE h[s] \in Int
    OBVIOUS
  <2>1. IsFiniteSet(s) /\ IntegersOn(fun, s)
    BY FS_Subset DEF IntegersOn
  <2> QED
    BY <1>1, <2>1, SumType
<1> DEFINE F == {s \in SUBSET S : \A x \in s : h[s] = fun[x] + h[s \ {x}]}
<1>3. ASSUME NEW s \in SUBSET S, \A x \in s : s \ {x} \in F
      PROVE  s \in F
  <2> SUFFICES ASSUME NEW x \in s PROVE h[s] = fun[x] + h[s \ {x}]
    OBVIOUS
  <2>1. PICK y \in s : y = CHOOSE v \in s : TRUE
    OBVIOUS
  <2>2. h[s] = fun[y] + h[s \ {y}]
    BY <1>1, <2>1 DEF SumStep
  <2>3. CASE x = y
    BY <2>2, <2>3
  <2>4. CASE x # y
    <3>1. PICK r \in SUBSET S : r = s \ {x, y}
      OBVIOUS
    <3>2. (s \ {y}) \ {x} = r /\ (s \ {x}) \ {y} = r
      BY <3>1
    <3>3. h[s \ {y}] = fun[x] + h[r]
      BY <1>3, <2>4, <3>2
    <3>4. h[s \ {x}] = fun[y] + h[r]
      BY <1>3, <2>4, <3>2
    <3>5. fun[x] \in Int /\ fun[y] \in Int /\ h[r] \in Int
      BY <1>2 DEF IntegersOn
    <3> QED
      BY <2>2, <3>3, <3>4, <3>5
  <2> QED
    BY <2>3, <2>4
<1>4. \A s \in SUBSET S : s \in F
  <2> HIDE DEF F
  <2> QED
    BY <1>3, SubsetInduction
<1>5. h[S] = fun[z] + h[S \ {z}]
  BY <1>4
<1> QED
  BY <1>1, <1>5

(* One more term.                                                          *)
LEMMA SumAdd ==
  ASSUME NEW S, IsFiniteSet(S), NEW fun, NEW z, z \notin S, IntegersOn(fun, S \cup {z})
  PROVE  SumFunctionOnSet(fun, S \cup {z}) = SumFunctionOnSet(fun, S) + fun[z]
<1>1. IsFiniteSet(S \cup {z}) /\ z \in S \cup {z} /\ (S \cup {z}) \ {z} = S
  BY FS_AddElement
<1>2. SumFunctionOnSet(fun, S \cup {z}) = fun[z] + SumFunctionOnSet(fun, S)
  BY <1>1, SumRemove
<1>3. IntegersOn(fun, S) /\ fun[z] \in Int
  BY DEF IntegersOn
<1>4. SumFunctionOnSet(fun, S) \in Int
  BY <1>3, SumType
<1> QED
  BY <1>2, <1>3, <1>4

(* One value replaced: the sum moves by the difference.                    *)
LEMMA SumUpdate ==
  ASSUME NEW S, IsFiniteSet(S), NEW f, NEW g, IntegersOn(f, S), IntegersOn(g, S),
         NEW z \in S, \A x \in S : x # z => g[x] = f[x]
  PROVE  SumFunctionOnSet(g, S) = SumFunctionOnSet(f, S) + g[z] - f[z]
<1>1. IsFiniteSet(S \ {z}) /\ IntegersOn(f, S \ {z}) /\ IntegersOn(g, S \ {z})
  BY FS_Subset DEF IntegersOn
<1>2. SumFunctionOnSet(f, S \ {z}) = SumFunctionOnSet(g, S \ {z})
  BY <1>1, SumCongruence
<1>3. SumFunctionOnSet(f, S) = f[z] + SumFunctionOnSet(f, S \ {z})
  BY SumRemove
<1>4. SumFunctionOnSet(g, S) = g[z] + SumFunctionOnSet(g, S \ {z})
  BY SumRemove
<1>5. SumFunctionOnSet(f, S \ {z}) \in Int /\ f[z] \in Int /\ g[z] \in Int
  BY <1>1, SumType DEF IntegersOn
<1> QED
  BY <1>2, <1>3, <1>4, <1>5

(* Two values replaced: a transfer leaves the sum when they balance.       *)
LEMMA SumTransfer ==
  ASSUME NEW S, IsFiniteSet(S), NEW f, NEW g, IntegersOn(f, S), IntegersOn(g, S),
         NEW y \in S, NEW z \in S, y # z, \A x \in S : x # y /\ x # z => g[x] = f[x]
  PROVE  SumFunctionOnSet(g, S) = SumFunctionOnSet(f, S) + (g[y] - f[y]) + (g[z] - f[z])
<1>1. IsFiniteSet(S \ {z}) /\ IntegersOn(f, S \ {z}) /\ IntegersOn(g, S \ {z}) /\ y \in S \ {z}
  BY FS_Subset DEF IntegersOn
<1>2. SumFunctionOnSet(g, S \ {z}) = SumFunctionOnSet(f, S \ {z}) + g[y] - f[y]
  <2>1. \A x \in S \ {z} : x # y => g[x] = f[x]
    OBVIOUS
  <2> QED
    BY <1>1, <2>1, SumUpdate
<1>3. SumFunctionOnSet(f, S) = f[z] + SumFunctionOnSet(f, S \ {z})
  BY SumRemove
<1>4. SumFunctionOnSet(g, S) = g[z] + SumFunctionOnSet(g, S \ {z})
  BY SumRemove
<1>5. /\ SumFunctionOnSet(f, S \ {z}) \in Int /\ SumFunctionOnSet(g, S \ {z}) \in Int
      /\ f[z] \in Int /\ g[z] \in Int /\ f[y] \in Int /\ g[y] \in Int
  BY <1>1, SumType DEF IntegersOn
<1> QED
  BY <1>2, <1>3, <1>4, <1>5

(* A sum is monotone in its terms, and of naturals it is one.              *)
LEMMA SumMonotone ==
  ASSUME NEW S, IsFiniteSet(S), NEW f, NEW g, IntegersOn(f, S), IntegersOn(g, S),
         \A x \in S : f[x] <= g[x]
  PROVE  SumFunctionOnSet(f, S) <= SumFunctionOnSet(g, S)
<1> DEFINE F == {s \in SUBSET S : SumFunctionOnSet(f, s) <= SumFunctionOnSet(g, s)}
<1>1. ASSUME NEW s \in SUBSET S, \A x \in s : s \ {x} \in F
      PROVE  s \in F
  <2>1. CASE s = {}
    <3>1. SumFunctionOnSet(f, s) = 0 /\ SumFunctionOnSet(g, s) = 0
      BY <2>1, SumEmpty
    <3> QED
      BY <3>1
  <2>2. CASE s # {}
    <3>1. PICK x \in s : TRUE
      BY <2>2
    <3>2. /\ IsFiniteSet(s) /\ IntegersOn(f, s) /\ IntegersOn(g, s)
          /\ IsFiniteSet(s \ {x}) /\ IntegersOn(f, s \ {x}) /\ IntegersOn(g, s \ {x})
          /\ f[x] \in Int /\ g[x] \in Int /\ f[x] <= g[x]
      BY FS_Subset DEF IntegersOn
    <3>3. /\ SumFunctionOnSet(f, s) = f[x] + SumFunctionOnSet(f, s \ {x})
          /\ SumFunctionOnSet(g, s) = g[x] + SumFunctionOnSet(g, s \ {x})
      BY <3>2, SumRemove
    <3>4. SumFunctionOnSet(f, s \ {x}) \in Int /\ SumFunctionOnSet(g, s \ {x}) \in Int
      BY <3>2, SumType
    <3>5. SumFunctionOnSet(f, s \ {x}) <= SumFunctionOnSet(g, s \ {x})
      BY <1>1
    <3> QED
      BY <3>2, <3>3, <3>4, <3>5
  <2> QED
    BY <2>1, <2>2
<1>2. \A s \in SUBSET S : s \in F
  <2> HIDE DEF F
  <2> QED
    BY <1>1, SubsetInduction
<1> QED
  BY <1>2

(* Zeros add up to zero.                                                   *)
LEMMA SumOfZeros ==
  ASSUME NEW S, IsFiniteSet(S), NEW f, \A x \in S : f[x] = 0
  PROVE  SumFunctionOnSet(f, S) = 0
<1> DEFINE F == {s \in SUBSET S : SumFunctionOnSet(f, s) = 0}
<1>1. ASSUME NEW s \in SUBSET S, \A x \in s : s \ {x} \in F
      PROVE  s \in F
  <2>1. CASE s = {}
    BY <2>1, SumEmpty
  <2>2. CASE s # {}
    <3>1. PICK x \in s : TRUE
      BY <2>2
    <3>2. IsFiniteSet(s) /\ IntegersOn(f, s) /\ f[x] = 0
      BY FS_Subset DEF IntegersOn
    <3>3. SumFunctionOnSet(f, s) = f[x] + SumFunctionOnSet(f, s \ {x})
      BY <3>2, SumRemove
    <3> QED
      BY <1>1, <3>2, <3>3
  <2> QED
    BY <2>1, <2>2
<1>2. \A s \in SUBSET S : s \in F
  <2> HIDE DEF F
  <2> QED
    BY <1>1, SubsetInduction
<1> QED
  BY <1>2

(* Naturals add up to a natural.                                           *)
LEMMA SumOfNaturals ==
  ASSUME NEW S, IsFiniteSet(S), NEW f, \A x \in S : f[x] \in Nat
  PROVE  SumFunctionOnSet(f, S) \in Nat
<1> DEFINE zero == [x \in S |-> 0]
<1>1. IntegersOn(f, S) /\ IntegersOn(zero, S) /\ \A x \in S : zero[x] <= f[x] /\ zero[x] = 0
  BY DEF IntegersOn
<1> HIDE DEF zero
<1>2. SumFunctionOnSet(zero, S) <= SumFunctionOnSet(f, S)
  BY <1>1, SumMonotone
<1>3. SumFunctionOnSet(zero, S) = 0 /\ SumFunctionOnSet(f, S) \in Int
  BY <1>1, SumOfZeros, SumType
<1> QED
  BY <1>2, <1>3

(* A sum in two parts.                                                     *)
LEMMA SumSplit ==
  ASSUME NEW R, NEW Q, IsFiniteSet(R), IsFiniteSet(Q), R \cap Q = {}, NEW f, IntegersOn(f, R \cup Q)
  PROVE  SumFunctionOnSet(f, R \cup Q) = SumFunctionOnSet(f, R) + SumFunctionOnSet(f, Q)
<1> DEFINE Sum(s) == SumFunctionOnSet(f, s)
           F == {s \in SUBSET Q : Sum(R \cup s) = Sum(R) + Sum(s)}
<1>1. \A s \in SUBSET Q : /\ IsFiniteSet(s) /\ IsFiniteSet(R \cup s) /\ IntegersOn(f, R \cup s)
                          /\ IntegersOn(f, s) /\ IntegersOn(f, R)
  BY FS_Subset, FS_Union DEF IntegersOn
<1>2. \A s \in SUBSET Q : Sum(s) \in Int /\ Sum(R) \in Int /\ Sum(R \cup s) \in Int
  BY <1>1, SumType
<1>3. ASSUME NEW s \in SUBSET Q, \A x \in s : s \ {x} \in F
      PROVE  s \in F
  <2>1. CASE s = {}
    <3>1. R \cup s = R /\ Sum(s) = 0
      BY <2>1, SumEmpty
    <3>2. Sum(R) \in Int
      BY <1>2
    <3>3. Sum(R \cup s) = Sum(R)
      BY <3>1, Zenon
    <3>4. Sum(R \cup s) = Sum(R) + Sum(s)
      <4> HIDE DEF Sum
      <4> QED
        BY <3>1, <3>2, <3>3
    <3> QED
      BY <3>4
  <2>2. CASE s # {}
    <3>1. PICK x \in s : TRUE
      BY <2>2
    <3>2. PICK r \in SUBSET Q : r = s \ {x}
      OBVIOUS
    <3>3. Sum(s) = f[x] + Sum(r)
      BY <1>1, <3>2, SumRemove
    <3>4. (R \cup s) \ {x} = R \cup r /\ x \in R \cup s
      BY <3>2
    <3>5. Sum(R \cup s) = f[x] + Sum(R \cup r)
      BY <1>1, <3>4, SumRemove
    <3>6. Sum(R \cup r) = Sum(R) + Sum(r)
      BY <1>3, <3>2
    <3>7. f[x] \in Int
      BY DEF IntegersOn
    <3>8. Sum(R) \in Int /\ Sum(r) \in Int
      BY <1>2
    <3> HIDE DEF Sum
    <3>9. Sum(R \cup s) = Sum(R) + Sum(s)
      BY <3>3, <3>5, <3>6, <3>7, <3>8
    <3> QED
      BY <3>9
  <2> QED
    BY <2>1, <2>2
<1>4. \A s \in SUBSET Q : s \in F
  <2> HIDE DEF F
  <2> QED
    BY <1>3, SubsetInduction
<1> QED
  BY <1>4

(* More terms, none of them negative: no smaller a sum.                    *)
LEMMA SumOfMore ==
  ASSUME NEW S, IsFiniteSet(S), NEW R \in SUBSET S, NEW f, \A x \in S : f[x] \in Nat
  PROVE  SumFunctionOnSet(f, R) <= SumFunctionOnSet(f, S)
<1>1. PICK Q \in SUBSET S : Q = S \ R
  OBVIOUS
<1>2. IsFiniteSet(R) /\ IsFiniteSet(Q) /\ R \cap Q = {} /\ R \cup Q = S
  BY <1>1, FS_Subset
<1>3. IntegersOn(f, R \cup Q)
  BY <1>2 DEF IntegersOn
<1>4. SumFunctionOnSet(f, S) = SumFunctionOnSet(f, R) + SumFunctionOnSet(f, Q)
  BY <1>2, <1>3, SumSplit
<1>5. SumFunctionOnSet(f, R) \in Nat /\ SumFunctionOnSet(f, Q) \in Nat
  BY <1>2, SumOfNaturals
<1> QED
  BY <1>4, <1>5

(* Sums term by term.                                                      *)
LEMMA SumPlus ==
  ASSUME NEW S, IsFiniteSet(S), NEW f, NEW g, NEW sum, IntegersOn(f, S), IntegersOn(g, S),
         \A x \in S : sum[x] = f[x] + g[x]
  PROVE  SumFunctionOnSet(sum, S) = SumFunctionOnSet(f, S) + SumFunctionOnSet(g, S)
<1> DEFINE F == {s \in SUBSET S :
                   SumFunctionOnSet(sum, s) = SumFunctionOnSet(f, s) + SumFunctionOnSet(g, s)}
<1>1. ASSUME NEW s \in SUBSET S, \A x \in s : s \ {x} \in F
      PROVE  s \in F
  <2>1. CASE s = {}
    <3>1. SumFunctionOnSet(f, s) = 0 /\ SumFunctionOnSet(g, s) = 0 /\ SumFunctionOnSet(sum, s) = 0
      BY <2>1, SumEmpty
    <3> QED
      BY <3>1
  <2>2. CASE s # {}
    <3>1. PICK x \in s : TRUE
      BY <2>2
    <3>2. /\ IsFiniteSet(s) /\ IntegersOn(f, s) /\ IntegersOn(g, s) /\ IntegersOn(sum, s)
          /\ IsFiniteSet(s \ {x}) /\ IntegersOn(f, s \ {x}) /\ IntegersOn(g, s \ {x})
          /\ f[x] \in Int /\ g[x] \in Int /\ sum[x] = f[x] + g[x]
      BY FS_Subset DEF IntegersOn
    <3>3. /\ SumFunctionOnSet(f, s) = f[x] + SumFunctionOnSet(f, s \ {x})
          /\ SumFunctionOnSet(g, s) = g[x] + SumFunctionOnSet(g, s \ {x})
          /\ SumFunctionOnSet(sum, s) = sum[x] + SumFunctionOnSet(sum, s \ {x})
      BY <3>2, SumRemove
    <3>4. SumFunctionOnSet(f, s \ {x}) \in Int /\ SumFunctionOnSet(g, s \ {x}) \in Int
      BY <3>2, SumType
    <3>5. SumFunctionOnSet(sum, s \ {x}) = SumFunctionOnSet(f, s \ {x}) + SumFunctionOnSet(g, s \ {x})
      BY <1>1
    <3>6. SumFunctionOnSet(sum, s) = SumFunctionOnSet(f, s) + SumFunctionOnSet(g, s)
      BY <3>2, <3>3, <3>4, <3>5
    <3> QED
      BY <3>6
  <2> QED
    BY <2>1, <2>2
<1>2. \A s \in SUBSET S : s \in F
  <2> HIDE DEF F
  <2> QED
    BY <1>1, SubsetInduction
<1> QED
  BY <1>2

(* A factor of every term is one of the sum.                               *)
LEMMA SumTimes ==
  ASSUME NEW S, IsFiniteSet(S), NEW k \in Int, NEW f, NEW times, IntegersOn(f, S),
         \A x \in S : times[x] = k * f[x]
  PROVE  SumFunctionOnSet(times, S) = k * SumFunctionOnSet(f, S)
<1> DEFINE F == {s \in SUBSET S : SumFunctionOnSet(times, s) = k * SumFunctionOnSet(f, s)}
<1>1. ASSUME NEW s \in SUBSET S, \A x \in s : s \ {x} \in F
      PROVE  s \in F
  <2>1. CASE s = {}
    <3>1. SumFunctionOnSet(f, s) = 0 /\ SumFunctionOnSet(times, s) = 0
      BY <2>1, SumEmpty
    <3> QED
      BY <3>1
  <2>2. CASE s # {}
    <3>1. PICK x \in s : TRUE
      BY <2>2
    <3>2. IsFiniteSet(s) /\ IsFiniteSet(s \ {x})
      BY FS_Subset
    <3>3. \A y \in s : f[y] \in Int /\ k * f[y] \in Int /\ times[y] = k * f[y]
      BY DEF IntegersOn
    <3>4. IntegersOn(f, s) /\ IntegersOn(times, s) /\ IntegersOn(f, s \ {x})
      BY <3>3 DEF IntegersOn
    <3>5. /\ SumFunctionOnSet(f, s) = f[x] + SumFunctionOnSet(f, s \ {x})
          /\ SumFunctionOnSet(times, s) = times[x] + SumFunctionOnSet(times, s \ {x})
      BY <3>2, <3>4, SumRemove
    <3>6. PICK a \in Int, b \in Int : a = f[x] /\ b = SumFunctionOnSet(f, s \ {x})
      BY <3>2, <3>3, <3>4, SumType
    <3>7. SumFunctionOnSet(times, s \ {x}) = k * b
      BY <1>1, <3>6
    <3>8. k * (a + b) = k * a + k * b
      BY <3>6, Z3
    <3>9. SumFunctionOnSet(times, s) = k * SumFunctionOnSet(f, s)
      BY <3>3, <3>5, <3>6, <3>7, <3>8
    <3> QED
      BY <3>9
  <2> QED
    BY <2>1, <2>2
<1>2. \A s \in SUBSET S : s \in F
  <2> HIDE DEF F
  <2> QED
    BY <1>1, SubsetInduction
<1> QED
  BY <1>2

(* No term of a sum of naturals is more than the sum.                      *)
LEMMA SumCovers ==
  ASSUME NEW S, IsFiniteSet(S), NEW f, \A x \in S : f[x] \in Nat, NEW z \in S
  PROVE  f[z] <= SumFunctionOnSet(f, S)
<1>1. SumFunctionOnSet(f, S) = f[z] + SumFunctionOnSet(f, S \ {z})
  BY SumRemove DEF IntegersOn
<1>2. SumFunctionOnSet(f, S \ {z}) \in Nat
  <2>1. IsFiniteSet(S \ {z}) /\ \A x \in S \ {z} : f[x] \in Nat
    BY FS_Subset
  <2> QED
    BY <2>1, SumOfNaturals
<1> QED
  BY <1>1, <1>2

(* The terms outside a part of S are zero: the sum is that of the part.    *)
LEMMA SumOfPart ==
  ASSUME NEW S, IsFiniteSet(S), NEW R \in SUBSET S, NEW f, NEW g, IntegersOn(f, R),
         \A x \in S : g[x] = IF x \in R THEN f[x] ELSE 0
  PROVE  SumFunctionOnSet(g, S) = SumFunctionOnSet(f, R)
<1>1. PICK Q \in SUBSET S : Q = S \ R
  OBVIOUS
<1>2. IsFiniteSet(R) /\ IsFiniteSet(Q) /\ R \cap Q = {} /\ R \cup Q = S
  BY <1>1, FS_Subset
<1>3. IntegersOn(g, R \cup Q) /\ IntegersOn(g, R) /\ \A x \in R : g[x] = f[x]
  BY <1>2 DEF IntegersOn
<1>4. SumFunctionOnSet(g, S) = SumFunctionOnSet(g, R) + SumFunctionOnSet(g, Q)
  BY <1>2, <1>3, SumSplit
<1>5. SumFunctionOnSet(g, R) = SumFunctionOnSet(f, R) /\ SumFunctionOnSet(g, R) \in Int
  BY <1>2, <1>3, SumCongruence, SumType
<1>6. SumFunctionOnSet(g, Q) = 0
  BY <1>1, <1>2, SumOfZeros
<1> QED
  BY <1>4, <1>5, <1>6

(* Any property of what has been folded so far that every step carries on, holds at the end. *)
LEMMA FoldKeeps ==
  ASSUME NEW S, IsFiniteSet(S), NEW D, NEW base, NEW G, NEW C, NEW h, IsFold(h, S, D, base, G, C),
         \A s \in SUBSET S : s # {} => C[s] \in s,
         NEW P, <<{}, base>> \in P,
         \A s \in SUBSET S : \A x \in s : \A n \in D : <<s \ {x}, n>> \in P => <<s, G[<<x, n>>]>> \in P
  PROVE  <<S, h[S]>> \in P
<1> DEFINE F == {s \in SUBSET S : <<s, h[s]>> \in P}
<1>1. ASSUME NEW s \in SUBSET S, \A x \in s : s \ {x} \in F
      PROVE  s \in F
  <2>1. CASE s = {}
    BY <2>1 DEF IsFold
  <2>2. CASE s # {}
    <3>1. PICK x \in s : x = C[s]
      BY <2>2
    <3>2. h[s] = G[<<x, h[s \ {x}]>>] /\ h[s \ {x}] \in D
      BY <2>2, <3>1 DEF IsFold
    <3>3. <<s \ {x}, h[s \ {x}]>> \in P
      BY <1>1
    <3> QED
      BY <3>2, <3>3
  <2> QED
    BY <2>1, <2>2
<1>2. \A s \in SUBSET S : s \in F
  <2> HIDE DEF F
  <2> QED
    BY <1>1, SubsetInduction
<1> QED
  BY <1>2

-----------------------------------------------------------------------------
(* Products and quotients *)

(* Division rounds down.                                                   *)
LEMMA DivIs ==
  ASSUME NEW a \in Nat, NEW b \in Nat \ {0}
  PROVE  a \div b \in Nat /\ b * (a \div b) <= a /\ a < b * (a \div b) + b
<1> QED
  BY Z3

(* Products of numbers.                                                    *)
LEMMA ProductIs ==
  ASSUME NEW a \in Nat, NEW b \in Nat
  PROVE  a * b \in Nat /\ a * b = b * a
BY Z3

(* Products are in the order of one factor.                                *)
LEMMA ProductLess ==
  ASSUME NEW a \in Nat, NEW b \in Nat, NEW c \in Nat, b <= c
  PROVE  a * b <= a * c
BY Z3

(* And the other way round.                                                *)
LEMMA CancelFactor ==
  ASSUME NEW a \in Nat \ {0}, NEW b \in Int, NEW c \in Int, a * b <= a * c
  PROVE  b <= c
<1>1. ASSUME b >= c + 1 PROVE FALSE
  <2>1. a * b >= a * (c + 1)
    BY <1>1, Z3
  <2>2. a * (c + 1) = a * c + a
    BY Z3
  <2>3. a * b \in Int /\ a * c \in Int
    BY Z3
  <2> QED
    BY <2>1, <2>2, <2>3
<1> QED
  BY <1>1
=============================================================================
