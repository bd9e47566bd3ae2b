----------------------------- MODULE SumTheorems -----------------------------
(* What SumFunctionOnSet of the community modules computes over a finite set *)
(* of numbers.  The inductions are on sets of natural numbers: the set of    *)
(* those for which a fact holds has 0 and is closed under successor, so it   *)
(* has them all.                                                             *)
EXTENDS Integers, Functions, FiniteSetTheorems, WellFoundedInduction, TLAPS

(* A set of natural numbers that is not empty has a smallest element.        *)
LEMMA Smallest ==
    ASSUME NEW T, T \subseteq Nat, T # {}
    PROVE  \E x \in T : \A y \in T : x <= y
<1> DEFINE R == OpToRel(<, Nat)
<1>1. IsWellFoundedOn(R, Nat)
  BY NatLessThanWellFounded
<1>2. \A x, y \in Nat : x < y => <<x, y>> \in R
  BY DEF OpToRel
<1> HIDE DEF R
<1>3. PICK x \in T : \A y \in T : ~ (<<y, x>> \in R)
  BY <1>1, WFMin
<1>4. ASSUME NEW y \in T PROVE x <= y
  <2>1. x \in Nat /\ y \in Nat
    OBVIOUS
  <2>2. ~ (y < x)
    BY <1>2, <1>3, <2>1
  <2> QED
    BY <2>1, <2>2
<1> QED
  BY <1>3, <1>4

(* Induction, for a set of numbers.                                          *)
LEMMA SetInduction ==
    ASSUME NEW N, 0 \in N, \A n \in Nat : n \in N => n + 1 \in N
    PROVE  \A n \in Nat : n \in N
<1> SUFFICES ASSUME Nat \ N # {} PROVE FALSE
  OBVIOUS
<1>1. PICK x \in Nat \ N : \A y \in Nat \ N : x <= y
  <2>1. Nat \ N \subseteq Nat
    OBVIOUS
  <2> QED
    BY <2>1, Smallest
<1>2. x # 0 /\ x - 1 \in Nat
  BY <1>1
<1>3. x - 1 \in N
  <2>1. ~ (x <= x - 1)
    BY <1>1
  <2> QED
    BY <1>1, <1>2, <2>1
<1>4. (x - 1) + 1 \in N
  BY <1>2, <1>3
<1> QED
  BY <1>1, <1>4

-----------------------------------------------------------------------------
(* The fold takes an arbitrary element of the set first, and then the rest.  *)
Pick(S) == CHOOSE x \in S : TRUE
Rest(S) == S \ {Pick(S)}

(* A function of the subsets of S in which a fold of F could be looked up.   *)
Folding(iter, F, S) ==
    iter = [s \in SUBSET S |-> IF s = {} THEN 0 ELSE F[Pick(s)] + iter[Rest(s)]]

LEMMA SumUnfolds ==
    ASSUME NEW F, NEW S
    PROVE  SumFunctionOnSet(F, S) = (CHOOSE iter : Folding(iter, F, S))[S]
BY DEF SumFunctionOnSet, FoldFunctionOnSet, MapThenFoldSet, Folding, Pick, Rest

LEMMA RestSmaller ==
    ASSUME NEW S, IsFiniteSet(S), S # {}
    PROVE  /\ Pick(S) \in S
           /\ Rest(S) \subseteq S
           /\ IsFiniteSet(Rest(S))
           /\ Cardinality(S) \in Nat
           /\ Cardinality(Rest(S)) \in Nat
           /\ Cardinality(S) = Cardinality(Rest(S)) + 1
<1>1. Pick(S) \in S
  BY DEF Pick
<1>2. IsFiniteSet(Rest(S)) /\ Cardinality(Rest(S)) = Cardinality(S) - 1
  BY <1>1, FS_RemoveElement DEF Rest
<1>3. Cardinality(S) \in Nat /\ Cardinality(Rest(S)) \in Nat
  BY <1>2, FS_CardinalityType
<1> QED
  BY <1>1, <1>2, <1>3 DEF Rest

(* Such a function exists: up to every cardinality, so for all subsets.      *)
LEMMA FoldsExist ==
    ASSUME NEW S, IsFiniteSet(S), NEW F
    PROVE  \E iter : Folding(iter, F, S)
<1> DEFINE Up(n) == {s \in SUBSET S : Cardinality(s) <= n}
           Next(s, g) == IF s = {} THEN 0 ELSE F[Pick(s)] + g[Rest(s)]
           Good(n, g) == g = [s \in Up(n) |-> Next(s, g)]
           N == {n \in Nat : \E g : Good(n, g)}
<1>1. ASSUME NEW n \in Nat, NEW s \in Up(n + 1), s # {}
      PROVE  Rest(s) \in Up(n)
  <2>1. IsFiniteSet(s)
    BY <1>1, FS_Subset
  <2> QED
    BY <1>1, <2>1, RestSmaller
<1>2. ASSUME NEW n \in Nat PROVE Up(n) \subseteq Up(n + 1)
  <2>1. \A s \in SUBSET S : Cardinality(s) \in Nat
    BY FS_Subset, FS_CardinalityType
  <2> QED
    BY <2>1
<1>3. 0 \in N
  <2> DEFINE g == [s \in Up(0) |-> 0]
  <2>1. \A s \in Up(0) : s = {}
    <3> TAKE s \in Up(0)
    <3>1. IsFiniteSet(s) /\ Cardinality(s) \in Nat
      BY FS_Subset, FS_CardinalityType
    <3>2. Cardinality(s) = 0
      BY <3>1
    <3> QED
      BY <3>1, <3>2, FS_EmptySet
  <2>2. Good(0, g)
    BY <2>1
  <2> QED
    BY <2>2
<1>4. ASSUME NEW n \in Nat, n \in N PROVE n + 1 \in N
  <2>1. PICK g : Good(n, g)
    BY <1>4
  <2> DEFINE h == [s \in Up(n + 1) |-> Next(s, g)]
  <2>2. \A s \in Up(n) : h[s] = g[s]
    <3> HIDE DEF Up, Next
    <3> QED
      BY <1>2, <2>1
  <2>3. ASSUME NEW s \in Up(n + 1) PROVE h[s] = Next(s, h)
    <3>1. h[s] = Next(s, g)
      OBVIOUS
    <3>2. CASE s = {}
      BY <3>1, <3>2
    <3>3. CASE s # {}
      <4>1. Rest(s) \in Up(n)
        BY <1>1, <3>3
      <4>2. h[Rest(s)] = g[Rest(s)]
        BY <2>2, <4>1
      <4> HIDE DEF h, Up
      <4> QED
        BY <3>1, <3>3, <4>2
    <3> QED
      BY <3>2, <3>3
  <2>4. Good(n + 1, h)
    <3>1. h = [s \in Up(n + 1) |-> h[s]]
      OBVIOUS
    <3> HIDE DEF h, Up, Next
    <3> QED
      BY <2>3, <3>1
  <2> HIDE DEF h, Good
  <2> QED
    BY <2>4
<1>5. Cardinality(S) \in N
  <2>1. Cardinality(S) \in Nat
    BY FS_CardinalityType
  <2> HIDE DEF N
  <2> QED
    BY <1>3, <1>4, <2>1, SetInduction
<1>6. Up(Cardinality(S)) = SUBSET S
  BY FS_Subset
<1>7. PICK g : Good(Cardinality(S), g)
  BY <1>5
<1>8. Folding(g, F, S)
  BY <1>6, <1>7 DEF Folding
<1> QED
  BY <1>8

(* ... and for a subset of S the functions for S and for it agree.           *)
LEMMA FoldsAgree ==
    ASSUME NEW S, IsFiniteSet(S), NEW F, NEW T \in SUBSET S,
           NEW f, Folding(f, F, S), NEW g, Folding(g, F, T)
    PROVE  f[T] = g[T]
<1> DEFINE N == {n \in Nat : \A s \in SUBSET T : Cardinality(s) = n => f[s] = g[s]}
<1>1. \A s \in SUBSET T : IsFiniteSet(s) /\ Cardinality(s) \in Nat
  BY FS_Subset, FS_CardinalityType
<1>2. \A s \in SUBSET T :
         /\ f[s] = IF s = {} THEN 0 ELSE F[Pick(s)] + f[Rest(s)]
         /\ g[s] = IF s = {} THEN 0 ELSE F[Pick(s)] + g[Rest(s)]
  <2>1. \A s \in SUBSET T : s \in SUBSET S
    OBVIOUS
  <2> QED
    BY <2>1 DEF Folding
<1>3. 0 \in N
  <2>1. \A s \in SUBSET T : Cardinality(s) = 0 => s = {}
    BY <1>1, FS_EmptySet
  <2> QED
    BY <1>2, <2>1
<1>4. ASSUME NEW n \in Nat, n \in N PROVE n + 1 \in N
  <2>1. ASSUME NEW s \in SUBSET T, Cardinality(s) = n + 1 PROVE f[s] = g[s]
    <3>1. s # {}
      BY <2>1, FS_EmptySet
    <3>2. Rest(s) \in SUBSET T /\ Cardinality(Rest(s)) = n
      BY <1>1, <2>1, <3>1, RestSmaller
    <3>3. f[Rest(s)] = g[Rest(s)]
      BY <1>4, <3>2
    <3> QED
      BY <1>2, <3>1, <3>3
  <2> QED
    BY <2>1
<1>5. Cardinality(T) \in N
  <2>1. Cardinality(T) \in Nat
    BY <1>1
  <2> HIDE DEF N
  <2> QED
    BY <1>3, <1>4, <2>1, SetInduction
<1> QED
  BY <1>5

(* The recursion that the fold satisfies.                                    *)
LEMMA SumRecursion ==
    ASSUME NEW S, IsFiniteSet(S), NEW F
    PROVE  SumFunctionOnSet(F, S) =
               IF S = {} THEN 0 ELSE F[Pick(S)] + SumFunctionOnSet(F, Rest(S))
<1> DEFINE f == CHOOSE iter : Folding(iter, F, S)
           T == Rest(S)
           g == CHOOSE iter : Folding(iter, F, T)
<1>1. Folding(f, F, S)
  BY FoldsExist
<1>2. T \in SUBSET S /\ IsFiniteSet(T)
  BY FS_Subset DEF Rest
<1>3. Folding(g, F, T)
  BY <1>2, FoldsExist
<1>4. SumFunctionOnSet(F, S) = f[S] /\ SumFunctionOnSet(F, T) = g[T]
  BY SumUnfolds
<1> HIDE DEF f, g
<1>5. f[T] = g[T]
  BY <1>1, <1>2, <1>3, FoldsAgree
<1>6. f[S] = IF S = {} THEN 0 ELSE F[Pick(S)] + f[T]
  BY <1>1 DEF Folding
<1> QED
  BY <1>4, <1>5, <1>6

-----------------------------------------------------------------------------
(* Induction, for the subsets of a finite set.                               *)
LEMMA SubsetInduction ==
    ASSUME NEW S, IsFiniteSet(S), NEW G,
           \A T \in SUBSET S : (\A U \in SUBSET T : U # T => U \in G) => T \in G
    PROVE  S \in G
<1> SUFFICES ASSUME S \notin G PROVE FALSE
  OBVIOUS
<1> DEFINE Bad == (SUBSET S) \ G
           Sizes == {Cardinality(T) : T \in Bad}
<1>1. \A T \in SUBSET S : IsFiniteSet(T) /\ Cardinality(T) \in Nat
  BY FS_Subset, FS_CardinalityType
<1>2. Sizes \subseteq Nat /\ Sizes # {}
  BY <1>1
<1>3. PICK n \in Sizes : \A m \in Sizes : n <= m
  BY <1>2, Smallest
<1>4. PICK T \in Bad : Cardinality(T) = n
  BY <1>3
<1>5. ASSUME NEW U \in SUBSET T, U # T PROVE U \in G
  <2>1. Cardinality(U) <= n /\ Cardinality(U) # n
    BY <1>1, <1>4, <1>5, FS_Subset
  <2>2. ~ (n <= Cardinality(U))
    BY <1>1, <1>2, <2>1
  <2> QED
    BY <1>3, <2>2
<1> QED
  BY <1>4, <1>5

LEMMA AddingInduction ==
    ASSUME NEW S, IsFiniteSet(S), NEW G, {} \in G,
           \A T \in SUBSET S, x \in S : T \in G /\ x \notin T => T \cup {x} \in G
    PROVE  S \in G
<1>1. ASSUME NEW T \in SUBSET S, \A U \in SUBSET T : U # T => U \in G PROVE T \in G
  <2>1. CASE T = {}
    BY <2>1
  <2>2. CASE T # {}
    <3>1. PICK x : x \in T
      BY <2>2
    <3>2. T \ {x} \in G /\ T = (T \ {x}) \cup {x}
      BY <1>1, <3>1
    <3> QED
      BY <3>1, <3>2
  <2> QED
    BY <2>1, <2>2
<1> QED
  BY <1>1, SubsetInduction

-----------------------------------------------------------------------------
(* The sum of no numbers.                                                    *)
LEMMA SumEmpty ==
    ASSUME NEW F
    PROVE  SumFunctionOnSet(F, {}) = 0
BY FS_EmptySet, SumRecursion

(* Sums of natural numbers are natural numbers.                              *)
LEMMA SumType ==
    ASSUME NEW S, IsFiniteSet(S), NEW F, \A x \in S : F[x] \in Nat
    PROVE  SumFunctionOnSet(F, S) \in Nat
<1> DEFINE G == {T \in SUBSET S : SumFunctionOnSet(F, T) \in Nat}
<1>1. ASSUME NEW T \in SUBSET S, \A U \in SUBSET T : U # T => U \in G PROVE T \in G
  <2>1. IsFiniteSet(T)
    BY FS_Subset
  <2>2. CASE T = {}
    BY <2>2, SumEmpty
  <2>3. CASE T # {}
    <3>1. Rest(T) \in SUBSET T /\ Rest(T) # T /\ Pick(T) \in S
      BY <2>1, <2>3, RestSmaller
    <3>2. SumFunctionOnSet(F, Rest(T)) \in Nat
      BY <1>1, <3>1
    <3>3. F[Pick(T)] + SumFunctionOnSet(F, Rest(T)) \in Nat
      BY <3>1, <3>2
    <3> QED
      BY <2>1, <2>3, <3>3, SumRecursion
  <2> QED
    BY <2>2, <2>3
<1> HIDE DEF G
<1>2. S \in G
  BY <1>1, SubsetInduction
<1> QED
  BY <1>2 DEF G

(* The order of the elements does not matter.                                *)
LEMMA SumRemove ==
    ASSUME NEW S, IsFiniteSet(S), NEW F, \A x \in S : F[x] \in Nat, NEW x \in S
    PROVE  SumFunctionOnSet(F, S) = F[x] + SumFunctionOnSet(F, S \ {x})
<1> DEFINE Sum(T) == SumFunctionOnSet(F, T)
           G == {T \in SUBSET S : \A y \in T : Sum(T) = F[y] + Sum(T \ {y})}
<1>1. ASSUME NEW T \in SUBSET S, \A U \in SUBSET T : U # T => U \in G PROVE T \in G
  <2> SUFFICES ASSUME NEW y \in T PROVE Sum(T) = F[y] + Sum(T \ {y})
    OBVIOUS
  <2>1. IsFiniteSet(T)
    BY FS_Subset
  <2> DEFINE p == Pick(T)
             R == T \ {p}
             Q == T \ {y}
  <2>2. p \in T /\ R = Rest(T)
    BY <2>1, RestSmaller DEF Rest
  <2>3. Sum(T) = F[p] + Sum(R)
    BY <2>1, <2>2, SumRecursion
  <2> HIDE DEF p
  <2>4. CASE y = p
    BY <2>3, <2>4
  <2>5. CASE y # p
    <3>1. R \in SUBSET T /\ R # T /\ Q \in SUBSET T /\ Q # T
      BY <2>2
    <3>2. y \in R /\ p \in Q /\ Q \ {p} = R \ {y}
      BY <2>2, <2>5
    <3>3. Sum(R) = F[y] + Sum(R \ {y}) /\ Sum(Q) = F[p] + Sum(Q \ {p})
      BY <1>1, <3>1, <3>2
    <3>4. F[p] \in Nat /\ F[y] \in Nat
      BY <2>2
    <3>5. IsFiniteSet(R \ {y}) /\ \A z \in R \ {y} : F[z] \in Nat
      BY <2>1, FS_Subset
    <3>6. Sum(R \ {y}) \in Nat
      BY <3>5, SumType
    <3> DEFINE n == Sum(R \ {y})
    <3>7. Sum(R) = F[y] + n /\ Sum(Q) = F[p] + n
      BY <3>2, <3>3
    <3> HIDE DEF R, n
    <3>8. F[p] + (F[y] + n) = F[y] + (F[p] + n)
      BY <3>4, <3>6 DEF n
    <3> QED
      BY <2>3, <3>7, <3>8
  <2> QED
    BY <2>4, <2>5
<1> HIDE DEF G
<1>2. S \in G
  BY <1>1, SubsetInduction
<1> QED
  BY <1>2 DEF G

LEMMA SumAdd ==
    ASSUME NEW S, IsFiniteSet(S), NEW x, x \notin S,
           NEW F, F[x] \in Nat, \A y \in S : F[y] \in Nat
    PROVE  /\ SumFunctionOnSet(F, S \cup {x}) = SumFunctionOnSet(F, S) + F[x]
           /\ SumFunctionOnSet(F, S) \in Nat
<1>1. IsFiniteSet(S \cup {x}) /\ (S \cup {x}) \ {x} = S
  BY FS_AddElement
<1>2. \A y \in S \cup {x} : F[y] \in Nat
  OBVIOUS
<1>3. SumFunctionOnSet(F, S \cup {x}) = F[x] + SumFunctionOnSet(F, S)
  BY <1>1, <1>2, SumRemove
<1>4. SumFunctionOnSet(F, S) \in Nat
  BY SumType
<1> QED
  BY <1>3, <1>4

(* Only the numbers of the set count.                                        *)
LEMMA SumSame ==
    ASSUME NEW S, IsFiniteSet(S), NEW F, NEW H,
           \A x \in S : F[x] \in Nat /\ H[x] = F[x]
    PROVE  SumFunctionOnSet(H, S) = SumFunctionOnSet(F, S)
<1> DEFINE G == {T \in SUBSET S : SumFunctionOnSet(H, T) = SumFunctionOnSet(F, T)}
<1>1. {} \in G
  BY SumEmpty
<1>2. ASSUME NEW T \in SUBSET S, NEW x \in S, T \in G, x \notin T PROVE T \cup {x} \in G
  <2>1. IsFiniteSet(T) /\ (\A y \in T : F[y] \in Nat) /\ F[x] \in Nat
    BY FS_Subset
  <2>2. (\A y \in T : H[y] \in Nat) /\ H[x] \in Nat /\ H[x] = F[x]
    OBVIOUS
  <2>3. SumFunctionOnSet(F, T \cup {x}) = SumFunctionOnSet(F, T) + F[x]
    BY <1>2, <2>1, SumAdd
  <2>4. SumFunctionOnSet(H, T \cup {x}) = SumFunctionOnSet(H, T) + H[x]
    BY <1>2, <2>1, <2>2, SumAdd
  <2> QED
    BY <1>2, <2>2, <2>3, <2>4
<1> HIDE DEF G
<1>3. S \in G
  BY <1>1, <1>2, AddingInduction
<1> QED
  BY <1>3 DEF G

(* Two sums over one set.                                                    *)
LEMMA SumPlus ==
    ASSUME NEW S, IsFiniteSet(S), NEW E, NEW F, NEW H,
           \A x \in S : E[x] \in Nat /\ F[x] \in Nat /\ H[x] = E[x] + F[x]
    PROVE  SumFunctionOnSet(H, S) = SumFunctionOnSet(E, S) + SumFunctionOnSet(F, S)
<1> DEFINE Sums(T) == SumFunctionOnSet(H, T)
                          = SumFunctionOnSet(E, T) + SumFunctionOnSet(F, T)
           G == {T \in SUBSET S : Sums(T)}
<1>1. {} \in G
  BY SumEmpty
<1>2. ASSUME NEW T \in SUBSET S, NEW x \in S, T \in G, x \notin T PROVE T \cup {x} \in G
  <2>1. IsFiniteSet(T)
    BY FS_Subset
  <2>2. /\ \A y \in T : E[y] \in Nat /\ F[y] \in Nat /\ H[y] \in Nat
        /\ E[x] \in Nat /\ F[x] \in Nat /\ H[x] \in Nat /\ H[x] = E[x] + F[x]
    OBVIOUS
  <2>3. /\ SumFunctionOnSet(E, T \cup {x}) = SumFunctionOnSet(E, T) + E[x]
        /\ SumFunctionOnSet(E, T) \in Nat
    BY <1>2, <2>1, <2>2, SumAdd
  <2>4. /\ SumFunctionOnSet(F, T \cup {x}) = SumFunctionOnSet(F, T) + F[x]
        /\ SumFunctionOnSet(F, T) \in Nat
    BY <1>2, <2>1, <2>2, SumAdd
  <2>5. SumFunctionOnSet(H, T \cup {x}) = SumFunctionOnSet(H, T) + H[x]
    BY <1>2, <2>1, <2>2, SumAdd
  <2>6. Sums(T)
    BY <1>2
  <2>7. Sums(T \cup {x})
    BY <2>2, <2>3, <2>4, <2>5, <2>6
  <2> QED
    BY <2>7
<1> HIDE DEF G
<1>3. S \in G
  BY <1>1, <1>2, AddingInduction
<1> QED
  BY <1>3 DEF G

(* One of the numbers grows.                                                 *)
LEMMA SumGrows ==
    ASSUME NEW S, IsFiniteSet(S), NEW F, NEW x \in S, NEW d \in Nat, NEW H,
           \A y \in S : F[y] \in Nat,
           H[x] = F[x] + d, \A y \in S \ {x} : H[y] = F[y]
    PROVE  SumFunctionOnSet(H, S) = SumFunctionOnSet(F, S) + d
<1> DEFINE T == S \ {x}
<1>1. IsFiniteSet(T) /\ \A y \in T : F[y] \in Nat /\ H[y] = F[y]
  BY FS_Subset
<1>2. SumFunctionOnSet(H, T) = SumFunctionOnSet(F, T) /\ SumFunctionOnSet(F, T) \in Nat
  BY <1>1, SumSame, SumType
<1>3. F[x] \in Nat /\ \A y \in S : H[y] \in Nat
  OBVIOUS
<1>4. SumFunctionOnSet(F, S) = F[x] + SumFunctionOnSet(F, T)
  BY SumRemove
<1>5. SumFunctionOnSet(H, S) = H[x] + SumFunctionOnSet(H, T)
  BY <1>3, SumRemove
<1> QED
  BY <1>2, <1>3, <1>4, <1>5

(* Numbers that are 0 do not count.                                          *)
LEMMA SumNonZero ==
    ASSUME NEW S, IsFiniteSet(S), NEW F, \A x \in S : F[x] \in Nat,
           NEW T \in SUBSET S, \A x \in S \ T : F[x] = 0
    PROVE  SumFunctionOnSet(F, S) = SumFunctionOnSet(F, T)
<1> DEFINE D == S \ T
           Sums(U) == SumFunctionOnSet(F, T \cup U) = SumFunctionOnSet(F, T)
           G == {U \in SUBSET D : Sums(U)}
<1>1. IsFiniteSet(T) /\ IsFiniteSet(D)
  BY FS_Subset
<1>2. {} \in G
  OBVIOUS
<1>3. ASSUME NEW U \in SUBSET D, NEW x \in D, U \in G, x \notin U PROVE U \cup {x} \in G
  <2> DEFINE V == T \cup U
  <2>1. V \in SUBSET S /\ x \notin V /\ F[x] = 0
    BY <1>3
  <2>2. IsFiniteSet(V) /\ \A y \in V : F[y] \in Nat
    BY <2>1, FS_Subset
  <2>3. /\ SumFunctionOnSet(F, V \cup {x}) = SumFunctionOnSet(F, V) + F[x]
        /\ SumFunctionOnSet(F, V) \in Nat
    <3> HIDE DEF V
    <3> QED
      BY <2>1, <2>2, SumAdd
  <2>4. Sums(U) /\ T \cup (U \cup {x}) = V \cup {x}
    BY <1>3
  <2>5. SumFunctionOnSet(F, V \cup {x}) = SumFunctionOnSet(F, V)
    <3> HIDE DEF V
    <3> QED
      BY <2>1, <2>3
  <2>6. Sums(U \cup {x})
    BY <2>4, <2>5, Zenon
  <2> QED
    BY <2>6
<1> HIDE DEF G
<1>4. D \in G
  BY <1>1, <1>2, <1>3, AddingInduction
<1>5. T \cup D = S
  OBVIOUS
<1> QED
  BY <1>4, <1>5 DEF G

Together(E, S) == UNION {E[x] : x \in S}

(* Sets apart from each other have together as many elements as each has,    *)
(* summed up.                                                                *)
LEMMA SumOfSizes ==
    ASSUME NEW S, IsFiniteSet(S), NEW E, NEW F,
           \A x \in S : IsFiniteSet(E[x]) /\ F[x] = Cardinality(E[x]),
           \A x, y \in S : x # y => E[x] \cap E[y] = {}
    PROVE  /\ IsFiniteSet(Together(E, S))
           /\ SumFunctionOnSet(F, S) = Cardinality(Together(E, S))
<1> DEFINE All(T) == Together(E, T)
           Sums(T) == IsFiniteSet(All(T)) /\ SumFunctionOnSet(F, T) = Cardinality(All(T))
           G == {T \in SUBSET S : Sums(T)}
<1>1. \A x \in S : F[x] \in Nat
  BY FS_CardinalityType
<1>2. {} \in G
  <2>1. All({}) = {}
    BY DEF Together
  <2>2. Sums({})
    BY <2>1, SumEmpty, FS_EmptySet
  <2> QED
    BY <2>2
<1>3. ASSUME NEW T \in SUBSET S, NEW x \in S, T \in G, x \notin T PROVE T \cup {x} \in G
  <2>1. IsFiniteSet(T) /\ \A y \in T : F[y] \in Nat
    BY <1>1, FS_Subset
  <2>2. SumFunctionOnSet(F, T \cup {x}) = SumFunctionOnSet(F, T) + F[x]
    BY <1>1, <1>3, <2>1, SumAdd
  <2>3. All(T \cup {x}) = All(T) \cup E[x] /\ All(T) \cap E[x] = {}
    BY <1>3 DEF Together
  <2>4. Sums(T) /\ IsFiniteSet(E[x]) /\ F[x] = Cardinality(E[x])
    BY <1>3
  <2> HIDE DEF All
  <2>5. /\ IsFiniteSet(All(T) \cup E[x])
        /\ Cardinality(All(T) \cup E[x]) =
               Cardinality(All(T)) + Cardinality(E[x]) - Cardinality({})
    BY <2>3, <2>4, FS_Union
  <2>6. Cardinality({}) = 0 /\ Cardinality(All(T)) \in Nat /\ Cardinality(E[x]) \in Nat
    BY <2>4, FS_EmptySet, FS_CardinalityType
  <2>7. Cardinality(All(T) \cup E[x]) = Cardinality(All(T)) + Cardinality(E[x])
    BY <2>5, <2>6
  <2>8. Sums(T \cup {x})
    BY <2>2, <2>3, <2>4, <2>5, <2>7, Zenon
  <2> QED
    BY <2>8
<1> HIDE DEF G
<1>4. S \in G
  BY <1>2, <1>3, AddingInduction
<1> QED
  BY <1>4 DEF G

(* A finite number of finite sets.                                           *)
LEMMA FiniteUnion ==
    ASSUME NEW S, IsFiniteSet(S), NEW E, \A x \in S : IsFiniteSet(E[x])
    PROVE  IsFiniteSet(Together(E, S))
<1> DEFINE All(T) == Together(E, T)
           G == {T \in SUBSET S : IsFiniteSet(All(T))}
<1>1. {} \in G
  <2>1. All({}) = {}
    BY DEF Together
  <2> QED
    BY <2>1, FS_EmptySet
<1>2. ASSUME NEW T \in SUBSET S, NEW x \in S, T \in G, x \notin T PROVE T \cup {x} \in G
  <2>1. All(T \cup {x}) = All(T) \cup E[x]
    BY DEF Together
  <2>2. IsFiniteSet(All(T)) /\ IsFiniteSet(E[x])
    BY <1>2
  <2> HIDE DEF All
  <2>3. IsFiniteSet(All(T \cup {x}))
    BY <2>1, <2>2, FS_Union
  <2> QED
    BY <2>3
<1> HIDE DEF G
<1>3. S \in G
  BY <1>1, <1>2, AddingInduction
<1> QED
  BY <1>3 DEF G

=============================================================================
