----------------------------- MODULE SumTheorems -----------------------------
(***************************************************************************)
(* What sums over finite sets keep, from their definition.  A set of       *)
(* finite sets that is not empty has a member that contains no other: that *)
(* takes the place of an induction.                                        *)
(***************************************************************************)
EXTENDS Functions, Integers, FiniteSetTheorems, WellFoundedInduction, TLAPS

(* A set of naturals that is not empty has a least element, since they are *)
(* well founded.                                                           *)
LEMMA LeastNatural ==
  ASSUME NEW T, T \subseteq Nat, T # {}
  PROVE  \E x \in T : \A y \in T : x <= y
<1> DEFINE R == OpToRel(<, Nat)
<1>1. \E x \in T : \A y \in T : ~ (<<y, x>> \in R)
  BY WFMin, NatLessThanWellFounded
<1>2. \A x, y \in Nat : y < x => <<y, x>> \in R
  BY DEF OpToRel
<1> HIDE DEF R
<1>3. PICK x \in T : \A y \in T : ~ (<<y, x>> \in R)
  BY <1>1
<1>4. ASSUME NEW y \in T
      PROVE  x <= y
  <2>1. x \in Nat /\ y \in Nat
    OBVIOUS
  <2>2. ~ (y < x)
    BY <1>2, <1>3, <2>1
  <2> QED
    BY <2>1, <2>2
<1> QED
  BY <1>4

(* Of some subsets of a finite set one contains no other.                  *)
LEMMA SmallestSubset ==
  ASSUME NEW S, IsFiniteSet(S), NEW F, F \subseteq SUBSET S, F # {}
  PROVE  \E T \in F : \A U \in F : U \subseteq T => U = T
<1>1. \A T \in F : IsFiniteSet(T) /\ Cardinality(T) \in Nat
  BY FS_Subset, FS_CardinalityType
<1> DEFINE N == {Cardinality(T) : T \in F}
<1>2. N \subseteq Nat /\ N # {}
  BY <1>1
<1>3. PICK n \in N : \A m \in N : n <= m
  <2> HIDE DEF N
  <2> QED
    BY <1>2, LeastNatural
<1>4. PICK T \in F : n = Cardinality(T)
  OBVIOUS
<1>5. ASSUME NEW U \in F, U \subseteq T
      PROVE  U = T
  <2>1. Cardinality(T) <= Cardinality(U) /\ Cardinality(U) \in Nat /\ Cardinality(T) \in Nat
    BY <1>1, <1>3, <1>4
  <2>2. Cardinality(U) <= Cardinality(T) /\ (Cardinality(T) = Cardinality(U) => T = U)
    BY <1>1, <1>5, FS_Subset
  <2>3. Cardinality(T) = Cardinality(U)
    BY <2>1, <2>2
  <2> QED
    BY <2>2, <2>3
<1> QED
  BY <1>5

-----------------------------------------------------------------------------

(* The element that a sum takes next, what is left then, and what it comes *)
(* to if g says what the rest does.                                        *)
Taken(s) == CHOOSE x \in s : TRUE
Left(s) == s \ {Taken(s)}
Upto(g, f, s) == IF s = {} THEN 0 ELSE f[Taken(s)] + g[Left(s)]
Sums(f, S) == CHOOSE g : g = [s \in SUBSET S |-> Upto(g, f, s)]

(* The definition, unfolded.                                               *)
LEMMA SumUnfolds ==
  ASSUME NEW f, NEW S
  PROVE  SumFunctionOnSet(f, S) = Sums(f, S)[S]
BY DEF SumFunctionOnSet, FoldFunctionOnSet, MapThenFoldSet, Sums, Upto, Taken, Left

(* What is left is less.                                                   *)
LEMMA LeftIsLess ==
  ASSUME NEW S, IsFiniteSet(S), S # {}
  PROVE  /\ Taken(S) \in S /\ Left(S) \subseteq S /\ Left(S) # S /\ IsFiniteSet(Left(S))
         /\ Cardinality(S) \in Nat /\ Cardinality(Left(S)) = Cardinality(S) - 1
<1>1. Taken(S) \in S
  BY DEF Taken
<1> QED
  BY <1>1, FS_RemoveElement, FS_CardinalityType DEF Left

(* There is such a function: one for the sets of at most n elements gives  *)
(* one for those of n + 1.                                                 *)
LEMMA SumsExist ==
  ASSUME NEW f, NEW S, IsFiniteSet(S)
  PROVE  \A s \in SUBSET S : Sums(f, S)[s] = Upto(Sums(f, S), f, s)
<1> DEFINE Small(n) == {s \in SUBSET S : Cardinality(s) <= n}
           IsSum(g, n) == g = [s \in Small(n) |-> Upto(g, f, s)]
           N == {n \in Nat : ~ \E g : IsSum(g, n)}
<1>1. \A s \in SUBSET S : IsFiniteSet(s) /\ Cardinality(s) \in Nat /\ Cardinality(s) <= Cardinality(S)
  BY FS_Subset, FS_CardinalityType
<1>2. IsSum([s \in Small(0) |-> 0], 0)
  <2>1. \A s \in Small(0) : s = {}
    <3> SUFFICES ASSUME NEW s \in Small(0) PROVE s = {}
      OBVIOUS
    <3>1. Cardinality(s) = 0
      BY <1>1
    <3> QED
      BY <1>1, <3>1, FS_EmptySet
  <2> QED
    BY <2>1 DEF Upto
<1>3. ASSUME NEW m \in Nat, NEW g, IsSum(g, m)
      PROVE  IsSum([s \in Small(m + 1) |-> Upto(g, f, s)], m + 1)
  <2> DEFINE h == [s \in Small(m + 1) |-> Upto(g, f, s)]
  <2>1. ASSUME NEW s \in Small(m + 1)
        PROVE  Upto(h, f, s) = Upto(g, f, s)
    <3>1. CASE s = {}
      BY <3>1 DEF Upto
    <3>2. CASE s # {}
      <4>1. Left(s) \in SUBSET S /\ Cardinality(Left(s)) = Cardinality(s) - 1 /\ Cardinality(s) \in Nat
        BY <1>1, <3>2, LeftIsLess
      <4>2. Left(s) \in Small(m) /\ Left(s) \in Small(m + 1)
        BY <4>1
      <4>3. h[Left(s)] = Upto(g, f, Left(s)) /\ g[Left(s)] = Upto(g, f, Left(s))
        BY <1>3, <4>2
      <4> HIDE DEF h
      <4> QED
        BY <3>2, <4>3 DEF Upto
    <3> QED
      BY <3>1, <3>2
  <2> QED
    BY <2>1
<1>4. N = {}
  <2> SUFFICES ASSUME N # {} PROVE FALSE
    OBVIOUS
  <2>1. PICK m \in N : \A n \in N : m <= n
    <3>1. N \subseteq Nat
      OBVIOUS
    <3> HIDE DEF N
    <3> QED
      BY <3>1, LeastNatural
  <2>2. m # 0 /\ m \in Nat
    BY <1>2
  <2>3. m - 1 \in Nat /\ ~ (m - 1 \in N)
    <3> HIDE DEF N
    <3>1. m - 1 \in N => m <= m - 1
      BY <2>1
    <3> QED
      BY <2>2, <3>1
  <2>4. PICK g : IsSum(g, m - 1)
    BY <2>3
  <2>5. (m - 1) + 1 = m
    BY <2>2
  <2> HIDE DEF IsSum
  <2>6. \E h : IsSum(h, (m - 1) + 1)
    BY <1>3, <2>3, <2>4
  <2> QED
    BY <2>1, <2>5, <2>6
<1>5. Cardinality(S) \in Nat /\ Small(Cardinality(S)) = SUBSET S
  BY <1>1, FS_CardinalityType
<1>6. PICK g : IsSum(g, Cardinality(S))
  <2>1. \A n \in Nat : \E g : IsSum(g, n)
    <3> HIDE DEF IsSum
    <3> QED
      BY <1>4
  <2> HIDE DEF IsSum
  <2> QED
    BY <1>5, <2>1
<1>7. g = [s \in SUBSET S |-> Upto(g, f, s)]
  <2> HIDE DEF Small
  <2> QED
    BY <1>5, <1>6
<1>8. Sums(f, S) = [s \in SUBSET S |-> Upto(Sums(f, S), f, s)]
  BY <1>7 DEF Sums
<1> HIDE DEF Small, IsSum, N
<1> QED
  BY <1>8

(* The sums that a larger set makes on the way to its own are the same.    *)
LEMMA SumsAgree ==
  ASSUME NEW f, NEW S, IsFiniteSet(S), NEW T \in SUBSET S
  PROVE  Sums(f, S)[T] = Sums(f, T)[T]
<1> DEFINE g == Sums(f, S)
           h == Sums(f, T)
           F == {s \in SUBSET T : g[s] # h[s]}
<1>1. IsFiniteSet(T)
  BY FS_Subset
<1>2. \A s \in SUBSET T : g[s] = Upto(g, f, s) /\ h[s] = Upto(h, f, s)
  BY <1>1, SumsExist
<1> HIDE DEF g, h
<1>3. F = {}
  <2> SUFFICES ASSUME F # {} PROVE FALSE
    OBVIOUS
  <2>1. PICK s \in F : \A u \in F : u \subseteq s => u = s
    <3>1. F \subseteq SUBSET T
      OBVIOUS
    <3> HIDE DEF F
    <3> QED
      BY <1>1, <3>1, SmallestSubset
  <2>2. s # {}
    BY <1>2 DEF Upto
  <2>3. IsFiniteSet(s)
    BY <1>1, FS_Subset
  <2>4. Left(s) \in SUBSET T /\ Left(s) \notin F
    BY <2>1, <2>2, <2>3, LeftIsLess
  <2>5. g[Left(s)] = h[Left(s)]
    BY <2>4
  <2> QED
    BY <1>2, <2>2, <2>5 DEF Upto
<1> QED
  BY <1>3 DEF g, h

(* One element after the other.                                            *)
LEMMA SumSteps ==
  ASSUME NEW f, NEW S, IsFiniteSet(S)
  PROVE  SumFunctionOnSet(f, S) = IF S = {} THEN 0 ELSE f[Taken(S)] + SumFunctionOnSet(f, Left(S))
<1> DEFINE g == Sums(f, S)
<1>1. g[S] = Upto(g, f, S)
  BY SumsExist
<1>2. S # {} => g[Left(S)] = SumFunctionOnSet(f, Left(S))
  <2> SUFFICES ASSUME S # {} PROVE g[Left(S)] = SumFunctionOnSet(f, Left(S))
    OBVIOUS
  <2>1. Left(S) \in SUBSET S
    BY LeftIsLess
  <2> QED
    BY <2>1, SumsAgree, SumUnfolds
<1>3. SumFunctionOnSet(f, S) = g[S]
  BY SumUnfolds
<1> HIDE DEF g
<1> QED
  BY <1>1, <1>2, <1>3 DEF Upto

-----------------------------------------------------------------------------

(* Sums of integers are integers.                                          *)
LEMMA SumIsInt ==
  ASSUME NEW D, NEW f \in [D -> Int], NEW S \in SUBSET D, IsFiniteSet(S)
  PROVE  SumFunctionOnSet(f, S) \in Int
<1> DEFINE F == {T \in SUBSET S : SumFunctionOnSet(f, T) \notin Int}
<1>1. F = {}
  <2> SUFFICES ASSUME F # {} PROVE FALSE
    OBVIOUS
  <2>1. PICK T \in F : \A U \in F : U \subseteq T => U = T
    <3>1. F \subseteq SUBSET S
      OBVIOUS
    <3> HIDE DEF F
    <3> QED
      BY <3>1, SmallestSubset
  <2>2. IsFiniteSet(T) /\ T \subseteq S
    BY FS_Subset
  <2>3. T # {}
    <3>1. SumFunctionOnSet(f, {}) = 0
      BY SumSteps, FS_EmptySet
    <3> QED
      BY <3>1
  <2>4. Taken(T) \in D /\ Left(T) \subseteq T /\ Left(T) # T
    BY <2>2, <2>3, LeftIsLess
  <2>5. SumFunctionOnSet(f, Left(T)) \in Int
    BY <2>1, <2>2, <2>4
  <2>6. SumFunctionOnSet(f, T) = f[Taken(T)] + SumFunctionOnSet(f, Left(T))
    BY <2>2, <2>3, SumSteps
  <2>7. f[Taken(T)] \in Int
    BY <2>4
  <2> QED
    BY <2>5, <2>6, <2>7
<1> QED
  BY <1>1

(* One more element adds its value, whichever is taken first.              *)
LEMMA SumAdds ==
  ASSUME NEW D, NEW f \in [D -> Int], NEW S \in SUBSET D, IsFiniteSet(S), NEW x \in D, x \notin S
  PROVE  SumFunctionOnSet(f, S \cup {x}) = f[x] + SumFunctionOnSet(f, S)
<1> DEFINE Adds(T, z) == SumFunctionOnSet(f, T \cup {z}) = f[z] + SumFunctionOnSet(f, T)
           F == {T \in SUBSET S : \E z \in D : z \notin T /\ ~Adds(T, z)}
<1>1. F = {}
  <2> SUFFICES ASSUME F # {} PROVE FALSE
    OBVIOUS
  <2>1. PICK T \in F : \A U \in F : U \subseteq T => U = T
    <3>1. F \subseteq SUBSET S
      OBVIOUS
    <3> HIDE DEF F
    <3> QED
      BY <3>1, SmallestSubset
  <2>2. PICK z \in D : z \notin T /\ ~Adds(T, z)
    BY <2>1
  <2>3. IsFiniteSet(T) /\ T \subseteq S /\ IsFiniteSet(T \cup {z}) /\ T \cup {z} # {}
    BY FS_Subset, FS_AddElement
  <2> DEFINE y == Taken(T \cup {z})
  <2>4. /\ y \in T \cup {z} /\ Left(T \cup {z}) = (T \cup {z}) \ {y}
        /\ SumFunctionOnSet(f, T \cup {z}) = f[y] + SumFunctionOnSet(f, (T \cup {z}) \ {y})
    BY <2>3, LeftIsLess, SumSteps DEF Left
  <2> HIDE DEF y
  <2>5. CASE y = z
    <3>1. (T \cup {z}) \ {y} = T
      BY <2>2, <2>5
    <3> QED
      BY <2>2, <2>4, <2>5, <3>1
  <2>6. CASE y # z
    <3> DEFINE U == T \ {y}
    <3>1. y \in T /\ y \in D /\ U \subseteq T /\ U # T /\ U \in SUBSET S /\ IsFiniteSet(U)
      BY <2>3, <2>4, <2>6, FS_Subset
    <3>2. \A w \in D : w \notin U => Adds(U, w)
      BY <2>1, <3>1
    <3>3. Adds(U, z) /\ Adds(U, y)
      BY <2>2, <3>1, <3>2
    <3>4. (T \cup {z}) \ {y} = U \cup {z} /\ U \cup {y} = T
      BY <2>2, <2>6, <3>1
    <3>5. SumFunctionOnSet(f, U) \in Int /\ f[y] \in Int /\ f[z] \in Int
      <4>1. U \in SUBSET D
        BY <3>1
      <4> QED
        BY <3>1, <4>1, SumIsInt
    <3>6. /\ SumFunctionOnSet(f, T \cup {z}) = f[y] + (f[z] + SumFunctionOnSet(f, U))
          /\ SumFunctionOnSet(f, T) = f[y] + SumFunctionOnSet(f, U)
      BY <2>4, <3>3, <3>4
    <3> QED
      BY <2>2, <3>5, <3>6
  <2> QED
    BY <2>5, <2>6
<1> QED
  BY <1>1

(* What an element contributes, and what the others do.                    *)
LEMMA SumWithout ==
  ASSUME NEW D, NEW f \in [D -> Int], NEW S \in SUBSET D, IsFiniteSet(S), NEW x \in S
  PROVE  SumFunctionOnSet(f, S) = f[x] + SumFunctionOnSet(f, S \ {x})
<1>1. S \ {x} \in SUBSET D /\ IsFiniteSet(S \ {x}) /\ x \in D /\ x \notin S \ {x} /\ (S \ {x}) \cup {x} = S
  BY FS_Subset
<1> QED
  BY <1>1, SumAdds

(* Functions that agree on a set have the same sum.                        *)
LEMMA SumAlike ==
  ASSUME NEW f, NEW g, NEW S, IsFiniteSet(S), \A x \in S : f[x] = g[x]
  PROVE  SumFunctionOnSet(f, S) = SumFunctionOnSet(g, S)
<1> DEFINE F == {T \in SUBSET S : SumFunctionOnSet(f, T) # SumFunctionOnSet(g, T)}
<1>1. F = {}
  <2> SUFFICES ASSUME F # {} PROVE FALSE
    OBVIOUS
  <2>1. PICK T \in F : \A U \in F : U \subseteq T => U = T
    <3>1. F \subseteq SUBSET S
      OBVIOUS
    <3> HIDE DEF F
    <3> QED
      BY <3>1, SmallestSubset
  <2>2. IsFiniteSet(T) /\ T \subseteq S
    BY FS_Subset
  <2>3. T # {}
    <3>1. SumFunctionOnSet(f, {}) = 0 /\ SumFunctionOnSet(g, {}) = 0
      BY SumSteps, FS_EmptySet
    <3> QED
      BY <3>1
  <2>4. Taken(T) \in T /\ Left(T) \subseteq T /\ Left(T) # T
    BY <2>2, <2>3, LeftIsLess
  <2>5. SumFunctionOnSet(f, Left(T)) = SumFunctionOnSet(g, Left(T))
    BY <2>1, <2>2, <2>4
  <2>6. /\ SumFunctionOnSet(f, T) = f[Taken(T)] + SumFunctionOnSet(f, Left(T))
        /\ SumFunctionOnSet(g, T) = g[Taken(T)] + SumFunctionOnSet(g, Left(T))
    BY <2>2, <2>3, SumSteps
  <2> QED
    BY <2>2, <2>4, <2>5, <2>6
<1> QED
  BY <1>1

(* A value that changes changes the sum by as much.                        *)
LEMMA SumChanges ==
  ASSUME NEW D, NEW f \in [D -> Int], NEW g \in [D -> Int], NEW S \in SUBSET D, IsFiniteSet(S), NEW x \in S,
         \A y \in S \ {x} : g[y] = f[y]
  PROVE  SumFunctionOnSet(g, S) = SumFunctionOnSet(f, S) + (g[x] - f[x])
<1>1. S \ {x} \in SUBSET D /\ IsFiniteSet(S \ {x}) /\ x \in D
  BY FS_Subset
<1>2. SumFunctionOnSet(g, S \ {x}) = SumFunctionOnSet(f, S \ {x})
  BY <1>1, SumAlike
<1>3. SumFunctionOnSet(g, S) = g[x] + SumFunctionOnSet(g, S \ {x})
  BY SumWithout
<1>4. SumFunctionOnSet(f, S) = f[x] + SumFunctionOnSet(f, S \ {x})
  BY SumWithout
<1>5. SumFunctionOnSet(f, S \ {x}) \in Int /\ f[x] \in Int /\ g[x] \in Int
  BY <1>1, SumIsInt
<1> QED
  BY <1>2, <1>3, <1>4, <1>5

(* Sums of naturals are naturals, and not 0 only if some value is not.     *)
LEMMA SumIsNat ==
  ASSUME NEW D, NEW f \in [D -> Nat], NEW S \in SUBSET D, IsFiniteSet(S)
  PROVE  /\ SumFunctionOnSet(f, S) \in Nat
         /\ (\A x \in S : f[x] = 0) => SumFunctionOnSet(f, S) = 0
<1> DEFINE Zero(T) == (\A x \in T : f[x] = 0) => SumFunctionOnSet(f, T) = 0
           F == {T \in SUBSET S : SumFunctionOnSet(f, T) \notin Nat \/ ~Zero(T)}
<1>1. F = {}
  <2> SUFFICES ASSUME F # {} PROVE FALSE
    OBVIOUS
  <2>1. PICK T \in F : \A U \in F : U \subseteq T => U = T
    <3>1. F \subseteq SUBSET S
      OBVIOUS
    <3> HIDE DEF F
    <3> QED
      BY <3>1, SmallestSubset
  <2>2. IsFiniteSet(T) /\ T \subseteq S
    BY FS_Subset
  <2>3. T # {}
    <3>1. SumFunctionOnSet(f, {}) = 0
      BY SumSteps, FS_EmptySet
    <3> QED
      BY <3>1
  <2>4. Taken(T) \in T /\ Taken(T) \in D /\ Left(T) \subseteq T /\ Left(T) # T
    BY <2>2, <2>3, LeftIsLess
  <2>5. SumFunctionOnSet(f, Left(T)) \in Nat /\ Zero(Left(T))
    BY <2>1, <2>2, <2>4
  <2>6. SumFunctionOnSet(f, T) = f[Taken(T)] + SumFunctionOnSet(f, Left(T))
    BY <2>2, <2>3, SumSteps
  <2>7. f[Taken(T)] \in Nat
    BY <2>4
  <2>8. SumFunctionOnSet(f, T) \in Nat
    BY <2>5, <2>6, <2>7
  <2>9. Zero(T)
    BY <2>4, <2>5, <2>6
  <2> QED
    BY <2>8, <2>9
<1>2. S \notin F
  BY <1>1
<1> QED
  BY <1>2
=============================================================================
