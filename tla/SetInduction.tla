---------------------------- MODULE SetInduction ----------------------------
(***************************************************************************)
(* What is proved by induction on a finite set: that it has a largest      *)
(* element, and what a sum over it is.  Ledger and LedgerContract add up   *)
(* amounts with SumFunctionOnSet of the community modules, which is        *)
(* defined by recursion on the set; the recursion is unfolded, and shown   *)
(* to be well-founded, here only.                                          *)
(*                                                                         *)
(* Induction is used in the form of the theorem SubsetInduction, in which  *)
(* the property is a set of sets.                                          *)
(***************************************************************************)
EXTENDS FiniteSetTheorems, TLAPS

(* A set of sets that contains a finite set T whenever it contains the     *)
(* proper subsets of T contains every subset of a finite set S.            *)
THEOREM SubsetInduction ==
    ASSUME NEW S, IsFiniteSet(S), NEW Good,
           \A T \in SUBSET S :
              (\A U \in SUBSET T : U # T => U \in Good) => T \in Good
    PROVE  \A T \in SUBSET S : T \in Good
<1> DEFINE Bad == {T \in SUBSET S : T \notin Good}
           R   == StrictSubsetOrdering(S)
<1>1. IsWellFoundedOn(R, SUBSET S)
  BY FS_StrictSubsetOrderingWellFounded, FS_FiniteSubsetsOfFinite
<1>2. SUFFICES ASSUME Bad # {} PROVE FALSE
  OBVIOUS
<1>3. Bad \subseteq SUBSET S
  OBVIOUS
<1>4. PICK T \in Bad : \A U \in Bad : ~ (<<U, T>> \in R)
  <2> HIDE DEF Bad, R
  <2> QED
    BY <1>1, <1>2, <1>3, WFMin
<1>5. ASSUME NEW U \in SUBSET T, U # T PROVE U \in Good
  <2>1. U \in SUBSET S
    BY <1>4
  <2>2. <<U, T>> \in R
    BY <1>4, <1>5, <2>1 DEF StrictSubsetOrdering
  <2> QED
    BY <1>4, <2>1, <2>2
<1> QED
  BY <1>4, <1>5

(* A nonempty finite set has an element for which f is largest.            *)
THEOREM Largest ==
    ASSUME NEW S, IsFiniteSet(S), S # {}, NEW f, \A x \in S : f[x] \in Int
    PROVE  \E m \in S : \A x \in S : f[x] <= f[m]
<1> DEFINE Good == {T \in SUBSET S :
                       T # {} => \E m \in T : \A x \in T : f[x] <= f[m]}
<1>1. ASSUME NEW T \in SUBSET S, \A U \in SUBSET T : U # T => U \in Good
      PROVE  T \in Good
  <2>1. SUFFICES ASSUME NEW y \in T
                 PROVE  \E m \in T : \A x \in T : f[x] <= f[m]
    OBVIOUS
  <2>2. CASE T \ {y} = {}
    <3>1. \A x \in T : f[x] <= f[y]
      BY <2>2
    <3> QED
      BY <3>1
  <2>3. CASE T \ {y} # {}
    <3>1. T \ {y} \in Good
      BY <1>1
    <3>2. PICK m \in T \ {y} : \A x \in T \ {y} : f[x] <= f[m]
      BY <2>3, <3>1
    <3>3. CASE f[y] <= f[m]
      BY <3>2, <3>3
    <3>4. CASE ~ (f[y] <= f[m])
      <4>1. \A x \in T : f[x] <= f[y]
        BY <3>2, <3>4
      <4> QED
        BY <4>1
    <3> QED
      BY <3>3, <3>4
  <2> QED
    BY <2>2, <2>3
<1>2. \A T \in SUBSET S : T \in Good
  <2> HIDE DEF Good
  <2> QED
    BY <1>1, SubsetInduction
<1> QED
  BY <1>2

-----------------------------------------------------------------------------
(* The recursion.                                                          *)

(* The element a sum takes out of a set first.                             *)
Pick(S) == CHOOSE x \in S : TRUE

(* The equation of the recursive function that sums f over subsets of S.   *)
SumsUp(it, f, S) ==
    it = [s \in SUBSET S |->
            IF s = {} THEN 0 ELSE f[Pick(s)] + it[s \ {Pick(s)}]]

Summing(f, S) == CHOOSE it : SumsUp(it, f, S)

(* The sum is the value of that function at the whole set.                 *)
LEMMA SumUnfolded ==
    ASSUME NEW f, NEW S
    PROVE  SumFunctionOnSet(f, S) = Summing(f, S)[S]
  BY DEF SumFunctionOnSet, FoldFunctionOnSet, MapThenFoldSet, Summing, SumsUp,
         Pick

(* The element taken out of a nonempty set is one of its elements.         *)
LEMMA PickIn == ASSUME NEW S, S # {} PROVE Pick(S) \in S
  BY DEF Pick

(* Two solutions of the equation agree where both are defined.             *)
LEMMA SummingUnique ==
    ASSUME NEW f, NEW A, NEW B, IsFiniteSet(A), A \subseteq B,
           NEW g, SumsUp(g, f, A), NEW h, SumsUp(h, f, B)
    PROVE  \A s \in SUBSET A : g[s] = h[s]
<1> DEFINE Good == {s \in SUBSET A : g[s] = h[s]}
<1>1. ASSUME NEW T \in SUBSET A, \A U \in SUBSET T : U # T => U \in Good
      PROVE  T \in Good
  <2>1. CASE T = {}
    <3>1. g[T] = 0
      BY <2>1 DEF SumsUp
    <3>2. h[T] = 0
      BY <2>1 DEF SumsUp
    <3> QED
      BY <3>1, <3>2
  <2>2. CASE T # {}
    <3>0. Pick(T) \in T
      BY <2>2, PickIn
    <3>1. T \ {Pick(T)} \in SUBSET T /\ T \ {Pick(T)} # T
      BY <3>0
    <3>2. g[T \ {Pick(T)}] = h[T \ {Pick(T)}]
      BY <3>1, <1>1
    <3>3. g[T] = f[Pick(T)] + g[T \ {Pick(T)}]
      BY <2>2 DEF SumsUp
    <3>4. h[T] = f[Pick(T)] + h[T \ {Pick(T)}]
      BY <2>2 DEF SumsUp
    <3> QED
      BY <3>2, <3>3, <3>4
  <2> QED
    BY <2>1, <2>2
<1>2. \A s \in SUBSET A : s \in Good
  <2> HIDE DEF Good
  <2> QED
    BY <1>1, SubsetInduction
<1> QED
  BY <1>2

(* On a finite set the equation has a solution.                            *)
LEMMA SummingExists ==
    ASSUME NEW f, NEW S, IsFiniteSet(S)
    PROVE  SumsUp(Summing(f, S), f, S)
<1> DEFINE Good == {T \in SUBSET S : \E it : SumsUp(it, f, T)}
<1>1. ASSUME NEW T \in SUBSET S, \A U \in SUBSET T : U # T => U \in Good
      PROVE  T \in Good
  <2> DEFINE V(s) == IF s = {} THEN 0
                     ELSE f[Pick(s)] + Summing(f, s \ {Pick(s)})[s \ {Pick(s)}]
             it   == [s \in SUBSET T |-> V(s)]
  <2>1. ASSUME NEW U \in SUBSET T, U # T
        PROVE  SumsUp(Summing(f, U), f, U) /\ IsFiniteSet(U)
    <3>1. \E g : SumsUp(g, f, U)
      BY <1>1, <2>1
    <3>2. IsFiniteSet(U)
      BY FS_Subset
    <3> QED
      BY <3>1, <3>2 DEF Summing
  <2>2. ASSUME NEW U \in SUBSET T, U # T PROVE Summing(f, U)[U] = it[U]
    <3>1. CASE U = {}
      BY <2>1, <2>2, <3>1 DEF SumsUp
    <3>2. CASE U # {}
      <4> DEFINE W == U \ {Pick(U)}
      <4>0. Pick(U) \in U
        BY <3>2, PickIn
      <4>1. W \in SUBSET T /\ W # T /\ W \subseteq U
        BY <2>2
      <4>2. SumsUp(Summing(f, W), f, W) /\ IsFiniteSet(W)
        BY <4>1, <2>1
      <4>3. SumsUp(Summing(f, U), f, U)
        BY <2>1, <2>2
      <4>4. Summing(f, W)[W] = Summing(f, U)[W]
        BY <4>1, <4>2, <4>3, SummingUnique
      <4>5. Summing(f, U)[U] = f[Pick(U)] + Summing(f, U)[W]
        BY <4>3, <3>2 DEF SumsUp
      <4> QED
        BY <4>4, <4>5, <3>2
    <3> QED
      BY <3>1, <3>2
  <2>3. ASSUME NEW s \in SUBSET T
        PROVE  V(s) = IF s = {} THEN 0 ELSE f[Pick(s)] + it[s \ {Pick(s)}]
    <3>1. CASE s # {}
      <4>0. Pick(s) \in s
        BY <3>1, PickIn
      <4>1. s \ {Pick(s)} \in SUBSET T /\ s \ {Pick(s)} # T
        BY <4>0
      <4>2. Summing(f, s \ {Pick(s)})[s \ {Pick(s)}] = it[s \ {Pick(s)}]
        BY <4>1, <2>2
      <4> HIDE DEF it
      <4> QED
        BY <4>2, <3>1
    <3> QED
      BY <3>1
  <2>4. it = [s \in SUBSET T |->
                IF s = {} THEN 0 ELSE f[Pick(s)] + it[s \ {Pick(s)}]]
    <3> HIDE DEF V
    <3>1. it = [s \in SUBSET T |-> V(s)]
      OBVIOUS
    <3> HIDE DEF it
    <3> QED
      BY <2>3, <3>1, Zenon
  <2>5. SumsUp(it, f, T)
    BY <2>4 DEF SumsUp
  <2> QED
    BY <2>5
<1>2. \A T \in SUBSET S : T \in Good
  <2> HIDE DEF Good
  <2> QED
    BY <1>1, SubsetInduction
<1> QED
  BY <1>2 DEF Summing

-----------------------------------------------------------------------------
(* What a sum is.                                                          *)

(* The empty sum is 0.                                                     *)
THEOREM SumEmpty == ASSUME NEW f PROVE SumFunctionOnSet(f, {}) = 0
<1>1. SumsUp(Summing(f, {}), f, {})
  BY FS_EmptySet, SummingExists
<1> QED
  BY <1>1, SumUnfolded DEF SumsUp

(* A nonempty sum is the picked element's value and the sum of the rest.   *)
LEMMA SumPick ==
    ASSUME NEW f, NEW S, IsFiniteSet(S), S # {}
    PROVE  SumFunctionOnSet(f, S) =
              f[Pick(S)] + SumFunctionOnSet(f, S \ {Pick(S)})
<1>1. SUFFICES ASSUME NEW T, T = S \ {Pick(S)}
               PROVE  Summing(f, S)[S] = f[Pick(S)] + Summing(f, T)[T]
  BY SumUnfolded
<1>2. IsFiniteSet(T) /\ T \subseteq S
  BY <1>1, FS_RemoveElement
<1>3. SumsUp(Summing(f, S), f, S)
  BY SummingExists
<1>4. SumsUp(Summing(f, T), f, T)
  BY <1>2, SummingExists
<1>5. Summing(f, T)[T] = Summing(f, S)[T]
  BY <1>2, <1>3, <1>4, SummingUnique
<1>6. Summing(f, S)[S] = f[Pick(S)] + Summing(f, S)[T]
  BY <1>1, <1>3 DEF SumsUp
<1> QED
  BY <1>5, <1>6

(* A sum of integers is an integer.                                        *)
THEOREM SumInt ==
    ASSUME NEW f, NEW S, IsFiniteSet(S), \A x \in S : f[x] \in Int
    PROVE  SumFunctionOnSet(f, S) \in Int
<1> DEFINE Good == {T \in SUBSET S : SumFunctionOnSet(f, T) \in Int}
<1>1. ASSUME NEW T \in SUBSET S, \A U \in SUBSET T : U # T => U \in Good
      PROVE  T \in Good
  <2>1. CASE T = {}
    BY <2>1, SumEmpty
  <2>2. CASE T # {}
    <3>1. Pick(T) \in T
      BY <2>2, PickIn
    <3>2. T \ {Pick(T)} \in Good
      BY <3>1, <1>1
    <3>3. IsFiniteSet(T)
      BY FS_Subset
    <3>4. SumFunctionOnSet(f, T) =
             f[Pick(T)] + SumFunctionOnSet(f, T \ {Pick(T)})
      BY <2>2, <3>3, SumPick
    <3> QED
      BY <3>1, <3>2, <3>4
  <2> QED
    BY <2>1, <2>2
<1>2. \A T \in SUBSET S : T \in Good
  <2> HIDE DEF Good
  <2> QED
    BY <1>1, SubsetInduction
<1> QED
  BY <1>2

(* Any element may be taken out of the sum first: the sum does not depend  *)
(* on the order.                                                           *)
THEOREM SumRemove ==
    ASSUME NEW f, NEW S, IsFiniteSet(S), \A x \in S : f[x] \in Int,
           NEW y \in S
    PROVE  SumFunctionOnSet(f, S) = f[y] + SumFunctionOnSet(f, S \ {y})
<1> DEFINE Good == {T \in SUBSET S : \A x \in T :
                       SumFunctionOnSet(f, T) =
                          f[x] + SumFunctionOnSet(f, T \ {x})}
<1>1. ASSUME NEW T \in SUBSET S, \A U \in SUBSET T : U # T => U \in Good
      PROVE  T \in Good
  <2> SUFFICES ASSUME NEW x \in T
               PROVE  SumFunctionOnSet(f, T) =
                         f[x] + SumFunctionOnSet(f, T \ {x})
    OBVIOUS
  <2> DEFINE p == Pick(T)
             U == T \ {p, x}
  <2>1. p \in T /\ IsFiniteSet(T)
    BY PickIn, FS_Subset
  <2>2. SumFunctionOnSet(f, T) = f[p] + SumFunctionOnSet(f, T \ {p})
    BY <2>1, SumPick
  <2>3. CASE x = p
    BY <2>2, <2>3
  <2>4. CASE x # p
    <3>1. T \ {p} \in Good /\ T \ {x} \in Good
      BY <1>1, <2>1
    <3>2. (T \ {p}) \ {x} = U /\ (T \ {x}) \ {p} = U
      OBVIOUS
    <3>3. SumFunctionOnSet(f, T \ {p}) = f[x] + SumFunctionOnSet(f, U)
      BY <3>1, <3>2, <2>4
    <3>4. SumFunctionOnSet(f, T \ {x}) = f[p] + SumFunctionOnSet(f, U)
      BY <3>1, <3>2, <2>1, <2>4
    <3>5. f[p] \in Int /\ f[x] \in Int /\ SumFunctionOnSet(f, U) \in Int
      <4>1. IsFiniteSet(U)
        BY <2>1, FS_Subset
      <4> QED
        BY <4>1, <2>1, SumInt
    <3> QED
      BY <2>2, <3>3, <3>4, <3>5
  <2> QED
    BY <2>3, <2>4
<1>2. \A T \in SUBSET S : T \in Good
  <2> HIDE DEF Good
  <2> QED
    BY <1>1, SubsetInduction
<1>3. S \in Good
  BY <1>2
<1> QED
  BY <1>3

(* The sum over a set with one more element.                               *)
THEOREM SumAdd ==
    ASSUME NEW f, NEW S, IsFiniteSet(S), NEW y, y \notin S,
           \A x \in S \cup {y} : f[x] \in Int
    PROVE  SumFunctionOnSet(f, S \cup {y}) = f[y] + SumFunctionOnSet(f, S)
<1>1. IsFiniteSet(S \cup {y}) /\ (S \cup {y}) \ {y} = S
  BY FS_AddElement
<1> QED
  BY <1>1, SumRemove

(* The sum over one element.                                               *)
THEOREM SumSingle ==
    ASSUME NEW f, NEW y, f[y] \in Int
    PROVE  SumFunctionOnSet(f, {y}) = f[y]
<1>1. IsFiniteSet({}) /\ {} \cup {y} = {y}
  BY FS_EmptySet
<1>2. SumFunctionOnSet(f, {} \cup {y}) = f[y] + SumFunctionOnSet(f, {})
  BY <1>1, SumAdd
<1> QED
  BY <1>1, <1>2, SumEmpty

(* The sum over two elements.                                              *)
THEOREM SumPair ==
    ASSUME NEW f, NEW y, NEW z, y # z, f[y] \in Int, f[z] \in Int
    PROVE  SumFunctionOnSet(f, {y, z}) = f[y] + f[z]
<1>1. IsFiniteSet({z}) /\ {z} \cup {y} = {y, z}
  BY FS_Singleton
<1>2. SumFunctionOnSet(f, {z} \cup {y}) = f[y] + SumFunctionOnSet(f, {z})
  BY <1>1, SumAdd
<1> QED
  BY <1>1, <1>2, SumSingle

(* Sums of equal values are equal.                                         *)
THEOREM SumCongruent ==
    ASSUME NEW f, NEW g, NEW S, IsFiniteSet(S), \A x \in S : f[x] = g[x]
    PROVE  SumFunctionOnSet(f, S) = SumFunctionOnSet(g, S)
<1> DEFINE Good == {T \in SUBSET S :
                       SumFunctionOnSet(f, T) = SumFunctionOnSet(g, T)}
<1>1. ASSUME NEW T \in SUBSET S, \A U \in SUBSET T : U # T => U \in Good
      PROVE  T \in Good
  <2>1. CASE T = {}
    BY <2>1, SumEmpty
  <2>2. CASE T # {}
    <3>1. Pick(T) \in T /\ IsFiniteSet(T)
      BY <2>2, PickIn, FS_Subset
    <3>2. T \ {Pick(T)} \in Good
      BY <3>1, <1>1
    <3>3. SumFunctionOnSet(f, T) =
             f[Pick(T)] + SumFunctionOnSet(f, T \ {Pick(T)})
      BY <2>2, <3>1, SumPick
    <3>4. SumFunctionOnSet(g, T) =
             g[Pick(T)] + SumFunctionOnSet(g, T \ {Pick(T)})
      BY <2>2, <3>1, SumPick
    <3> QED
      BY <3>1, <3>2, <3>3, <3>4
  <2> QED
    BY <2>1, <2>2
<1>2. \A T \in SUBSET S : T \in Good
  <2> HIDE DEF Good
  <2> QED
    BY <1>1, SubsetInduction
<1> QED
  BY <1>2

(* The sum over two disjoint sets.                                         *)
THEOREM SumDisjoint ==
    ASSUME NEW f, NEW A, IsFiniteSet(A), NEW B, IsFiniteSet(B),
           A \cap B = {}, \A x \in A \cup B : f[x] \in Int
    PROVE  SumFunctionOnSet(f, A \cup B) =
              SumFunctionOnSet(f, A) + SumFunctionOnSet(f, B)
<1> DEFINE Good == {T \in SUBSET A : SumFunctionOnSet(f, T \cup B) =
                       SumFunctionOnSet(f, T) + SumFunctionOnSet(f, B)}
<1>1. ASSUME NEW T \in SUBSET A, \A U \in SUBSET T : U # T => U \in Good
      PROVE  T \in Good
  <2>0. SumFunctionOnSet(f, B) \in Int
    BY SumInt
  <2>1. CASE T = {}
    <3>1. T \cup B = B /\ SumFunctionOnSet(f, T) = 0
      BY <2>1, SumEmpty
    <3> QED
      BY <2>0, <3>1
  <2>2. CASE T # {}
    <3>0. PICK x \in T : TRUE
      BY <2>2
    <3> DEFINE U == T \ {x}
    <3>1. IsFiniteSet(T) /\ IsFiniteSet(U) /\ IsFiniteSet(T \cup B)
      BY FS_Subset, FS_RemoveElement, FS_Union
    <3>2. U \in Good
      BY <3>0, <1>1
    <3>3. SumFunctionOnSet(f, T) = f[x] + SumFunctionOnSet(f, U)
      BY <3>1, SumRemove
    <3>4. (T \cup B) \ {x} = U \cup B
      OBVIOUS
    <3>5. SumFunctionOnSet(f, T \cup B) = f[x] + SumFunctionOnSet(f, U \cup B)
      BY <3>1, <3>4, SumRemove
    <3>6. f[x] \in Int /\ SumFunctionOnSet(f, U) \in Int
      BY <3>1, SumInt
    <3> QED
      BY <2>0, <3>2, <3>3, <3>5, <3>6
  <2> QED
    BY <2>1, <2>2
<1>2. \A T \in SUBSET A : T \in Good
  <2> HIDE DEF Good
  <2> QED
    BY <1>1, SubsetInduction
<1> QED
  BY <1>2

(* A sum of natural numbers is one.                                        *)
THEOREM SumNat ==
    ASSUME NEW f, NEW S, IsFiniteSet(S), \A x \in S : f[x] \in Nat
    PROVE  SumFunctionOnSet(f, S) \in Nat
<1> DEFINE Good == {T \in SUBSET S : SumFunctionOnSet(f, T) \in Nat}
<1>1. ASSUME NEW T \in SUBSET S, \A U \in SUBSET T : U # T => U \in Good
      PROVE  T \in Good
  <2>1. CASE T = {}
    BY <2>1, SumEmpty
  <2>2. CASE T # {}
    <3>1. Pick(T) \in T /\ IsFiniteSet(T)
      BY <2>2, PickIn, FS_Subset
    <3>2. T \ {Pick(T)} \in Good
      BY <3>1, <1>1
    <3>3. SumFunctionOnSet(f, T) =
             f[Pick(T)] + SumFunctionOnSet(f, T \ {Pick(T)})
      BY <2>2, <3>1, SumPick
    <3> QED
      BY <3>1, <3>2, <3>3
  <2> QED
    BY <2>1, <2>2
<1>2. \A T \in SUBSET S : T \in Good
  <2> HIDE DEF Good
  <2> QED
    BY <1>1, SubsetInduction
<1> QED
  BY <1>2

(* The groups part[t], for t in T, divide S: each element is in one.       *)
Divides(part, T, S) ==
    /\ \A t \in T : part[t] \subseteq S
    /\ \A x \in S : \E t \in T : x \in part[t]
    /\ \A t, u \in T : \A x \in part[t] : x \in part[u] => t = u

(* A sum can be taken group by group.                                      *)
THEOREM SumByGroup ==
    ASSUME NEW f, NEW S, IsFiniteSet(S), \A x \in S : f[x] \in Int,
           NEW T, IsFiniteSet(T), NEW part, Divides(part, T, S),
           NEW h, \A t \in T : h[t] = SumFunctionOnSet(f, part[t])
    PROVE  SumFunctionOnSet(f, S) = SumFunctionOnSet(h, T)
<1> USE DEF Divides
<1> DEFINE In(U) == {x \in S : \E t \in U : x \in part[t]}
           Good  == {U \in SUBSET T : SumFunctionOnSet(f, In(U)) =
                                         SumFunctionOnSet(h, U)}
<1>0. ASSUME NEW U PROVE IsFiniteSet(In(U))
  BY FS_Subset
<1>1. ASSUME NEW U \in SUBSET T, \A V \in SUBSET U : V # U => V \in Good
      PROVE  U \in Good
  <2>1. CASE U = {}
    <3>1. In(U) = {}
      BY <2>1
    <3> QED
      BY <2>1, <3>1, SumEmpty
  <2>2. CASE U # {}
    <3>0. PICK t \in U : TRUE
      BY <2>2
    <3> DEFINE V == U \ {t}
               F == part[t]
    <3>1. V \in Good
      BY <3>0, <1>1
    <3>2. In(U) = F \cup In(V) /\ F \cap In(V) = {}
      OBVIOUS
    <3>3. IsFiniteSet(F) /\ IsFiniteSet(In(V)) /\ IsFiniteSet(U)
      BY <1>0, FS_Subset
    <3>4. SumFunctionOnSet(f, F \cup In(V)) =
             SumFunctionOnSet(f, F) + SumFunctionOnSet(f, In(V))
      <4>1. SUFFICES ASSUME NEW A, A = F, NEW B, B = In(V)
                     PROVE  SumFunctionOnSet(f, A \cup B) =
                               SumFunctionOnSet(f, A) + SumFunctionOnSet(f, B)
        OBVIOUS
      <4>2. \A x \in A \cup B : f[x] \in Int
        BY <4>1
      <4>3. IsFiniteSet(A) /\ IsFiniteSet(B) /\ A \cap B = {}
        BY <4>1, <3>2, <3>3
      <4> QED
        BY <4>2, <4>3, SumDisjoint
    <3>5. SumFunctionOnSet(h, U) = h[t] + SumFunctionOnSet(h, V)
      <4>1. \A u \in U : h[u] \in Int
        <5> TAKE u \in U
        <5>1. IsFiniteSet(part[u]) /\ \A x \in part[u] : f[x] \in Int
          BY FS_Subset
        <5> QED
          BY <5>1, SumInt
      <4> HIDE DEF In
      <4> QED
        BY <4>1, <3>0, <3>3, SumRemove
    <3>6. h[t] = SumFunctionOnSet(f, F)
      OBVIOUS
    <3> QED
      BY <3>1, <3>2, <3>4, <3>5, <3>6
  <2> QED
    BY <2>1, <2>2
<1>2. \A U \in SUBSET T : U \in Good
  <2> HIDE DEF Good
  <2> QED
    BY <1>1, SubsetInduction
<1>3. In(T) = S
  OBVIOUS
<1> QED
  BY <1>2, <1>3

(* The function g names the elements of T by those of S, one to one.       *)
Renames(g, S, T) ==
    /\ \A x \in S : g[x] \in T
    /\ \A x, y \in S : g[x] = g[y] => x = y
    /\ \A t \in T : \E x \in S : g[x] = t

(* Renaming the elements of a set one to one does not change the sum.      *)
THEOREM SumRenamed ==
    ASSUME NEW f, NEW S, IsFiniteSet(S), \A x \in S : f[x] \in Int,
           NEW T, IsFiniteSet(T), NEW g, Renames(g, S, T),
           NEW h, \A x \in S : h[g[x]] = f[x]
    PROVE  SumFunctionOnSet(f, S) = SumFunctionOnSet(h, T)
<1> DEFINE part == [t \in T |-> {x \in S : g[x] = t}]
<1> USE DEF Renames
<1>1. ASSUME NEW t \in T PROVE h[t] = SumFunctionOnSet(f, part[t])
  <2>1. PICK x \in S : g[x] = t
    OBVIOUS
  <2>2. part[t] = {x}
    BY <2>1
  <2> QED
    BY <2>1, <2>2, SumSingle
<1>2. Divides(part, T, S)
  BY DEF Divides
<1> HIDE DEF part
<1> QED
  BY <1>1, <1>2, SumByGroup

-----------------------------------------------------------------------------
(* The first n elements of a set in the order of a key.                    *)

(* The elements with a larger key than x.                                  *)
Above(f, S, x) == {y \in S : f[y] > f[x]}

(* The n elements with the largest keys.                                   *)
Top(f, S, n) == {x \in S : Cardinality(Above(f, S, x)) < n}

(* There are n of them when there are n elements and no key is used twice. *)
THEOREM TopSize ==
    ASSUME NEW S, IsFiniteSet(S), NEW f, \A x \in S : f[x] \in Int,
           \A x, y \in S : f[x] = f[y] => x = y,
           NEW n \in Nat, n <= Cardinality(S)
    PROVE  Cardinality(Top(f, S, n)) = n
<1> DEFINE Good == {T \in SUBSET S : \A k \in Nat :
                       k <= Cardinality(T) => Cardinality(Top(f, T, k)) = k}
<1>1. ASSUME NEW T \in SUBSET S, \A U \in SUBSET T : U # T => U \in Good
      PROVE  T \in Good
  <2> SUFFICES ASSUME NEW k \in Nat, k <= Cardinality(T)
               PROVE  Cardinality(Top(f, T, k)) = k
    OBVIOUS
  <2>0. IsFiniteSet(T) /\ Cardinality(T) \in Nat
    BY FS_Subset, FS_CardinalityType
  <2>1. CASE T = {}
    <3>1. Top(f, T, k) = {}
      BY <2>1 DEF Top
    <3>2. Cardinality(T) = 0
      BY <2>1, FS_EmptySet
    <3> QED
      BY <3>1, <3>2, FS_EmptySet
  <2>2. CASE T # {} /\ k = Cardinality(T)
    <3>1. ASSUME NEW x \in T PROVE Cardinality(Above(f, T, x)) < k
      <4>1. Above(f, T, x) \in SUBSET (T \ {x})
        BY DEF Above
      <4>2. IsFiniteSet(T \ {x}) /\ Cardinality(T \ {x}) = Cardinality(T) - 1
        BY <2>0, FS_RemoveElement
      <4>3. /\ Cardinality(Above(f, T, x)) <= Cardinality(T) - 1
            /\ Cardinality(Above(f, T, x)) \in Nat
        BY <4>1, <4>2, FS_Subset, FS_CardinalityType
      <4> QED
        BY <2>0, <2>2, <4>3
    <3>2. Top(f, T, k) = T
      BY <3>1 DEF Top
    <3> QED
      BY <2>2, <3>2
  <2>3. CASE T # {} /\ k # Cardinality(T)
    <3> DEFINE neg == [x \in T |-> -f[x]]
    <3>1. PICK m \in T : \A x \in T : f[m] <= f[x]
      <4>1. \A x \in T : neg[x] = -f[x] /\ neg[x] \in Int
        OBVIOUS
      <4>2. \E m \in T : \A x \in T : neg[x] <= neg[m]
        <5> HIDE DEF neg
        <5> QED
          BY <2>0, <2>3, <4>1, Largest
      <4>3. PICK m \in T : \A x \in T : neg[x] <= neg[m]
        BY <4>2
      <4>4. \A x \in T : f[m] <= f[x]
        BY <4>1, <4>3
      <4> QED
        BY <4>4
    <3> DEFINE U == T \ {m}
    <3>2. U \in Good
      BY <1>1
    <3>3. IsFiniteSet(U) /\ Cardinality(U) = Cardinality(T) - 1
      BY <2>0, FS_RemoveElement
    <3>4. k <= Cardinality(U)
      BY <2>0, <2>3, <3>3
    <3>5. Above(f, T, m) = U
      BY <3>1 DEF Above
    <3>6. \A x \in U : Above(f, T, x) = Above(f, U, x)
      BY <3>1 DEF Above
    <3>7. ~ (Cardinality(U) < k)
      BY <2>0, <3>3, <3>4
    <3>8. Top(f, T, k) = Top(f, U, k)
      <4> HIDE DEF Good
      <4> QED
        BY <3>5, <3>6, <3>7 DEF Top
    <3> QED
      BY <3>2, <3>4, <3>8
  <2> QED
    BY <2>1, <2>2, <2>3
<1>2. \A T \in SUBSET S : T \in Good
  <2> HIDE DEF Good
  <2> QED
    BY <1>1, SubsetInduction
<1> QED
  BY <1>2

(* An element left out of them has a smaller key than each of them, and    *)
(* there are more than n elements.                                         *)
THEOREM TopAbove ==
    ASSUME NEW S, IsFiniteSet(S), NEW f, \A x \in S : f[x] \in Int,
           NEW n \in Nat, NEW x \in S, x \notin Top(f, S, n)
    PROVE  /\ n < Cardinality(S)
           /\ \A y \in Top(f, S, n) : f[y] > f[x]
<1>1. ASSUME NEW z \in S
      PROVE  IsFiniteSet(Above(f, S, z)) /\ Cardinality(Above(f, S, z)) \in Nat
  <2>1. Above(f, S, z) \in SUBSET S
    BY DEF Above
  <2> QED
    BY <2>1, FS_Subset, FS_CardinalityType
<1>2. n <= Cardinality(Above(f, S, x))
  BY <1>1 DEF Top
<1>3. n < Cardinality(S)
  <2>1. Above(f, S, x) \in SUBSET (S \ {x})
    BY DEF Above
  <2>2. IsFiniteSet(S \ {x}) /\ Cardinality(S \ {x}) = Cardinality(S) - 1
    BY FS_RemoveElement
  <2>3. Cardinality(Above(f, S, x)) <= Cardinality(S) - 1
    BY <2>1, <2>2, FS_Subset
  <2>4. Cardinality(S) \in Nat /\ Cardinality(Above(f, S, x)) \in Nat
    BY <1>1, FS_CardinalityType
  <2> QED
    BY <1>2, <2>3, <2>4
<1>4. ASSUME NEW y \in Top(f, S, n), ~ (f[y] > f[x]) PROVE FALSE
  <2>1. y \in S /\ Cardinality(Above(f, S, y)) < n
    BY DEF Top
  <2>2. Above(f, S, x) \in SUBSET Above(f, S, y)
    BY <1>4, <2>1 DEF Above
  <2>3. Cardinality(Above(f, S, x)) <= Cardinality(Above(f, S, y))
    BY <1>1, <2>1, <2>2, FS_Subset
  <2>4. Cardinality(Above(f, S, x)) \in Nat /\ Cardinality(Above(f, S, y)) \in Nat
    BY <1>1, <2>1
  <2> QED
    BY <1>2, <2>1, <2>3, <2>4
<1> QED
  BY <1>3, <1>4
=============================================================================
