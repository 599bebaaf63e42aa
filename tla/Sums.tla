-------------------------------- MODULE Sums --------------------------------
(***************************************************************************)
(* Sums over finite sets. SumFunctionOnSet of the community module         *)
(* Functions is a fold that takes the elements in an order CHOOSE picks.   *)
(* These lemmas say that the order does not matter: a term may be taken    *)
(* out, added or changed, and the sum changes by that term. The books of   *)
(* the system (the totals of banks, vaults, positions and orders over all  *)
(* accounts) are proved with them for any finite set of accounts.          *)
(***************************************************************************)
EXTENDS Integers, FiniteSets, FiniteSetsExt, Functions, FiniteSetTheorems, WellFoundedInduction, TLAPS

(* Induction over the subsets of a finite set. The library's induction     *)
(* theorems take a predicate; here the property is a set Q, and the        *)
(* theorem follows from the well-foundedness of the strict subset          *)
(* relation.                                                               *)
LEMMA SubsetInduction ==
  ASSUME NEW S, IsFiniteSet(S), NEW Q,
         \A T \in SUBSET S : (\A U \in SUBSET T : U # T => U \in Q) => T \in Q
  PROVE  S \in Q
<1> DEFINE Bad == (SUBSET S) \ Q
<1> SUFFICES ASSUME Bad # {} PROVE FALSE OBVIOUS
<1>1. IsWellFoundedOn(StrictSubsetOrdering(S), SUBSET S)
  <2>1. FiniteSubsetsOf(S) = SUBSET S
    BY FS_FiniteSubsetsOfFinite
  <2>2. IsWellFoundedOn(StrictSubsetOrdering(S), FiniteSubsetsOf(S))
    BY FS_StrictSubsetOrderingWellFounded
  <2> QED BY <2>1, <2>2
<1>2. PICK T \in Bad : \A U \in Bad : <<U, T>> \notin StrictSubsetOrdering(S)
  <2> HIDE DEF Bad
  <2> Bad \subseteq SUBSET S BY DEF Bad
  <2> QED BY <1>1, WFMin
<1>3. \A U \in SUBSET T : U # T => U \in Q
  BY <1>2 DEF StrictSubsetOrdering
<1> QED BY <1>2, <1>3

(* Induction over the natural numbers, with the property as a set. *)
LEMMA NatSetInduction ==
  ASSUME NEW Q, 0 \in Q, \A n \in Nat : n \in Q => n + 1 \in Q
  PROVE  \A n \in Nat : n \in Q
<1> DEFINE Bad == Nat \ Q
<1> SUFFICES ASSUME Bad # {} PROVE FALSE OBVIOUS
<1>1. PICK n \in Bad : \A m \in Bad : <<m, n>> \notin OpToRel(<, Nat)
  <2> HIDE DEF Bad
  <2> Bad \subseteq Nat BY DEF Bad
  <2> QED BY NatLessThanWellFounded, WFMin
<1>2. \A m \in Bad : ~(m < n)
  BY <1>1 DEF OpToRel
<1>3. n # 0 /\ n - 1 \in Nat /\ n - 1 \notin Bad
  BY <1>2
<1> QED BY <1>3

(* The fold's recursion, as an equation (IterEq), for the sets of D (IsIter) *)
(* and for the subsets of S (IterOn).                                       *)
Pick(s) == CHOOSE x \in s : TRUE
IterEq(g, f, S) ==
  g = [s \in SUBSET S |-> IF s = {} THEN 0 ELSE f[Pick(s)] + g[s \ {Pick(s)}]]
IsIter(g, f, D) ==
  \A s \in D : g[s] = IF s = {} THEN 0 ELSE f[Pick(s)] + g[s \ {Pick(s)}]

IterOn(g, f, S) == IsIter(g, f, SUBSET S)

(* SumFunctionOnSet is the fold of the community module MapThenFoldSet. *)
LEMMA SumUnfold ==
  ASSUME NEW S, NEW f
  PROVE  SumFunctionOnSet(f, S) = (CHOOSE g : IterEq(g, f, S))[S]
BY DEF SumFunctionOnSet, FoldFunctionOnSet, MapThenFoldSet, IterEq, Pick

(* The element the fold takes first is one of the set. *)
LEMMA PickIn == \A s : s # {} => Pick(s) \in s
BY DEF Pick

(* The subsets of at most n elements. *)
Small(S, n) == {s \in SUBSET S : Cardinality(s) <= n}

(* The recursive function of the fold exists for every finite set: it is   *)
(* extended from the sets of at most n elements to those of at most n +    *)
(* 1.                                                                      *)
LEMMA IterExists ==
  ASSUME NEW S, IsFiniteSet(S), NEW f
  PROVE  \E g : IterEq(g, f, S)
<1> DEFINE Q == {n \in Nat : \E g : DOMAIN g = Small(S, n) /\ IsIter(g, f, Small(S, n))}
<1>0. \A s \in SUBSET S : IsFiniteSet(s) /\ Cardinality(s) \in Nat /\ Cardinality(s) <= Cardinality(S)
  BY FS_Subset, FS_CardinalityType
<1>1. 0 \in Q
  <2> DEFINE g == [s \in Small(S, 0) |-> 0]
  <2>1. \A s \in Small(S, 0) : s = {}
    BY <1>0, FS_EmptySet DEF Small
  <2>2. IsIter(g, f, Small(S, 0)) BY <2>1 DEF IsIter
  <2> QED BY <2>2
<1>2. ASSUME NEW n \in Nat, n \in Q PROVE n + 1 \in Q
  <2>1. PICK g : DOMAIN g = Small(S, n) /\ IsIter(g, f, Small(S, n))
    BY <1>2
  <2> DEFINE D == Small(S, n + 1)
             h == [s \in D |-> IF s = {} THEN 0 ELSE f[Pick(s)] + g[s \ {Pick(s)}]]
  <2>2. ASSUME NEW s \in D, s # {} PROVE s \ {Pick(s)} \in Small(S, n) /\ s \ {Pick(s)} \in D
    <3>1. IsFiniteSet(s) /\ Cardinality(s) <= n + 1 BY <1>0 DEF Small
    <3>2. Pick(s) \in s BY <2>2, PickIn
    <3>3. Cardinality(s \ {Pick(s)}) = Cardinality(s) - 1 
       BY <3>1, <3>2, FS_RemoveElement
    <3> QED BY <3>1, <3>3, <1>0 DEF Small
  <2>3. ASSUME NEW s \in Small(S, n) PROVE h[s] = g[s]
    <3> s \in D BY <1>0 DEF Small
    <3> QED BY <2>1 DEF IsIter
  <2>4. ASSUME NEW s \in D PROVE h[s] = IF s = {} THEN 0 ELSE f[Pick(s)] + h[s \ {Pick(s)}]
    BY <2>2, <2>3
  <2>5. IsIter(h, f, D) BY <2>4 DEF IsIter
  <2>6. DOMAIN h = D OBVIOUS
  <2> HIDE DEF h
  <2> QED BY <2>5, <2>6
<1>3. Cardinality(S) \in Q
  <2> HIDE DEF Q
  <2>1. \A n \in Nat : n \in Q BY <1>1, <1>2, NatSetInduction
  <2> QED BY <2>1, <1>0
<1>4. Small(S, Cardinality(S)) = SUBSET S BY <1>0 DEF Small
<1>5. PICK g : DOMAIN g = SUBSET S /\ IsIter(g, f, SUBSET S) BY <1>3, <1>4
<1> DEFINE h == [s \in SUBSET S |-> IF s = {} THEN 0 ELSE f[Pick(s)] + g[s \ {Pick(s)}]]
<1>6. ASSUME NEW s \in SUBSET S PROVE h[s] = g[s] BY <1>5 DEF IsIter
<1>7. h = [s \in SUBSET S |-> IF s = {} THEN 0 ELSE f[Pick(s)] + h[s \ {Pick(s)}]]
  <2>1. ASSUME NEW s \in SUBSET S PROVE s \ {Pick(s)} \in SUBSET S OBVIOUS
  <2>2. ASSUME NEW s \in SUBSET S
        PROVE h[s] = IF s = {} THEN 0 ELSE f[Pick(s)] + h[s \ {Pick(s)}]
    BY <1>6, <2>1
  <2> QED BY <2>2
<1> HIDE DEF h
<1>8. IterEq(h, f, S) BY <1>7 DEF IterEq
<1> QED BY <1>8

(* So the sum is the value of a function that satisfies the recursion. *)
LEMMA SumStep ==
  ASSUME NEW S, IsFiniteSet(S), NEW f
  PROVE  \E g : /\ DOMAIN g = SUBSET S /\ IterOn(g, f, S)
                /\ SumFunctionOnSet(f, S) = g[S]
<1> DEFINE g == CHOOSE g : IterEq(g, f, S)
<1>2. IterEq(g, f, S) BY IterExists
<1>3. SumFunctionOnSet(f, S) = g[S] BY SumUnfold
<1>4. DOMAIN g = SUBSET S /\ IterOn(g, f, S)
  <2> HIDE DEF g
  <2> QED BY <1>2 DEF IterEq, IterOn, IsIter
<1> HIDE DEF g
<1> QED BY <1>3, <1>4

(* Two iterates agree wherever both are defined and the functions agree. *)
LEMMA IterUnique ==
  ASSUME NEW S, IsFiniteSet(S), NEW f, NEW g, NEW h, NEW k,
         IterOn(h, f, S), IterOn(k, g, S), \A x \in S : f[x] = g[x]
  PROVE  h[S] = k[S]
<1> DEFINE Q == {T \in SUBSET S : h[T] = k[T]}
<1>1. ASSUME NEW T \in SUBSET S, \A U \in SUBSET T : U # T => U \in Q
      PROVE  T \in Q
  <2>1. CASE T = {} BY <2>1 DEF IterOn, IsIter
  <2>2. CASE T # {}
    <3>1. Pick(T) \in T BY <2>2, PickIn
    <3>2. T \ {Pick(T)} \in Q BY <1>1, <3>1
    <3> QED BY <2>2, <3>1, <3>2 DEF IterOn, IsIter
  <2> QED BY <2>1, <2>2
<1>2. S \in Q
  <2> HIDE DEF Q
  <2> QED BY <1>1, SubsetInduction
<1> QED BY <1>2

(* The sum over nothing is 0. *)
LEMMA SumEmpty == ASSUME NEW f PROVE SumFunctionOnSet(f, {}) = 0
<1>1. PICK g : IterOn(g, f, {}) /\ SumFunctionOnSet(f, {}) = g[{}]
  BY SumStep, FS_EmptySet
<1> QED BY <1>1 DEF IterOn, IsIter

(* The sum depends on the values in the set only. *)
LEMMA SumCongr ==
  ASSUME NEW S, IsFiniteSet(S), NEW f, NEW g, \A x \in S : f[x] = g[x]
  PROVE  SumFunctionOnSet(f, S) = SumFunctionOnSet(g, S)
<1>1. PICK h : IterOn(h, f, S) /\ SumFunctionOnSet(f, S) = h[S]
  BY SumStep
<1>2. PICK k : IterOn(k, g, S) /\ SumFunctionOnSet(g, S) = k[S]
  BY SumStep
<1> QED BY <1>1, <1>2, IterUnique

(* The value of the recursive function on a subset is the sum over it. *)
LEMMA IterSum ==
  ASSUME NEW S, IsFiniteSet(S), NEW f, NEW g, IterOn(g, f, S), NEW T \in SUBSET S
  PROVE  g[T] = SumFunctionOnSet(f, T)
<1>1. IsFiniteSet(T) BY FS_Subset
<1>2. PICK h : IterOn(h, f, T) /\ SumFunctionOnSet(f, T) = h[T]
  BY <1>1, SumStep
<1>3. IterOn(g, f, T) BY DEF IterOn, IsIter
<1> QED BY <1>1, <1>2, <1>3, IterUnique

(* The recursion of the sum: the chosen element and the sum of the         *)
(* others.                                                                 *)
LEMMA SumPick ==
  ASSUME NEW S, IsFiniteSet(S), S # {}, NEW f
  PROVE  SumFunctionOnSet(f, S) = f[Pick(S)] + SumFunctionOnSet(f, S \ {Pick(S)})
<1>1. PICK g : IterOn(g, f, S) /\ SumFunctionOnSet(f, S) = g[S]
  BY SumStep
<1>2. g[S \ {Pick(S)}] = SumFunctionOnSet(f, S \ {Pick(S)})
  <2>1. IterOn(g, f, S) BY <1>1
  <2>2. \A T \in SUBSET S : g[T] = SumFunctionOnSet(f, T) BY <2>1, IterSum
  <2>3. S \ {Pick(S)} \in SUBSET S OBVIOUS
  <2> QED BY <2>2, <2>3
<1> QED BY <1>1, <1>2 DEF IterOn, IsIter

(* A sum of integers is an integer. *)
LEMMA SumInt ==
  ASSUME NEW S, IsFiniteSet(S), NEW f, \A x \in S : f[x] \in Int
  PROVE  SumFunctionOnSet(f, S) \in Int
<1> DEFINE Q == {T \in SUBSET S : SumFunctionOnSet(f, T) \in Int}
<1>1. ASSUME NEW T \in SUBSET S, \A U \in SUBSET T : U # T => U \in Q
      PROVE  T \in Q
  <2>1. CASE T = {} BY <2>1, SumEmpty
  <2>2. CASE T # {}
    <3>1. Pick(T) \in T BY <2>2, PickIn
    <3>2. T \ {Pick(T)} \in Q BY <1>1, <3>1
    <3>3. SumFunctionOnSet(f, T) = f[Pick(T)] + SumFunctionOnSet(f, T \ {Pick(T)})
      BY <2>2, SumPick, FS_Subset
    <3> QED BY <3>1, <3>2, <3>3
  <2> QED BY <2>1, <2>2
<1>2. S \in Q
  <2> HIDE DEF Q
  <2> QED BY <1>1, SubsetInduction
<1> QED BY <1>2

(* Any element may be taken out of the sum, not only the chosen one: this  *)
(* is where the order of a fold stops to matter.                           *)
LEMMA SumRemove ==
  ASSUME NEW S, IsFiniteSet(S), NEW f, \A x \in S : f[x] \in Int, NEW y \in S
  PROVE  SumFunctionOnSet(f, S) = f[y] + SumFunctionOnSet(f, S \ {y})
<1> DEFINE Q == {T \in SUBSET S : \A x \in T :
                   SumFunctionOnSet(f, T) = f[x] + SumFunctionOnSet(f, T \ {x})}
<1>1. ASSUME NEW T \in SUBSET S, \A U \in SUBSET T : U # T => U \in Q, NEW x \in T
      PROVE  SumFunctionOnSet(f, T) = f[x] + SumFunctionOnSet(f, T \ {x})
  <2> DEFINE p == Pick(T)
  <2>1. p \in T BY PickIn
  <2>2. SumFunctionOnSet(f, T) = f[p] + SumFunctionOnSet(f, T \ {p})
    BY SumPick, FS_Subset
  <2>3. CASE x = p BY <2>2, <2>3
  <2>4. CASE x # p
    <3>1. T \ {p} \in Q /\ x \in T \ {p} BY <1>1, <2>1, <2>4
    <3>2. T \ {x} \in Q /\ p \in T \ {x} BY <1>1, <2>1, <2>4
    <3>3. SumFunctionOnSet(f, T \ {p}) = f[x] + SumFunctionOnSet(f, (T \ {p}) \ {x})
      BY <3>1
    <3>4. SumFunctionOnSet(f, T \ {x}) = f[p] + SumFunctionOnSet(f, (T \ {x}) \ {p})
      BY <3>2
    <3>5. (T \ {x}) \ {p} = (T \ {p}) \ {x} OBVIOUS
    <3>6. IsFiniteSet((T \ {p}) \ {x}) BY FS_Subset
    <3>7. SumFunctionOnSet(f, (T \ {p}) \ {x}) \in Int BY <3>6, SumInt
    <3>8. f[p] \in Int /\ f[x] \in Int BY <2>1
    <3>9. ASSUME NEW a \in Int, NEW b \in Int, NEW c \in Int PROVE a + (b + c) = b + (a + c)
      OBVIOUS
    <3> HIDE DEF p
    <3>10. f[p] + (f[x] + SumFunctionOnSet(f, (T \ {p}) \ {x}))
             = f[x] + (f[p] + SumFunctionOnSet(f, (T \ {p}) \ {x}))
      BY <3>7, <3>8, <3>9
    <3> QED BY <2>2, <3>3, <3>4, <3>5, <3>10
  <2> QED BY <2>3, <2>4
<1>2. ASSUME NEW T \in SUBSET S, \A U \in SUBSET T : U # T => U \in Q
      PROVE  T \in Q
  BY <1>1, <1>2
<1>3. S \in Q
  <2> HIDE DEF Q
  <2> QED BY <1>2, SubsetInduction
<1> QED BY <1>3

(* A new element adds its value. *)
LEMMA SumAdd ==
  ASSUME NEW S, IsFiniteSet(S), NEW f, NEW y, y \notin S, \A x \in S \cup {y} : f[x] \in Int
  PROVE  SumFunctionOnSet(f, S \cup {y}) = f[y] + SumFunctionOnSet(f, S)
<1> DEFINE T == S \cup {y}
<1>1. IsFiniteSet(T) BY FS_AddElement
<1>2. T \ {y} = S /\ y \in T OBVIOUS
<1>3. \A x \in T : f[x] \in Int OBVIOUS
<1> HIDE DEF T
<1>4. SumFunctionOnSet(f, T) = f[y] + SumFunctionOnSet(f, T \ {y})
  BY <1>1, <1>2, <1>3, SumRemove
<1> QED BY <1>2, <1>4 DEF T

(* One value changes. *)
LEMMA SumUpdate ==
  ASSUME NEW S, IsFiniteSet(S), NEW f, NEW g, NEW y \in S,
         \A x \in S : f[x] \in Int /\ g[x] \in Int,
         \A x \in S \ {y} : g[x] = f[x]
  PROVE  SumFunctionOnSet(g, S) = SumFunctionOnSet(f, S) + (g[y] - f[y])
<1>1. SumFunctionOnSet(f, S) = f[y] + SumFunctionOnSet(f, S \ {y})
  BY SumRemove
<1>2. SumFunctionOnSet(g, S) = g[y] + SumFunctionOnSet(g, S \ {y})
  BY SumRemove
<1>3. IsFiniteSet(S \ {y}) BY FS_Subset
<1>4. SumFunctionOnSet(f, S \ {y}) = SumFunctionOnSet(g, S \ {y})
  BY <1>3, SumCongr
<1>5. SumFunctionOnSet(f, S \ {y}) \in Int
  BY <1>3, SumInt
<1>6. f[y] \in Int /\ g[y] \in Int OBVIOUS
<1> QED BY <1>1, <1>2, <1>4, <1>5, <1>6

(* The sum of a function that changed at one element, in terms of EXCEPT. *)
LEMMA SumExcept ==
  ASSUME NEW S, IsFiniteSet(S), NEW f \in [S -> Int], NEW g \in [S -> Int], NEW y \in S,
         g = [f EXCEPT ![y] = g[y]]
  PROVE  SumFunctionOnSet(g, S) = SumFunctionOnSet(f, S) + (g[y] - f[y])
<1>1. \A x \in S : f[x] \in Int /\ g[x] \in Int OBVIOUS
<1>2. \A x \in S \ {y} : g[x] = f[x] OBVIOUS
<1> QED BY <1>1, <1>2, SumUpdate

(* Elements without a value do not count. *)
LEMMA SumSupport ==
  ASSUME NEW S, IsFiniteSet(S), NEW T \in SUBSET S, NEW f,
         \A x \in S : f[x] \in Int, \A x \in S \ T : f[x] = 0
  PROVE  SumFunctionOnSet(f, S) = SumFunctionOnSet(f, T)
<1> DEFINE Q == {U \in SUBSET S : SumFunctionOnSet(f, U) = SumFunctionOnSet(f, U \cap T)}
<1>1. ASSUME NEW U \in SUBSET S, \A V \in SUBSET U : V # U => V \in Q
      PROVE  U \in Q
  <2>1. CASE U \subseteq T
    <3> U \cap T = U BY <2>1
    <3> QED OBVIOUS
  <2>2. CASE ~(U \subseteq T)
    <3>1. PICK x \in U : x \notin T BY <2>2
    <3>2. U \ {x} \in Q BY <1>1
    <3>3. (U \ {x}) \cap T = U \cap T BY <3>1
    <3>4. IsFiniteSet(U) BY FS_Subset
    <3>5. SumFunctionOnSet(f, U) = f[x] + SumFunctionOnSet(f, U \ {x})
      BY <3>4, SumRemove
    <3>6. SumFunctionOnSet(f, U \ {x}) \in Int BY <3>4, SumInt, FS_Subset
    <3>7. SumFunctionOnSet(f, U) = SumFunctionOnSet(f, U \ {x})
      BY <3>1, <3>5, <3>6
    <3> QED BY <3>2, <3>3, <3>7
  <2> QED BY <2>1, <2>2
<1>2. S \in Q
  <2> HIDE DEF Q
  <2> QED BY <1>1, SubsetInduction
<1>3. S \cap T = T OBVIOUS
<1> QED BY <1>2, <1>3

(* A sum of naturals is a natural, and at least each of them. *)
LEMMA SumNat ==
  ASSUME NEW S, IsFiniteSet(S), NEW f, \A x \in S : f[x] \in Nat
  PROVE  /\ SumFunctionOnSet(f, S) \in Nat
         /\ \A x \in S : f[x] <= SumFunctionOnSet(f, S)
<1> DEFINE Q == {T \in SUBSET S : SumFunctionOnSet(f, T) \in Nat}
<1>1. ASSUME NEW T \in SUBSET S, \A U \in SUBSET T : U # T => U \in Q
      PROVE  T \in Q
  <2>1. CASE T = {} BY <2>1, SumEmpty
  <2>2. CASE T # {}
    <3>1. Pick(T) \in T BY <2>2, PickIn
    <3>2. T \ {Pick(T)} \in Q BY <1>1, <3>1
    <3>3. SumFunctionOnSet(f, T) = f[Pick(T)] + SumFunctionOnSet(f, T \ {Pick(T)})
      BY <2>2, SumPick, FS_Subset
    <3> QED BY <3>1, <3>2, <3>3
  <2> QED BY <2>1, <2>2
<1>2. \A T \in SUBSET S : T \in Q
  <2> TAKE T \in SUBSET S
  <2> IsFiniteSet(T) BY FS_Subset
  <2> \A U \in SUBSET T : U \in SUBSET S OBVIOUS
  <2> HIDE DEF Q
  <2> QED BY <1>1, SubsetInduction
<1>3. ASSUME NEW x \in S PROVE f[x] <= SumFunctionOnSet(f, S)
  <2>1. SumFunctionOnSet(f, S) = f[x] + SumFunctionOnSet(f, S \ {x})
    BY SumRemove
  <2>2. SumFunctionOnSet(f, S \ {x}) \in Nat BY <1>2
  <2>3. f[x] \in Nat OBVIOUS
  <2> QED BY <2>1, <2>2, <2>3
<1>4. SumFunctionOnSet(f, S) \in Nat BY <1>2
<1> QED BY <1>3, <1>4

(* A sum over 1..n + 1 without its first term is the sum over 1..n of the  *)
(* shifted terms: what Tail does to a sequence.                            *)
LEMMA SumShift ==
  ASSUME NEW n \in Nat, NEW f, NEW g, \A i \in 1..(n + 1) : f[i] \in Int,
         \A i \in 1..n : g[i] = f[i + 1]
  PROVE  SumFunctionOnSet(f, 1..(n + 1)) = f[1] + SumFunctionOnSet(g, 1..n)
<1> DEFINE Q == {k \in Nat : k <= n =>
                   SumFunctionOnSet(f, 1..(k + 1)) = f[1] + SumFunctionOnSet(g, 1..k)}
<1>0. \A k \in Nat : IsFiniteSet(1..k)
  BY FS_Interval
<1>1. 0 \in Q
  <2>1. SumFunctionOnSet(f, {} \cup {1}) = f[1] + SumFunctionOnSet(f, {})
    BY SumAdd, FS_EmptySet
  <2>2. 1..(0 + 1) = {} \cup {1} /\ 1..0 = {} OBVIOUS
  <2>3. SumFunctionOnSet(f, {}) = 0 /\ SumFunctionOnSet(g, {}) = 0 BY SumEmpty
  <2>4. SumFunctionOnSet(f, 1..(0 + 1)) = f[1] + SumFunctionOnSet(g, 1..0) BY <2>1, <2>2, <2>3
  <2> QED BY <2>4
<1>2. ASSUME NEW k \in Nat, k \in Q PROVE k + 1 \in Q
  <2> SUFFICES ASSUME k + 1 <= n
               PROVE  SumFunctionOnSet(f, 1..((k + 1) + 1)) = f[1] + SumFunctionOnSet(g, 1..(k + 1))
    OBVIOUS
  <2>1. SumFunctionOnSet(f, 1..(k + 1)) = f[1] + SumFunctionOnSet(g, 1..k) BY <1>2
  <2>2. 1..((k + 1) + 1) = (1..(k + 1)) \cup {k + 2} /\ k + 2 \notin 1..(k + 1) OBVIOUS
  <2>3. SumFunctionOnSet(f, (1..(k + 1)) \cup {k + 2}) = f[k + 2] + SumFunctionOnSet(f, 1..(k + 1))
    <3>1. \A x \in (1..(k + 1)) \cup {k + 2} : f[x] \in Int OBVIOUS
    <3>2. IsFiniteSet(1..(k + 1)) BY <1>0
    <3> QED BY <2>2, <3>1, <3>2, SumAdd
  <2>4. 1..(k + 1) = (1..k) \cup {k + 1} /\ k + 1 \notin 1..k OBVIOUS
  <2>5. \A x \in (1..k) \cup {k + 1} : g[x] \in Int OBVIOUS
  <2>6. SumFunctionOnSet(g, (1..k) \cup {k + 1}) = g[k + 1] + SumFunctionOnSet(g, 1..k)
    BY <1>0, <2>4, <2>5, SumAdd
  <2>7. g[k + 1] = f[k + 2] OBVIOUS
  <2>8. SumFunctionOnSet(g, 1..k) \in Int BY <1>0, <2>5, SumInt
  <2>9. f[1] \in Int /\ f[k + 2] \in Int OBVIOUS
  <2>10. SumFunctionOnSet(f, 1..((k + 1) + 1)) = f[k + 2] + (f[1] + SumFunctionOnSet(g, 1..k))
    BY <2>1, <2>2, <2>3
  <2>11. SumFunctionOnSet(g, 1..(k + 1)) = f[k + 2] + SumFunctionOnSet(g, 1..k)
    BY <2>4, <2>6, <2>7
  <2>12. \A a, b, c \in Int : b + (a + c) = a + (b + c) OBVIOUS
  <2> QED BY <2>8, <2>9, <2>10, <2>11, <2>12
<1>3. n \in Q
  <2> HIDE DEF Q
  <2>1. \A k \in Nat : k \in Q BY <1>1, <1>2, NatSetInduction
  <2> QED BY <2>1
<1> QED BY <1>3

(* A sum of zeros is 0. *)
LEMMA SumZero ==
  ASSUME NEW S, IsFiniteSet(S), NEW f, \A x \in S : f[x] = 0
  PROVE  SumFunctionOnSet(f, S) = 0
<1>1. SumFunctionOnSet(f, S) = SumFunctionOnSet(f, {}) BY SumSupport
<1> QED BY <1>1, SumEmpty

(* A sum with one term that is not 0. *)
LEMMA SumSingle ==
  ASSUME NEW S, IsFiniteSet(S), NEW f, NEW y \in S, f[y] \in Int, \A x \in S \ {y} : f[x] = 0
  PROVE  SumFunctionOnSet(f, S) = f[y]
<1>1. \A x \in S : f[x] \in Int OBVIOUS
<1>2. SumFunctionOnSet(f, S) = f[y] + SumFunctionOnSet(f, S \ {y}) BY <1>1, SumRemove
<1>3. IsFiniteSet(S \ {y}) BY FS_Subset
<1>4. SumFunctionOnSet(f, S \ {y}) = 0 BY <1>3, SumZero
<1> QED BY <1>2, <1>4

(* Sums are linear. *)
LEMMA SumScaled ==
  ASSUME NEW S, IsFiniteSet(S), NEW f, NEW g, NEW h, NEW k \in Int,
         \A x \in S : f[x] \in Int, \A x \in S : g[x] \in Int,
         \A x \in S : h[x] = f[x] - k * g[x]
  PROVE  SumFunctionOnSet(h, S) = SumFunctionOnSet(f, S) - k * SumFunctionOnSet(g, S)
<1> DEFINE Q == {T \in SUBSET S :
                   SumFunctionOnSet(h, T) = SumFunctionOnSet(f, T) - k * SumFunctionOnSet(g, T)}
<1>1. ASSUME NEW T \in SUBSET S, \A U \in SUBSET T : U # T => U \in Q
      PROVE  T \in Q
  <2>1. CASE T = {}
    <3>1. SumFunctionOnSet(h, {}) = 0 BY SumEmpty
    <3>2. SumFunctionOnSet(f, {}) = 0 BY SumEmpty
    <3>3. SumFunctionOnSet(g, {}) = 0 BY SumEmpty
    <3>4. 0 - k * 0 = 0 OBVIOUS
    <3> QED BY <2>1, <3>1, <3>2, <3>3, <3>4
  <2>2. CASE T # {}
    <3> DEFINE p == Pick(T)
               U == T \ {p}
    <3>1. p \in T BY <2>2, PickIn
    <3>2. U \in Q BY <1>1, <3>1
    <3>3. IsFiniteSet(T) /\ IsFiniteSet(U) BY FS_Subset
    <3>4. SumFunctionOnSet(h, T) = h[p] + SumFunctionOnSet(h, U) BY <2>2, <3>3, SumPick
    <3>5. SumFunctionOnSet(f, T) = f[p] + SumFunctionOnSet(f, U) BY <2>2, <3>3, SumPick
    <3>6. SumFunctionOnSet(g, T) = g[p] + SumFunctionOnSet(g, U) BY <2>2, <3>3, SumPick
    <3>7. SumFunctionOnSet(f, U) \in Int BY <3>3, SumInt
    <3>8. SumFunctionOnSet(g, U) \in Int BY <3>3, SumInt
    <3>9. f[p] \in Int /\ g[p] \in Int /\ h[p] = f[p] - k * g[p] BY <3>1
    <3>10. \A a, b, c, d \in Int : (a - k * b) + (c - k * d) = (a + c) - k * (b + d)
      OBVIOUS
    <3>11. SumFunctionOnSet(h, U) = SumFunctionOnSet(f, U) - k * SumFunctionOnSet(g, U)
      BY <3>2
    <3> HIDE DEF p, U
    <3>12. SumFunctionOnSet(h, T) = SumFunctionOnSet(f, T) - k * SumFunctionOnSet(g, T)
      BY <3>4, <3>5, <3>6, <3>7, <3>8, <3>9, <3>10, <3>11
    <3> QED BY <3>12
  <2> QED BY <2>1, <2>2
<1>2. S \in Q
  <2> HIDE DEF Q
  <2> QED BY <1>1, SubsetInduction
<1> QED BY <1>2

(* The sum over the whole domain of a function. *)
LEMMA SumDomain ==
  ASSUME NEW f PROVE SumFunction(f) = SumFunctionOnSet(f, DOMAIN f)
BY DEF SumFunction, SumFunctionOnSet, FoldFunction, FoldFunctionOnSet, MapThenFoldSet

(* A finite set of integers that is not empty has a largest and a smallest element. *)
LEMMA Extremes ==
  ASSUME NEW S, IsFiniteSet(S), S # {}, S \subseteq Int
  PROVE  (\E x \in S : \A y \in S : x >= y) /\ (\E x \in S : \A y \in S : x <= y)
<1> DEFINE Q == {T \in SUBSET S : T = {} \/ ((\E x \in T : \A y \in T : x >= y)
                                               /\ (\E x \in T : \A y \in T : x <= y))}
<1>1. ASSUME NEW T \in SUBSET S, \A U \in SUBSET T : U # T => U \in Q
      PROVE  T \in Q
  <2>1. CASE T = {} BY <2>1
  <2>2. CASE T # {}
    <3>1. PICK z \in T : TRUE BY <2>2
    <3>2. z \in Int OBVIOUS
    <3>3. T \ {z} \in Q BY <1>1, <3>1
    <3>4. CASE T \ {z} = {}
      <4> \A y \in T : y = z BY <3>4
      <4> QED BY <3>1, <3>2
    <3>5. CASE T \ {z} # {}
      <4>1. PICK x \in T \ {z} : \A y \in T \ {z} : x >= y BY <3>3, <3>5
      <4>2. PICK v \in T \ {z} : \A y \in T \ {z} : v <= y BY <3>3, <3>5
      <4>3. \A y \in T : y = z \/ y \in T \ {z} OBVIOUS
      <4>4. \E u \in T : \A y \in T : u >= y
        <5>1. CASE x >= z BY <4>1, <4>3, <5>1
        <5>2. CASE ~(x >= z)
          <6> z >= x BY <3>2, <5>2
          <6> \A y \in T : z >= y BY <3>2, <4>1, <4>3
          <6> QED BY <3>1
        <5> QED BY <5>1, <5>2
      <4>5. \E u \in T : \A y \in T : u <= y
        <5>1. CASE v <= z BY <4>2, <4>3, <5>1
        <5>2. CASE ~(v <= z)
          <6> z <= v BY <3>2, <5>2
          <6> \A y \in T : z <= y BY <3>2, <4>2, <4>3
          <6> QED BY <3>1
        <5> QED BY <5>1, <5>2
      <4> QED BY <4>4, <4>5
    <3> QED BY <3>4, <3>5
  <2> QED BY <2>1, <2>2
<1> HIDE DEF Q
<1>2. S \in Q BY <1>1, SubsetInduction
<1> QED BY <1>2 DEF Q

(* Max and Min of such a set. *)
LEMMA MaxMin ==
  ASSUME NEW S, IsFiniteSet(S), S # {}, S \subseteq Int
  PROVE  /\ Max(S) \in S /\ \A y \in S : Max(S) >= y
         /\ Min(S) \in S /\ \A y \in S : Min(S) <= y
BY Extremes DEF Max, Min

(* Min and Max of two and of three numbers. *)
LEMMA MinTwo ==
  ASSUME NEW x \in Int, NEW y \in Int
  PROVE  /\ Min({x, y}) = (IF x <= y THEN x ELSE y)
         /\ Max({x, y}) = (IF x >= y THEN x ELSE y)
<1>1. \E z \in {x, y} : \A u \in {x, y} : z <= u OBVIOUS
<1>2. \E z \in {x, y} : \A u \in {x, y} : z >= u OBVIOUS
<1>3. Min({x, y}) \in {x, y} /\ \A u \in {x, y} : Min({x, y}) <= u BY <1>1 DEF Min
<1>4. Max({x, y}) \in {x, y} /\ \A u \in {x, y} : Max({x, y}) >= u BY <1>2 DEF Max
<1> QED BY <1>3, <1>4
=============================================================================
