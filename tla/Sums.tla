--------------------------------- MODULE Sums ---------------------------------
(***************************************************************************)
(* Facts about SumFunctionOnSet of the community module Functions, which   *)
(* is defined by recursion over the subsets of a set.  Induction is by a   *)
(* smallest set that would be a counterexample (FiniteInduction).  From    *)
(* SumRemove on, nothing depends on the order in which the fold takes the  *)
(* elements.                                                               *)
(***************************************************************************)
EXTENDS FiniteSetsExt, FiniteSetTheorems, TLAPS

\* Among some subsets of a finite set, one has none of the others within it.
LEMMA SmallestOne ==
  ASSUME NEW S, IsFiniteSet(S), NEW B, B \subseteq SUBSET S, B # {}
  PROVE  \E T \in B : \A R \in B : R \subseteq T => R = T
<1>1. IsWellFoundedOn(StrictSubsetOrdering(S), SUBSET S)
  BY FS_FiniteSubsetsOfFinite, FS_StrictSubsetOrderingWellFounded, Zenon
<1>2. PICK T \in B : \A R \in B : <<R, T>> \notin StrictSubsetOrdering(S)
  BY <1>1, WFMin, Zenon
<1>3. ASSUME NEW R \in B, R \subseteq T, R # T
      PROVE  <<R, T>> \in StrictSubsetOrdering(S)
  BY <1>3 DEF StrictSubsetOrdering
<1>4. \A R \in B : R \subseteq T => R = T
  BY <1>2, <1>3
<1>5. QED
  BY <1>4

\* What holds of a set whenever it holds of the set without any one element holds
\* of every finite set.
LEMMA FiniteInduction ==
  ASSUME NEW S, IsFiniteSet(S), NEW Good,
         \A T \in SUBSET S : (\A x \in T : T \ {x} \in Good) => T \in Good
  PROVE  S \in Good
<1> DEFINE Bad == {T \in SUBSET S : T \notin Good}
<1>1. SUFFICES ASSUME Bad # {} PROVE FALSE
  OBVIOUS
<1>2. Bad \subseteq SUBSET S
  OBVIOUS
<1>3. PICK T \in Bad : \A R \in Bad : R \subseteq T => R = T
  <2> HIDE DEF Bad
  <2> QED BY <1>1, <1>2, SmallestOne
<1>4. \A x \in T : T \ {x} \in Good
  BY <1>3
<1>5. QED
  BY <1>3, <1>4

\* The element the fold takes first.
Chosen(s) == CHOOSE x \in s : TRUE

\* g is the sum of f as the fold computes it, for every subset of U.
Folds(g, f, U) ==
  g = [s \in SUBSET U |-> IF s = {} THEN 0 ELSE f[Chosen(s)] + g[s \ {Chosen(s)}]]

LEMMA SumFolds ==
  \A f, U : SumFunctionOnSet(f, U) = (CHOOSE g : Folds(g, f, U))[U]
BY DEF SumFunctionOnSet, FoldFunctionOnSet, MapThenFoldSet, Folds, Chosen

LEMMA ChosenIn == \A s : s # {} => Chosen(s) \in s
BY DEF Chosen

LEMMA FoldsAt ==
  ASSUME NEW f, NEW g, NEW U, Folds(g, f, U), NEW s \in SUBSET U
  PROVE  g[s] = IF s = {} THEN 0 ELSE f[Chosen(s)] + g[s \ {Chosen(s)}]
BY DEF Folds

\* The recursion has one solution, whatever set it starts from,
LEMMA FoldsUnique ==
  ASSUME NEW f, NEW g, NEW h, NEW U, NEW V, Folds(g, f, U), Folds(h, f, V),
         NEW s, s \subseteq U, s \subseteq V, IsFiniteSet(s)
  PROVE  g[s] = h[s]
<1>1. DEFINE Bad == {t \in SUBSET s : g[t] # h[t]}
<1>2. SUFFICES ASSUME Bad # {} PROVE FALSE
  OBVIOUS
<1>a. Bad \subseteq SUBSET s
  OBVIOUS
<1>3. PICK T \in Bad : \A R \in Bad : R \subseteq T => R = T
  <2> HIDE DEF Bad
  <2> QED BY <1>2, <1>a, SmallestOne
<1>0. T \in SUBSET U /\ T \in SUBSET V
  BY <1>3
<1>4. g[T] = IF T = {} THEN 0 ELSE f[Chosen(T)] + g[T \ {Chosen(T)}]
  BY <1>0, FoldsAt
<1>5. h[T] = IF T = {} THEN 0 ELSE f[Chosen(T)] + h[T \ {Chosen(T)}]
  BY <1>0, FoldsAt
<1>6. T # {} => T \ {Chosen(T)} \notin Bad
  BY <1>3, ChosenIn
<1>7. QED
  BY <1>3, <1>4, <1>5, <1>6

\* and it has one.
LEMMA FoldsExist ==
  ASSUME NEW f, NEW U, IsFiniteSet(U)
  PROVE  \E g : Folds(g, f, U)
<1>1. DEFINE Bad == {t \in SUBSET U : ~ \E g : Folds(g, f, t)}
<1>2. SUFFICES ASSUME Bad # {} PROVE FALSE
  OBVIOUS
<1>a. Bad \subseteq SUBSET U
  OBVIOUS
<1>3. PICK T \in Bad : \A R \in Bad : R \subseteq T => R = T
  <2> HIDE DEF Bad
  <2> QED BY <1>2, <1>a, SmallestOne
<1>t. IsFiniteSet(T)
  BY <1>3, FS_Subset
<1>4. DEFINE It(t) == CHOOSE g : Folds(g, f, t)
             g == [s \in SUBSET T |-> IF s = {} THEN 0 ELSE
                      f[Chosen(s)] + It(s \ {Chosen(s)})[s \ {Chosen(s)}]]
<1>5. \A R \in SUBSET T : R # T => Folds(It(R), f, R)
  BY <1>3
<1>6. ASSUME NEW s \in SUBSET T, s # {}
      PROVE  g[s \ {Chosen(s)}] = It(s \ {Chosen(s)})[s \ {Chosen(s)}]
  <2> DEFINE r == s \ {Chosen(s)}
  <2>0. r \in SUBSET T /\ r # T /\ IsFiniteSet(r)
    BY <1>6, <1>t, ChosenIn, FS_Subset
  <2>1. Folds(It(r), f, r)
    BY <2>0, <1>5
  <2>2. It(r)[r] = IF r = {} THEN 0 ELSE f[Chosen(r)] + It(r)[r \ {Chosen(r)}]
    <3> HIDE DEF It, r
    <3> QED BY <2>1, FoldsAt
  <2>3. CASE r = {}
    BY <2>2, <2>3
  <2>4. CASE r # {}
    <3> DEFINE q == r \ {Chosen(r)}
    <3>1. q \in SUBSET T /\ q # T /\ q \subseteq r /\ IsFiniteSet(q)
      BY <2>0, <2>4, ChosenIn, FS_Subset
    <3>2. Folds(It(q), f, q)
      BY <3>1, <1>5
    <3>3. It(r)[q] = It(q)[q]
      <4> HIDE DEF It, r, q
      <4> QED BY <2>1, <3>1, <3>2, FoldsUnique
    <3>4. g[r] = f[Chosen(r)] + It(q)[q]
      BY <2>0, <2>4
    <3>5. QED
      BY <3>3, <3>4, <2>2, <2>4
  <2>5. QED
    BY <2>3, <2>4
<1>7. Folds(g, f, T)
  <2> DEFINE old(s) == IF s = {} THEN 0 ELSE f[Chosen(s)] + It(s \ {Chosen(s)})[s \ {Chosen(s)}]
             new(s) == IF s = {} THEN 0 ELSE f[Chosen(s)] + g[s \ {Chosen(s)}]
  <2>1. \A s \in SUBSET T : old(s) = new(s)
    <3> HIDE DEF g, It
    <3> QED BY <1>6
  <2>2. g = [s \in SUBSET T |-> old(s)]
    OBVIOUS
  <2>3. g = [s \in SUBSET T |-> new(s)]
    <3> HIDE DEF g, old, new
    <3> QED BY <2>1, <2>2
  <2>4. QED
    <3> HIDE DEF g
    <3> QED BY <2>3 DEF Folds
<1>8. QED
  BY <1>3, <1>7

\* So the sum is what its recursive definition says.
LEMMA SumUnfold ==
  ASSUME NEW f, NEW U, IsFiniteSet(U)
  PROVE  SumFunctionOnSet(f, U) =
           IF U = {} THEN 0 ELSE f[Chosen(U)] + SumFunctionOnSet(f, U \ {Chosen(U)})
<1> DEFINE It(t) == CHOOSE g : Folds(g, f, t)
           R == U \ {Chosen(U)}
<1>1. IsFiniteSet(R)
  BY FS_Subset
<1>2. Folds(It(U), f, U) /\ Folds(It(R), f, R)
  BY <1>1, FoldsExist
<1>3. It(U)[R] = It(R)[R]
  <2> HIDE DEF It
  <2> QED BY <1>1, <1>2, FoldsUnique
<1>4. SumFunctionOnSet(f, U) = It(U)[U] /\ SumFunctionOnSet(f, R) = It(R)[R]
  BY SumFolds
<1>5. It(U)[U] = IF U = {} THEN 0 ELSE f[Chosen(U)] + It(U)[R]
  <2> HIDE DEF It
  <2> QED BY <1>2, FoldsAt
<1>6. QED
  BY <1>3, <1>4, <1>5

LEMMA SumEmpty == \A f : SumFunctionOnSet(f, {}) = 0
BY SumUnfold, FS_EmptySet

LEMMA SumInt ==
  ASSUME NEW S, IsFiniteSet(S), NEW f, \A x \in S : f[x] \in Int
  PROVE  SumFunctionOnSet(f, S) \in Int
<1> DEFINE Good == {T \in SUBSET S : SumFunctionOnSet(f, T) \in Int}
<1>1. ASSUME NEW T \in SUBSET S, \A x \in T : T \ {x} \in Good
      PROVE  T \in Good
  <2>1. IsFiniteSet(T)
    BY FS_Subset
  <2>2. CASE T = {}
    BY <2>2, SumEmpty
  <2>3. CASE T # {}
    <3>1. Chosen(T) \in T
      BY <2>3, ChosenIn
    <3>2. SumFunctionOnSet(f, T) = f[Chosen(T)] + SumFunctionOnSet(f, T \ {Chosen(T)})
      BY <2>1, <2>3, SumUnfold
    <3>3. SumFunctionOnSet(f, T \ {Chosen(T)}) \in Int /\ f[Chosen(T)] \in Int
      BY <1>1, <3>1
    <3>4. QED
      BY <3>2, <3>3
  <2>4. QED
    BY <2>2, <2>3
<1>2. S \in Good
  <2> HIDE DEF Good
  <2> QED BY <1>1, FiniteInduction
<1>3. QED
  BY <1>2

\* Any element may be taken first.
LEMMA SumRemove ==
  ASSUME NEW S, IsFiniteSet(S), NEW f, \A x \in S : f[x] \in Int, NEW x \in S
  PROVE  SumFunctionOnSet(f, S) = f[x] + SumFunctionOnSet(f, S \ {x})
<1> DEFINE Good == {T \in SUBSET S : \A y \in T :
                      SumFunctionOnSet(f, T) = f[y] + SumFunctionOnSet(f, T \ {y})}
<1>1. ASSUME NEW T \in SUBSET S, \A y \in T : T \ {y} \in Good, NEW y \in T
      PROVE  SumFunctionOnSet(f, T) = f[y] + SumFunctionOnSet(f, T \ {y})
  <2> DEFINE c == Chosen(T)
  <2>1. c \in T /\ IsFiniteSet(T)
    BY ChosenIn, FS_Subset
  <2>2. SumFunctionOnSet(f, T) = f[c] + SumFunctionOnSet(f, T \ {c})
    BY <2>1, SumUnfold
  <2>3. CASE c = y
    BY <2>2, <2>3
  <2>4. CASE c # y
    <3> HIDE DEF c
    <3> DEFINE rest == (T \ {c}) \ {y}
    <3>1. SumFunctionOnSet(f, T \ {c}) = f[y] + SumFunctionOnSet(f, rest)
      BY <1>1, <2>1, <2>4
    <3>2. (T \ {y}) \ {c} = rest
      OBVIOUS
    <3>3. SumFunctionOnSet(f, T \ {y}) = f[c] + SumFunctionOnSet(f, rest)
      BY <1>1, <2>1, <2>4, <3>2
    <3>4. SumFunctionOnSet(f, rest) \in Int
      BY <2>1, SumInt, FS_Subset
    <3>5. f[c] \in Int /\ f[y] \in Int
      BY <2>1
    <3>6. QED
      BY <2>2, <3>1, <3>3, <3>4, <3>5
  <2>5. QED
    BY <2>3, <2>4
<1>2. \A T \in SUBSET S : (\A y \in T : T \ {y} \in Good) => T \in Good
  BY <1>1
<1>3. S \in Good
  <2> HIDE DEF Good
  <2> QED BY <1>2, FiniteInduction
<1>4. QED
  BY <1>3

\* The sum of sums.
LEMMA SumPlus ==
  ASSUME NEW S, IsFiniteSet(S), NEW f, NEW g, NEW h,
         \A x \in S : f[x] \in Int /\ g[x] \in Int /\ h[x] = f[x] + g[x]
  PROVE  SumFunctionOnSet(h, S) = SumFunctionOnSet(f, S) + SumFunctionOnSet(g, S)
<1> DEFINE Good == {T \in SUBSET S :
                      SumFunctionOnSet(h, T) = SumFunctionOnSet(f, T) + SumFunctionOnSet(g, T)}
<1>1. ASSUME NEW T \in SUBSET S, \A x \in T : T \ {x} \in Good
      PROVE  T \in Good
  <2>1. CASE T = {}
    BY <2>1, SumEmpty
  <2>2. CASE T # {}
    <3>1. PICK x \in T : TRUE
      BY <2>2
    <3>2. IsFiniteSet(T) /\ IsFiniteSet(T \ {x})
      BY FS_Subset
    <3>3. /\ SumFunctionOnSet(f, T) = f[x] + SumFunctionOnSet(f, T \ {x})
          /\ SumFunctionOnSet(g, T) = g[x] + SumFunctionOnSet(g, T \ {x})
          /\ SumFunctionOnSet(h, T) = h[x] + SumFunctionOnSet(h, T \ {x})
      BY <3>2, SumRemove
    <3>4. SumFunctionOnSet(f, T \ {x}) \in Int /\ SumFunctionOnSet(g, T \ {x}) \in Int
      BY <3>2, SumInt
    <3>5. SumFunctionOnSet(h, T \ {x}) =
            SumFunctionOnSet(f, T \ {x}) + SumFunctionOnSet(g, T \ {x})
      BY <1>1
    <3>6. QED
      BY <3>3, <3>4, <3>5
  <2>3. QED
    BY <2>1, <2>2
<1>2. S \in Good
  <2> HIDE DEF Good
  <2> QED BY <1>1, FiniteInduction
<1>3. QED
  BY <1>2

\* Only the values on the set matter.
LEMMA SumSame ==
  ASSUME NEW S, IsFiniteSet(S), NEW f, NEW g,
         \A x \in S : f[x] \in Int /\ g[x] = f[x]
  PROVE  SumFunctionOnSet(g, S) = SumFunctionOnSet(f, S)
<1> DEFINE Good == {T \in SUBSET S : SumFunctionOnSet(g, T) = SumFunctionOnSet(f, T)}
<1>1. ASSUME NEW T \in SUBSET S, \A x \in T : T \ {x} \in Good
      PROVE  T \in Good
  <2>1. CASE T = {}
    BY <2>1, SumEmpty
  <2>2. CASE T # {}
    <3>1. PICK x \in T : TRUE
      BY <2>2
    <3>2. IsFiniteSet(T)
      BY FS_Subset
    <3>3. /\ SumFunctionOnSet(f, T) = f[x] + SumFunctionOnSet(f, T \ {x})
          /\ SumFunctionOnSet(g, T) = g[x] + SumFunctionOnSet(g, T \ {x})
      BY <3>2, SumRemove
    <3>4. QED
      BY <1>1, <3>3
  <2>3. QED
    BY <2>1, <2>2
<1>2. S \in Good
  <2> HIDE DEF Good
  <2> QED BY <1>1, FiniteInduction
<1>3. QED
  BY <1>2

\* Zeros can be left out.
LEMMA SumOnly ==
  ASSUME NEW S, IsFiniteSet(S), NEW f, NEW A \in SUBSET S,
         \A x \in S : f[x] \in Int /\ (x \notin A => f[x] = 0)
  PROVE  SumFunctionOnSet(f, S) = SumFunctionOnSet(f, A)
<1> DEFINE Good == {T \in SUBSET S : SumFunctionOnSet(f, T) = SumFunctionOnSet(f, T \cap A)}
<1>1. ASSUME NEW T \in SUBSET S, \A x \in T : T \ {x} \in Good
      PROVE  T \in Good
  <2>1. CASE T = {}
    <3>1. T \cap A = T
      BY <2>1
    <3> QED BY <3>1
  <2>2. CASE T # {}
    <3>1. PICK x \in T : TRUE
      BY <2>2
    <3>2. IsFiniteSet(T) /\ IsFiniteSet(T \cap A) /\ IsFiniteSet((T \ {x}) \cap A)
      BY FS_Subset
    <3>a. SumFunctionOnSet(f, T) = f[x] + SumFunctionOnSet(f, T \ {x})
      BY <3>2, SumRemove
    <3>3. SumFunctionOnSet(f, T) = f[x] + SumFunctionOnSet(f, (T \ {x}) \cap A)
      BY <1>1, <3>a
    <3>4. CASE x \in A
      <4>1. (T \ {x}) \cap A = (T \cap A) \ {x}
        OBVIOUS
      <4>2. SumFunctionOnSet(f, T \cap A) = f[x] + SumFunctionOnSet(f, (T \cap A) \ {x})
        BY <3>2, <3>4, SumRemove
      <4> QED BY <3>3, <4>1, <4>2
    <3>5. CASE x \notin A
      <4>1. (T \ {x}) \cap A = T \cap A /\ f[x] = 0
        BY <3>5
      <4>2. SumFunctionOnSet(f, T \cap A) \in Int
        BY <3>2, SumInt
      <4>3. SumFunctionOnSet(f, (T \ {x}) \cap A) = SumFunctionOnSet(f, T \cap A)
        BY <4>1, Zenon
      <4>4. SumFunctionOnSet(f, T) = 0 + SumFunctionOnSet(f, T \cap A)
        BY <3>3, <4>1, <4>3, Zenon
      <4> QED BY <4>2, <4>4
    <3>6. QED
      BY <3>4, <3>5
  <2>3. QED
    BY <2>1, <2>2
<1>2. S \in Good
  <2> HIDE DEF Good
  <2> QED BY <1>1, FiniteInduction
<1>3. S \cap A = A
  OBVIOUS
<1>4. QED
  BY <1>2, <1>3

LEMMA SumSingle ==
  ASSUME NEW f, NEW x, f[x] \in Int
  PROVE  SumFunctionOnSet(f, {x}) = f[x]
<1>1. IsFiniteSet({x}) /\ {x} \ {x} = {}
  BY FS_Singleton
<1>2. SumFunctionOnSet(f, {x}) = f[x] + SumFunctionOnSet(f, {x} \ {x})
  BY <1>1, SumRemove
<1>3. QED
  BY <1>1, <1>2, SumEmpty

\* A sum changes by what its terms change by, on the part where they do.
LEMMA SumShift ==
  ASSUME NEW S, IsFiniteSet(S), NEW A \in SUBSET S, NEW f, NEW g, NEW h,
         \A x \in S : f[x] \in Int /\ g[x] \in Int,
         \A x \in S : h[x] = IF x \in A THEN f[x] + g[x] ELSE f[x]
  PROVE  SumFunctionOnSet(h, S) = SumFunctionOnSet(f, S) + SumFunctionOnSet(g, A)
<1> DEFINE d == [x \in S |-> IF x \in A THEN g[x] ELSE 0]
<1>1. \A x \in S : f[x] \in Int /\ d[x] \in Int /\ h[x] = f[x] + d[x]
  OBVIOUS
<1>2. \A x \in S : d[x] \in Int /\ (x \notin A => d[x] = 0)
  OBVIOUS
<1>3. \A x \in A : g[x] \in Int /\ d[x] = g[x]
  OBVIOUS
<1> HIDE DEF d
<1>4. SumFunctionOnSet(h, S) = SumFunctionOnSet(f, S) + SumFunctionOnSet(d, S)
  BY <1>1, SumPlus
<1>5. SumFunctionOnSet(d, S) = SumFunctionOnSet(d, A)
  BY <1>2, SumOnly
<1>6. SumFunctionOnSet(d, A) = SumFunctionOnSet(g, A)
  BY <1>3, FS_Subset, SumSame
<1>7. QED
  BY <1>4, <1>5, <1>6
LEMMA SumZero ==
  ASSUME NEW S, IsFiniteSet(S), NEW f, \A x \in S : f[x] = 0
  PROVE  SumFunctionOnSet(f, S) = 0
<1>1. {} \in SUBSET S /\ \A x \in S : f[x] \in Int /\ (x \notin {} => f[x] = 0)
  OBVIOUS
<1>2. SumFunctionOnSet(f, S) = SumFunctionOnSet(f, {})
  BY <1>1, SumOnly
<1>3. QED
  BY <1>2, SumEmpty

\* The sum over two sets that have nothing in common.
LEMMA SumUnion ==
  ASSUME NEW A, IsFiniteSet(A), NEW B, IsFiniteSet(B), A \cap B = {},
         NEW f, \A x \in A \cup B : f[x] \in Int
  PROVE  SumFunctionOnSet(f, A \cup B) = SumFunctionOnSet(f, A) + SumFunctionOnSet(f, B)
<1> DEFINE Good == {T \in SUBSET A : SumFunctionOnSet(f, T \cup B) =
                                       SumFunctionOnSet(f, T) + SumFunctionOnSet(f, B)}
<1>1. SumFunctionOnSet(f, B) \in Int
  BY SumInt
<1>2. ASSUME NEW T \in SUBSET A, \A x \in T : T \ {x} \in Good
      PROVE  T \in Good
  <2>1. CASE T = {}
    <3>1. T \cup B = B /\ SumFunctionOnSet(f, T) = 0
      BY <2>1, SumEmpty
    <3>2. QED
      BY <1>1, <3>1
  <2>2. CASE T # {}
    <3>1. PICK x \in T : TRUE
      BY <2>2
    <3>2. IsFiniteSet(T) /\ IsFiniteSet(T \ {x})
      BY FS_Subset
    <3>3. IsFiniteSet(T \cup B) /\ (T \cup B) \ {x} = (T \ {x}) \cup B
      BY <3>2, FS_Union
    <3>4. SumFunctionOnSet(f, T) = f[x] + SumFunctionOnSet(f, T \ {x})
      BY <3>2, SumRemove
    <3>5. SumFunctionOnSet(f, T \cup B) = f[x] + SumFunctionOnSet(f, (T \cup B) \ {x})
      BY <3>3, SumRemove
    <3>6. SumFunctionOnSet(f, T \ {x}) \in Int /\ f[x] \in Int
      BY <3>2, SumInt
    <3>7. SumFunctionOnSet(f, (T \ {x}) \cup B) =
            SumFunctionOnSet(f, T \ {x}) + SumFunctionOnSet(f, B)
      BY <1>2
    <3>8. SumFunctionOnSet(f, T \cup B) = SumFunctionOnSet(f, T) + SumFunctionOnSet(f, B)
      <4>1. SumFunctionOnSet(f, T \cup B) =
              f[x] + (SumFunctionOnSet(f, T \ {x}) + SumFunctionOnSet(f, B))
        BY <3>3, <3>5, <3>7
      <4>2. QED
        BY <1>1, <3>4, <3>6, <4>1
    <3>9. QED
      BY <3>8
  <2>3. QED
    BY <2>1, <2>2
<1> HIDE DEF Good
<1>3. A \in Good
  BY <1>2, FiniteInduction
<1>4. QED
  BY <1>3 DEF Good

\* Sums of as many elements, each of the one at most each of the other.
LEMMA SumDominated ==
  ASSUME NEW A, IsFiniteSet(A), NEW B, IsFiniteSet(B), Cardinality(A) = Cardinality(B),
         NEW f, \A x \in A \cup B : f[x] \in Int,
         \A a \in A, b \in B : f[a] <= f[b]
  PROVE  SumFunctionOnSet(f, A) <= SumFunctionOnSet(f, B)
<1> DEFINE Good == {T \in SUBSET A : \A R \in SUBSET B : Cardinality(R) = Cardinality(T) =>
                      SumFunctionOnSet(f, T) <= SumFunctionOnSet(f, R)}
<1>1. ASSUME NEW T \in SUBSET A, \A x \in T : T \ {x} \in Good,
             NEW R \in SUBSET B, Cardinality(R) = Cardinality(T)
      PROVE  SumFunctionOnSet(f, T) <= SumFunctionOnSet(f, R)
  <2>1. IsFiniteSet(T) /\ IsFiniteSet(R)
    BY FS_Subset
  <2>2. CASE T = {}
    <3>1. R = {}
      BY <1>1, <2>1, <2>2, FS_EmptySet
    <3>2. QED
      BY <2>2, <3>1, SumEmpty
  <2>3. CASE T # {}
    <3>1. R # {}
      BY <1>1, <2>1, <2>3, FS_EmptySet
    <3>2. PICK x \in T, y \in R : TRUE
      BY <2>3, <3>1
    <3>3. /\ SumFunctionOnSet(f, T) = f[x] + SumFunctionOnSet(f, T \ {x})
          /\ SumFunctionOnSet(f, R) = f[y] + SumFunctionOnSet(f, R \ {y})
      BY <2>1, SumRemove
    <3>4. /\ SumFunctionOnSet(f, T \ {x}) \in Int /\ SumFunctionOnSet(f, R \ {y}) \in Int
      <4>1. IsFiniteSet(T \ {x}) /\ IsFiniteSet(R \ {y})
        BY <2>1, FS_RemoveElement
      <4>2. QED
        BY <4>1, SumInt
    <3>5. Cardinality(R \ {y}) = Cardinality(T \ {x})
      <4>1. Cardinality(R \ {y}) = Cardinality(R) - 1
        BY <2>1, FS_RemoveElement
      <4>2. Cardinality(T \ {x}) = Cardinality(T) - 1
        BY <2>1, FS_RemoveElement
      <4>3. QED
        BY <1>1, <4>1, <4>2
    <3>6. SumFunctionOnSet(f, T \ {x}) <= SumFunctionOnSet(f, R \ {y})
      <4>1. T \ {x} \in Good /\ R \ {y} \in SUBSET B
        BY <1>1
      <4>2. QED
        BY <3>5, <4>1
    <3>7. f[x] \in Int /\ f[y] \in Int /\ f[x] <= f[y]
      OBVIOUS
    <3>8. QED
      BY <3>3, <3>4, <3>6, <3>7
  <2>4. QED
    BY <2>2, <2>3
<1>2. \A T \in SUBSET A : (\A x \in T : T \ {x} \in Good) => T \in Good
  BY <1>1
<1> HIDE DEF Good
<1>3. A \in Good
  BY <1>2, FiniteInduction
<1>4. QED
  BY <1>3 DEF Good

\* A sum of smaller numbers is smaller.
LEMMA SumMonotone ==
  ASSUME NEW S, IsFiniteSet(S), NEW f, NEW g,
         \A x \in S : f[x] \in Int /\ g[x] \in Int /\ f[x] <= g[x]
  PROVE  SumFunctionOnSet(f, S) <= SumFunctionOnSet(g, S)
<1> DEFINE Good == {T \in SUBSET S : SumFunctionOnSet(f, T) <= SumFunctionOnSet(g, T)}
<1>1. ASSUME NEW T \in SUBSET S, \A x \in T : T \ {x} \in Good
      PROVE  T \in Good
  <2>1. CASE T = {}
    BY <2>1, SumEmpty
  <2>2. CASE T # {}
    <3>1. PICK x \in T : TRUE
      BY <2>2
    <3>2. IsFiniteSet(T) /\ IsFiniteSet(T \ {x})
      BY FS_Subset
    <3>3. /\ SumFunctionOnSet(f, T) = f[x] + SumFunctionOnSet(f, T \ {x})
          /\ SumFunctionOnSet(g, T) = g[x] + SumFunctionOnSet(g, T \ {x})
      BY <3>2, SumRemove
    <3>4. SumFunctionOnSet(f, T \ {x}) \in Int /\ SumFunctionOnSet(g, T \ {x}) \in Int
      BY <3>2, SumInt
    <3>5. SumFunctionOnSet(f, T \ {x}) <= SumFunctionOnSet(g, T \ {x})
      BY <1>1
    <3>6. SumFunctionOnSet(f, T) <= SumFunctionOnSet(g, T)
      BY <3>3, <3>4, <3>5
    <3>7. QED
      BY <3>6
  <2>3. QED
    BY <2>1, <2>2
<1> HIDE DEF Good
<1>2. S \in Good
  BY <1>1, FiniteInduction
<1>3. QED
  BY <1>2 DEF Good

\* The sum of numbers that are at most c.
LEMMA SumBounded ==
  ASSUME NEW S, IsFiniteSet(S), NEW c \in Int, NEW f,
         \A x \in S : f[x] \in Int /\ f[x] <= c
  PROVE  SumFunctionOnSet(f, S) <= c * Cardinality(S)
<1> DEFINE Good == {T \in SUBSET S : SumFunctionOnSet(f, T) <= c * Cardinality(T)}
<1>1. ASSUME NEW T \in SUBSET S, \A x \in T : T \ {x} \in Good
      PROVE  T \in Good
  <2>1. CASE T = {}
    <3>1. Cardinality(T) = 0 /\ SumFunctionOnSet(f, T) = 0
      BY <2>1, SumEmpty, FS_EmptySet
    <3>2. QED
      BY <3>1
  <2>2. CASE T # {}
    <3>1. PICK x \in T : TRUE
      BY <2>2
    <3>2. IsFiniteSet(T) /\ IsFiniteSet(T \ {x})
      BY FS_Subset
    <3>3. SumFunctionOnSet(f, T) = f[x] + SumFunctionOnSet(f, T \ {x})
      BY <3>2, SumRemove
    <3>4. SumFunctionOnSet(f, T \ {x}) \in Int
      BY <3>2, SumInt
    <3>5. PICK k \in Nat : Cardinality(T \ {x}) = k /\ Cardinality(T) = k + 1
      BY <3>2, FS_RemoveElement, FS_CardinalityType
    <3>6. SumFunctionOnSet(f, T \ {x}) <= c * k
      BY <1>1, <3>5
    <3>7. c * (k + 1) = c * k + c /\ c * k \in Int
      OBVIOUS
    <3>8. SumFunctionOnSet(f, T) <= c * (k + 1)
      BY <3>3, <3>4, <3>6, <3>7
    <3>9. QED
      BY <3>5, <3>8
  <2>3. QED
    BY <2>1, <2>2
<1> HIDE DEF Good
<1>2. S \in Good
  BY <1>1, FiniteInduction
<1>3. QED
  BY <1>2 DEF Good

\* Key by key, the sum is the same.
LEMMA SumByKey ==
  ASSUME NEW S, IsFiniteSet(S), NEW L, IsFiniteSet(L), NEW f, NEW key,
         \A x \in S : f[x] \in Int /\ key[x] \in L
  PROVE  SumFunctionOnSet([l \in L |-> SumFunctionOnSet(f, {x \in S : key[x] = l})], L) =
           SumFunctionOnSet(f, S)
<1> DEFINE Of(T, l) == {x \in T : key[x] = l}
           By(T) == [l \in L |-> SumFunctionOnSet(f, Of(T, l))]
           Good == {T \in SUBSET S : SumFunctionOnSet(By(T), L) = SumFunctionOnSet(f, T)}
<1>0. ASSUME NEW T \in SUBSET S, NEW l
      PROVE  IsFiniteSet(Of(T, l)) /\ SumFunctionOnSet(f, Of(T, l)) \in Int
  <2>1. IsFiniteSet(Of(T, l))
    BY FS_Subset
  <2>2. \A x \in Of(T, l) : f[x] \in Int
    OBVIOUS
  <2> HIDE DEF Of
  <2>3. QED
    BY <2>1, <2>2, SumInt
<1>1. ASSUME NEW T \in SUBSET S, \A x \in T : T \ {x} \in Good
      PROVE  T \in Good
  <2>1. CASE T = {}
    <3>1. \A l \in L : Of(T, l) = {}
      BY <2>1
    <3> HIDE DEF Of
    <3>2. \A l \in L : By(T)[l] = 0
      BY <3>1, SumEmpty
    <3> HIDE DEF By
    <3>3. SumFunctionOnSet(By(T), L) = 0
      BY <3>2, SumZero
    <3>4. SumFunctionOnSet(f, T) = 0
      BY <2>1, SumEmpty
    <3>5. QED
      BY <3>3, <3>4
  <2>2. CASE T # {}
    <3>1. PICK x \in T : TRUE
      BY <2>2
    <3> DEFINE R == T \ {x}
               more == [l \in L |-> f[x]]
    <3>2. /\ key[x] \in L /\ f[x] \in Int /\ R \in SUBSET S
      OBVIOUS
    <3>3. IsFiniteSet(T) /\ IsFiniteSet(R)
      BY FS_Subset
    <3>4. \A l \in L \ {key[x]} : Of(T, l) = Of(R, l)
      OBVIOUS
    <3>5. x \in Of(T, key[x]) /\ Of(T, key[x]) \ {x} = Of(R, key[x])
      OBVIOUS
    <3>6. \A y \in Of(T, key[x]) : f[y] \in Int
      OBVIOUS
    <3>7. \A l \in L : By(T)[l] = SumFunctionOnSet(f, Of(T, l)) /\ By(R)[l] = SumFunctionOnSet(f, Of(R, l))
      OBVIOUS
    <3>8. IsFiniteSet(Of(T, key[x])) /\ \A l \in L : SumFunctionOnSet(f, Of(R, l)) \in Int
      BY <1>0, <3>2
    <3> HIDE DEF Of
    <3>9. SumFunctionOnSet(f, Of(T, key[x])) = f[x] + SumFunctionOnSet(f, Of(T, key[x]) \ {x})
      BY <3>5, <3>6, <3>8, SumRemove
    <3> HIDE DEF By
    <3>10. \A l \in L : By(T)[l] = IF l \in {key[x]} THEN By(R)[l] + more[l] ELSE By(R)[l]
      <4> SUFFICES ASSUME NEW l \in L
                   PROVE  By(T)[l] = IF l \in {key[x]} THEN By(R)[l] + more[l] ELSE By(R)[l]
        OBVIOUS
      <4>1. CASE l = key[x]
        <5>1. By(T)[l] = f[x] + By(R)[l] /\ By(R)[l] \in Int
          BY <3>2, <3>5, <3>7, <3>8, <3>9, <4>1
        <5>2. QED
          BY <3>2, <4>1, <5>1
      <4>2. CASE l # key[x]
        BY <3>4, <3>7, <4>2
      <4>3. QED
        BY <4>1, <4>2
    <3>11. \A l \in L : By(R)[l] \in Int /\ more[l] \in Int
      BY <3>2, <3>7, <3>8
    <3>12. more[key[x]] = f[x]
      BY <3>2
    <3> HIDE DEF more
    <3>13. SumFunctionOnSet(By(T), L) =
             SumFunctionOnSet(By(R), L) + SumFunctionOnSet(more, {key[x]})
      <4>1. {key[x]} \in SUBSET L
        BY <3>2
      <4>2. \A l \in L : By(T)[l] = IF l \in {key[x]} THEN By(R)[l] + more[l] ELSE By(R)[l]
        BY <3>10
      <4> HIDE DEF R
      <4>3. QED
        BY <3>11, <4>1, <4>2, SumShift
    <3>14. SumFunctionOnSet(more, {key[x]}) = f[x]
      BY <3>2, <3>12, SumSingle
    <3>15. SumFunctionOnSet(By(R), L) = SumFunctionOnSet(f, R)
      BY <1>1
    <3>16. SumFunctionOnSet(f, T) = f[x] + SumFunctionOnSet(f, R)
      BY <3>3, SumRemove
    <3>17. SumFunctionOnSet(f, R) \in Int
      BY <3>3, SumInt
    <3> HIDE DEF R
    <3>18. SumFunctionOnSet(By(T), L) = SumFunctionOnSet(f, T)
      BY <3>2, <3>13, <3>14, <3>15, <3>16, <3>17
    <3>19. QED
      BY <3>18
  <2>3. QED
    BY <2>1, <2>2
<1> HIDE DEF Good
<1>2. S \in Good
  BY <1>1, FiniteInduction
<1>3. QED
  BY <1>2 DEF Good

\* A finite set has a smallest element,
LEMMA LeastOne ==
  ASSUME NEW S, IsFiniteSet(S), S # {}, NEW f, \A x \in S : f[x] \in Int
  PROVE  \E y \in S : \A x \in S : f[y] <= f[x]
<1> DEFINE Good == {T \in SUBSET S : T = {} \/ \E y \in T : \A x \in T : f[y] <= f[x]}
<1>1. ASSUME NEW T \in SUBSET S, \A x \in T : T \ {x} \in Good
      PROVE  T \in Good
  <2>1. CASE T = {}
    BY <2>1
  <2>2. CASE T # {}
    <3>1. PICK z \in T : TRUE
      BY <2>2
    <3>2. CASE T \ {z} = {}
      <4>1. \A x \in T : f[z] <= f[x]
        BY <3>2
      <4>2. QED
        BY <4>1
    <3>3. CASE T \ {z} # {}
      <4>1. PICK y \in T \ {z} : \A x \in T \ {z} : f[y] <= f[x]
        BY <1>1, <3>3
      <4>2. f[y] \in Int /\ f[z] \in Int /\ \A x \in T : f[x] \in Int
        OBVIOUS
      <4>3. CASE f[y] <= f[z]
        <5>1. \A x \in T : f[y] <= f[x]
          BY <4>1, <4>3
        <5>2. QED
          BY <5>1
      <4>4. CASE f[z] < f[y]
        <5>1. \A x \in T : f[z] <= f[x]
          BY <4>1, <4>2, <4>4
        <5>2. QED
          BY <5>1
      <4>5. QED
        BY <4>2, <4>3, <4>4
    <3>4. QED
      BY <3>2, <3>3
  <2>3. QED
    BY <2>1, <2>2
<1> HIDE DEF Good
<1>2. S \in Good
  BY <1>1, FiniteInduction
<1>3. QED
  BY <1>2 DEF Good

\* and n smallest ones, as long as it has n.
LEMMA LeastSome ==
  ASSUME NEW S, IsFiniteSet(S), NEW f, \A x \in S : f[x] \in Int,
         NEW n \in Nat, n <= Cardinality(S)
  PROVE  \E s \in SUBSET S : Cardinality(s) = n /\ \A u \in s, x \in S \ s : f[u] <= f[x]
<1> DEFINE Least(T, k, s) == Cardinality(s) = k /\ \A u \in s, x \in T \ s : f[u] <= f[x]
           Good == {T \in SUBSET S : \A k \in Nat : k <= Cardinality(T) =>
                      \E s \in SUBSET T : Least(T, k, s)}
<1>1. ASSUME NEW T \in SUBSET S, \A x \in T : T \ {x} \in Good,
             NEW k \in Nat, k <= Cardinality(T)
      PROVE  \E s \in SUBSET T : Least(T, k, s)
  <2>1. IsFiniteSet(T)
    BY FS_Subset
  <2>2. CASE k = 0
    <3>1. {} \in SUBSET T /\ Least(T, k, {})
      BY <2>2, FS_EmptySet
    <3>2. QED
      BY <3>1
  <2>3. CASE k # 0
    <3>1. T # {}
      BY <1>1, <2>3, FS_EmptySet
    <3>2. PICK y \in T : \A x \in T : f[y] <= f[x]
      BY <2>1, <3>1, LeastOne
    <3> DEFINE R == T \ {y}
    <3>3. k - 1 \in Nat /\ k - 1 <= Cardinality(R) /\ R \in Good /\ IsFiniteSet(R)
      <4>1. IsFiniteSet(R) /\ Cardinality(R) = Cardinality(T) - 1
        BY <2>1, FS_RemoveElement
      <4>2. Cardinality(T) \in Nat
        BY <2>1, FS_CardinalityType
      <4>3. k - 1 \in Nat /\ k - 1 <= Cardinality(T) - 1
        BY <1>1, <2>3, <4>2
      <4>4. QED
        BY <1>1, <4>1, <4>3
    <3>4. PICK s \in SUBSET R : Least(R, k - 1, s)
      BY <3>3
    <3>5. IsFiniteSet(s) /\ Cardinality(s \cup {y}) = k
      <4>1. IsFiniteSet(s) /\ y \notin s
        BY <3>3, FS_Subset
      <4>2. Cardinality(s \cup {y}) = Cardinality(s) + 1
        BY <4>1, FS_AddElement
      <4>3. QED
        BY <3>4, <4>1, <4>2
    <3>6. \A u \in s \cup {y}, x \in T \ (s \cup {y}) : f[u] <= f[x]
      BY <3>2, <3>4
    <3>7. s \cup {y} \in SUBSET T /\ Least(T, k, s \cup {y})
      BY <3>5, <3>6
    <3> HIDE DEF Least
    <3>8. QED
      BY <3>7
  <2>4. QED
    BY <2>2, <2>3
<1>2. \A T \in SUBSET S : (\A x \in T : T \ {x} \in Good) => T \in Good
  BY <1>1
<1> HIDE DEF Good
<1>3. S \in Good
  BY <1>2, FiniteInduction
<1>4. QED
  BY <1>3 DEF Good

===============================================================================
