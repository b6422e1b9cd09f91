------------------------------ MODULE SumFacts -------------------------------
(***************************************************************************)
(* The total of a function with a finite domain, as the community modules' *)
(* FoldFunction computes it, and how it changes with the function.  The    *)
(* order in which the fold takes the members is CHOOSEn; that it does not  *)
(* matter, and every fact about totals, is shown on a minimal              *)
(* counterexample: among the subsets on which the fact fails there would   *)
(* be one without a smaller one.                                           *)
(***************************************************************************)
EXTENDS Integers, Money, FiniteSetTheorems, TLAPS

\* The member that the fold takes first.
Pick(s) == CHOOSE x \in s : TRUE

\* The total of f.
Sigma(f) == FoldFunction(+, 0, f)

\* f without x.
Without(f, x) == [y \in (DOMAIN f) \ {x} |-> f[y]]

\* g is the fold of f on every subset of S.
Folds(f, g, S) ==
    g = [s \in SUBSET S |-> IF s = {} THEN 0 ELSE f[Pick(s)] + g[s \ {Pick(s)}]]

\* A set of subsets of a finite set has a minimal member.
LEMMA Minimal ==
    ASSUME NEW S, IsFiniteSet(S), NEW C, C \subseteq SUBSET S, C # {}
    PROVE  \E T \in C : \A U \in C : ~(U \subseteq T /\ U # T)
  <1>1. C \subseteq FiniteSubsetsOf(S)
    BY FS_Subset DEF FiniteSubsetsOf
  <1>2. PICK T \in C : \A U \in C : ~(<<U, T>> \in StrictSubsetOrdering(S))
    BY <1>1, FS_StrictSubsetOrderingWellFounded, WFMin, Zenon
  <1>3. \A U \in C : U \subseteq T /\ U # T => <<U, T>> \in StrictSubsetOrdering(S)
    BY DEF StrictSubsetOrdering
  <1>4. \A U \in C : ~(U \subseteq T /\ U # T)
    BY <1>2, <1>3
  <1> QED BY <1>4, Zenon

\* The same, for contexts that know more of S.
SomeSubsets(C, S) == C \subseteq SUBSET S /\ C # {}

HasMinimal(C) == \E T \in C : \A U \in C : ~(U \subseteq T /\ U # T)

LEMMA MinimalOf ==
    ASSUME NEW S, IsFiniteSet(S), NEW C, SomeSubsets(C, S)
    PROVE  HasMinimal(C)
  BY Minimal DEF SomeSubsets, HasMinimal

\* What is picked is a member.
LEMMA PickIn == ASSUME NEW s, s # {} PROVE Pick(s) \in s
  BY DEF Pick

\* The fold on one subset.
LEMMA FoldsAt ==
    ASSUME NEW f, NEW g, NEW S, Folds(f, g, S), NEW s \in SUBSET S
    PROVE  g[s] = IF s = {} THEN 0 ELSE f[Pick(s)] + g[s \ {Pick(s)}]
  BY Zenon DEF Folds

\* Nothing folds to 0.
LEMMA FoldsEmpty ==
    ASSUME NEW f, NEW g, NEW S, Folds(f, g, S)
    PROVE  g[{}] = 0
  BY FoldsAt, Zenon

\* The step of the fold, and two functions that agree on a set.
StepsBy(f, g, S) == \A s \in SUBSET S : s # {} => g[s] = f[Pick(s)] + g[s \ {Pick(s)}]

AnyOrder(f, g, S) == \A s \in SUBSET S : \A x \in s : g[s] = f[x] + g[s \ {x}]

AddsUp(f, g, h, S) == \A x \in S : h[x] = f[x] + g[x]

SameOn(f, g, S) == \A x \in S : f[x] = g[x]

\* A fold takes its members one by one.
LEMMA FoldsStep ==
    ASSUME NEW f, NEW g, NEW S, Folds(f, g, S)
    PROVE  StepsBy(f, g, S)
  <1>1. \A r \in SUBSET S : g[r] = IF r = {} THEN 0 ELSE f[Pick(r)] + g[r \ {Pick(r)}]
    BY Zenon DEF Folds
  <1> QED BY <1>1 DEF StepsBy

\* Functions that agree on a set have the same fold on it.
LEMMA FoldsAgree ==
    ASSUME NEW S, IsFiniteSet(S), NEW U, U \subseteq S, NEW f, NEW e, NEW g, NEW h, Folds(f, g, S),
           SameOn(e, f, U), Folds(e, h, U)
    PROVE  SameOn(g, h, SUBSET U)
  <1>0. StepsBy(f, g, S) /\ StepsBy(e, h, U)
    BY FoldsStep, Zenon
  <1> DEFINE C == {s \in SUBSET U : g[s] # h[s]}
  <1> SUFFICES ASSUME C # {} PROVE FALSE
    BY DEF SameOn
  <1>1. PICK T \in C : \A s \in C : ~(s \subseteq T /\ s # T)
    <2>1. C \subseteq SUBSET S OBVIOUS
    <2> HIDE DEF C
    <2> QED BY <2>1, Minimal
  <1> DEFINE p == Pick(T)
  <1>2. T # {}
    BY <1>1, FoldsEmpty
  <1>3. p \in T
    BY <1>2, PickIn
  <1>4. T \ {p} \in SUBSET U /\ T \ {p} \subseteq T /\ T \ {p} # T
    BY <1>1, <1>3
  <1>5. g[T \ {p}] = h[T \ {p}]
    BY <1>1, <1>4
  <1>6. g[T] = f[p] + g[T \ {p}] /\ h[T] = e[p] + h[T \ {p}]
    <2>1. T \in SUBSET S /\ T \in SUBSET U
      BY <1>1
    <2> HIDE DEF C
    <2>2. g[T] = f[p] + g[T \ {p}]
      BY <2>1, <1>2, <1>0 DEF StepsBy
    <2>3. h[T] = e[p] + h[T \ {p}]
      BY <2>1, <1>2, <1>0 DEF StepsBy
    <2> QED BY <2>2, <2>3
  <1>7. e[p] = f[p]
    BY <1>1, <1>3 DEF SameOn
  <1> QED BY <1>1, <1>5, <1>6, <1>7

\* The recursive function that defines the fold exists.
LEMMA FoldsExist ==
    ASSUME NEW S, IsFiniteSet(S), NEW f
    PROVE  \E g : Folds(f, g, S)
  <1> DEFINE C == {s \in SUBSET S : ~\E g : Folds(f, g, s)}
             G(s) == CHOOSE g : Folds(f, g, s)
             h(T) == [s \in SUBSET T |-> IF s = {} THEN 0
                                    ELSE f[Pick(s)] + G(s \ {Pick(s)})[s \ {Pick(s)}]]
  <1> SUFFICES ASSUME C # {} PROVE FALSE
    BY DEF Folds
  <1>1. PICK T \in C : \A s \in C : ~(s \subseteq T /\ s # T)
    <2>1. C \subseteq SUBSET S OBVIOUS
    <2> HIDE DEF C
    <2> QED BY <2>1, Minimal
  <1>2. \A s \in SUBSET T : s # T => Folds(f, G(s), s)
    <2> TAKE s \in SUBSET T
    <2> HAVE s # T
    <2>1. s \notin C /\ s \in SUBSET S
      BY <1>1
    <2>2. \E g : Folds(f, g, s)
      BY <2>1
    <2> QED BY <2>2, Zenon
  <1> HIDE DEF G
  <1>3. \A s \in SUBSET T : s # T => h(T)[s] = G(s)[s]
    <2> TAKE s \in SUBSET T
    <2> HAVE s # T
    <2>1. CASE s = {}
      <3>1. G(s)[s] = 0
        <4>1. Folds(f, G(s), s) BY <1>2
        <4>2. s \in SUBSET s OBVIOUS
        <4> QED BY <4>1, <4>2, <2>1, FoldsEmpty
      <3> QED BY <3>1, <2>1
    <2>2. CASE s # {}
      <3> DEFINE p == Pick(s)
                 u == s \ {p}
      <3>1. p \in s /\ u \subseteq s /\ u \in SUBSET T /\ u # T
        BY <2>2, PickIn
      <3>2. h(T)[s] = f[p] + G(u)[u]
        BY <2>2
      <3> HIDE DEF h
      <3>3. G(s)[s] = f[p] + G(s)[u]
        <4>1. Folds(f, G(s), s) BY <1>2
        <4>2. s \in SUBSET s OBVIOUS
        <4>3. StepsBy(f, G(s), s) BY <4>1, FoldsStep, Zenon
        <4> QED BY <4>2, <4>3, <2>2 DEF StepsBy
      <3>4. IsFiniteSet(s)
        BY <1>1, FS_Subset
      <3>5. Folds(f, G(s), s) /\ Folds(f, G(u), u)
        BY <1>2, <3>1
      <3>6. SameOn(G(s), G(u), SUBSET u)
        <4> HIDE DEF u
        <4>1. SameOn(f, f, u) BY DEF SameOn
        <4> QED BY <4>1, <3>1, <3>4, <3>5, FoldsAgree, Zenon
      <3>7. G(s)[u] = G(u)[u]
        BY <3>6 DEF SameOn
      <3> QED BY <3>2, <3>3, <3>7
    <2> QED BY <2>1, <2>2
  <1>4. \A s \in SUBSET T : h(T)[s] = IF s = {} THEN 0 ELSE f[Pick(s)] + h(T)[s \ {Pick(s)}]
    <2> TAKE s \in SUBSET T
    <2>1. CASE s = {}
      BY <2>1
    <2>2. CASE s # {}
      <3> DEFINE u == s \ {Pick(s)}
      <3>1. u \in SUBSET T /\ u # T
        BY <2>2, PickIn
      <3>2. h(T)[s] = f[Pick(s)] + G(u)[u]
        BY <2>2
      <3>3. h(T)[u] = G(u)[u]
        BY <3>1, <1>3
      <3> HIDE DEF h
      <3> QED BY <3>2, <3>3, <2>2
    <2> QED BY <2>1, <2>2
  <1>5. Folds(f, h(T), T)
    <2>1. h(T) = [s \in SUBSET T |-> h(T)[s]]
      OBVIOUS
    <2> HIDE DEF h
    <2> QED BY <2>1, <1>4, Zenon DEF Folds
  <1>6. \E g : Folds(f, g, T)
    <2> HIDE DEF h
    <2> QED BY <1>5
  <1> QED BY <1>6, <1>1

\* The total is the fold on the whole domain.
LEMMA SigmaFolds ==
    ASSUME NEW f, IsFiniteSet(DOMAIN f)
    PROVE  \E g : Folds(f, g, DOMAIN f) /\ Sigma(f) = g[DOMAIN f]
  <1> DEFINE g == CHOOSE g : g = [s \in SUBSET (DOMAIN f) |-> IF s = {} THEN 0 ELSE f[Pick(s)] + g[s \ {Pick(s)}]]
  <1>1. Sigma(f) = g[DOMAIN f]
    BY DEF Sigma, FoldFunction, FoldFunctionOnSet, MapThenFoldSet, Pick
  <1>2. \E e : Folds(f, e, DOMAIN f)
    BY FoldsExist, Zenon
  <1>3. g = [s \in SUBSET (DOMAIN f) |-> IF s = {} THEN 0 ELSE f[Pick(s)] + g[s \ {Pick(s)}]]
    <2>1. \E e : e = [s \in SUBSET (DOMAIN f) |-> IF s = {} THEN 0 ELSE f[Pick(s)] + e[s \ {Pick(s)}]]
      BY <1>2, Zenon DEF Folds
    <2> QED BY <2>1, Zenon
  <1>4. Folds(f, g, DOMAIN f)
    <2> HIDE DEF g
    <2> QED BY <1>3, Zenon DEF Folds
  <1> HIDE DEF g
  <1> QED BY <1>1, <1>4, Zenon

\* The fold of integers is an integer.
LEMMA FoldsType ==
    ASSUME NEW S, IsFiniteSet(S), NEW f \in [S -> Int], NEW g, Folds(f, g, S)
    PROVE  \A s \in SUBSET S : g[s] \in Int
  <1>0. StepsBy(f, g, S)
    BY FoldsStep, Zenon
  <1>00. g[{}] = 0
    BY FoldsEmpty, Zenon
  <1> DEFINE C == {s \in SUBSET S : g[s] \notin Int}
  <1> SUFFICES ASSUME C # {} PROVE FALSE
    OBVIOUS
  <1>1. PICK T \in C : \A s \in C : ~(s \subseteq T /\ s # T)
    <2>1. C \subseteq SUBSET S OBVIOUS
    <2> HIDE DEF C
    <2> QED BY <2>1, Minimal
  <1>2. T # {}
    <2>1. g[T] \notin Int BY <1>1
    <2>2. g[{}] \in Int BY <1>00
    <2> QED BY <2>1, <2>2, Zenon
  <1>3. Pick(T) \in T /\ T \ {Pick(T)} \subseteq T /\ T \ {Pick(T)} # T
    BY <1>2, PickIn
  <1>4. g[T \ {Pick(T)}] \in Int /\ f[Pick(T)] \in Int
    BY <1>1, <1>3
  <1>5. g[T] = f[Pick(T)] + g[T \ {Pick(T)}]
    <2>1. T \in SUBSET S BY <1>1
    <2> HIDE DEF C
    <2> QED BY <2>1, <1>2, <1>0 DEF StepsBy
  <1> QED BY <1>1, <1>4, <1>5

\* The order does not matter: any member can be taken first.
LEMMA FoldsAnyOrder ==
    ASSUME NEW S, IsFiniteSet(S), NEW f \in [S -> Int], NEW g, Folds(f, g, S)
    PROVE  AnyOrder(f, g, S)
  <1>0. StepsBy(f, g, S)
    BY FoldsStep, Zenon
  <1>00. g[{}] = 0
    BY FoldsEmpty, Zenon
  <1> DEFINE C == {s \in SUBSET S : \E x \in s : g[s] # f[x] + g[s \ {x}]}
  <1> SUFFICES ASSUME C # {} PROVE FALSE
    BY DEF AnyOrder
  <1>1. PICK T \in C : \A s \in C : ~(s \subseteq T /\ s # T)
    <2>1. C \subseteq SUBSET S OBVIOUS
    <2> HIDE DEF C
    <2> QED BY <2>1, Minimal
  <1>2. PICK x \in T : g[T] # f[x] + g[T \ {x}]
    BY <1>1
  <1> DEFINE p == Pick(T)
             u == (T \ {p}) \ {x}
  <1>3. p \in T /\ T \in SUBSET S
    BY <1>1, <1>2, PickIn
  <1>4. g[T] = f[p] + g[T \ {p}]
    <2> HIDE DEF C
    <2> QED BY <1>2, <1>3, <1>0 DEF StepsBy
  <1>5. p # x
    BY <1>2, <1>4
  <1>6. g[T \ {p}] = f[x] + g[u]
    <2>1. T \ {p} \notin C /\ x \in T \ {p} /\ T \ {p} \in SUBSET S
      BY <1>1, <1>2, <1>3, <1>5
    <2> HIDE DEF p
    <2> QED BY <2>1
  <1>7. g[T \ {x}] = f[p] + g[u]
    <2>1. T \ {x} \notin C /\ p \in T \ {x} /\ T \ {x} \in SUBSET S
      BY <1>1, <1>2, <1>3, <1>5
    <2>2. (T \ {x}) \ {p} = u
      OBVIOUS
    <2> HIDE DEF p, u
    <2> QED BY <2>1, <2>2
  <1>8. f[x] \in Int /\ f[p] \in Int
    BY <1>2, <1>3
  <1>9. g[u] \in Int
    BY <1>3, FoldsType
  <1> HIDE DEF p, u
  <1> QED BY <1>2, <1>4, <1>6, <1>7, <1>8, <1>9

-----------------------------------------------------------------------------
\* A total of integers is an integer.
LEMMA SigmaType ==
    ASSUME NEW S, IsFiniteSet(S), NEW f \in [S -> Int]
    PROVE  Sigma(f) \in Int
  <1>1. DOMAIN f = S OBVIOUS
  <1>2. PICK g : Folds(f, g, S) /\ Sigma(f) = g[S]
    BY <1>1, SigmaFolds
  <1> QED BY <1>2, FoldsType

\* Nothing adds up to 0.
LEMMA SigmaEmpty ==
    ASSUME NEW f, DOMAIN f = {}
    PROVE  Sigma(f) = 0
  BY SigmaFolds, FoldsEmpty, FS_EmptySet

\* The total without x is the fold without x.
LEMMA SigmaFoldsWithout ==
    ASSUME NEW S, IsFiniteSet(S), NEW f, DOMAIN f = S, NEW x \in S
    PROVE  \E g : Folds(f, g, S) /\ Sigma(f) = g[S] /\ Sigma(Without(f, x)) = g[S \ {x}]
  <1> DEFINE U == S \ {x}
             e == [y \in U |-> f[y]]
  <1>2. IsFiniteSet(U) /\ U \subseteq S
    BY FS_Subset
  <1>3. PICK g : Folds(f, g, S) /\ Sigma(f) = g[S]
    BY SigmaFolds
  <1>5. DOMAIN e = U /\ SameOn(e, f, U)
    BY DEF SameOn
  <1> HIDE DEF e, U
  <1>4. PICK h : Folds(e, h, U) /\ Sigma(e) = h[U]
    BY <1>2, <1>5, SigmaFolds
  <1>6. g[U] = h[U]
    <2>1. SameOn(g, h, SUBSET U)
      BY <1>2, <1>3, <1>4, <1>5, FoldsAgree, Zenon
    <2> QED BY <2>1 DEF SameOn
  <1> QED BY <1>3, <1>4, <1>6 DEF e, U, Without

\* Taking one member out.
LEMMA SigmaRemove ==
    ASSUME NEW S, IsFiniteSet(S), NEW f \in [S -> Int], NEW x \in S
    PROVE  Sigma(f) = f[x] + Sigma(Without(f, x))
  <1>1. PICK g : /\ Folds(f, g, S)
                 /\ Sigma(f) = g[S]
                 /\ Sigma(Without(f, x)) = g[S \ {x}]
    <2>1. DOMAIN f = S OBVIOUS
    <2> QED BY <2>1, SigmaFoldsWithout
  <1>2. g[S] = f[x] + g[S \ {x}]
    <2>1. AnyOrder(f, g, S) BY <1>1, FoldsAnyOrder
    <2> QED BY <2>1 DEF AnyOrder
  <1> QED BY <1>1, <1>2

\* Changing one value.
LEMMA SigmaChange ==
    ASSUME NEW S, IsFiniteSet(S), NEW f \in [S -> Int], NEW g \in [S -> Int], NEW x \in S,
           \A y \in S \ {x} : g[y] = f[y]
    PROVE  Sigma(g) = Sigma(f) + g[x] - f[x]
  <1> DEFINE e == Without(f, x)
  <1>1. Without(g, x) = e
    BY DEF Without
  <1>2. Sigma(f) = f[x] + Sigma(e)
    BY SigmaRemove
  <1>3. Sigma(g) = g[x] + Sigma(Without(g, x))
    BY SigmaRemove
  <1>4. Sigma(e) \in Int
    <2>1. IsFiniteSet(S \ {x}) BY FS_Subset
    <2>2. e \in [S \ {x} -> Int] BY DEF Without
    <2> HIDE DEF e
    <2> QED BY <2>1, <2>2, SigmaType
  <1> HIDE DEF e
  <1> QED BY <1>1, <1>2, <1>3, <1>4

\* The folds of two functions add up, subset by subset.
LEMMA FoldsAdd ==
    ASSUME NEW S, IsFiniteSet(S), NEW f \in [S -> Int], NEW g \in [S -> Int],
           NEW h \in [S -> Int], \A x \in S : h[x] = f[x] + g[x],
           NEW a, NEW b, NEW c, Folds(f, a, S), Folds(g, b, S), Folds(h, c, S)
    PROVE  \A s \in SUBSET S : c[s] = a[s] + b[s]
  <1>0. StepsBy(f, a, S) /\ StepsBy(g, b, S) /\ StepsBy(h, c, S)
    BY FoldsStep, Zenon
  <1>00. a[{}] = 0 /\ b[{}] = 0 /\ c[{}] = 0
    BY FoldsEmpty, Zenon
  <1>1. \A s \in SUBSET S : a[s] \in Int /\ b[s] \in Int /\ c[s] \in Int
    BY FoldsType
  <1> DEFINE C == {s \in SUBSET S : c[s] # a[s] + b[s]}
  <1> SUFFICES ASSUME C # {} PROVE FALSE
    OBVIOUS
  <1>2. PICK T \in C : \A s \in C : ~(s \subseteq T /\ s # T)
    <2>1. C \subseteq SUBSET S OBVIOUS
    <2> HIDE DEF C
    <2> QED BY <2>1, Minimal
  <1>3. T \in SUBSET S /\ c[T] # a[T] + b[T]
    BY <1>2
  <1>4. T # {}
    BY <1>3, <1>00
  <1> DEFINE p == Pick(T)
             u == T \ {p}
  <1>5. p \in T /\ u \subseteq T /\ u # T /\ u \in SUBSET S
    BY <1>3, <1>4, PickIn
  <1>6. u \notin C
    <2> HIDE DEF u, C
    <2> QED BY <1>2, <1>5
  <1>7. c[u] = a[u] + b[u]
    BY <1>5, <1>6
  <1>8. a[T] = f[p] + a[u] /\ b[T] = g[p] + b[u] /\ c[T] = h[p] + c[u]
    BY <1>0, <1>3, <1>4 DEF StepsBy
  <1>9. h[p] = f[p] + g[p] /\ f[p] \in Int /\ g[p] \in Int
    BY <1>3, <1>5
  <1>10. a[u] \in Int /\ b[u] \in Int
    BY <1>1, <1>5
  <1> HIDE DEF u, p, C
  <1> QED BY <1>3, <1>7, <1>8, <1>9, <1>10

\* The totals of two functions add up.
LEMMA SigmaAdd ==
    ASSUME NEW S, IsFiniteSet(S), NEW f \in [S -> Int], NEW g \in [S -> Int],
           NEW h \in [S -> Int], AddsUp(f, g, h, S)
    PROVE  Sigma(h) = Sigma(f) + Sigma(g)
  <1>1. DOMAIN f = S /\ DOMAIN g = S /\ DOMAIN h = S OBVIOUS
  <1>2. PICK a : Folds(f, a, S) /\ Sigma(f) = a[S]
    BY <1>1, SigmaFolds
  <1>3. PICK b : Folds(g, b, S) /\ Sigma(g) = b[S]
    BY <1>1, SigmaFolds
  <1>4. PICK c : Folds(h, c, S) /\ Sigma(h) = c[S]
    BY <1>1, SigmaFolds
  <1> QED BY <1>2, <1>3, <1>4, FoldsAdd DEF AddsUp

\* The same, with what is needed in one predicate.
Adds(S, f, g, h) ==
    /\ IsFiniteSet(S) /\ f \in [S -> Int] /\ g \in [S -> Int] /\ h \in [S -> Int]
    /\ AddsUp(f, g, h, S)

LEMMA SigmaAdds ==
    ASSUME NEW S, NEW f, NEW g, NEW h, Adds(S, f, g, h)
    PROVE  /\ Sigma(h) = Sigma(f) + Sigma(g)
           /\ Sigma(f) \in Int /\ Sigma(g) \in Int
  BY SigmaAdd, SigmaType DEF Adds

\* Zeros add up to 0.
LEMMA SigmaZero ==
    ASSUME NEW S, IsFiniteSet(S), NEW f \in [S -> Int], \A x \in S : f[x] = 0
    PROVE  Sigma(f) = 0
  <1>1. AddsUp(f, f, f, S)
    BY DEF AddsUp
  <1>2. Sigma(f) = Sigma(f) + Sigma(f)
    BY <1>1, SigmaAdd
  <1>3. Sigma(f) \in Int
    BY SigmaType
  <1>4. \A n \in Int : n = n + n => n = 0 OBVIOUS
  <1> QED BY <1>2, <1>3, <1>4, Zenon

\* A total of naturals is a natural.
LEMMA SigmaNat ==
    ASSUME NEW S, IsFiniteSet(S), NEW f \in [S -> Nat]
    PROVE  Sigma(f) \in Nat
  <1>0. f \in [S -> Int] /\ DOMAIN f = S OBVIOUS
  <1>1. PICK g : Folds(f, g, S) /\ Sigma(f) = g[S]
    BY <1>0, SigmaFolds
  <1>2. StepsBy(f, g, S) /\ g[{}] = 0
    <2>1. Folds(f, g, S) BY <1>1
    <2> QED BY <2>1, FoldsStep, FoldsEmpty, Zenon
  <1> DEFINE C == {s \in SUBSET S : g[s] \notin Nat}
  <1> SUFFICES ASSUME C # {} PROVE FALSE
    BY <1>1
  <1>3. PICK T \in C : \A s \in C : ~(s \subseteq T /\ s # T)
    <2>1. C \subseteq SUBSET S OBVIOUS
    <2> HIDE DEF C
    <2> QED BY <2>1, Minimal
  <1>4. T \in SUBSET S /\ g[T] \notin Nat
    BY <1>3
  <1>5. T # {}
    <2>1. g[{}] \in Nat BY <1>2
    <2> QED BY <1>4, <2>1, Zenon
  <1> DEFINE p == Pick(T)
             u == T \ {p}
  <1>6. p \in T /\ u \subseteq T /\ u # T /\ u \in SUBSET S
    BY <1>4, <1>5, PickIn
  <1>7. u \notin C
    <2> HIDE DEF u, C
    <2> QED BY <1>3, <1>6
  <1>8. g[u] \in Nat
    BY <1>6, <1>7
  <1>9. g[T] = f[p] + g[u]
    BY <1>2, <1>4, <1>5 DEF StepsBy
  <1>10. f[p] \in Nat
    BY <1>4, <1>6
  <1>11. g[T] \in Nat
    <2> HIDE DEF u, p, C
    <2> QED BY <1>8, <1>9, <1>10
  <1> QED BY <1>4, <1>11, Zenon

\* No value of naturals exceeds the total.
LEMMA SigmaMember ==
    ASSUME NEW S, IsFiniteSet(S), NEW f \in [S -> Nat], NEW x \in S
    PROVE  f[x] <= Sigma(f)
  <1>0. f \in [S -> Int] /\ DOMAIN f = S OBVIOUS
  <1>1. Sigma(f) = f[x] + Sigma(Without(f, x))
    BY <1>0, SigmaRemove
  <1>2. Without(f, x) \in [S \ {x} -> Nat]
    BY <1>0 DEF Without
  <1>3. IsFiniteSet(S \ {x})
    BY FS_Subset
  <1>4. Sigma(Without(f, x)) \in Nat
    BY <1>2, <1>3, SigmaNat
  <1> QED BY <1>1, <1>4

\* Members that are 0 can be left out of a fold.
LEMMA FoldsFilter ==
    ASSUME NEW S, IsFiniteSet(S), NEW T, T \subseteq S, NEW f \in [S -> Int], NEW g \in [T -> Int],
           SameOn(f, g, T), \A x \in S \ T : f[x] = 0,
           NEW a, NEW b, Folds(f, a, S), Folds(g, b, T)
    PROVE  \A s \in SUBSET S : a[s] = b[s \cap T]
  <1>0. StepsBy(f, a, S)
    BY FoldsStep, Zenon
  <1>00. a[{}] = 0 /\ b[{}] = 0
    BY FoldsEmpty, Zenon
  <1>1. IsFiniteSet(T)
    BY FS_Subset
  <1>2. \A s \in SUBSET S : a[s] \in Int
    BY FoldsType, Zenon
  <1>3. AnyOrder(g, b, T)
    BY <1>1, FoldsAnyOrder, Zenon
  <1> DEFINE C == {s \in SUBSET S : a[s] # b[s \cap T]}
  <1> SUFFICES ASSUME C # {} PROVE FALSE
    OBVIOUS
  <1>4. PICK U \in C : \A s \in C : ~(s \subseteq U /\ s # U)
    <2>1. C \subseteq SUBSET S OBVIOUS
    <2> HIDE DEF C
    <2> QED BY <2>1, Minimal
  <1>5. U \in SUBSET S /\ a[U] # b[U \cap T]
    BY <1>4
  <1>6. U # {}
    <2>1. {} \cap T = {} OBVIOUS
    <2> QED BY <2>1, <1>5, <1>00
  <1> DEFINE p == Pick(U)
             u == U \ {p}
  <1>7. p \in U /\ u \subseteq U /\ u # U /\ u \in SUBSET S
    BY <1>5, <1>6, PickIn
  <1>8. u \notin C
    <2> HIDE DEF u, C
    <2> QED BY <1>4, <1>7
  <1>9. a[u] = b[u \cap T]
    BY <1>7, <1>8
  <1>10. a[U] = f[p] + a[u]
    BY <1>0, <1>5, <1>6 DEF StepsBy
  <1>11. CASE p \in T
    <2>1. U \cap T \in SUBSET T /\ p \in U \cap T
      BY <1>7, <1>11
    <2>2. b[U \cap T] = g[p] + b[(U \cap T) \ {p}]
      BY <2>1, <1>3 DEF AnyOrder
    <2>3. (U \cap T) \ {p} = u \cap T
      OBVIOUS
    <2>4. f[p] = g[p]
      BY <1>11 DEF SameOn
    <2> HIDE DEF p, u, C
    <2> QED BY <2>2, <2>3, <2>4, <1>5, <1>9, <1>10
  <1>12. CASE p \notin T
    <2>1. U \cap T = u \cap T
      BY <1>12
    <2>2. f[p] = 0
      BY <1>5, <1>7, <1>12
    <2>3. a[u] \in Int
      BY <1>2, <1>7
    <2> HIDE DEF p, u, C
    <2>4. a[U] = a[u]
      BY <2>2, <2>3, <1>10
    <2> QED BY <2>1, <2>4, <1>5, <1>9
  <1> QED BY <1>11, <1>12

\* Members that are 0 can be left out of a total.
LEMMA SigmaFilter ==
    ASSUME NEW S, IsFiniteSet(S), NEW T, T \subseteq S, NEW f \in [S -> Int], NEW g \in [T -> Int],
           SameOn(f, g, T), \A x \in S \ T : f[x] = 0
    PROVE  Sigma(f) = Sigma(g)
  <1>1. DOMAIN f = S /\ DOMAIN g = T /\ IsFiniteSet(T)
    BY FS_Subset
  <1>2. PICK a : Folds(f, a, S) /\ Sigma(f) = a[S]
    BY <1>1, SigmaFolds
  <1>3. PICK b : Folds(g, b, T) /\ Sigma(g) = b[T]
    BY <1>1, SigmaFolds
  <1>4. S \cap T = T /\ S \in SUBSET S
    OBVIOUS
  <1>5. a[S] = b[S \cap T]
    BY <1>2, <1>3, <1>4, FoldsFilter
  <1> QED BY <1>2, <1>3, <1>4, <1>5

\* The total of one value.
LEMMA SigmaOne ==
    ASSUME NEW x, NEW f \in [{x} -> Int]
    PROVE  Sigma(f) = f[x]
  <1> DEFINE S == {x}
  <1>1. IsFiniteSet(S) /\ x \in S /\ f \in [S -> Int]
    BY FS_Singleton
  <1>2. Sigma(f) = f[x] + Sigma(Without(f, x))
    <2> HIDE DEF S
    <2> QED BY <1>1, SigmaRemove
  <1>3. DOMAIN Without(f, x) = {}
    BY DEF Without
  <1>4. Sigma(Without(f, x)) = 0
    BY <1>3, SigmaEmpty
  <1> QED BY <1>2, <1>4

\* The total of two values.
LEMMA SigmaTwo ==
    ASSUME NEW x, NEW y, x # y, NEW f \in [{x, y} -> Int]
    PROVE  Sigma(f) = f[x] + f[y]
  <1> DEFINE S == {x, y}
             e == Without(f, x)
  <1>1. IsFiniteSet(S) /\ x \in S /\ f \in [S -> Int]
    <2>1. IsFiniteSet({y}) /\ S = {y} \cup {x}
      BY FS_Singleton
    <2>2. IsFiniteSet({y} \cup {x})
      BY <2>1, FS_AddElement, Zenon
    <2> QED BY <2>1, <2>2
  <1>2. Sigma(f) = f[x] + Sigma(e)
    <2> HIDE DEF S
    <2> QED BY <1>1, SigmaRemove
  <1>3. e \in [{y} -> Int] /\ e[y] = f[y]
    BY DEF Without
  <1> HIDE DEF e
  <1>4. Sigma(e) = e[y]
    BY <1>3, SigmaOne
  <1> QED BY <1>2, <1>3, <1>4

-----------------------------------------------------------------------------
(* Totals over a part of the domain.                                       *)

\* f on T.
On(f, T) == [y \in T |-> f[y]]

\* A total over a part takes any member first.
LEMMA OnRemove ==
    ASSUME NEW S, IsFiniteSet(S), NEW f \in [S -> Int], NEW T \in SUBSET S, NEW x \in T
    PROVE  Sigma(On(f, T)) = f[x] + Sigma(On(f, T \ {x}))
  <1>1. IsFiniteSet(T)
    BY FS_Subset
  <1>2. On(f, T) \in [T -> Int] /\ On(f, T)[x] = f[x]
    BY DEF On
  <1>3. Without(On(f, T), x) = On(f, T \ {x})
    BY DEF On, Without
  <1> QED BY <1>1, <1>2, <1>3, SigmaRemove

\* It is an integer, 0 over nothing, and that of f over everything.
LEMMA OnType ==
    ASSUME NEW S, IsFiniteSet(S), NEW f \in [S -> Int], NEW T \in SUBSET S
    PROVE  Sigma(On(f, T)) \in Int
  <1>1. IsFiniteSet(T)
    BY FS_Subset
  <1>2. On(f, T) \in [T -> Int]
    BY DEF On
  <1> QED BY <1>1, <1>2, SigmaType

LEMMA OnNothing == ASSUME NEW f PROVE Sigma(On(f, {})) = 0
  BY SigmaEmpty DEF On

LEMMA OnEverything ==
    ASSUME NEW S, NEW f \in [S -> Int]
    PROVE  On(f, S) = f
  BY DEF On

\* A multiple of every value is a multiple of the total.
Multiplies(c, f, h, S) == \A x \in S : h[x] = c * f[x]

LEMMA Distributes == ASSUME NEW c \in Int, NEW a \in Int, NEW b \in Int PROVE c * (a + b) = c * a + c * b
  OBVIOUS

LEMMA SigmaScale ==
    ASSUME NEW S, IsFiniteSet(S), NEW c \in Int, NEW f \in [S -> Int], NEW h \in [S -> Int],
           Multiplies(c, f, h, S)
    PROVE  Sigma(h) = c * Sigma(f)
  <1> DEFINE C == {T \in SUBSET S : Sigma(On(h, T)) # c * Sigma(On(f, T))}
  <1>1. CASE C = {}
    <2>1. S \notin C BY <1>1
    <2>2. Sigma(On(h, S)) = c * Sigma(On(f, S)) BY <2>1
    <2> QED BY <2>2, OnEverything
  <1>2. CASE C # {}
    <2>1. PICK T \in C : \A U \in C : ~(U \subseteq T /\ U # T)
      <3>1. C \subseteq SUBSET S OBVIOUS
      <3> HIDE DEF C
      <3> QED BY <3>1, <1>2, Minimal
    <2>2. T \in SUBSET S /\ Sigma(On(h, T)) # c * Sigma(On(f, T))
      BY <2>1
    <2>3. T # {}
      <3>1. c * 0 = 0 OBVIOUS
      <3> QED BY <2>2, <3>1, OnNothing
    <2>4. PICK x \in T : TRUE
      BY <2>3
    <2>5. T \ {x} \in SUBSET S /\ T \ {x} \notin C
      BY <2>1, <2>2, <2>4
    <2>6. Sigma(On(h, T \ {x})) = c * Sigma(On(f, T \ {x}))
      BY <2>5
    <2> HIDE DEF C
    <2>7. /\ Sigma(On(h, T)) = h[x] + Sigma(On(h, T \ {x}))
          /\ Sigma(On(f, T)) = f[x] + Sigma(On(f, T \ {x}))
      BY <2>2, <2>4, OnRemove
    <2>8. f[x] \in Int /\ Sigma(On(f, T \ {x})) \in Int /\ h[x] = c * f[x]
      BY <2>2, <2>4, <2>5, OnType DEF Multiplies
    <2>9. c * (f[x] + Sigma(On(f, T \ {x}))) = c * f[x] + c * Sigma(On(f, T \ {x}))
      BY <2>8, Distributes
    <2> QED BY <2>2, <2>6, <2>7, <2>8, <2>9, Zenon
  <1> QED BY <1>1, <1>2

\* Larger values, a larger total.
LEMMA SigmaMono ==
    ASSUME NEW S, IsFiniteSet(S), NEW f \in [S -> Int], NEW g \in [S -> Int],
           \A x \in S : f[x] <= g[x]
    PROVE  Sigma(f) <= Sigma(g)
  <1> DEFINE d == [x \in S |-> g[x] - f[x]]
  <1>1. d \in [S -> Nat] /\ d \in [S -> Int] OBVIOUS
  <1>2. AddsUp(f, d, g, S)
    BY DEF AddsUp
  <1> HIDE DEF d
  <1>3. Sigma(g) = Sigma(f) + Sigma(d)
    BY <1>1, <1>2, SigmaAdd
  <1>4. Sigma(d) \in Nat /\ Sigma(f) \in Int
    BY <1>1, SigmaNat, SigmaType
  <1> QED BY <1>3, <1>4

\* One for each member of T: as many as T has.
Mark(S, T) == [x \in S |-> IF x \in T THEN 1 ELSE 0]

LEMMA SigmaCounts ==
    ASSUME NEW S, IsFiniteSet(S), NEW R, R \subseteq S
    PROVE  Sigma(Mark(S, R)) = Cardinality(R)
  <1> DEFINE C == {T \in SUBSET S : Sigma(Mark(S, T)) # Cardinality(T)}
  <1>1. CASE C = {}
    BY <1>1
  <1>2. CASE C # {}
    <2>1. PICK T \in C : \A U \in C : ~(U \subseteq T /\ U # T)
      <3>1. C \subseteq SUBSET S OBVIOUS
      <3> HIDE DEF C
      <3> QED BY <3>1, <1>2, Minimal
    <2>2. T \in SUBSET S /\ Sigma(Mark(S, T)) # Cardinality(T)
      BY <2>1
    <2>3. T # {}
      <3>1. Mark(S, {}) \in [S -> Int] /\ \A x \in S : Mark(S, {})[x] = 0
        BY DEF Mark
      <3> QED BY <2>2, <3>1, SigmaZero, FS_EmptySet
    <2>4. PICK x \in T : TRUE
      BY <2>3
    <2>5. T \ {x} \in SUBSET S /\ T \ {x} \notin C
      BY <2>1, <2>2, <2>4
    <2>6. Sigma(Mark(S, T \ {x})) = Cardinality(T \ {x})
      BY <2>5
    <2> HIDE DEF C
    <2>7. Sigma(Mark(S, T)) = Sigma(Mark(S, T \ {x})) + 1
      <3> DEFINE f == Mark(S, T \ {x})
                 g == Mark(S, T)
      <3>1. f \in [S -> Int] /\ g \in [S -> Int] /\ f[x] = 0 /\ g[x] = 1 /\ x \in S
        BY <2>2, <2>4 DEF Mark
      <3>2. \A y \in S \ {x} : g[y] = f[y]
        BY DEF Mark
      <3>3. Sigma(f) \in Int
        BY <3>1, SigmaType
      <3> HIDE DEF f, g
      <3>4. Sigma(g) = Sigma(f) + g[x] - f[x]
        BY <3>1, <3>2, SigmaChange
      <3>5. Sigma(g) = Sigma(f) + 1
        BY <3>1, <3>3, <3>4
      <3> QED BY <3>5 DEF f, g
    <2>8. Cardinality(T \ {x}) = Cardinality(T) - 1 /\ Cardinality(T) \in Nat
      BY <2>2, <2>4, FS_Subset, FS_RemoveElement, FS_CardinalityType
    <2> QED BY <2>2, <2>6, <2>7, <2>8
  <1> QED BY <1>1, <1>2

\* Values moved to the members of S that T stands for, one to one, have the same
\* total there.
Places(S, T, h, f, g) ==
    /\ \A x, y \in T : h[x] = h[y] => x = y
    /\ \A x \in T : h[x] \in S /\ g[h[x]] = f[x]
    /\ \A z \in S : (\A x \in T : h[x] # z) => g[z] = 0

LEMMA SigmaPlaces ==
    ASSUME NEW S, IsFiniteSet(S), NEW T, IsFiniteSet(T), NEW h,
           NEW f \in [T -> Int], NEW g \in [S -> Int], Places(S, T, h, f, g)
    PROVE  Sigma(g) = Sigma(f)
  <1> DEFINE image(U) == {h[x] : x \in U}
             C == {U \in SUBSET T : Sigma(On(f, U)) # Sigma(On(g, image(U)))}
  <1>1. \A U \in SUBSET T : image(U) \in SUBSET S
    BY DEF Places
  <1>2. CASE C = {}
    <2>1. T \notin C BY <1>2
    <2>2. Sigma(On(f, T)) = Sigma(On(g, image(T))) BY <2>1
    <2>3. image(T) \subseteq S /\ On(g, image(T)) \in [image(T) -> Int]
      BY <1>1 DEF On
    <2>4. SameOn(g, On(g, image(T)), image(T))
      BY DEF On, SameOn
    <2>5. \A z \in S \ image(T) : g[z] = 0
      BY DEF Places
    <2> HIDE DEF image
    <2>6. Sigma(g) = Sigma(On(g, image(T)))
      BY <2>3, <2>4, <2>5, SigmaFilter
    <2>7. On(f, T) = f
      BY OnEverything
    <2> QED BY <2>2, <2>6, <2>7
  <1>3. CASE C # {}
    <2>1. PICK U \in C : \A V \in C : ~(V \subseteq U /\ V # U)
      <3>1. C \subseteq SUBSET T OBVIOUS
      <3> HIDE DEF C
      <3> QED BY <3>1, <1>3, Minimal
    <2>2. U \in SUBSET T /\ Sigma(On(f, U)) # Sigma(On(g, image(U)))
      BY <2>1
    <2>3. U # {}
      <3>1. image({}) = {} OBVIOUS
      <3> HIDE DEF image
      <3> QED BY <2>2, <3>1, OnNothing
    <2>4. PICK x \in U : TRUE
      BY <2>3
    <2>5. U \ {x} \in SUBSET T /\ U \ {x} \notin C
      BY <2>1, <2>2, <2>4
    <2>6. Sigma(On(f, U \ {x})) = Sigma(On(g, image(U \ {x})))
      BY <2>5
    <2>7. image(U \ {x}) = image(U) \ {h[x]} /\ h[x] \in image(U)
      BY <2>2, <2>4 DEF Places
    <2>8. g[h[x]] = f[x]
      BY <2>2, <2>4 DEF Places
    <2>9. image(U) \in SUBSET S
      BY <1>1, <2>2
    <2> HIDE DEF C, image
    <2>10. /\ Sigma(On(f, U)) = f[x] + Sigma(On(f, U \ {x}))
           /\ Sigma(On(g, image(U))) = g[h[x]] + Sigma(On(g, image(U) \ {h[x]}))
      BY <2>2, <2>4, <2>7, <2>9, OnRemove
    <2> QED BY <2>2, <2>6, <2>7, <2>8, <2>10
  <1> QED BY <1>2, <1>3

-----------------------------------------------------------------------------
(* SumSeq adds up from the right.                                          *)

\* A non-empty finite set of integers has a largest member.
LEMMA MaxIn ==
    ASSUME NEW n \in Nat, NEW s, s \subseteq 1 .. n, s # {}
    PROVE  Max(s) \in s
  <1> DEFINE B == {k \in 0 .. n : s \subseteq 1 .. k}
             C == {1 .. k : k \in B}
  <1>1. n \in B OBVIOUS
  <1>2. C \subseteq SUBSET (1 .. n) /\ C # {}
    BY <1>1
  <1>3. IsFiniteSet(1 .. n)
    BY FS_Interval
  <1>4. PICK T \in C : \A U \in C : ~(U \subseteq T /\ U # T)
    <2> DEFINE N == 1 .. n
    <2>1. IsFiniteSet(N) /\ C \subseteq SUBSET N /\ C # {}
      BY <1>2, <1>3
    <2> HIDE DEF C, N
    <2> QED BY <2>1, Minimal
  <1>5. PICK k \in B : T = 1 .. k
    BY <1>4
  <1>6. k # 0
    <2>1. s \subseteq 1 .. k OBVIOUS
    <2>2. 1 .. 0 = {} OBVIOUS
    <2> HIDE DEF B
    <2> QED BY <2>1, <2>2
  <1>7. k \in s
    <2> SUFFICES ASSUME k \notin s PROVE FALSE
      OBVIOUS
    <2>1. k - 1 \in B
      BY <1>5, <1>6
    <2>2. 1 .. (k - 1) \in C
      BY <2>1
    <2>3. 1 .. (k - 1) \subseteq 1 .. k /\ 1 .. (k - 1) # 1 .. k
      <3>1. k \in 1 .. k /\ k \notin 1 .. (k - 1)
        BY <1>5, <1>6
      <3> QED BY <3>1, <1>5
    <2> HIDE DEF C, B
    <2> QED BY <1>4, <1>5, <2>2, <2>3
  <1>8. \A y \in s : k >= y
    BY <1>5
  <1> QED BY <1>7, <1>8 DEF Max

\* g is the fold from the right of f on every subset of S.
FoldsMax(f, g, S) ==
    g = [s \in SUBSET S |-> IF s = {} THEN 0 ELSE g[s \ {Max(s)}] + f[Max(s)]]

\* Sequences add up as functions do.
LEMMA SumIsSigma ==
    ASSUME NEW n \in Nat, NEW f \in [1 .. n -> Int]
    PROVE  SumSeq(f) = Sigma(f)
  <1> DEFINE S == 1 .. n
  <1>1. IsFiniteSet(S)
    BY FS_Interval
  <1>2. DOMAIN f = S OBVIOUS
  <1>3. PICK g : Folds(f, g, S) /\ Sigma(f) = g[S]
    BY <1>1, <1>2, SigmaFolds
  <1>4. \A s \in SUBSET S : s # {} => Max(s) \in s
    BY MaxIn
  <1>5. SumSeq(f) = (CHOOSE h : FoldsMax(f, h, S))[S]
    BY <1>2 DEF SumSeq, FoldLeft, MapThenFoldSet, FoldsMax
  <1> HIDE DEF S
  <1>6. AnyOrder(f, g, S)
    <2>1. f \in [S -> Int] BY DEF S
    <2> QED BY <1>1, <1>3, <2>1, FoldsAnyOrder
  <1>7. \A s \in SUBSET S : g[s] \in Int
    <2>1. f \in [S -> Int] BY DEF S
    <2> QED BY <1>1, <1>3, <2>1, FoldsType
  <1>8. \A s \in SUBSET S : g[s] = IF s = {} THEN 0 ELSE g[s \ {Max(s)}] + f[Max(s)]
    <2> TAKE s \in SUBSET S
    <2>1. CASE s = {}
      BY <2>1, <1>3, FoldsEmpty
    <2>2. CASE s # {}
      <3>1. Max(s) \in s BY <1>4, <2>2
      <3>2. g[s] = f[Max(s)] + g[s \ {Max(s)}]
        BY <1>6, <3>1 DEF AnyOrder
      <3>3. f[Max(s)] \in Int /\ g[s \ {Max(s)}] \in Int
        BY <3>1, <1>2, <1>7
      <3> QED BY <2>2, <3>2, <3>3
    <2> QED BY <2>1, <2>2
  <1>9. FoldsMax(f, g, S)
    <2>1. DOMAIN g = SUBSET S /\ g = [s \in SUBSET S |-> g[s]]
      BY <1>3, Zenon DEF Folds
    <2> QED BY <2>1, <1>8, Zenon DEF FoldsMax
  <1>10. PICK h : FoldsMax(f, h, S) /\ SumSeq(f) = h[S]
    BY <1>5, <1>9, Zenon
  <1>11. \A s \in SUBSET S : h[s] = IF s = {} THEN 0 ELSE h[s \ {Max(s)}] + f[Max(s)]
    <2>1. FoldsMax(f, h, S) BY <1>10
    <2> QED BY <2>1, Zenon DEF FoldsMax
  <1> DEFINE C == {s \in SUBSET S : h[s] # g[s]}
  <1>12. CASE C = {}
    <2>1. S \notin C BY <1>12
    <2> QED BY <2>1, <1>3, <1>10
  <1>13. CASE C # {}
    <2>1. PICK T \in C : \A U \in C : ~(U \subseteq T /\ U # T)
      <3>1. C \subseteq SUBSET S OBVIOUS
      <3> HIDE DEF C
      <3> QED BY <3>1, <1>1, <1>13, Minimal
    <2>2. T \in SUBSET S /\ h[T] # g[T]
      BY <2>1
    <2>3. T # {}
      BY <2>2, <1>8, <1>11
    <2>4. Max(T) \in T
      BY <1>4, <2>2, <2>3
    <2>5. T \ {Max(T)} \in SUBSET S /\ T \ {Max(T)} \notin C
      BY <2>1, <2>2, <2>4
    <2>6. h[T \ {Max(T)}] = g[T \ {Max(T)}]
      BY <2>5
    <2> HIDE DEF C
    <2> QED BY <2>2, <2>3, <2>6, <1>8, <1>11, Zenon
  <1> QED BY <1>12, <1>13
=============================================================================
