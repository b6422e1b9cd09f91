----------------------------- MODULE MoneyProofs ------------------------------
(***************************************************************************)
(* The arithmetic under every schedule and commission, for all amounts,    *)
(* rates, weights and slabs; and what it keeps true of commissions: what   *)
(* is accrued stays within the snapshot, what the ledger shows as paid was *)
(* paid, for any bookings, payments and milestones.                        *)
(***************************************************************************)
EXTENDS MoneyCalls, Commission, SumFacts, TLAPS

-----------------------------------------------------------------------------
(* Who comes first when a paisa is left over.                              *)

\* Those of N that come before i: a larger remainder, or the same and earlier.
Ahead(rem, N, i) == {j \in N : rem[j] > rem[i] \/ (rem[j] = rem[i] /\ j < i)}

LEMMA AheadOrders ==
    ASSUME NEW N, N \subseteq Int, NEW rem \in [N -> Int]
    PROVE  /\ \A i \in N : i \notin Ahead(rem, N, i)
           /\ \A i, j \in N : i = j \/ i \in Ahead(rem, N, j) \/ j \in Ahead(rem, N, i)
           /\ \A i, j \in N : i \in Ahead(rem, N, j) => Ahead(rem, N, i) \subseteq Ahead(rem, N, j)
  <1>1. \A i \in N : rem[i] \in Int /\ i \in Int
    OBVIOUS
  <1>2. \A i \in N : i \notin Ahead(rem, N, i)
    BY <1>1 DEF Ahead
  <1>3. \A i, j \in N : i = j \/ i \in Ahead(rem, N, j) \/ j \in Ahead(rem, N, i)
    BY <1>1 DEF Ahead
  <1>4. ASSUME NEW i \in N, NEW j \in N, i \in Ahead(rem, N, j), NEW k \in Ahead(rem, N, i)
        PROVE  k \in Ahead(rem, N, j)
    BY <1>1, <1>4 DEF Ahead
  <1> QED BY <1>2, <1>3, <1>4

HasFirst(T, rem, N) == \E i \in T : T \cap Ahead(rem, N, i) = {}

\* Of every non-empty set, one comes first ...
LEMMA FirstOf ==
    ASSUME NEW N, N \subseteq Int, IsFiniteSet(N), NEW rem \in [N -> Int],
           NEW T, T \subseteq N, T # {}
    PROVE  HasFirst(T, rem, N)
  <1> DEFINE C == {Ahead(rem, N, i) : i \in T}
  <1>1. C \subseteq SUBSET N /\ C # {}
    BY DEF Ahead
  <1>2. PICK A \in C : \A B \in C : ~(B \subseteq A /\ B # A)
    <2> HIDE DEF C
    <2>1. SomeSubsets(C, N)
      BY <1>1 DEF SomeSubsets
    <2>2. HasMinimal(C)
      BY <2>1, MinimalOf
    <2> QED BY <2>2 DEF HasMinimal
  <1>3. PICK i \in T : A = Ahead(rem, N, i)
    BY <1>2
  <1>4. ASSUME NEW j \in T, j \in Ahead(rem, N, i) PROVE FALSE
    <2>1. Ahead(rem, N, j) \in C OBVIOUS
    <2>2. Ahead(rem, N, j) \subseteq A /\ j \in A /\ j \notin Ahead(rem, N, j)
      BY <1>3, <1>4, AheadOrders
    <2> HIDE DEF C
    <2> QED BY <1>2, <2>1, <2>2
  <1> QED BY <1>4 DEF HasFirst

\* ... and one comes last.
LEMMA LastOf ==
    ASSUME NEW N, N \subseteq Int, IsFiniteSet(N), NEW rem \in [N -> Int],
           NEW T, T \subseteq N, T # {}
    PROVE  \E i \in T : T \ {i} \subseteq Ahead(rem, N, i)
  <1> DEFINE Behind(i) == {j \in N : i \in Ahead(rem, N, j)}
             C == {Behind(i) : i \in T}
  <1>1. C \subseteq SUBSET N /\ C # {}
    <2>1. \A i \in T : Behind(i) \in SUBSET N OBVIOUS
    <2> HIDE DEF Behind
    <2> QED BY <2>1
  <1>2. PICK A \in C : \A B \in C : ~(B \subseteq A /\ B # A)
    <2> HIDE DEF C
    <2>1. SomeSubsets(C, N)
      BY <1>1 DEF SomeSubsets
    <2>2. HasMinimal(C)
      BY <2>1, MinimalOf
    <2> QED BY <2>2 DEF HasMinimal
  <1>3. PICK i \in T : A = Behind(i)
    BY <1>2
  <1>4. ASSUME NEW j \in T \ {i} PROVE j \in Ahead(rem, N, i)
    <2> SUFFICES ASSUME j \notin Ahead(rem, N, i) PROVE FALSE
      OBVIOUS
    <2>1. i \in Ahead(rem, N, j)
      BY <1>4, AheadOrders
    <2>2. Behind(j) \in C OBVIOUS
    <2>3. j \in Behind(i) /\ j \notin Behind(j)
      BY <2>1, AheadOrders
    <2>4. Behind(j) \subseteq Behind(i)
      BY <2>1, AheadOrders
    <2> HIDE DEF C, Behind
    <2> QED BY <1>2, <1>3, <2>2, <2>3, <2>4
  <1> QED BY <1>4

\* As many have fewer than k before them as there may be.
Leading(rem, N, k) == {i \in N : Cardinality(Ahead(rem, N, i)) < k}

LEMMA LeadingCount ==
    ASSUME NEW N, N \subseteq Int, IsFiniteSet(N), NEW rem \in [N -> Int],
           NEW k \in Nat, k <= Cardinality(N)
    PROVE  Cardinality(Leading(rem, N, k)) = k
  <1> DEFINE B == Leading(rem, N, k)
             card == Cardinality(B)
  <1>1. B \subseteq N /\ IsFiniteSet(B) /\ card \in Nat /\ Cardinality(N) \in Nat
    <2>1. B \subseteq N BY DEF Leading
    <2> QED BY <2>1, FS_Subset, FS_CardinalityType
  <1>2. \A i \in N : IsFiniteSet(Ahead(rem, N, i)) /\ Cardinality(Ahead(rem, N, i)) \in Nat
    <2>1. \A i \in N : Ahead(rem, N, i) \subseteq N BY DEF Ahead
    <2> QED BY <2>1, FS_Subset, FS_CardinalityType
  <1>3. ~(card > k)
    <2> SUFFICES ASSUME card > k PROVE FALSE
      OBVIOUS
    <2>1. B # {}
      BY <1>1, FS_EmptySet
    <2>2. PICK i \in B : B \ {i} \subseteq Ahead(rem, N, i)
      <3> HIDE DEF B
      <3> QED BY <1>1, <2>1, LastOf
    <2>3. Cardinality(B \ {i}) = card - 1
      BY <1>1, <2>2, FS_RemoveElement
    <2>4. i \in N /\ Cardinality(Ahead(rem, N, i)) < k
      BY <2>2 DEF Leading
    <2>5. Cardinality(B \ {i}) <= Cardinality(Ahead(rem, N, i))
      BY <1>2, <2>2, <2>4, FS_Subset
    <2> HIDE DEF B
    <2> QED BY <1>1, <1>2, <2>3, <2>4, <2>5
  <1>4. ~(card < k)
    <2> SUFFICES ASSUME card < k PROVE FALSE
      OBVIOUS
    <2>1. N \ B # {}
      <3> SUFFICES ASSUME N \ B = {} PROVE FALSE
        OBVIOUS
      <3>1. B = N BY <1>1
      <3> QED BY <3>1, <1>1
    <2>2. PICK i \in N \ B : (N \ B) \cap Ahead(rem, N, i) = {}
      <3> DEFINE T == N \ B
      <3>1. T \subseteq N /\ T # {}
        BY <2>1
      <3> HIDE DEF B, T
      <3>2. HasFirst(T, rem, N)
        BY <3>1, FirstOf
      <3> QED BY <3>2 DEF T, HasFirst
    <2>3. Ahead(rem, N, i) \subseteq B
      BY <2>2 DEF Ahead
    <2>4. Cardinality(Ahead(rem, N, i)) <= card
      BY <1>1, <2>3, FS_Subset
    <2>5. ~(Cardinality(Ahead(rem, N, i)) < k)
      BY <2>2 DEF Leading
    <2> HIDE DEF B
    <2> QED BY <1>1, <1>2, <2>2, <2>4, <2>5
  <1> HIDE DEF B
  <1> QED BY <1>1, <1>3, <1>4 DEF B

-----------------------------------------------------------------------------
(* allocate.                                                               *)

\* Division leaves a remainder below the divisor.
LEMMA Divides ==
    ASSUME NEW a \in Nat, NEW d \in Nat \ {0}
    PROVE  /\ a \div d \in Nat /\ a % d \in Nat /\ a % d < d
           /\ a = d * (a \div d) + (a % d)
  OBVIOUS

LEMMA Cancels ==
    ASSUME NEW d \in Nat \ {0}, NEW a \in Int, NEW b \in Int, d * a <= d * b
    PROVE  a <= b
  OBVIOUS

LEMMA Keeps ==
    ASSUME NEW d \in Nat \ {0}, NEW a \in Int, d * a \in Nat
    PROVE  a \in Nat
  OBVIOUS

LEMMA Product == ASSUME NEW a \in Nat, NEW b \in Nat PROVE a * b \in Nat
  OBVIOUS

\* What allocateNonNegative computes on its way: shares rounded down, the
\* remainders, and what is left to hand out.
Floors(total, w) == [i \in 1 .. Len(w) |-> (total * w[i]) \div SumSeq(w)]

Rests(total, w) == [i \in 1 .. Len(w) |-> (total * w[i]) % SumSeq(w)]

LeftOver(total, w) == total - SumSeq(Floors(total, w))

LEMMA AllocateIs ==
    ASSUME NEW total, NEW w
    PROVE  allocateNonNegative(total, w) =
             [i \in 1 .. Len(w) |-> Floors(total, w)[i] +
                (IF Cardinality(Ahead(Rests(total, w), 1 .. Len(w), i)) < LeftOver(total, w)
                 THEN 1 ELSE 0)]
  BY DEF allocateNonNegative, Floors, Rests, LeftOver, Ahead

\* Each share is its exact proportion, less a remainder below the total weight.
LEMMA FloorsAndRests ==
    ASSUME NEW n \in Nat, NEW w \in [1 .. n -> Nat], NEW W \in Nat \ {0}, SumSeq(w) = W,
           NEW total \in Nat
    PROVE  /\ Floors(total, w) \in [1 .. n -> Nat] /\ Rests(total, w) \in [1 .. n -> Nat]
           /\ \A i \in 1 .. n : /\ total * w[i] \in Nat /\ Rests(total, w)[i] < W
                                /\ total * w[i] = W * Floors(total, w)[i] + Rests(total, w)[i]
  <1>1. Len(w) = n
    OBVIOUS
  <1>2. ASSUME NEW i \in 1 .. n
        PROVE  /\ Floors(total, w)[i] \in Nat /\ Rests(total, w)[i] \in Nat
               /\ total * w[i] \in Nat /\ Rests(total, w)[i] < W
               /\ total * w[i] = W * Floors(total, w)[i] + Rests(total, w)[i]
    <2>1. PICK a \in Nat : a = total * w[i]
      BY Product
    <2>2. Floors(total, w)[i] = a \div W /\ Rests(total, w)[i] = a % W
      BY <1>1, <2>1 DEF Floors, Rests
    <2>3. /\ a \div W \in Nat /\ a % W \in Nat /\ a % W < W
          /\ a = W * (a \div W) + (a % W)
      BY <2>1, Divides
    <2> QED BY <2>1, <2>2, <2>3, Zenon
  <1> QED BY <1>1, <1>2 DEF Floors, Rests

\* t * w = d * f + r in every place of S.
Parts(S, t, w, tw, d, f, df, r) ==
    /\ IsFiniteSet(S) /\ w \in [S -> Int] /\ f \in [S -> Int] /\ r \in [S -> Int]
    /\ tw \in [S -> Int] /\ df \in [S -> Int] /\ t \in Int /\ d \in Int
    /\ AddsUp(df, r, tw, S) /\ Multiplies(t, w, tw, S) /\ Multiplies(d, f, df, S)

\* The same of the totals.
LEMMA PartsTotal ==
    ASSUME NEW S, NEW t, NEW w, NEW tw, NEW d, NEW f, NEW df, NEW r,
           Parts(S, t, w, tw, d, f, df, r)
    PROVE  /\ Sigma(r) = t * Sigma(w) - d * Sigma(f)
           /\ Sigma(f) \in Int /\ Sigma(r) \in Int
  <1> USE DEF Parts
  <1>1. Sigma(tw) = t * Sigma(w)
    BY SigmaScale
  <1>2. Sigma(df) = d * Sigma(f)
    BY SigmaScale
  <1>3. Sigma(tw) = Sigma(df) + Sigma(r)
    BY SigmaAdd
  <1>4. Sigma(f) \in Int /\ Sigma(r) \in Int /\ Sigma(df) \in Int
    BY SigmaType
  <1> QED BY <1>1, <1>2, <1>3, <1>4

\* The remainders together are what is left over, times the total weight.
LEMMA RestsTotal ==
    ASSUME NEW n \in Nat, NEW w \in [1 .. n -> Nat], NEW W \in Nat \ {0}, SumSeq(w) = W,
           NEW total \in Nat
    PROVE  /\ LeftOver(total, w) \in Int
           /\ Sigma(Rests(total, w)) = W * LeftOver(total, w)
  <1> DEFINE S == 1 .. n
             F == Floors(total, w)
             R == Rests(total, w)
             T == [i \in S |-> total * w[i]]
             G == [i \in S |-> W * F[i]]
  <1>1. IsFiniteSet(S)
    BY FS_Interval
  <1>2. F \in [S -> Int] /\ R \in [S -> Int] /\ w \in [S -> Int]
    <2>1. F \in [S -> Nat] /\ R \in [S -> Nat]
      BY FloorsAndRests
    <2> HIDE DEF F, R
    <2> QED BY <2>1
  <1>3. T \in [S -> Int] /\ G \in [S -> Int] /\ AddsUp(G, R, T, S)
    <2>1. \A i \in S : total * w[i] \in Nat /\ total * w[i] = W * F[i] + R[i]
      BY FloorsAndRests
    <2>2. \A i \in S : W * F[i] \in Int
      <3> HIDE DEF F
      <3> QED BY <1>2
    <2> HIDE DEF F, R
    <2> QED BY <2>1, <2>2 DEF AddsUp
  <1>4. Multiplies(total, w, T, S) /\ Multiplies(W, F, G, S)
    BY DEF Multiplies
  <1>5. SumSeq(F) = Sigma(F) /\ SumSeq(w) = Sigma(w)
    BY <1>2, SumIsSigma
  <1>7. Sigma(R) = total * Sigma(w) - W * Sigma(F) /\ Sigma(F) \in Int /\ Sigma(R) \in Int
    <2>1. Parts(S, total, w, T, W, F, G, R)
      BY <1>1, <1>2, <1>3, <1>4 DEF Parts
    <2> HIDE DEF S, F, R, T, G
    <2> QED BY <2>1, PartsTotal
  <1>9. LeftOver(total, w) = total - Sigma(F)
    BY <1>5 DEF LeftOver, F
  <1>10. \A f \in Int : total * W - W * f = W * (total - f)
    OBVIOUS
  <1>11. Sigma(R) = W * (total - Sigma(F))
    <2> HIDE DEF F, R
    <2> QED BY <1>5, <1>7, <1>10
  <1>12. total - Sigma(F) \in Int
    <2> HIDE DEF F, R
    <2> QED BY <1>7
  <1> QED BY <1>9, <1>11, <1>12

\* Those whose share is not a whole number; and those who get what is left over.
Broken(total, w) == {i \in 1 .. Len(w) : Rests(total, w)[i] > 0}

Lucky(total, w) == Leading(Rests(total, w), 1 .. Len(w), LeftOver(total, w))

\* There is no more left over than there are broken shares.
LEMMA LeftOverFits ==
    ASSUME NEW n \in Nat, NEW w \in [1 .. n -> Nat], NEW W \in Nat \ {0}, SumSeq(w) = W,
           NEW total \in Nat
    PROVE  LeftOver(total, w) \in Nat /\ LeftOver(total, w) <= Cardinality(Broken(total, w))
  <1> DEFINE S == 1 .. n
             R == Rests(total, w)
             L == LeftOver(total, w)
             B == Broken(total, w)
             marks == Mark(S, B)
             wide == [i \in S |-> W * marks[i]]
  <1>1. IsFiniteSet(S) /\ B \subseteq S
    BY FS_Interval DEF Broken
  <1>2. R \in [S -> Nat] /\ \A i \in S : R[i] < W
    BY FloorsAndRests
  <1>3. L \in Int /\ Sigma(R) = W * L
    BY RestsTotal
  <1>4. marks \in [S -> Int] /\ \A i \in S : marks[i] = IF R[i] > 0 THEN 1 ELSE 0
    BY DEF Mark, Broken
  <1>5. wide \in [S -> Int] /\ Multiplies(W, marks, wide, S)
    <2> HIDE DEF marks
    <2> QED BY <1>4 DEF Multiplies
  <1>6. \A i \in S : R[i] <= wide[i]
    <2> HIDE DEF marks, R, B
    <2> TAKE i \in S
    <2>1. CASE R[i] > 0
      BY <2>1, <1>2, <1>4
    <2>2. CASE ~(R[i] > 0)
      BY <2>2, <1>2, <1>4
    <2> QED BY <2>1, <2>2
  <1>7. Sigma(marks) = Cardinality(B)
    <2> HIDE DEF S, B
    <2> QED BY <1>1, SigmaCounts
  <1>8. Sigma(wide) = W * Cardinality(B)
    <2> HIDE DEF wide, marks, S, B
    <2>1. W \in Int OBVIOUS
    <2> QED BY <2>1, <1>1, <1>4, <1>5, <1>7, SigmaScale
  <1>9. Sigma(R) <= Sigma(wide) /\ Sigma(R) \in Nat
    <2> HIDE DEF wide, S, R
    <2>1. R \in [S -> Int] BY <1>2
    <2>2. Sigma(R) <= Sigma(wide)
      BY <2>1, <1>1, <1>5, <1>6, SigmaMono
    <2>3. Sigma(R) \in Nat
      BY <1>1, <1>2, SigmaNat
    <2> QED BY <2>2, <2>3
  <1>10. Cardinality(B) \in Nat
    BY <1>1, FS_Subset, FS_CardinalityType
  <1> HIDE DEF S, R, L, B, marks, wide
  <1>11. W * L \in Nat /\ W * L <= W * Cardinality(B)
    BY <1>3, <1>8, <1>9
  <1>12. L \in Nat
    BY <1>3, <1>11, Keeps
  <1>13. L <= Cardinality(B)
    BY <1>3, <1>10, <1>11, Cancels
  <1> QED BY <1>12, <1>13 DEF L, B

\* A paisa goes to as many as there are left over ...
LEMMA LuckyCount ==
    ASSUME NEW n \in Nat, NEW w \in [1 .. n -> Nat], NEW W \in Nat \ {0}, SumSeq(w) = W,
           NEW total \in Nat
    PROVE  /\ Lucky(total, w) \subseteq 1 .. n
           /\ Cardinality(Lucky(total, w)) = LeftOver(total, w)
  <1> DEFINE N == 1 .. n
             R == Rests(total, w)
             L == LeftOver(total, w)
  <1>1. N \subseteq Int /\ IsFiniteSet(N) /\ Broken(total, w) \subseteq N
    BY FS_Interval DEF Broken
  <1>2. R \in [N -> Int]
    <2>1. R \in [N -> Nat] BY FloorsAndRests
    <2> HIDE DEF R
    <2> QED BY <2>1
  <1>3. Cardinality(Broken(total, w)) <= Cardinality(N) /\ Cardinality(N) \in Nat
        /\ Cardinality(Broken(total, w)) \in Nat
    <2> HIDE DEF N
    <2> QED BY <1>1, FS_Subset, FS_CardinalityType
  <1>4. L \in Nat /\ L <= Cardinality(Broken(total, w))
    BY LeftOverFits
  <1>5. Lucky(total, w) = Leading(R, N, L)
    BY DEF Lucky
  <1>6. Lucky(total, w) \subseteq N
    BY <1>5 DEF Leading
  <1> HIDE DEF N, R, L
  <1>7. L <= Cardinality(N)
    BY <1>3, <1>4
  <1>8. Cardinality(Leading(R, N, L)) = L
    BY <1>1, <1>2, <1>4, <1>7, LeadingCount
  <1> QED BY <1>5, <1>6, <1>8 DEF N, L

\* ... all of them with broken shares, the largest remainders first.
LEMMA LuckyFair ==
    ASSUME NEW n \in Nat, NEW w \in [1 .. n -> Nat], NEW W \in Nat \ {0}, SumSeq(w) = W,
           NEW total \in Nat
    PROVE  /\ \A i \in Lucky(total, w) : Rests(total, w)[i] > 0
           /\ \A i \in Lucky(total, w), j \in 1 .. n :
                 Rests(total, w)[j] > Rests(total, w)[i] => j \in Lucky(total, w)
  <1> DEFINE N == 1 .. n
             R == Rests(total, w)
             L == LeftOver(total, w)
             B == Broken(total, w)
  <1>1. N \subseteq Int /\ IsFiniteSet(N) /\ B \subseteq N
    BY FS_Interval DEF Broken
  <1>2. R \in [N -> Nat]
    BY FloorsAndRests
  <1>3. \A i \in N : i \in B <=> R[i] > 0
    BY DEF Broken
  <1>4. L \in Nat /\ L <= Cardinality(B)
    BY LeftOverFits
  <1>5. \A i : i \in Lucky(total, w) <=> i \in N /\ Cardinality(Ahead(R, N, i)) < L
    BY DEF Lucky, Leading
  <1> HIDE DEF N, R, L, B
  <1>6. \A i \in N : Ahead(R, N, i) \subseteq N
    BY DEF Ahead
  <1>7. \A A \in SUBSET N : IsFiniteSet(A) /\ Cardinality(A) \in Nat
    BY <1>1, FS_Subset, FS_CardinalityType
  <1>8. ASSUME NEW i \in Lucky(total, w), ~(R[i] > 0) PROVE FALSE
    <2>0. i \in N /\ R[i] = 0
      BY <1>2, <1>5, <1>8
    <2>1. ASSUME NEW j \in B PROVE j \in Ahead(R, N, i)
      BY <2>0, <1>1, <1>3 DEF Ahead
    <2>2. /\ IsFiniteSet(Ahead(R, N, i)) /\ Cardinality(Ahead(R, N, i)) \in Nat
          /\ Cardinality(B) \in Nat
      BY <2>0, <1>1, <1>6, <1>7
    <2>3. Cardinality(B) <= Cardinality(Ahead(R, N, i))
      BY <2>1, <2>2, FS_Subset
    <2>4. Cardinality(Ahead(R, N, i)) < L
      BY <1>5, <1>8
    <2> QED BY <2>2, <2>3, <2>4, <1>4
  <1>9. ASSUME NEW i \in Lucky(total, w), NEW j \in N, R[j] > R[i] PROVE j \in Lucky(total, w)
    <2>0. i \in N /\ Cardinality(Ahead(R, N, i)) < L
      BY <1>5, <1>9
    <2>1. ASSUME NEW k \in Ahead(R, N, j) PROVE k \in Ahead(R, N, i)
      <3>1. k \in N /\ R[k] >= R[j] /\ R[k] \in Nat /\ R[j] \in Nat /\ R[i] \in Nat
        BY <2>0, <2>1, <1>2, <1>9 DEF Ahead
      <3>2. R[k] > R[i]
        BY <3>1, <1>9
      <3> QED BY <3>1, <3>2 DEF Ahead
    <2>2. /\ IsFiniteSet(Ahead(R, N, i)) /\ Cardinality(Ahead(R, N, i)) \in Nat
          /\ Cardinality(Ahead(R, N, j)) \in Nat
      BY <2>0, <1>6, <1>7, <1>9
    <2>3. Cardinality(Ahead(R, N, j)) <= Cardinality(Ahead(R, N, i))
      BY <2>1, <2>2, FS_Subset
    <2>4. Cardinality(Ahead(R, N, j)) < L
      BY <2>0, <2>2, <2>3, <1>4
    <2> QED BY <2>4, <1>5, <1>9
  <1> QED BY <1>8, <1>9 DEF N, R

\* Shares of a total that is not negative: floors, and a paisa more for the lucky;
\* they add up to the total.
LEMMA SharesExact ==
    ASSUME NEW n \in Nat, NEW w \in [1 .. n -> Nat], NEW W \in Nat \ {0}, SumSeq(w) = W,
           NEW total \in Nat
    PROVE  /\ allocateNonNegative(total, w) \in [1 .. n -> Nat]
           /\ \A i \in 1 .. n : allocateNonNegative(total, w)[i] =
                 Floors(total, w)[i] + (IF i \in Lucky(total, w) THEN 1 ELSE 0)
           /\ Sigma(allocateNonNegative(total, w)) = total
  <1> DEFINE S == 1 .. n
             F == Floors(total, w)
             M == Mark(S, Lucky(total, w))
             A == allocateNonNegative(total, w)
  <1>1. IsFiniteSet(S) /\ F \in [S -> Nat] /\ Lucky(total, w) \subseteq S
    <2>1. IsFiniteSet(S)
      BY FS_Interval
    <2>2. F \in [S -> Nat]
      BY FloorsAndRests
    <2>3. Lucky(total, w) \subseteq S
      BY LuckyCount
    <2> QED BY <2>1, <2>2, <2>3
  <1>2. M \in [S -> Nat] /\ \A i \in S : M[i] = IF i \in Lucky(total, w) THEN 1 ELSE 0
    BY DEF Mark
  <1>3. A = [i \in S |-> F[i] + M[i]]
    <2>1. Len(w) = n OBVIOUS
    <2> QED BY <2>1, AllocateIs DEF Lucky, Leading, Mark
  <1>4. SumSeq(F) = Sigma(F)
    <2>1. F \in [1 .. n -> Int]
      <3> HIDE DEF F
      <3> QED BY <1>1
    <2> HIDE DEF F
    <2> QED BY <2>1, SumIsSigma
  <1>5. LeftOver(total, w) = total - Sigma(F)
    BY <1>4 DEF LeftOver
  <1>6. Sigma(M) = LeftOver(total, w)
    <2> HIDE DEF S
    <2> QED BY <1>1, SigmaCounts, LuckyCount DEF S
  <1> HIDE DEF S, F, M, A
  <1>7. A \in [S -> Nat] /\ A \in [S -> Int] /\ F \in [S -> Int] /\ M \in [S -> Int]
    BY <1>1, <1>2, <1>3
  <1>8. AddsUp(F, M, A, S)
    BY <1>3 DEF AddsUp
  <1>9. Adds(S, F, M, A)
    BY <1>1, <1>7, <1>8 DEF Adds
  <1>10. Sigma(A) = Sigma(F) + Sigma(M) /\ Sigma(F) \in Int
    BY <1>9, SigmaAdds
  <1>11. Sigma(A) = total
    BY <1>5, <1>6, <1>10
  <1> QED BY <1>2, <1>3, <1>7, <1>11 DEF A, F, S

\* How far a share is above its exact proportion, in paise times W.
Excess(A, w, W, total, i) == A[i] * W - total * w[i]

FairShares(n, A, w, W, total) ==
    /\ \A i \in 1 .. n : /\ Excess(A, w, W, total, i) \in Int
                         /\ Excess(A, w, W, total, i) < W /\ -Excess(A, w, W, total, i) < W
    /\ \A i, j \in 1 .. n :
          Excess(A, w, W, total, i) > 0 /\ Excess(A, w, W, total, j) < 0
             => W - Excess(A, w, W, total, i) >= -Excess(A, w, W, total, j)

\* What AllocateIsFair says, of an amount that is not negative.
LEMMA SharesFair ==
    ASSUME NEW n \in Nat, NEW w \in [1 .. n -> Nat], NEW W \in Nat \ {0}, SumSeq(w) = W,
           NEW total \in Nat
    PROVE  FairShares(n, allocateNonNegative(total, w), w, W, total)
  <1> DEFINE F == Floors(total, w)
             R == Rests(total, w)
             B == Lucky(total, w)
             A == allocateNonNegative(total, w)
             E(i) == Excess(A, w, W, total, i)
  <1>1. \A i \in 1 .. n : A[i] = F[i] + (IF i \in B THEN 1 ELSE 0)
    BY SharesExact
  <1>2. \A i \in 1 .. n : /\ F[i] \in Nat /\ R[i] \in Nat /\ R[i] < W /\ total * w[i] \in Nat
                          /\ total * w[i] = W * F[i] + R[i]
    <2>1. F \in [1 .. n -> Nat] /\ R \in [1 .. n -> Nat]
      BY FloorsAndRests
    <2>2. \A i \in 1 .. n : total * w[i] \in Nat /\ total * w[i] = W * F[i] + R[i]
      BY FloorsAndRests
    <2>3. \A i \in 1 .. n : R[i] < W
      BY FloorsAndRests
    <2> HIDE DEF F, R
    <2> QED BY <2>1, <2>2, <2>3
  <1>3. \A i \in B : R[i] > 0
    BY LuckyFair
  <1>4. \A i \in B, j \in 1 .. n : R[j] > R[i] => j \in B
    BY LuckyFair
  <1>5. ASSUME NEW i \in 1 .. n
        PROVE  E(i) = (IF i \in B THEN W ELSE 0) - R[i]
    <2>1. PICK f \in Nat, r \in Nat : f = F[i] /\ r = R[i] /\ total * w[i] = W * f + r
      BY <1>2
    <2>2. CASE i \in B
      <3>1. A[i] = f + 1
        BY <1>1, <2>1, <2>2
      <3>2. (f + 1) * W - (W * f + r) = W - r
        OBVIOUS
      <3> HIDE DEF F, R, B
      <3> QED BY <2>1, <2>2, <3>1, <3>2 DEF Excess
    <2>3. CASE i \notin B
      <3>1. A[i] = f
        BY <1>1, <2>1, <2>3
      <3>2. f * W - (W * f + r) = 0 - r
        OBVIOUS
      <3> HIDE DEF F, R, B
      <3> QED BY <2>1, <2>3, <3>1, <3>2 DEF Excess
    <2> QED BY <2>2, <2>3
  <1> HIDE DEF F, R, B, E, A
  <1>6. \A i \in 1 .. n : R[i] \in Nat /\ R[i] < W
    BY <1>2
  <1>7. ASSUME NEW i \in 1 .. n PROVE E(i) \in Int /\ E(i) < W /\ -E(i) < W
    <2>1. R[i] \in Nat /\ R[i] < W
      BY <1>6
    <2>2. CASE i \in B
      <3>1. R[i] > 0 /\ E(i) = W - R[i]
        BY <2>2, <1>3, <1>5
      <3> QED BY <2>1, <3>1
    <2>3. CASE i \notin B
      <3>1. E(i) = 0 - R[i]
        BY <2>3, <1>5
      <3> QED BY <2>1, <3>1
    <2> QED BY <2>2, <2>3
  <1>8. ASSUME NEW i \in 1 .. n, NEW j \in 1 .. n, E(i) > 0, E(j) < 0
        PROVE  W - E(i) >= -E(j)
    <2>1. /\ R[i] \in Nat /\ R[i] < W /\ R[j] \in Nat /\ R[j] < W
      BY <1>6
    <2>2. /\ E(i) = (IF i \in B THEN W ELSE 0) - R[i]
          /\ E(j) = (IF j \in B THEN W ELSE 0) - R[j]
      BY <1>5
    <2>3. i \in B
      BY <1>8, <2>1, <2>2
    <2>4. j \notin B
      BY <1>8, <2>1, <2>2
    <2>5. ~(R[j] > R[i])
      BY <1>4, <2>3, <2>4
    <2> QED BY <2>1, <2>2, <2>3, <2>4, <2>5
  <1> QED BY <1>7, <1>8 DEF E, A, FairShares

-----------------------------------------------------------------------------
(* The promises of the arithmetic.                                         *)

CallInv ==
    /\ amount \in Int /\ rate \in Nat
    /\ weights \in Seq(Nat) /\ slabs \in Seq(Slab)

LEMMA GstHalves == CallInv => GstHalvesAgree
  <1> SUFFICES ASSUME CallInv, ~gstThrows(rate) PROVE
        LET intra == gstComponents(amount, rate, TRUE)
            inter == gstComponents(amount, rate, FALSE)
        IN  /\ intra.cgst = intra.sgst
            /\ Abs(taxTotal(intra) - taxTotal(inter)) <= 1
    BY DEF GstHalvesAgree
  <1> DEFINE half == percentOf(amount, rate \div 2)
             whole == percentOf(amount, rate)
  <1>1. PICK h \in Nat : rate \div 2 = h /\ rate = h + h
    BY DEF CallInv, gstThrows
  <1>2. PICK x \in Int : x = amount * h /\ amount * rate = x + x
    <2>1. amount * h \in Int /\ amount * (h + h) = amount * h + amount * h
      BY DEF CallInv
    <2> QED BY <1>1, <2>1
  <1>3. half = roundedDiv(x, 10000) /\ whole = roundedDiv(x + x, 10000)
    BY <1>1, <1>2 DEF percentOf
  <1>4. \A y \in Int : /\ roundedDiv(y, 10000) \in Int
                       /\ Abs(2 * roundedDiv(y, 10000) - roundedDiv(y + y, 10000)) <= 1
    BY DEF roundedDiv, Abs
  <1>5. half \in Int /\ whole \in Int /\ Abs(2 * half - whole) <= 1
    BY <1>2, <1>3, <1>4
  <1>6. gstComponents(amount, rate, TRUE) = [cgst |-> half, sgst |-> half, igst |-> 0]
    BY DEF gstComponents
  <1>7. gstComponents(amount, rate, FALSE) = [cgst |-> 0, sgst |-> 0, igst |-> whole]
    BY DEF gstComponents
  <1> HIDE DEF half, whole
  <1> DEFINE intra == [cgst |-> half, sgst |-> half, igst |-> 0]
             inter == [cgst |-> 0, sgst |-> 0, igst |-> whole]
  <1>8. intra.cgst = intra.sgst /\ taxTotal(intra) - taxTotal(inter) = 2 * half - whole
    BY <1>5 DEF taxTotal
  <1> HIDE DEF intra, inter
  <1>9. intra.cgst = intra.sgst /\ Abs(taxTotal(intra) - taxTotal(inter)) <= 1
    BY <1>5, <1>8
  <1> QED BY <1>6, <1>7, <1>9, Zenon DEF intra, inter

\* Shares of a debt are those of the amount with the sign turned.
LEMMA AllocateFair == CallInv => AllocateIsFair
  <1> SUFFICES ASSUME CallInv, ~allocateThrows(weights) PROVE
        LET shares == allocate(amount, weights)
            W == SumSeq(weights)
            excess(i) == Abs(shares[i]) * W - Abs(amount) * weights[i]
        IN  /\ SumSeq(shares) = amount
            /\ \A i \in DOMAIN weights : excess(i) < W /\ -excess(i) < W
            /\ \A i, j \in DOMAIN weights :
                  excess(i) > 0 /\ excess(j) < 0 => W - excess(i) >= -excess(j)
    BY DEF AllocateIsFair
  <1>1. PICK n \in Nat : weights \in [1 .. n -> Nat] /\ DOMAIN weights = 1 .. n
    BY DEF CallInv
  <1>2. PICK W \in Nat \ {0} : SumSeq(weights) = W
    <2>1. weights \in [1 .. n -> Int]
      BY <1>1
    <2>2. SumSeq(weights) = Sigma(weights) /\ Sigma(weights) \in Int
      BY <2>1, SumIsSigma, SigmaType, FS_Interval
    <2>3. SumSeq(weights) > 0
      BY <2>2 DEF allocateThrows
    <2> QED BY <2>2, <2>3
  <1>3. PICK total \in Nat : total = Abs(amount) /\ (amount = total \/ (amount < 0 /\ amount = -total))
    <2>1. amount \in Int BY DEF CallInv
    <2>2. Abs(amount) \in Nat /\ (amount = Abs(amount) \/ (amount < 0 /\ amount = -Abs(amount)))
      BY <2>1 DEF Abs
    <2> QED BY <2>2
  <1> DEFINE A == allocateNonNegative(total, weights)
             shares == allocate(amount, weights)
  <1>4. A \in [1 .. n -> Nat] /\ Sigma(A) = total
    BY <1>1, <1>2, SharesExact
  <1>5. FairShares(n, A, weights, W, total)
    BY <1>1, <1>2, SharesFair
  <1>6. /\ amount >= 0 => shares = A
        /\ amount < 0 => shares = [i \in 1 .. n |-> -A[i]]
    <2>1. amount \in Int BY DEF CallInv
    <2>2. amount >= 0 => amount = total
      BY <2>1, <1>3
    <2>3. amount < 0 => -amount = total
      BY <2>1, <1>3
    <2>4. DOMAIN A = 1 .. n
      BY <1>4
    <2> QED BY <2>1, <2>2, <2>3, <2>4 DEF allocate
  <1> HIDE DEF A, shares
  <1>7. shares \in [1 .. n -> Int] /\ \A i \in 1 .. n : Abs(shares[i]) = A[i]
    <2>1. CASE amount >= 0
      BY <2>1, <1>4, <1>6 DEF Abs
    <2>2. CASE amount < 0
      BY <2>2, <1>4, <1>6 DEF Abs
    <2>3. amount \in Int BY DEF CallInv
    <2> QED BY <2>1, <2>2, <2>3
  <1>8. SumSeq(shares) = amount
    <2>1. SumSeq(shares) = Sigma(shares)
      BY <1>7, SumIsSigma
    <2>2. CASE amount >= 0
      <3>1. amount = total
        BY <2>2, <1>3
      <3> QED BY <2>1, <2>2, <3>1, <1>4, <1>6
    <2>3. CASE amount < 0
      <3>1. A \in [1 .. n -> Int] /\ IsFiniteSet(1 .. n)
        BY <1>4, FS_Interval
      <3>2. Multiplies(-1, A, shares, 1 .. n)
        BY <2>3, <1>4, <1>6 DEF Multiplies
      <3>3. Sigma(shares) = (-1) * Sigma(A)
        <4> DEFINE S == 1 .. n
        <4>1. /\ A \in [S -> Int] /\ IsFiniteSet(S) /\ shares \in [S -> Int]
              /\ Multiplies(-1, A, shares, S) /\ -1 \in Int
          BY <3>1, <3>2, <1>7
        <4> HIDE DEF S
        <4> QED BY <4>1, SigmaScale
      <3>4. amount = -total
        BY <2>3, <1>3
      <3> QED BY <2>1, <3>3, <3>4, <1>4
    <2>4. amount \in Int BY DEF CallInv
    <2> QED BY <2>2, <2>3, <2>4
  <1>9. \A i \in 1 .. n : Abs(shares[i]) * W - Abs(amount) * weights[i] = Excess(A, weights, W, total, i)
    BY <1>3, <1>7 DEF Excess
  <1> DEFINE excess(i) == Abs(shares[i]) * W - Abs(amount) * weights[i]
  <1>10. \A i \in DOMAIN weights : excess(i) < W /\ -excess(i) < W
    BY <1>1, <1>5, <1>9, Zenon DEF FairShares
  <1>11. \A i, j \in DOMAIN weights :
            excess(i) > 0 /\ excess(j) < 0 => W - excess(i) >= -excess(j)
    BY <1>1, <1>5, <1>9, Zenon DEF FairShares
  <1> QED BY <1>2, <1>8, <1>10, <1>11, Zenon DEF shares

\* Slab by slab the brackets adjoin: the first whose end lies beyond the basis, or
\* that has none, begins where the one before ended, so at the basis or below.
LEMMA SlabsCover == CallInv => ValidSlabsCoverEveryBasis
  <1> SUFFICES ASSUME CallInv, validateSlabContiguity(slabs), amount >= 0
               PROVE  matchCommissionSlab(amount, slabs) # 0
    BY DEF ValidSlabsCoverEveryBasis
  <1> DEFINE n == Len(slabs)
             N == 1 .. n
             beyond(i) == slabs[i].to = Unbounded \/ amount < slabs[i].to
             C == {1 .. i : i \in {k \in N : beyond(k)}}
  <1>1. n \in Nat \ {0} /\ DOMAIN slabs = N /\ amount \in Nat
    BY DEF CallInv, validateSlabContiguity
  <1>2. \A i \in N : slabs[i].from \in Nat /\ slabs[i].to \in Int
    <2> TAKE i \in N
    <2>1. slabs[i] \in Slab
      BY <1>1 DEF CallInv
    <2>2. slabs[i].from \in Bounds /\ slabs[i].to \in Bounds \cup {Unbounded}
      BY <2>1 DEF Slab
    <2>3. Bounds \subseteq Int /\ Bounds \subseteq Nat /\ Unbounded \in Int
      BY MoneyAssumption DEF Unbounded
    <2> QED BY <2>2, <2>3, Zenon
  <1>3. n \in N /\ beyond(n)
    BY <1>1 DEF validateSlabContiguity
  <1>4. C \subseteq SUBSET N /\ C # {} /\ IsFiniteSet(N)
    <2>1. \A k \in N : 1 .. k \in SUBSET N
      BY <1>1
    <2>2. IsFiniteSet(N)
      BY <1>1, FS_Interval
    <2> HIDE DEF N
    <2> QED BY <1>3, <2>1, <2>2
  <1>5. PICK T \in C : \A U \in C : ~(U \subseteq T /\ U # T)
    <2> HIDE DEF C, N
    <2> QED BY <1>4, MinimalOf DEF SomeSubsets, HasMinimal
  <1>6. PICK i \in N : beyond(i) /\ T = 1 .. i
    BY <1>5
  <1>7. ~(i > 1 /\ beyond(i - 1))
    <2> SUFFICES ASSUME i > 1, beyond(i - 1) PROVE FALSE
      OBVIOUS
    <2>1. i - 1 \in N
      BY <1>1, <1>6
    <2>2. 1 .. (i - 1) \in C
      BY <2>1
    <2>3. 1 .. (i - 1) \subseteq 1 .. i /\ 1 .. (i - 1) # 1 .. i
      <3>1. i \in 1 .. i /\ i \notin 1 .. (i - 1)
        BY <1>1, <1>6
      <3> QED BY <3>1, <1>1, <1>6
    <2> HIDE DEF C, N
    <2> QED BY <1>5, <1>6, <2>2, <2>3
  <1>8. amount >= slabs[i].from
    <2>1. CASE i = 1
      BY <2>1, <1>1 DEF validateSlabContiguity
    <2>2. CASE i # 1
      <3>1. i - 1 \in 1 .. n - 1 /\ i > 1 /\ i - 1 + 1 = i /\ i - 1 \in N
        BY <2>2, <1>1, <1>6
      <3>2. slabs[i - 1].to = slabs[i].from
        <4>1. PICK k \in 1 .. n - 1 : k = i - 1 /\ k + 1 = i
          BY <3>1
        <4>2. slabs[k].to = slabs[k + 1].from
          BY <4>1 DEF validateSlabContiguity
        <4> QED BY <4>1, <4>2
      <3>3. ~(amount < slabs[i - 1].to)
        BY <3>1, <1>7
      <3> QED BY <3>1, <3>2, <3>3, <1>1, <1>2
    <2> QED BY <2>1, <2>2
  <1> DEFINE hits == {k \in DOMAIN slabs : Matches(amount, slabs[k])}
  <1>9. i \in hits
    BY <1>1, <1>6, <1>8 DEF Matches
  <1>10. \E k \in hits : \A j \in hits : k <= j
    <2> DEFINE D == {1 .. k : k \in hits}
    <2>1. hits \subseteq N /\ hits # {}
      BY <1>1, <1>9
    <2>2. D \subseteq SUBSET N /\ D # {}
      <3>1. \A k \in N : 1 .. k \in SUBSET N
        BY <1>1
      <3> HIDE DEF hits, N
      <3> QED BY <2>1, <3>1
    <2>3. PICK V \in D : \A U \in D : ~(U \subseteq V /\ U # V)
      <3> HIDE DEF D, N
      <3> QED BY <1>4, <2>2, MinimalOf DEF SomeSubsets, HasMinimal
    <2>4. PICK k \in hits : V = 1 .. k
      BY <2>3
    <2>5. ASSUME NEW j \in hits, j < k PROVE FALSE
      <3>1. 1 .. j \in D OBVIOUS
      <3>2. j \in 1 .. n /\ k \in 1 .. n
        BY <2>1
      <3>3. k \in 1 .. k /\ k \notin 1 .. j /\ 1 .. j \subseteq 1 .. k
        BY <2>5, <3>2, <1>1
      <3> HIDE DEF D
      <3> QED BY <2>3, <2>4, <3>1, <3>3
    <2>6. \A j \in hits : j \in Int /\ k \in Int
      BY <2>1, <1>1
    <2> QED BY <2>5, <2>6
  <1> DEFINE first == CHOOSE k \in hits : \A j \in hits : k <= j
  <1>11. first \in hits
    <2> HIDE DEF hits
    <2> QED BY <1>10, Zenon
  <1>12. matchCommissionSlab(amount, slabs) = first
    BY <1>9 DEF matchCommissionSlab
  <1>13. first \in 1 .. n
    BY <1>1, <1>11
  <1> QED
    <2> HIDE DEF first, n
    <2> QED BY <1>1, <1>12, <1>13

\* The halves of a tax agree, allocate hands out every paisa and to each its
\* proportion, and the slabs of a valid rule cover every basis: for every amount,
\* rate, list of weights and list of slabs (money.ts, commission.ts).
THEOREM ArithmeticIsExactHolds == CallSpec => []ArithmeticIsExact
  <1>1. CallInit => CallInv
    <2> SUFFICES ASSUME CallInit PROVE CallInv
      OBVIOUS
    <2>1. amount \in Int /\ rate \in Nat
      BY MoneyAssumption DEF CallInit
    <2>2. weights \in Seq(Nat) /\ slabs \in Seq(Slab)
      BY DEF CallInit
    <2> QED BY <2>1, <2>2 DEF CallInv
  <1>2. CallInv /\ [CallNext]_callVars => CallInv'
    <2> SUFFICES ASSUME CallInv, [CallNext]_callVars PROVE CallInv'
      OBVIOUS
    <2>1. ASSUME NEW w \in 0 .. MaxWeight, AddWeight(w) PROVE CallInv'
      BY <2>1, MoneyAssumption DEF CallInv, AddWeight
    <2>2. ASSUME NEW s \in Slab, AddSlab(s) PROVE CallInv'
      BY <2>2 DEF CallInv, AddSlab
    <2>3. CASE UNCHANGED callVars
      BY <2>3 DEF CallInv, callVars
    <2> QED BY <2>1, <2>2, <2>3 DEF CallNext
  <1>3. CallInv => ArithmeticIsExact
    BY GstHalves, AllocateFair, SlabsCover DEF ArithmeticIsExact
  <1> QED
    BY <1>1, <1>2, <1>3, PTL DEF CallSpec
-----------------------------------------------------------------------------
(* Entries of a commission ledger.                                         *)

\* The entry types are finitely many, so a row of the ledger has a total.
LEMMA TypesFinite == IsFiniteSet(EntryType)
  <1>1. IsFiniteSet({"ACCRUAL"})
    BY FS_Singleton
  <1>2. IsFiniteSet({"ACCRUAL"} \cup {"PAYMENT"})
    BY <1>1, FS_AddElement
  <1>3. IsFiniteSet(({"ACCRUAL"} \cup {"PAYMENT"}) \cup {"TDS_WITHHELD"})
    BY <1>2, FS_AddElement
  <1>4. IsFiniteSet((({"ACCRUAL"} \cup {"PAYMENT"}) \cup {"TDS_WITHHELD"})
                       \cup {"CLAWBACK_REVERSAL"})
    BY <1>3, FS_AddElement
  <1>5. IsFiniteSet(((({"ACCRUAL"} \cup {"PAYMENT"}) \cup {"TDS_WITHHELD"})
                       \cup {"CLAWBACK_REVERSAL"}) \cup {"CLAWBACK_RECOVERY"})
    BY <1>4, FS_AddElement
  <1>6. EntryType = ((({"ACCRUAL"} \cup {"PAYMENT"}) \cup {"TDS_WITHHELD"})
                       \cup {"CLAWBACK_REVERSAL"}) \cup {"CLAWBACK_RECOVERY"}
    BY DEF EntryType
  <1> QED BY <1>5, <1>6, Zenon

\* A row of a booking's ledger, and two rows that differ in two entries at most.
Row == [EntryType -> Int]

LEMMA RowsDiffer ==
    ASSUME NEW r \in Row, NEW q \in Row, NEW x \in EntryType, NEW y \in EntryType, x # y,
           \A z \in EntryType \ {x, y} : q[z] = r[z]
    PROVE  Sigma(q) = Sigma(r) + (q[x] - r[x]) + (q[y] - r[y])
  <1> DEFINE e == [r EXCEPT ![x] = q[x]]
  <1>1. e \in Row /\ e[x] = q[x] /\ e[y] = r[y] /\ \A z \in EntryType \ {x} : e[z] = r[z]
    BY DEF Row
  <1>2. \A z \in EntryType \ {y} : q[z] = e[z]
    BY <1>1
  <1>3. r[x] \in Int /\ r[y] \in Int /\ q[x] \in Int /\ q[y] \in Int
    BY DEF Row
  <1> HIDE DEF e
  <1>4. Sigma(e) = Sigma(r) + e[x] - r[x]
    BY <1>1, TypesFinite, SigmaChange DEF Row
  <1>5. Sigma(q) = Sigma(e) + q[y] - e[y]
    BY <1>1, <1>2, TypesFinite, SigmaChange DEF Row
  <1>6. Sigma(r) \in Int
    BY TypesFinite, SigmaType DEF Row
  <1> QED BY <1>1, <1>3, <1>4, <1>5, <1>6

\* What posting an entry does.
LEMMA PostIs ==
    ASSUME NEW l \in [Bookings -> Row], NEW b \in Bookings, NEW e,
           \A ty \in EntryType : ty \in DOMAIN e => e[ty] \in Int
    PROVE  /\ Post(l, b, e) \in [Bookings -> Row]
           /\ \A c \in Bookings \ {b} : Post(l, b, e)[c] = l[c]
           /\ \A ty \in EntryType :
                 Post(l, b, e)[b][ty] = l[b][ty] + (IF ty \in DOMAIN e THEN e[ty] ELSE 0)
  <1> DEFINE r == l[b]
             q == [ty \in EntryType |-> r[ty] + (IF ty \in DOMAIN e THEN e[ty] ELSE 0)]
  <1>1. r \in Row
    OBVIOUS
  <1>2. Post(l, b, e) = [l EXCEPT ![b] = q]
    BY DEF Post
  <1>3. ASSUME NEW ty \in EntryType
        PROVE  r[ty] + (IF ty \in DOMAIN e THEN e[ty] ELSE 0) \in Int
    <2> HIDE DEF r
    <2>1. CASE ty \in DOMAIN e
      BY <1>1, <2>1 DEF Row
    <2>2. CASE ty \notin DOMAIN e
      BY <1>1, <2>2 DEF Row
    <2> QED BY <2>1, <2>2
  <1>4. q \in Row
    BY <1>3 DEF Row
  <1>5. \A ty \in EntryType : q[ty] = r[ty] + (IF ty \in DOMAIN e THEN e[ty] ELSE 0)
    OBVIOUS
  <1> HIDE DEF q
  <1> QED BY <1>2, <1>4, <1>5

\* What left the company on a booking: the cash and the tax withheld.
Disbursed(row) == -row["PAYMENT"] - row["TDS_WITHHELD"]

\* An accrual adds to the balance and to nothing else.
LEMMA PostAccrual ==
    ASSUME NEW l \in [Bookings -> Row], NEW b \in Bookings, NEW n \in Int, NEW q,
           q = Post(l, b, [ACCRUAL |-> n])[b]
    PROVE  /\ q \in Row
           /\ Sigma(q) = Sigma(l[b]) + n
           /\ Disbursed(q) = Disbursed(l[b])
           /\ q["ACCRUAL"] = l[b]["ACCRUAL"] + n
  <1> DEFINE e == [ACCRUAL |-> n]
  <1>1. DOMAIN e = {"ACCRUAL"} /\ e["ACCRUAL"] = n
    OBVIOUS
  <1>2. \A ty \in EntryType : ty \in DOMAIN e => e[ty] \in Int
    BY <1>1
  <1> HIDE DEF e
  <1>3. q = Post(l, b, e)[b]
    BY DEF e
  <1>4. /\ q \in Row
        /\ \A ty \in EntryType : q[ty] = l[b][ty] + (IF ty \in DOMAIN e THEN e[ty] ELSE 0)
    BY <1>2, <1>3, PostIs
  <1>5. l[b] \in Row /\ l[b]["ACCRUAL"] \in Int /\ Sigma(l[b]) \in Int
    BY TypesFinite, SigmaType DEF Row, EntryType
  <1>6. /\ q["ACCRUAL"] = l[b]["ACCRUAL"] + n
        /\ \A ty \in EntryType \ {"ACCRUAL"} : q[ty] = l[b][ty]
    BY <1>1, <1>4, <1>5 DEF EntryType, Row
  <1>7. Sigma(q) = Sigma(l[b]) + (q["ACCRUAL"] - l[b]["ACCRUAL"]) + (q["PAYMENT"] - l[b]["PAYMENT"])
    BY <1>4, <1>5, <1>6, RowsDiffer DEF EntryType
  <1>8. q["PAYMENT"] = l[b]["PAYMENT"] /\ q["TDS_WITHHELD"] = l[b]["TDS_WITHHELD"]
        /\ l[b]["PAYMENT"] \in Int
    BY <1>5, <1>6 DEF EntryType, Row
  <1> QED BY <1>4, <1>5, <1>6, <1>7, <1>8 DEF Disbursed

\* A payment takes its gross from the balance, whatever part of it is withheld.
LEMMA PostPay ==
    ASSUME NEW l \in [Bookings -> Row], NEW b \in Bookings, NEW g \in Int, NEW tds \in Int, NEW q,
           q = Post(l, b, PayEntries(g, tds))[b]
    PROVE  /\ q \in Row
           /\ Sigma(q) = Sigma(l[b]) - g
           /\ Disbursed(q) = Disbursed(l[b]) + g
           /\ q["ACCRUAL"] = l[b]["ACCRUAL"]
           /\ q["PAYMENT"] = l[b]["PAYMENT"] + (tds - g)
  <1> DEFINE e == PayEntries(g, tds)
  <1>1. DOMAIN e = {"PAYMENT", "TDS_WITHHELD"} /\ e["PAYMENT"] = tds - g /\ e["TDS_WITHHELD"] = -tds
    BY DEF PayEntries
  <1>2. \A ty \in EntryType : ty \in DOMAIN e => e[ty] \in Int
    BY <1>1
  <1> HIDE DEF e
  <1>3. q = Post(l, b, e)[b]
    BY DEF e
  <1>4. /\ q \in Row
        /\ \A ty \in EntryType : q[ty] = l[b][ty] + (IF ty \in DOMAIN e THEN e[ty] ELSE 0)
    BY <1>2, <1>3, PostIs
  <1>5. /\ l[b] \in Row /\ l[b]["PAYMENT"] \in Int /\ l[b]["TDS_WITHHELD"] \in Int
        /\ Sigma(l[b]) \in Int
    BY TypesFinite, SigmaType DEF Row, EntryType
  <1>6. /\ q["PAYMENT"] = l[b]["PAYMENT"] + (tds - g)
        /\ q["TDS_WITHHELD"] = l[b]["TDS_WITHHELD"] + (-tds)
        /\ \A ty \in EntryType \ {"PAYMENT", "TDS_WITHHELD"} : q[ty] = l[b][ty]
    BY <1>1, <1>4, <1>5 DEF EntryType, Row
  <1>7. Sigma(q) = Sigma(l[b]) + (q["PAYMENT"] - l[b]["PAYMENT"])
                               + (q["TDS_WITHHELD"] - l[b]["TDS_WITHHELD"])
    BY <1>4, <1>5, <1>6, RowsDiffer DEF EntryType
  <1>8. q["ACCRUAL"] = l[b]["ACCRUAL"]
    BY <1>6 DEF EntryType
  <1> QED BY <1>4, <1>5, <1>6, <1>7, <1>8 DEF Disbursed

\* A clawback adds its two entries to the balance; what was paid stays.
LEMMA PostClawback ==
    ASSUME NEW l \in [Bookings -> Row], NEW b \in Bookings, NEW x \in Int, NEW y \in Int, NEW q,
           q = Post(l, b, [CLAWBACK_REVERSAL |-> x, CLAWBACK_RECOVERY |-> y])[b]
    PROVE  /\ q \in Row
           /\ Sigma(q) = Sigma(l[b]) + x + y
           /\ Disbursed(q) = Disbursed(l[b])
           /\ q["ACCRUAL"] = l[b]["ACCRUAL"]
           /\ q["PAYMENT"] = l[b]["PAYMENT"]
  <1> DEFINE e == [CLAWBACK_REVERSAL |-> x, CLAWBACK_RECOVERY |-> y]
  <1>1. /\ DOMAIN e = {"CLAWBACK_REVERSAL", "CLAWBACK_RECOVERY"}
        /\ e["CLAWBACK_REVERSAL"] = x /\ e["CLAWBACK_RECOVERY"] = y
    OBVIOUS
  <1>2. \A ty \in EntryType : ty \in DOMAIN e => e[ty] \in Int
    BY <1>1
  <1> HIDE DEF e
  <1>3. q = Post(l, b, e)[b]
    BY DEF e
  <1>4. /\ q \in Row
        /\ \A ty \in EntryType : q[ty] = l[b][ty] + (IF ty \in DOMAIN e THEN e[ty] ELSE 0)
    BY <1>2, <1>3, PostIs
  <1>5. /\ l[b] \in Row /\ l[b]["CLAWBACK_REVERSAL"] \in Int /\ l[b]["CLAWBACK_RECOVERY"] \in Int
        /\ Sigma(l[b]) \in Int
    BY TypesFinite, SigmaType DEF Row, EntryType
  <1>6. /\ q["CLAWBACK_REVERSAL"] = l[b]["CLAWBACK_REVERSAL"] + x
        /\ q["CLAWBACK_RECOVERY"] = l[b]["CLAWBACK_RECOVERY"] + y
        /\ \A ty \in EntryType \ {"CLAWBACK_REVERSAL", "CLAWBACK_RECOVERY"} : q[ty] = l[b][ty]
    BY <1>1, <1>4, <1>5 DEF EntryType, Row
  <1>7. Sigma(q) = Sigma(l[b]) + (q["CLAWBACK_REVERSAL"] - l[b]["CLAWBACK_REVERSAL"])
                               + (q["CLAWBACK_RECOVERY"] - l[b]["CLAWBACK_RECOVERY"])
    BY <1>4, <1>5, <1>6, RowsDiffer DEF EntryType
  <1>8. /\ q["ACCRUAL"] = l[b]["ACCRUAL"] /\ q["PAYMENT"] = l[b]["PAYMENT"]
        /\ q["TDS_WITHHELD"] = l[b]["TDS_WITHHELD"]
    BY <1>6 DEF EntryType
  <1> QED BY <1>4, <1>5, <1>6, <1>7, <1>8 DEF Disbursed
-----------------------------------------------------------------------------
(* Shares of a milestone list and takes of a payment.                      *)

\* The weights a rule's milestones have.
Margins(list) == [k \in DOMAIN list |-> list[k] - (IF k = 1 THEN 0 ELSE list[k - 1])]

\* They are positive, because the milestones ascend.
LEMMA MarginsAscend ==
    ASSUME NEW list \in MilestoneLists, list # <<>>
    PROVE  /\ DOMAIN list = 1 .. Len(list) /\ Len(list) \in Nat \ {0}
           /\ Margins(list) \in [1 .. Len(list) -> Nat]
           /\ SumSeq(Margins(list)) \in Nat \ {0}
  <1> DEFINE n == Len(list)
             w == Margins(list)
  <1>1. /\ list \in Seq(1 .. 100)
        /\ \A i \in 2 .. Len(list) : list[i - 1] < list[i]
    BY CommissionAssumption
  <1>2. n \in Nat /\ DOMAIN list = 1 .. n /\ \A i \in 1 .. n : list[i] \in Nat \ {0}
    <2> DEFINE P == 1 .. 100
    <2>1. list \in Seq(P) /\ P \subseteq Nat \ {0}
      BY <1>1
    <2> HIDE DEF P
    <2>2. Len(list) \in Nat /\ DOMAIN list = 1 .. Len(list) /\ \A i \in 1 .. Len(list) : list[i] \in P
      BY <2>1
    <2> QED BY <2>1, <2>2
  <1>a. n # 0
    BY <1>1
  <1>b. \A i \in 1 .. n : w[i] = list[i] - (IF i = 1 THEN 0 ELSE list[i - 1])
    BY <1>2 DEF Margins
  <1> HIDE DEF w
  <1>3. ASSUME NEW i \in 1 .. n
        PROVE  w[i] \in Nat \ {0}
    <2>1. list[i] \in Nat \ {0}
      BY <1>2
    <2>2. CASE i = 1
      <3>1. w[i] = list[i] - 0
        BY <1>b, <2>2
      <3> QED BY <2>1, <3>1
    <2>3. CASE i # 1
      <3>1. i - 1 \in 1 .. n /\ i \in 2 .. n
        BY <1>2, <2>3
      <3>2. list[i - 1] \in Nat \ {0} /\ list[i - 1] < list[i]
        BY <1>1, <1>2, <3>1
      <3>3. w[i] = list[i] - list[i - 1]
        BY <1>b, <2>3
      <3> QED BY <2>1, <3>2, <3>3
    <2> QED BY <2>2, <2>3
  <1>4. w \in [1 .. n -> Nat]
    BY <1>2, <1>3 DEF Margins, w
  <1> HIDE DEF n
  <1>5. w \in [1 .. n -> Int] /\ IsFiniteSet(1 .. n) /\ 1 \in 1 .. n
    BY <1>2, <1>a, <1>4, FS_Interval
  <1>6. SumSeq(w) = Sigma(w)
    BY <1>2, <1>5, SumIsSigma
  <1>7. Sigma(w) \in Nat /\ w[1] <= Sigma(w)
    BY <1>4, <1>5, SigmaNat, SigmaMember
  <1>8. w[1] \in Nat \ {0}
    BY <1>3, <1>5
  <1>9. SumSeq(w) \in Nat \ {0}
    BY <1>6, <1>7, <1>8
  <1> QED BY <1>2, <1>a, <1>4, <1>9 DEF n, w

\* The shares of a milestone list partition the total.
Shares(list, total) == [i \in DOMAIN list |-> Share(list, i, total)]

\* So they are, as allocate loses nothing.
LEMMA SharesPartition ==
    ASSUME NEW list \in MilestoneLists, list # <<>>, NEW total \in Nat
    PROVE  /\ Shares(list, total) \in [DOMAIN list -> Nat]
           /\ Sigma(Shares(list, total)) = total
  <1> DEFINE n == Len(list)
             w == Margins(list)
             A == allocateNonNegative(total, w)
  <1>1. DOMAIN list = 1 .. n /\ n \in Nat /\ w \in [1 .. n -> Nat] /\ SumSeq(w) \in Nat \ {0}
    BY MarginsAscend
  <1>2. A \in [1 .. n -> Nat] /\ Sigma(A) = total
    <2> HIDE DEF w, n
    <2> QED BY <1>1, SharesExact
  <1>3. \A i \in DOMAIN list : Share(list, i, total) = A[i]
    BY DEF Share, allocate, Margins
  <1>4. Shares(list, total) = A
    <2> HIDE DEF A, n, w
    <2> QED BY <1>1, <1>2, <1>3 DEF Shares
  <1> HIDE DEF A, n, w
  <1> QED BY <1>1, <1>2, <1>4

\* A percentage of an amount is not negative.
LEMMA PercentNat ==
    ASSUME NEW a \in Nat, NEW r \in Nat
    PROVE  percentOf(a, r) \in Nat
  <1>1. a * r \in Nat
    BY Product
  <1> DEFINE p == a * r
  <1> HIDE DEF p
  <1>2. p \in Nat
    BY <1>1 DEF p
  <1>3. roundedDiv(p, 10000) \in Nat
    BY <1>2 DEF roundedDiv
  <1> QED BY <1>3 DEF percentOf, p

\* The balance is the total of the row, before and after a step.
LEMMA BalanceIs ==
    ASSUME NEW b
    PROVE  Balance(b) = Sigma(ledger[b]) /\ Balance(b)' = Sigma(ledger'[b])
  <1>1. Balance(b) = Sigma(ledger[b])
    BY DEF Balance, Sigma
  <1>2. Balance(b)' = Sigma(ledger'[b])
    BY DEF Balance, Sigma, FoldFunction, FoldFunctionOnSet, MapThenFoldSet
  <1> QED BY <1>1, <1>2

\* It is an integer.
LEMMA BalanceInt ==
    ASSUME ledger \in [Bookings -> Row], NEW b \in Bookings
    PROVE  Balance(b) = Sigma(ledger[b]) /\ Balance(b) \in Int
  <1> QED BY BalanceIs, TypesFinite, SigmaType DEF Row

\* A payment takes from a booking nothing, or no more than it is owed; what it takes
\* from one that was cancelled meanwhile is not looked at.
Covered(gross, from) ==
    \A k \in DOMAIN from :
        gross[k] = 0 \/ cancelled[from[k]] \/ gross[k] <= Balance(from[k])

\* The takes of a payment are covered by the balances they are taken from.
LEMMA TakesFit ==
    ASSUME ledger \in [Bookings -> Row], seen \in Seq(Bookings), NEW n \in Nat
    PROVE  /\ GrossTakes(n) \in [DOMAIN seen -> Nat]
           /\ Covered(GrossTakes(n), seen)
  <1>1. \A k \in DOMAIN seen : Owed(k) \in Nat /\ (Owed(k) = 0 \/ Owed(k) = Balance(seen[k]))
    <2> SUFFICES ASSUME NEW k \in DOMAIN seen
                 PROVE  Owed(k) \in Nat /\ (Owed(k) = 0 \/ Owed(k) = Balance(seen[k]))
      OBVIOUS
    <2>1. seen[k] \in Bookings
      OBVIOUS
    <2>2. Balance(seen[k]) \in Int
      BY <2>1, BalanceInt
    <2> QED BY <2>2 DEF Owed
  <1>2. ASSUME NEW k \in DOMAIN seen
        PROVE  /\ GrossTakes(n)[k] \in Nat
               /\ GrossTakes(n)[k] = 0 \/ GrossTakes(n)[k] <= Balance(seen[k])
    <2> DEFINE f == [j \in 1 .. k - 1 |-> Owed(j)]
               before == SumSeq(f)
    <2>a. DOMAIN seen = 1 .. Len(seen) /\ Len(seen) \in Nat
      OBVIOUS
    <2>b. k - 1 \in Nat /\ 1 .. k - 1 \subseteq DOMAIN seen
      BY <2>a
    <2>c. IsFiniteSet(1 .. k - 1)
      BY <2>b, FS_Interval
    <2>1. k - 1 \in Nat /\ 1 .. k - 1 \subseteq DOMAIN seen /\ IsFiniteSet(1 .. k - 1)
      BY <2>b, <2>c
    <2>2. f \in [1 .. k - 1 -> Nat] /\ f \in [1 .. k - 1 -> Int]
      BY <1>1, <2>1
    <2> HIDE DEF f
    <2>3. before \in Nat
      BY <2>1, <2>2, SumIsSigma, SigmaNat
    <2>4. GrossTakes(n)[k] = IF before >= n THEN 0 ELSE Least(Owed(k), n - before)
      BY DEF GrossTakes, f
    <2> HIDE DEF before
    <2>5. Owed(k) \in Nat /\ (Owed(k) = 0 \/ Owed(k) = Balance(seen[k]))
      BY <1>1
    <2>6. CASE before >= n
      BY <2>4, <2>6
    <2>7. CASE ~(before >= n)
      <3>1. n - before \in Nat
        BY <2>3, <2>7
      <3>2. GrossTakes(n)[k] = IF Owed(k) < n - before THEN Owed(k) ELSE n - before
        BY <2>4, <2>7 DEF Least
      <3>3. GrossTakes(n)[k] \in Nat /\ GrossTakes(n)[k] <= Owed(k)
        BY <2>5, <3>1, <3>2
      <3> QED BY <2>5, <3>3
    <2> QED BY <2>6, <2>7
  <1>3. DOMAIN GrossTakes(n) = DOMAIN seen /\ GrossTakes(n) = [k \in DOMAIN seen |-> GrossTakes(n)[k]]
    BY DEF GrossTakes
  <1>4. GrossTakes(n) \in [DOMAIN seen -> Nat]
    BY <1>2, <1>3
  <1> QED BY <1>2, <1>4 DEF Covered


\* The TDS is shared out over the bookings a payment takes from, and no others.
LEMMA TdsShared ==
    ASSUME NEW m \in Nat, NEW gross \in [1 .. m -> Nat], NEW total \in Nat \ {0},
           SumSeq(gross) = total, NEW a \in Nat
    PROVE  /\ allocate(a, gross) \in [1 .. m -> Nat]
           /\ \A k \in 1 .. m : gross[k] = 0 => allocate(a, gross)[k] = 0
  <1> DEFINE A == allocateNonNegative(a, gross)
  <1>1. allocate(a, gross) = A
    BY DEF allocate
  <1>2. A \in [1 .. m -> Nat]
    BY SharesExact
  <1>3. FairShares(m, A, gross, total, a)
    BY SharesFair
  <1> HIDE DEF A
  <1>4. ASSUME NEW k \in 1 .. m, gross[k] = 0 PROVE A[k] = 0
    <2>1. A[k] * total - a * 0 < total
      BY <1>3, <1>4 DEF FairShares, Excess
    <2>2. PICK n \in Nat : n = A[k]
      BY <1>2
    <2>3. CASE n # 0
      <3>1. PICK j \in Nat : n = j + 1
        BY <2>3
      <3>2. j * total \in Nat /\ (j + 1) * total = j * total + total
        BY Product
      <3> QED BY <2>1, <2>2, <3>1, <3>2
    <2> QED BY <2>2, <2>3
  <1> QED BY <1>1, <1>2, <1>4
-----------------------------------------------------------------------------
(* What every state of Commission satisfies, whatever overlaps.            *)

Steps == {"idle", "check", "insert", "decide", "pay", "cancel", "clawback"}

CommissionType ==
    /\ milestones \in MilestoneLists
    /\ collected \in [Bookings -> Int]
    /\ cancelled \in [Bookings -> BOOLEAN]
    /\ snapshot \in [Bookings -> {NULL, Total}]
    /\ ledger \in [Bookings -> Row]
    /\ accrued \in [Bookings -> [Percents -> Nat]]
    /\ seen \in Seq(Bookings)
    /\ payment \in [Payments -> PaymentRow \cup {NULL}]
    /\ pc \in [Txs -> Steps]
    /\ args = [t \in Txs |-> args[t]]

\* No booking is seen twice.
Once(s) == \A j, k \in DOMAIN s : s[j] = s[k] => j = k

\* What a handler carries from its read to its commit has this shape.
Accrues(a) ==
    a \in [booking : Bookings, collected : Int, todo : Seq([m : Percents, share : Nat])]

Decides(a) ==
    /\ a.payment \in Payments /\ payment[a.payment] # NULL
    /\ a.status \in {"APPROVED", "REJECTED"}

Pays(a) ==
    /\ a.payment \in Payments /\ payment[a.payment] # NULL
    /\ a.from \in Seq(Bookings) /\ Once(a.from)
    /\ a.gross \in [DOMAIN a.from -> Nat] /\ a.tds \in [DOMAIN a.from -> Nat]
    /\ \A k \in DOMAIN a.from : a.gross[k] = 0 => a.tds[k] = 0
    /\ Sigma(a.gross) = payment[a.payment].amount

Clawbacks(x, y) == [CLAWBACK_REVERSAL |-> x, CLAWBACK_RECOVERY |-> y]

Settles(a) == a.booking \in Bookings /\ \E x, y \in Int : a.entries = Clawbacks(x, y)

Fits(t) ==
    /\ pc[t] \in {"check", "insert"} => Accrues(args[t])
    /\ pc[t] = "insert" => args[t].todo # <<>>
    /\ pc[t] = "decide" => Decides(args[t])
    /\ pc[t] = "pay" => Pays(args[t])
    /\ pc[t] = "cancel" => args[t].booking \in Bookings
    /\ pc[t] = "clawback" => Settles(args[t])

\* The row of a booking is held by the one request that cancels it.
HoldsRow(t) == pc[t] \in {"cancel", "clawback"}

RowsHeld ==
    \A s, t \in Txs : HoldsRow(s) /\ HoldsRow(t) /\ args[s].booking = args[t].booking => s = t

CommissionInv == CommissionType /\ Once(seen) /\ (\A t \in Txs : Fits(t)) /\ RowsHeld

\* Cash and tax on the one side, PAID payments on the other.
PaidFor(p) == IF payment[p] # NULL /\ payment[p].status = "PAID" THEN payment[p].amount ELSE 0

PaidTotal == Sigma([p \in Payments |-> PaidFor(p)])
DisbursedTotal == Sigma([b \in Bookings |-> Disbursed(ledger[b])])

-----------------------------------------------------------------------------
(* The kinds of steps.                                                     *)

\* A handler that reads, and writes nothing but a snapshot.
Reads(t) ==
    \/ \E b \in Bookings : accrueForBooking(t, b)
    \/ AccrueCheck(t)
    \/ \E p \in Payments : pay(t, p)
    \/ \E p \in Payments, s \in {"APPROVED", "REJECTED"} : decidePayment(t, p, s)
    \/ \E b \in Bookings : cancelBooking(t, b)
    \/ Clawback(t)

\* A handler that commits.
Commits(t) == AccrueInsert(t) \/ CommitDecision(t) \/ CommitPay(t) \/ CommitCancel(t)

\* No handler: rules, brokers, collection, requests and NOCs.
Others ==
    \/ UNCHANGED vars
    \/ \E list \in MilestoneLists : updateRule(list)
    \/ \E active \in BOOLEAN : setBrokerActive(active)
    \/ \E b \in Bookings, n \in {0, 50, 100} : collect(b, n)
    \/ \E p \in Payments, n \in Amounts : requestPayment(p, n)
    \/ \E n \in Nocs, b \in Bookings : requestNoc(n, b)
    \/ \E n \in Nocs, s \in {"APPROVED", "REJECTED"} : decideNoc(n, s)

LEMMA NextIs ==
    ASSUME [Next]_vars PROVE Others \/ \E t \in Txs : Reads(t) \/ Commits(t)
  BY Zenon DEF Next, Others, Reads, Commits

\* Only handler t moved.
Unmoved(s) == pc'[s] = pc[s] /\ args'[s] = args[s]

Moved(t) ==
    /\ pc' \in [Txs -> Steps] /\ args' = [s \in Txs |-> args'[s]]
    /\ \A s \in Txs \ {t} : Unmoved(s)

\* Payments stay as they were, but for new ones, and the books and bookings too.
PaymentsStand ==
    /\ \A p \in Payments : payment[p] # NULL => payment'[p] = payment[p]
    /\ PaidTotal' = PaidTotal

Quiet == UNCHANGED <<config, cancelled, books>> /\ PaymentsStand


\* Types of what is disbursed, of a payment and of what was paid for.
LEMMA DisbursedInt ==
    ASSUME NEW r \in Row PROVE Disbursed(r) \in Int
  BY DEF Row, EntryType, Disbursed

LEMMA PaymentIs ==
    ASSUME CommissionType, NEW p \in Payments, payment[p] # NULL
    PROVE  /\ payment[p] \in PaymentRow
           /\ payment[p].amount \in Nat \ {0}
           /\ payment[p].status \in {"REQUESTED", "APPROVED", "REJECTED", "PAID"}
  BY CommissionAssumption DEF CommissionType, PaymentRow

LEMMA PaidForNat ==
    ASSUME CommissionType, NEW p \in Payments PROVE PaidFor(p) \in Nat
  <1>1. CASE payment[p] = NULL
    BY <1>1 DEF PaidFor
  <1>2. CASE payment[p] # NULL
    BY <1>2, PaymentIs DEF PaidFor
  <1> QED BY <1>1, <1>2

PaidMatches == DisbursedTotal = PaidTotal

\* The invariant is what the run checks.
LEMMA PaidMatchesLedger ==
    CommissionType /\ PaidMatches => LedgerMatchesPayments
  <1> SUFFICES ASSUME CommissionType, PaidMatches PROVE LedgerMatchesPayments
    OBVIOUS
  <1> DEFINE T == {q \in Payments : payment[q] # NULL /\ payment[q].status = "PAID"}
             f == [p \in Payments |-> PaidFor(p)]
             g == [p \in T |-> payment[p].amount]
             d == [b \in Bookings |-> -ledger[b]["PAYMENT"] - ledger[b]["TDS_WITHHELD"]]
  <1>1. f \in [Payments -> Int] /\ \A p \in Payments : f[p] = PaidFor(p)
    BY PaidForNat
  <1>2. \A p \in T : g[p] = payment[p].amount /\ g[p] = PaidFor(p)
    BY DEF PaidFor
  <1>3. g \in [T -> Int]
    <2>1. \A p \in T : g[p] \in Int
      <3> HIDE DEF g
      <3> QED BY <1>2, PaidForNat
    <2>2. g = [p \in T |-> g[p]]
      OBVIOUS
    <2> HIDE DEF g, T
    <2> QED BY <2>1, <2>2
  <1>4. \A p \in Payments \ T : f[p] = 0
    BY DEF PaidFor
  <1>5. IsFiniteSet(Payments) /\ T \subseteq Payments
    BY CommissionAssumption
  <1>6. SameOn(f, g, T)
    BY <1>1, <1>2, <1>5 DEF SameOn
  <1>7. d = [b \in Bookings |-> Disbursed(ledger[b])]
    BY DEF Disbursed
  <1>8. LedgerMatchesPayments <=> (Sigma(d) = Sigma(g))
    BY DEF LedgerMatchesPayments, Sigma
  <1> HIDE DEF T, f, g, d
  <1>9. Sigma(f) = Sigma(g)
    BY <1>1, <1>3, <1>4, <1>5, <1>6, SigmaFilter
  <1> QED BY <1>7, <1>8, <1>9 DEF PaidMatches, PaidTotal, DisbursedTotal, f


\* What the books and the payments leave as it was.
LEMMA QuietKeeps ==
    ASSUME Quiet
    PROVE  /\ ledger' = ledger /\ cancelled' = cancelled /\ accrued' = accrued /\ seen' = seen
           /\ policy' = policy /\ trigger' = trigger
           /\ DisbursedTotal' = DisbursedTotal /\ PaidTotal' = PaidTotal
           /\ \A b : Balance(b)' = Balance(b)
           /\ \A b : HandleCancelled(b)' = HandleCancelled(b)
           /\ \A gross, from : Covered(gross, from)' = Covered(gross, from)
  <1>1. /\ ledger' = ledger /\ cancelled' = cancelled /\ accrued' = accrued /\ seen' = seen
        /\ policy' = policy /\ trigger' = trigger /\ PaidTotal' = PaidTotal
    BY DEF Quiet, config, books, PaymentsStand
  <1>2. DisbursedTotal' = DisbursedTotal
    BY <1>1 DEF DisbursedTotal
  <1>3. \A b : Balance(b)' = Balance(b)
    BY <1>1, BalanceIs
  <1>4. \A b : HandleCancelled(b)' = HandleCancelled(b)
    BY <1>1, <1>3 DEF HandleCancelled, NetPaid
  <1>5. \A gross, from : Covered(gross, from)' = Covered(gross, from)
    BY <1>1, <1>3 DEF Covered
  <1> QED BY <1>1, <1>2, <1>3, <1>4, <1>5

\* What a handler carries keeps its shape as long as its payment keeps its amount.
AmountsStand ==
    \A p \in Payments :
        payment[p] # NULL => payment'[p] # NULL /\ payment'[p].amount = payment[p].amount

LEMMA FitsKept ==
    ASSUME NEW t \in Txs, Fits(t), Unmoved(t), AmountsStand
    PROVE  Fits(t)'
  <1>1. pc'[t] = pc[t] /\ args'[t] = args[t]
    BY DEF Unmoved
  <1>2. pc[t] = "decide" => Decides(args[t])'
    BY <1>1 DEF Fits, Decides, AmountsStand
  <1>3. pc[t] = "pay" => Pays(args[t])'
    BY <1>1 DEF Fits, Pays, AmountsStand
  <1>4. pc[t] = "clawback" => Settles(args[t])'
    BY <1>1 DEF Fits, Settles
  <1>5. pc[t] \in {"check", "insert"} => Accrues(args[t])'
    BY <1>1 DEF Fits, Accrues
  <1> QED BY <1>1, <1>2, <1>3, <1>4, <1>5 DEF Fits

\* What a handler that starts, finishes or advances leaves of the handlers.
LEMMA Starts ==
    ASSUME CommissionType, NEW t \in Txs, NEW label \in Steps, NEW a, Start(t, label, a)
    PROVE  Moved(t) /\ pc'[t] = label /\ args'[t] = a
  <1>1. /\ pc \in [Txs -> Steps] /\ args = [s \in Txs |-> args[s]]
        /\ pc' = [pc EXCEPT ![t] = label] /\ args' = [args EXCEPT ![t] = a]
    BY DEF CommissionType, Start
  <1>2. pc' \in [Txs -> Steps] /\ args' = [s \in Txs |-> args'[s]]
    BY <1>1
  <1>3. \A s \in Txs \ {t} : pc'[s] = pc[s] /\ args'[s] = args[s]
    BY <1>1
  <1> QED BY <1>1, <1>2, <1>3 DEF Moved, Unmoved

LEMMA Finishes ==
    ASSUME CommissionType, NEW t \in Txs, Finish(t)
    PROVE  Moved(t) /\ pc'[t] = "idle"
  <1>1. /\ pc \in [Txs -> Steps] /\ args = [s \in Txs |-> args[s]] /\ "idle" \in Steps
        /\ pc' = [pc EXCEPT ![t] = "idle"] /\ args' = [args EXCEPT ![t] = NULL]
    BY DEF CommissionType, Finish, Steps
  <1>2. pc' \in [Txs -> Steps] /\ args' = [s \in Txs |-> args'[s]]
    BY <1>1
  <1>3. \A s \in Txs \ {t} : pc'[s] = pc[s] /\ args'[s] = args[s]
    BY <1>1
  <1> QED BY <1>1, <1>2, <1>3 DEF Moved, Unmoved

LEMMA Advances ==
    ASSUME CommissionType, NEW t \in Txs, Advance(t), Accrues(args[t]), args[t].todo # <<>>
    PROVE  /\ Moved(t) /\ pc'[t] = "check" /\ Accrues(args[t])'
           /\ args'[t].booking = args[t].booking /\ args'[t].todo = Tail(args[t].todo)
  <1>1. PICK a : a = args[t]
    OBVIOUS
  <1>2. /\ pc \in [Txs -> Steps] /\ args = [s \in Txs |-> args[s]] /\ "check" \in Steps
        /\ pc' = [pc EXCEPT ![t] = "check"]
        /\ args' = [args EXCEPT ![t] = [a EXCEPT !.todo = Tail(a.todo)]]
    BY <1>1 DEF CommissionType, Advance, Steps
  <1>3. pc' \in [Txs -> Steps] /\ args' = [s \in Txs |-> args'[s]] /\ pc'[t] = "check"
    BY <1>2
  <1>4. \A s \in Txs \ {t} : pc'[s] = pc[s] /\ args'[s] = args[s]
    BY <1>2
  <1>5. args'[t] = [a EXCEPT !.todo = Tail(a.todo)]
    BY <1>2
  <1>6. /\ a \in [booking : Bookings, collected : Int, todo : Seq([m : Percents, share : Nat])]
        /\ a.todo # <<>>
    BY <1>1 DEF Accrues
  <1>7. Tail(a.todo) \in Seq([m : Percents, share : Nat])
    BY <1>6
  <1>8. /\ args'[t] \in [booking : Bookings, collected : Int, todo : Seq([m : Percents, share : Nat])]
        /\ args'[t].booking = a.booking /\ args'[t].todo = Tail(a.todo)
    BY <1>5, <1>6, <1>7
  <1> QED BY <1>1, <1>3, <1>4, <1>8 DEF Accrues, Moved, Unmoved

\* What a clawback carries.
LEMMA ClawbackIs ==
    ASSUME CommissionType, NEW t \in Txs, Clawback(t)
    PROVE  /\ pc'[t] = "clawback" /\ args'[t].booking = args[t].booking
           /\ args'[t].entries = HandleCancelled(args[t].booking)
  <1>1. PICK b, e : b = args[t].booking /\ e = HandleCancelled(b)
    OBVIOUS
  <1>2. /\ pc' = [pc EXCEPT ![t] = "clawback"]
        /\ args' = [args EXCEPT ![t] = [booking |-> b, entries |-> e]]
    BY <1>1 DEF Clawback
  <1>3. pc'[t] = "clawback" /\ args'[t] = [booking |-> b, entries |-> e]
    BY <1>2 DEF CommissionType
  <1> QED BY <1>1, <1>3

LEMMA ClawbackAmounts ==
    ASSUME CommissionType, NEW b \in Bookings
    PROVE  \E x, y \in Int : HandleCancelled(b) = Clawbacks(x, y)
  <1> DEFINE x == -Balance(b)
             y == IF policy = "RECOVER" THEN -NetPaid(b) ELSE 0
  <1>1. ledger \in [Bookings -> Row] /\ Balance(b) \in Int /\ ledger[b]["PAYMENT"] \in Int
    BY BalanceInt DEF CommissionType, Row, EntryType
  <1>2. x \in Int /\ y \in Int
    BY <1>1 DEF NetPaid
  <1>3. HandleCancelled(b) = Clawbacks(x, y)
    BY DEF HandleCancelled, Clawbacks
  <1> QED BY <1>2, <1>3
-----------------------------------------------------------------------------
(* The commits that change the books.                                      *)

\* Booking b alone was posted to, and what was disbursed is unchanged.
Posted(b) ==
    /\ ledger' \in [Bookings -> Row]
    /\ \A c \in Bookings \ {b} : ledger'[c] = ledger[c]
    /\ Disbursed(ledger'[b]) = Disbursed(ledger[b])

\* Such a posting moves no other booking's balance, and disburses nothing in all.
LEMMA PostedKeeps ==
    ASSUME NEW b \in Bookings, Posted(b)
    PROVE  /\ DisbursedTotal' = DisbursedTotal
           /\ \A c \in Bookings \ {b} : Balance(c)' = Balance(c)
  <1>1. \A c \in Bookings : Disbursed(ledger'[c]) = Disbursed(ledger[c])
    BY DEF Posted
  <1>2. [c \in Bookings |-> Disbursed(ledger'[c])] = [c \in Bookings |-> Disbursed(ledger[c])]
    BY <1>1
  <1>3. \A c \in Bookings \ {b} : Balance(c)' = Balance(c)
    BY BalanceIs DEF Posted
  <1> QED BY <1>2, <1>3 DEF DisbursedTotal

\* AccrueInsert posts the share it carries.
LEMMA InsertPosts ==
    ASSUME CommissionInv, NEW t \in Txs, AccrueInsert(t), NEW b, b = args[t].booking
    PROVE  /\ b \in Bookings /\ Posted(b)
           /\ Todo(t) \in [m : Percents, share : Nat]
           /\ Balance(b)' = Balance(b) + Todo(t).share
           /\ ledger'[b]["ACCRUAL"] = ledger[b]["ACCRUAL"] + Todo(t).share
  <1> DEFINE n == Todo(t).share
  <1>1. Accrues(args[t]) /\ args[t].todo # <<>>
    BY DEF CommissionInv, Fits, AccrueInsert
  <1>2. b \in Bookings /\ Todo(t) \in [m : Percents, share : Nat]
    <2> DEFINE M == [m : Percents, share : Nat]
    <2>1. b \in Bookings /\ args[t].todo \in Seq(M) /\ args[t].todo # <<>>
      BY <1>1 DEF Accrues
    <2> HIDE DEF M
    <2>2. Head(args[t].todo) \in M
      BY <2>1
    <2> QED BY <2>1, <2>2 DEF M, Todo
  <1>3. n \in Int
    BY <1>2
  <1>4. ledger \in [Bookings -> Row] /\ ledger' = Post(ledger, b, [ACCRUAL |-> n])
    BY DEF CommissionInv, CommissionType, AccrueInsert
  <1> HIDE DEF n
  <1>5. /\ ledger'[b] \in Row
        /\ Sigma(ledger'[b]) = Sigma(ledger[b]) + n
        /\ Disbursed(ledger'[b]) = Disbursed(ledger[b])
        /\ ledger'[b]["ACCRUAL"] = ledger[b]["ACCRUAL"] + n
    BY <1>2, <1>3, <1>4, PostAccrual
  <1>6. \A ty \in EntryType : ty \in DOMAIN [ACCRUAL |-> n] => [ACCRUAL |-> n][ty] \in Int
    BY <1>3
  <1>7. /\ ledger' \in [Bookings -> Row]
        /\ \A c \in Bookings \ {b} : ledger'[c] = ledger[c]
    <2> DEFINE e == [ACCRUAL |-> n]
    <2>1. \A ty \in EntryType : ty \in DOMAIN e => e[ty] \in Int
      BY <1>6
    <2>2. ledger' = Post(ledger, b, e)
      BY <1>4
    <2> HIDE DEF e
    <2>3. ledger \in [Bookings -> Row]
      BY <1>4
    <2> QED BY <1>2, <2>1, <2>2, <2>3, PostIs
  <1>8. Balance(b)' = Balance(b) + n
    BY <1>5, BalanceIs
  <1> QED BY <1>2, <1>5, <1>7, <1>8 DEF Posted, n

\* CommitCancel posts the two amounts it carries, and no payment.
LEMMA CancelPosts ==
    ASSUME CommissionInv, NEW t \in Txs, CommitCancel(t), NEW b, b = args[t].booking
    PROVE  /\ b \in Bookings /\ Posted(b)
           /\ \E x, y \in Int : /\ args[t].entries = Clawbacks(x, y)
                                /\ Balance(b)' = Balance(b) + x + y
           /\ ledger'[b]["PAYMENT"] = ledger[b]["PAYMENT"]
           /\ ledger'[b]["ACCRUAL"] = ledger[b]["ACCRUAL"]
  <1>1. Settles(args[t])
    BY DEF CommissionInv, Fits, CommitCancel
  <1>2. PICK x \in Int, y \in Int : b \in Bookings /\ args[t].entries = Clawbacks(x, y)
    BY <1>1 DEF Settles
  <1> DEFINE e == Clawbacks(x, y)
  <1>3. ledger \in [Bookings -> Row] /\ ledger' = Post(ledger, b, e)
    BY <1>2 DEF CommissionInv, CommissionType, CommitCancel
  <1>4. Balance(b) = Sigma(ledger[b]) /\ Balance(b)' = Sigma(ledger'[b])
    BY BalanceIs
  <1>5. ledger' = Post(ledger, b, [CLAWBACK_REVERSAL |-> x, CLAWBACK_RECOVERY |-> y])
    BY <1>3 DEF Clawbacks
  <1>6. /\ ledger'[b] \in Row
        /\ Sigma(ledger'[b]) = Sigma(ledger[b]) + x + y
        /\ Disbursed(ledger'[b]) = Disbursed(ledger[b])
        /\ ledger'[b]["ACCRUAL"] = ledger[b]["ACCRUAL"]
        /\ ledger'[b]["PAYMENT"] = ledger[b]["PAYMENT"]
    BY <1>2, <1>3, <1>5, PostClawback
  <1>7. \A ty \in EntryType : ty \in DOMAIN e => e[ty] \in Int
    BY DEF Clawbacks
  <1> HIDE DEF e
  <1>8. /\ ledger' \in [Bookings -> Row]
        /\ \A c \in Bookings \ {b} : ledger'[c] = ledger[c]
    BY <1>2, <1>3, <1>7, PostIs
  <1> QED BY <1>2, <1>4, <1>6, <1>8 DEF Posted

\* An update of one payment's status.
StatusSet(p, new) ==
    /\ payment' \in [Payments -> PaymentRow \cup {NULL}]
    /\ \A q \in Payments \ {p} : payment'[q] = payment[q]
    /\ payment'[p] # NULL /\ payment'[p].amount = payment[p].amount /\ payment'[p].status = new

\* The update by id is such an update.
LEMMA StatusIsSet ==
    ASSUME CommissionType, NEW p \in Payments, payment[p] # NULL,
           NEW new \in {"REQUESTED", "APPROVED", "REJECTED", "PAID"},
           payment' = [payment EXCEPT ![p].status = new]
    PROVE  StatusSet(p, new)
  <1>1. PICK r \in PaymentRow : r = payment[p]
    BY PaymentIs
  <1>2. payment \in [Payments -> PaymentRow \cup {NULL}]
    BY DEF CommissionType
  <1> DEFINE q == [r EXCEPT !.status = new]
  <1>3. payment' = [payment EXCEPT ![p] = q]
    BY <1>1, <1>2
  <1>4. q \in PaymentRow /\ q.amount = r.amount /\ q.status = new
    BY DEF PaymentRow
  <1>5. q # NULL
    BY <1>4, CommissionAssumption
  <1> HIDE DEF q
  <1>6. payment'[p] = q /\ \A o \in Payments \ {p} : payment'[o] = payment[o]
    BY <1>2, <1>3
  <1>7. payment' \in [Payments -> PaymentRow \cup {NULL}]
    BY <1>2, <1>3, <1>4
  <1> QED BY <1>1, <1>4, <1>5, <1>6, <1>7 DEF StatusSet

\* One payment changes the total by what it changes itself.
LEMMA PaidTotalChanges ==
    ASSUME CommissionType, NEW p \in Payments, NEW n \in Int,
           \A q \in Payments \ {p} : payment'[q] = payment[q],
           PaidFor(p)' = PaidFor(p) + n
    PROVE  PaidTotal' = PaidTotal + n
  <1> DEFINE f == [q \in Payments |-> PaidFor(q)]
             g == [q \in Payments |-> PaidFor(q)']
  <1>1. f \in [Payments -> Int] /\ f[p] = PaidFor(p) /\ f[p] \in Int
    BY PaidForNat
  <1>2. ASSUME NEW q \in Payments \ {p}
        PROVE  g[q] = f[q]
    BY DEF PaidFor
  <1>3. g[p] = f[p] + n
    BY <1>1
  <1>4. PaidTotal = Sigma(f) /\ PaidTotal' = Sigma(g)
    BY DEF PaidTotal
  <1>5. g = [q \in Payments |-> g[q]]
    OBVIOUS
  <1> HIDE DEF f, g
  <1>6. g \in [Payments -> Int]
    BY <1>1, <1>2, <1>3, <1>5
  <1>7. Sigma(g) = Sigma(f) + g[p] - f[p]
    BY <1>1, <1>2, <1>6, CommissionAssumption, SigmaChange
  <1>8. Sigma(f) \in Int
    BY <1>1, CommissionAssumption, SigmaType
  <1> QED BY <1>1, <1>3, <1>4, <1>7, <1>8

LEMMA PaidTotalInt == ASSUME CommissionType PROVE PaidTotal \in Int
  <1> DEFINE f == [q \in Payments |-> PaidFor(q)]
  <1>1. f \in [Payments -> Int]
    BY PaidForNat
  <1> HIDE DEF f
  <1>2. Sigma(f) \in Int
    BY <1>1, CommissionAssumption, SigmaType
  <1> QED BY <1>2 DEF PaidTotal, f

\* What the payment carried in a takes from b.
TakenFrom(a, b) ==
    IF b \in ToSet(a.from) THEN a.gross[CHOOSE k \in DOMAIN a.from : a.from[k] = b] ELSE 0

\* CommitPay takes from each booking what it carries, and the amount in all.
LEMMA PayPosts ==
    ASSUME CommissionInv, NEW t \in Txs, CommitPay(t)
    PROVE  /\ ledger' \in [Bookings -> Row]
           /\ args[t].payment \in Payments /\ payment[args[t].payment] # NULL
           /\ StatusSet(args[t].payment, "PAID")
           /\ DisbursedTotal' = DisbursedTotal + payment[args[t].payment].amount
           /\ \A b \in Bookings :
                 /\ TakenFrom(args[t], b) \in Nat
                 /\ \/ TakenFrom(args[t], b) = 0
                    \/ \E k \in DOMAIN args[t].from :
                          args[t].from[k] = b /\ args[t].gross[k] = TakenFrom(args[t], b)
                 /\ Balance(b)' = Balance(b) - TakenFrom(args[t], b)
                 /\ TakenFrom(args[t], b) = 0 => ledger'[b]["PAYMENT"] = ledger[b]["PAYMENT"]
                 /\ ledger'[b]["ACCRUAL"] = ledger[b]["ACCRUAL"]
  <1>1. PICK a : a = args[t]
    OBVIOUS
  <1>2. Pays(a)
    BY <1>1 DEF CommissionInv, Fits, CommitPay
  <1>3. CommissionType /\ ledger \in [Bookings -> Row]
    BY DEF CommissionInv, CommissionType
  <1> DEFINE D == DOMAIN a.from
             at(b) == CHOOSE k \in D : a.from[k] = b
             take == [b \in Bookings |-> TakenFrom(a, b)]
  <1>4. /\ a.from \in Seq(Bookings) /\ Once(a.from)
        /\ a.gross \in [D -> Nat] /\ a.tds \in [D -> Nat]
        /\ \A k \in D : a.gross[k] = 0 => a.tds[k] = 0
        /\ Sigma(a.gross) = payment[a.payment].amount
    BY <1>2 DEF Pays
  <1>5. \A b \in ToSet(a.from) : at(b) \in D /\ a.from[at(b)] = b
    BY DEF ToSet
  <1>6. \A k \in D : a.from[k] \in ToSet(a.from) /\ a.from[k] \in Bookings
    BY <1>4 DEF ToSet
  <1>7. \A k \in D : at(a.from[k]) = k
    BY <1>4, <1>5, <1>6 DEF Once
  <1>8. ledger' = [b \in Bookings |->
            IF b \in ToSet(a.from)
            THEN Post(ledger, b, PayEntries(a.gross[at(b)], a.tds[at(b)]))[b]
            ELSE ledger[b]]
    BY <1>1 DEF CommitPay
  <1>t. \A b \in Bookings : take[b] = IF b \in ToSet(a.from) THEN a.gross[at(b)] ELSE 0
    BY DEF TakenFrom
  <1> HIDE DEF at
  <1>9. ASSUME NEW b \in Bookings
        PROVE  /\ take[b] \in Nat
               /\ take[b] = 0 \/ \E k \in D : a.from[k] = b /\ a.gross[k] = take[b]
               /\ ledger'[b] \in Row
               /\ Sigma(ledger'[b]) = Sigma(ledger[b]) - take[b]
               /\ Disbursed(ledger'[b]) = Disbursed(ledger[b]) + take[b]
               /\ take[b] = 0 => ledger'[b]["PAYMENT"] = ledger[b]["PAYMENT"]
               /\ ledger'[b]["ACCRUAL"] = ledger[b]["ACCRUAL"]
    <2>1. CASE b \in ToSet(a.from)
      <3>1. take[b] = a.gross[at(b)] /\ at(b) \in D /\ a.from[at(b)] = b
        BY <1>5, <1>t, <2>1
      <3>2. PICK g \in Nat, w \in Nat : g = a.gross[at(b)] /\ w = a.tds[at(b)]
        BY <1>4, <3>1
      <3>3. ledger'[b] = Post(ledger, b, PayEntries(g, w))[b]
        BY <1>8, <2>1, <3>2
      <3>4. take[b] = g /\ (g = 0 => w = 0)
        BY <1>4, <3>1, <3>2
      <3>5. /\ ledger'[b] \in Row
            /\ Sigma(ledger'[b]) = Sigma(ledger[b]) - g
            /\ Disbursed(ledger'[b]) = Disbursed(ledger[b]) + g
            /\ ledger'[b]["PAYMENT"] = ledger[b]["PAYMENT"] + (w - g)
            /\ ledger'[b]["ACCRUAL"] = ledger[b]["ACCRUAL"]
        BY <1>3, <3>3, PostPay
      <3>6. ledger[b]["PAYMENT"] \in Int
        BY <1>3 DEF Row, EntryType
      <3>7. \E k \in D : a.from[k] = b /\ a.gross[k] = g
        BY <3>1, <3>2
      <3> HIDE DEF take, D
      <3> QED BY <3>4, <3>5, <3>6, <3>7
    <2>2. CASE b \notin ToSet(a.from)
      <3>1. take[b] = 0 /\ ledger'[b] = ledger[b]
        BY <1>8, <1>t, <2>2
      <3>2. ledger[b] \in Row /\ Sigma(ledger[b]) \in Int /\ Disbursed(ledger[b]) \in Int
        BY <1>3, TypesFinite, SigmaType, DisbursedInt DEF Row
      <3> HIDE DEF take
      <3> QED BY <3>1, <3>2
    <2> QED BY <2>1, <2>2
  <1>10. ledger' \in [Bookings -> Row]
    <2>1. ledger' = [b \in Bookings |-> ledger'[b]]
      BY <1>8
    <2> QED BY <1>9, <2>1
  <1>11. a.payment \in Payments /\ payment[a.payment] # NULL /\ StatusSet(a.payment, "PAID")
    BY <1>1, <1>2, <1>3, StatusIsSet DEF CommitPay, Pays
  <1>12. \A b \in Bookings : Balance(b)' = Balance(b) - take[b]
    BY <1>9, BalanceIs
  <1>13. take \in [Bookings -> Int] /\ a.gross \in [D -> Int]
    BY <1>4, <1>9
  <1>14. Places(Bookings, D, a.from, a.gross, take)
    <2>1. \A j, k \in D : a.from[j] = a.from[k] => j = k
      BY <1>4 DEF Once
    <2>2. \A k \in D : a.from[k] \in Bookings /\ take[a.from[k]] = a.gross[k]
      BY <1>6, <1>7, <1>t
    <2>3. \A b \in Bookings : (\A k \in D : a.from[k] # b) => take[b] = 0
      BY <1>t DEF ToSet
    <2> QED BY <2>1, <2>2, <2>3 DEF Places
  <1>15. IsFiniteSet(D)
    <2>1. D = 1 .. Len(a.from) /\ Len(a.from) \in Nat
      BY <1>4
    <2> QED BY <2>1, FS_Interval
  <1>16. Sigma(take) = payment[a.payment].amount
    <2> HIDE DEF take, D
    <2> QED BY <1>4, <1>13, <1>14, <1>15, CommissionAssumption, SigmaPlaces
  <1>17. DisbursedTotal' = DisbursedTotal + payment[a.payment].amount
    <2> DEFINE d == [b \in Bookings |-> Disbursed(ledger[b])]
               e == [b \in Bookings |-> Disbursed(ledger'[b])]
    <2>1. d \in [Bookings -> Int] /\ e \in [Bookings -> Int]
      BY <1>3, <1>10, DisbursedInt
    <2>2. AddsUp(d, take, e, Bookings)
      <3> HIDE DEF take
      <3> QED BY <1>9 DEF AddsUp
    <2>a. DisbursedTotal = Sigma(d) /\ DisbursedTotal' = Sigma(e)
      BY DEF DisbursedTotal
    <2> HIDE DEF d, e, take
    <2>3. IsFiniteSet(Bookings)
      BY CommissionAssumption
    <2>4. Adds(Bookings, d, take, e)
      BY <1>13, <2>1, <2>2, <2>3 DEF Adds
    <2>5. Sigma(e) = Sigma(d) + Sigma(take)
      BY <2>4, SigmaAdds
    <2> QED BY <1>16, <2>a, <2>5
  <1>18. \A b \in Bookings : take[b] = TakenFrom(args[t], b)
    BY <1>1
  <1> HIDE DEF take, D
  <1>19. \A b \in Bookings :
            /\ TakenFrom(args[t], b) \in Nat
            /\ \/ TakenFrom(args[t], b) = 0
               \/ \E k \in D : a.from[k] = b /\ a.gross[k] = TakenFrom(args[t], b)
            /\ Balance(b)' = Balance(b) - TakenFrom(args[t], b)
            /\ TakenFrom(args[t], b) = 0 => ledger'[b]["PAYMENT"] = ledger[b]["PAYMENT"]
            /\ ledger'[b]["ACCRUAL"] = ledger[b]["ACCRUAL"]
    BY <1>9, <1>12, <1>18
  <1> QED BY <1>1, <1>10, <1>11, <1>17, <1>19 DEF D
-----------------------------------------------------------------------------
(* The invariant holds at the start and is kept by every step.             *)

Todos == [m : Percents, share : Nat]

\* What accrueForBooking reads fits the columns it will write.
LEMMA PendingIs ==
    ASSUME milestones \in MilestoneLists, NEW total \in Nat
    PROVE  Pending(total) \in Seq(Todos)
  <1>1. CASE trigger = "ON_BOOKING"
    <2>1. [m |-> OnBooking, share |-> total] \in Todos
      BY DEF Todos, Percents, OnBooking
    <2> QED BY <1>1, <2>1 DEF Pending
  <1>2. CASE trigger # "ON_BOOKING"
    <2>1. Pending(total) = [i \in DOMAIN milestones |->
                              [m |-> milestones[i], share |-> Share(milestones, i, total)]]
      BY <1>2 DEF Pending
    <2>2. DOMAIN milestones = 1 .. Len(milestones) /\ Len(milestones) \in Nat
      BY CommissionAssumption
    <2>3. ASSUME NEW i \in DOMAIN milestones
          PROVE  [m |-> milestones[i], share |-> Share(milestones, i, total)] \in Todos
      <3>1. milestones # <<>>
        BY <2>2
      <3>2. Shares(milestones, total)[i] \in Nat
        BY <3>1, SharesPartition
      <3>3. milestones[i] \in Percents
        BY DEF Percents, ToSet
      <3> QED BY <3>2, <3>3 DEF Shares, Todos
    <2> QED BY <2>1, <2>2, <2>3
  <1> QED BY <1>1, <1>2

\* A booking is appended to those seen once.
LEMMA SeenOnce ==
    ASSUME seen \in Seq(Bookings), Once(seen), NEW b \in Bookings
    PROVE  Seen(b) \in Seq(Bookings) /\ Once(Seen(b))
  <1>1. CASE \E k \in DOMAIN seen : seen[k] = b
    BY <1>1 DEF Seen
  <1>2. CASE ~\E k \in DOMAIN seen : seen[k] = b
    <2>1. Seen(b) = Append(seen, b)
      BY <1>2 DEF Seen
    <2>2. Append(seen, b) \in Seq(Bookings)
      OBVIOUS
    <2> DEFINE n == Len(seen)
               q == Append(seen, b)
    <2>3. /\ n \in Nat /\ DOMAIN seen = 1 .. n /\ DOMAIN q = 1 .. n + 1
          /\ q[n + 1] = b /\ \A k \in 1 .. n : q[k] = seen[k]
      OBVIOUS
    <2> HIDE DEF q, n
    <2>4. Once(q)
      <3> SUFFICES ASSUME NEW j \in 1 .. n + 1, NEW k \in 1 .. n + 1, q[j] = q[k]
                   PROVE  j = k
        BY <2>3 DEF Once
      <3>1. CASE j \in 1 .. n /\ k \in 1 .. n
        BY <2>3, <3>1 DEF Once
      <3>2. CASE j = n + 1 /\ k \in 1 .. n
        BY <1>2, <2>3, <3>2
      <3>3. CASE k = n + 1 /\ j \in 1 .. n
        BY <1>2, <2>3, <3>3
      <3>4. CASE j = n + 1 /\ k = n + 1
        BY <3>4
      <3> QED BY <2>3, <3>1, <3>2, <3>3, <3>4
    <2> QED BY <2>1, <2>2, <2>4 DEF q
  <1> QED BY <1>1, <1>2

LEMMA CommissionInitial == Init => CommissionInv
  <1> SUFFICES ASSUME Init PROVE CommissionInv
    OBVIOUS
  <1>1. CommissionType
    <2>1. ledger \in [Bookings -> Row]
      BY DEF Init, Row
    <2>2. accrued \in [Bookings -> [Percents -> Nat]]
      BY DEF Init
    <2>3. pc \in [Txs -> Steps]
      BY DEF Init, Steps
    <2> QED BY <2>1, <2>2, <2>3 DEF CommissionType, Init
  <1>2. Once(seen)
    BY DEF Init, Once
  <1>3. \A t \in Txs : Fits(t)
    BY DEF Init, Fits
  <1>4. RowsHeld
    BY DEF Init, RowsHeld, HoldsRow
  <1> QED BY <1>1, <1>2, <1>3, <1>4 DEF CommissionInv

\* At the start nothing is owed and nothing was paid.
LEMMA NothingYet ==
    ASSUME Init
    PROVE  /\ \A b \in Bookings : Balance(b) = 0
           /\ DisbursedTotal = 0 /\ PaidTotal = 0
  <1>1. \A b \in Bookings : /\ ledger[b] \in [EntryType -> Int]
                            /\ \A e \in EntryType : ledger[b][e] = 0
    BY DEF Init
  <1>2. \A b \in Bookings : Balance(b) = 0 /\ Disbursed(ledger[b]) = 0
    BY <1>1, BalanceIs, TypesFinite, SigmaZero DEF Disbursed, EntryType
  <1> DEFINE d == [b \in Bookings |-> Disbursed(ledger[b])]
             f == [p \in Payments |-> PaidFor(p)]
  <1>3. d \in [Bookings -> Int] /\ \A b \in Bookings : d[b] = 0
    BY <1>2
  <1>4. \A p \in Payments : PaidFor(p) = 0
    BY DEF Init, PaidFor
  <1>5. f \in [Payments -> Int] /\ \A p \in Payments : f[p] = 0
    BY <1>4
  <1> HIDE DEF d, f
  <1>6. Sigma(d) = 0 /\ Sigma(f) = 0
    BY <1>3, <1>5, CommissionAssumption, SigmaZero
  <1> QED BY <1>2, <1>6 DEF DisbursedTotal, PaidTotal, d, f

\* Steps of no handler are quiet, and move no handler.
LEMMA OthersAre ==
    ASSUME CommissionInv, Others
    PROVE  /\ Quiet /\ UNCHANGED <<snapshot, pc, args>> /\ CommissionType'
           /\ "updateRule" \notin Ops => milestones' = milestones
  <1>1. CommissionType /\ payment \in [Payments -> PaymentRow \cup {NULL}]
    BY DEF CommissionInv, CommissionType
  <1>2. UNCHANGED <<config, cancelled, snapshot, books, pc, args>>
    BY DEF Others, vars, config, books, updateRule, setBrokerActive, collect, requestPayment,
           requestNoc, decideNoc
  <1>3. /\ milestones' \in MilestoneLists
        /\ "updateRule" \notin Ops => milestones' = milestones
    BY <1>1
    DEF Others, vars, updateRule, setBrokerActive, collect, requestPayment, requestNoc, decideNoc,
        CommissionType
  <1>4. collected' \in [Bookings -> Int]
    <2>1. ASSUME NEW b \in Bookings, NEW n \in {0, 50, 100}, collect(b, n)
          PROVE  collected' \in [Bookings -> Int]
      BY <1>1, <2>1 DEF collect, CommissionType
    <2>2. collected' = collected \/ \E b \in Bookings, n \in {0, 50, 100} : collect(b, n)
      BY DEF Others, vars, updateRule, setBrokerActive, requestPayment, requestNoc, decideNoc
    <2> QED BY <1>1, <2>1, <2>2 DEF CommissionType
  <1>5. payment' \in [Payments -> PaymentRow \cup {NULL}] /\ PaymentsStand
    <2>1. ASSUME NEW p \in Payments, NEW n \in Amounts, requestPayment(p, n)
          PROVE  payment' \in [Payments -> PaymentRow \cup {NULL}] /\ PaymentsStand
      <3> DEFINE r == [amount |-> n, status |-> "REQUESTED"]
      <3>1. r \in PaymentRow /\ r.status = "REQUESTED"
        BY DEF PaymentRow
      <3>2. payment[p] = NULL /\ payment' = [payment EXCEPT ![p] = r]
        BY <2>1 DEF requestPayment
      <3> HIDE DEF r
      <3>3. /\ payment' \in [Payments -> PaymentRow \cup {NULL}]
            /\ payment'[p].status = "REQUESTED"
            /\ \A q \in Payments \ {p} : payment'[q] = payment[q]
        BY <1>1, <3>1, <3>2
      <3>4. PaidFor(p) = 0 /\ PaidFor(p)' = 0
        BY <3>2, <3>3 DEF PaidFor
      <3>5. PaidTotal' = PaidTotal + 0
        BY <1>1, <3>3, <3>4, PaidTotalChanges
      <3>6. PaidTotal \in Int
        BY <1>1, PaidTotalInt
      <3> QED BY <3>2, <3>3, <3>5, <3>6 DEF PaymentsStand
    <2>2. payment' = payment \/ \E p \in Payments, n \in Amounts : requestPayment(p, n)
      BY DEF Others, vars, updateRule, setBrokerActive, collect, requestNoc, decideNoc
    <2>3. payment' = payment => PaymentsStand
      BY DEF PaymentsStand, PaidTotal, PaidFor
    <2> QED BY <1>1, <2>1, <2>2, <2>3
  <1>6. CommissionType'
    BY <1>1, <1>2, <1>3, <1>4, <1>5 DEF CommissionType, books
  <1> QED BY <1>2, <1>3, <1>5, <1>6 DEF Quiet

\* A handler that reads is quiet too, and moves alone.
LEMMA ReadsAre ==
    ASSUME CommissionInv, NEW t \in Txs, Reads(t)
    PROVE  /\ Quiet /\ UNCHANGED milestones /\ Moved(t) /\ CommissionType'
           /\ \A b \in Bookings : snapshot'[b] # NULL \/ snapshot'[b] = snapshot[b]
           /\ \A b \in Bookings : snapshot[b] = Total => snapshot'[b] = Total
  <1>1. CommissionType /\ Fits(t)
    BY DEF CommissionInv
  <1>2. UNCHANGED <<config, milestones, collected, cancelled, books, payment>>
    BY DEF Reads, accrueForBooking, AccrueCheck, pay, StartPay, decidePayment, cancelBooking, Clawback
  <1>3. /\ snapshot' \in [Bookings -> {NULL, Total}]
        /\ \A b \in Bookings : snapshot'[b] # NULL \/ snapshot'[b] = snapshot[b]
        /\ \A b \in Bookings : snapshot[b] = Total => snapshot'[b] = Total
    <2>1. ASSUME NEW b \in Bookings, accrueForBooking(t, b)
          PROVE  snapshot' = [snapshot EXCEPT ![b] = IF @ = NULL THEN Total ELSE @]
      BY <2>1 DEF accrueForBooking
    <2>2. \/ snapshot' = snapshot
          \/ \E b \in Bookings : snapshot' = [snapshot EXCEPT ![b] = IF @ = NULL THEN Total ELSE @]
      BY <2>1 DEF Reads, AccrueCheck, pay, decidePayment, cancelBooking, Clawback
    <2>3. Total # NULL /\ snapshot \in [Bookings -> {NULL, Total}]
      BY <1>1, CommissionAssumption DEF CommissionType
    <2> QED BY <2>2, <2>3
  <1>4. Moved(t)
    <2>1. CASE \E b \in Bookings : accrueForBooking(t, b)
      BY <1>1, <2>1, Starts DEF accrueForBooking, Steps
    <2>2. CASE AccrueCheck(t)
      <3>1. CASE Finish(t)
        BY <1>1, <3>1, Finishes
      <3>2. CASE Advance(t) /\ args[t].todo # <<>>
        <4>1. Accrues(args[t])
          BY <1>1, <2>2 DEF AccrueCheck, Fits
        <4> QED BY <1>1, <3>2, <4>1, Advances
      <3>3. CASE pc' = [pc EXCEPT ![t] = "insert"] /\ UNCHANGED args
        BY <1>1, <3>3 DEF CommissionType, Moved, Unmoved, Steps
      <3> QED BY <2>2, <3>1, <3>2, <3>3 DEF AccrueCheck
    <2>3. CASE \E p \in Payments : pay(t, p)
      BY <1>1, <2>3, Starts DEF pay, StartPay, Steps
    <2>4. CASE \E p \in Payments, s \in {"APPROVED", "REJECTED"} : decidePayment(t, p, s)
      BY <1>1, <2>4, Starts DEF decidePayment, Steps
    <2>5. CASE \E b \in Bookings : cancelBooking(t, b)
      BY <1>1, <2>5, Starts DEF cancelBooking, Steps
    <2>6. CASE Clawback(t)
      BY <1>1, <2>6 DEF Clawback, CommissionType, Moved, Unmoved, Steps
    <2> QED BY <2>1, <2>2, <2>3, <2>4, <2>5, <2>6 DEF Reads
  <1>5. PaymentsStand
    BY <1>2 DEF PaymentsStand, PaidTotal, PaidFor
  <1>6. CommissionType'
    BY <1>1, <1>2, <1>3, <1>4 DEF CommissionType, books, Moved
  <1> QED BY <1>2, <1>3, <1>4, <1>5, <1>6 DEF Quiet

\* A commit moves its handler alone, keeps every amount, and only a cancellation
\* touches a booking.
LEMMA CommitsAre ==
    ASSUME CommissionInv, NEW t \in Txs, Commits(t)
    PROVE  /\ UNCHANGED <<config, milestones, snapshot>> /\ Moved(t) /\ CommissionType' /\ Once(seen)'
           /\ AmountsStand /\ Fits(t)' /\ ~HoldsRow(t)'
  <1>1. CommissionType /\ Once(seen) /\ Fits(t)
    BY DEF CommissionInv
  <1>2. UNCHANGED <<config, milestones, collected, snapshot>>
    BY DEF Commits, AccrueInsert, CommitDecision, CommitPay, CommitCancel
  <1>3. CASE AccrueInsert(t)
    <2>1. PICK b : b = args[t].booking
      OBVIOUS
    <2>2. b \in Bookings /\ Posted(b) /\ Todo(t) \in [m : Percents, share : Nat]
      BY <1>3, <2>1, InsertPosts
    <2>3. /\ accrued' = [accrued EXCEPT ![b][Todo(t).m] = @ + 1]
          /\ seen' = Seen(b) /\ Advance(t)
          /\ UNCHANGED <<cancelled, payment>>
      BY <1>3, <2>1 DEF AccrueInsert
    <2>4. Accrues(args[t]) /\ args[t].todo # <<>>
      BY <1>1, <1>3 DEF AccrueInsert, Fits
    <2>5. Moved(t) /\ pc'[t] = "check" /\ Accrues(args[t])'
      BY <1>1, <2>3, <2>4, Advances
    <2>6. Seen(b) \in Seq(Bookings) /\ Once(Seen(b))
      BY <1>1, <2>2, SeenOnce DEF CommissionType
    <2>7. accrued' \in [Bookings -> [Percents -> Nat]]
      <3>1. PICK m \in Percents : m = Todo(t).m
        BY <2>2
      <3>2. accrued \in [Bookings -> [Percents -> Nat]]
        BY <1>1 DEF CommissionType
      <3> QED BY <2>2, <2>3, <3>1, <3>2
    <2>8. CommissionType'
      <3>1. ledger' \in [Bookings -> Row] /\ seen' \in Seq(Bookings)
        BY <2>2, <2>3, <2>6 DEF Posted
      <3> QED BY <1>1, <1>2, <2>3, <2>5, <2>7, <3>1 DEF CommissionType, Moved
    <2>9. Fits(t)' /\ ~HoldsRow(t)'
      BY <2>5 DEF Fits, HoldsRow
    <2> QED BY <1>2, <2>3, <2>5, <2>6, <2>8, <2>9 DEF AmountsStand, Once
  <1>4. CASE CommitDecision(t)
    <2>1. PICK p, s : p = args[t].payment /\ s = args[t].status
      OBVIOUS
    <2>2. p \in Payments /\ payment[p] # NULL /\ s \in {"APPROVED", "REJECTED"}
      BY <1>1, <1>4, <2>1 DEF CommitDecision, Fits, Decides
    <2>3. /\ payment' = [payment EXCEPT ![p].status = s] /\ Finish(t)
          /\ UNCHANGED <<cancelled, books>>
      BY <1>4, <2>1 DEF CommitDecision
    <2>4. StatusSet(p, s)
      BY <1>1, <2>2, <2>3, StatusIsSet
    <2>5. Moved(t) /\ pc'[t] = "idle"
      BY <1>1, <2>3, Finishes
    <2>6. CommissionType'
      BY <1>1, <1>2, <2>3, <2>4, <2>5 DEF CommissionType, StatusSet, books, Moved
    <2>7. Fits(t)' /\ ~HoldsRow(t)'
      BY <2>5 DEF Fits, HoldsRow
    <2>8. AmountsStand
      BY <2>4 DEF AmountsStand, StatusSet
    <2> QED BY <1>1, <1>2, <2>3, <2>5, <2>6, <2>7, <2>8 DEF books
  <1>5. CASE CommitPay(t)
    <2>1. PICK p : p = args[t].payment
      OBVIOUS
    <2>2. p \in Payments /\ payment[p] # NULL /\ StatusSet(p, "PAID") /\ ledger' \in [Bookings -> Row]
      BY <1>5, <2>1, PayPosts
    <2>3. Finish(t) /\ UNCHANGED <<cancelled, accrued, seen>>
      BY <1>5 DEF CommitPay
    <2>4. Moved(t) /\ pc'[t] = "idle"
      BY <1>1, <2>3, Finishes
    <2>5. CommissionType'
      BY <1>1, <1>2, <2>2, <2>3, <2>4 DEF CommissionType, StatusSet, Moved
    <2>6. Fits(t)' /\ ~HoldsRow(t)'
      BY <2>4 DEF Fits, HoldsRow
    <2>7. AmountsStand
      BY <2>2 DEF AmountsStand, StatusSet
    <2> QED BY <1>1, <1>2, <2>3, <2>4, <2>5, <2>6, <2>7
  <1>6. CASE CommitCancel(t)
    <2>1. PICK b : b = args[t].booking
      OBVIOUS
    <2>2. b \in Bookings /\ Posted(b)
      BY <1>6, <2>1, CancelPosts
    <2>3. /\ cancelled' = [cancelled EXCEPT ![b] = TRUE] /\ Finish(t)
          /\ UNCHANGED <<accrued, seen, payment>>
      BY <1>6, <2>1 DEF CommitCancel
    <2>4. Moved(t) /\ pc'[t] = "idle"
      BY <1>1, <2>3, Finishes
    <2>5. CommissionType'
      BY <1>1, <1>2, <2>2, <2>3, <2>4 DEF CommissionType, Posted, Moved
    <2>6. Fits(t)' /\ ~HoldsRow(t)'
      BY <2>4 DEF Fits, HoldsRow
    <2> QED BY <1>1, <1>2, <2>3, <2>4, <2>5, <2>6 DEF AmountsStand
  <1> QED BY <1>3, <1>4, <1>5, <1>6 DEF Commits

\* A handler that reads carries what fits.
LEMMA ReadsFit ==
    ASSUME CommissionInv, NEW t \in Txs, Reads(t)
    PROVE  Fits(t)'
  <1>1. CommissionType /\ Once(seen) /\ Fits(t)
    BY DEF CommissionInv
  <1>2. ASSUME NEW b \in Bookings, accrueForBooking(t, b) PROVE Fits(t)'
    <2> DEFINE a == [booking |-> b, collected |-> collected[b], todo |-> Pending(snapshot'[b])]
    <2>1. /\ snapshot' = [snapshot EXCEPT ![b] = IF @ = NULL THEN Total ELSE @]
          /\ Start(t, "check", a)
      BY <1>2 DEF accrueForBooking
    <2>2. snapshot'[b] = Total
      BY <1>1, <2>1 DEF CommissionType
    <2>3. Pending(snapshot'[b]) \in Seq(Todos)
      <3>1. Total \in Nat /\ milestones \in MilestoneLists
        BY <1>1, CommissionAssumption DEF CommissionType
      <3>2. Pending(Total) \in Seq(Todos)
        BY <3>1, PendingIs
      <3> QED BY <2>2, <3>2
    <2>4. a \in [booking : Bookings, collected : Int, todo : Seq(Todos)]
      BY <1>1, <2>3 DEF CommissionType
    <2> HIDE DEF a
    <2>5. pc'[t] = "check" /\ args'[t] = a
      BY <1>1, <2>1, Starts DEF Steps
    <2>6. Accrues(args[t])'
      BY <2>4, <2>5 DEF Accrues, Todos
    <2> QED BY <2>5, <2>6 DEF Fits
  <1>3. ASSUME AccrueCheck(t) PROVE Fits(t)'
    <2>1. pc[t] = "check" /\ Accrues(args[t])
      BY <1>1, <1>3 DEF AccrueCheck, Fits
    <2>2. CASE Finish(t)
      <3>1. pc'[t] = "idle"
        BY <1>1, <2>2, Finishes
      <3> QED BY <3>1 DEF Fits
    <2>3. CASE Advance(t) /\ args[t].todo # <<>>
      <3>1. pc'[t] = "check" /\ Accrues(args[t])'
        BY <1>1, <2>1, <2>3, Advances
      <3> QED BY <3>1 DEF Fits
    <2>4. CASE pc' = [pc EXCEPT ![t] = "insert"] /\ UNCHANGED args /\ args[t].todo # <<>>
      <3>1. pc'[t] = "insert" /\ args'[t] = args[t]
        BY <1>1, <2>4 DEF CommissionType
      <3>2. Accrues(args[t])'
        BY <2>1, <3>1 DEF Accrues
      <3> QED BY <2>4, <3>1, <3>2 DEF Fits
    <2> QED BY <1>3, <2>2, <2>3, <2>4 DEF AccrueCheck
  <1>4. ASSUME NEW p \in Payments, pay(t, p) PROVE Fits(t)'
    <2>1. PICK n : n = payment[p].amount
      OBVIOUS
    <2>2. PICK from : from = seen
      OBVIOUS
    <2>3. PICK gross : gross = GrossTakes(n)
      OBVIOUS
    <2>4. PICK tds : tds = allocate(percentOf(n, TdsRate), gross)
      OBVIOUS
    <2> DEFINE a == [payment |-> p, from |-> from, gross |-> gross, tds |-> tds]
    <2>5. payment[p] # NULL /\ SumSeq(gross) = n /\ Start(t, "pay", a) /\ UNCHANGED payment
      BY <1>4, <2>1, <2>2, <2>3, <2>4 DEF pay, StartPay
    <2>6. n \in Nat \ {0}
      BY <1>1, <2>1, <2>5, PaymentIs
    <2>7. from \in Seq(Bookings) /\ ledger \in [Bookings -> Row] /\ Once(from)
          /\ DOMAIN from = 1 .. Len(from) /\ Len(from) \in Nat
      BY <1>1, <2>2 DEF CommissionType
    <2>8. gross \in [DOMAIN from -> Nat]
      BY <2>2, <2>3, <2>6, <2>7, TakesFit
    <2>9. /\ tds \in [DOMAIN from -> Nat]
          /\ \A k \in DOMAIN from : gross[k] = 0 => tds[k] = 0
      <3>1. TdsRate \in Nat /\ n \in Nat
        BY <2>6, CommissionAssumption
      <3>2. percentOf(n, TdsRate) \in Nat
        BY <3>1, PercentNat
      <3>3. PICK m \in Nat, q \in Nat : m = Len(from) /\ q = percentOf(n, TdsRate)
        BY <2>7, <3>2
      <3>4. gross \in [1 .. m -> Nat]
        BY <2>7, <2>8, <3>3
      <3>5. /\ allocate(q, gross) \in [1 .. m -> Nat]
            /\ \A k \in 1 .. m : gross[k] = 0 => allocate(q, gross)[k] = 0
        BY <2>5, <2>6, <3>4, TdsShared
      <3> QED BY <2>4, <2>7, <3>3, <3>5
    <2>10. Sigma(gross) = n
      <3>1. gross \in [1 .. Len(from) -> Int]
        BY <2>7, <2>8
      <3> QED BY <2>5, <2>7, <3>1, SumIsSigma
    <2>11. a.payment = p /\ a.from = from /\ a.gross = gross /\ a.tds = tds
      OBVIOUS
    <2> HIDE DEF a
    <2>12. pc'[t] = "pay" /\ args'[t] = a
      BY <1>1, <2>5, Starts DEF Steps
    <2>13. Pays(a)'
      <3>1. /\ a.payment \in Payments /\ payment'[a.payment] # NULL
            /\ Sigma(a.gross) = payment'[a.payment].amount
        BY <2>1, <2>5, <2>10, <2>11
      <3>2. /\ a.from \in Seq(Bookings) /\ Once(a.from)
            /\ a.gross \in [DOMAIN a.from -> Nat] /\ a.tds \in [DOMAIN a.from -> Nat]
            /\ \A k \in DOMAIN a.from : a.gross[k] = 0 => a.tds[k] = 0
        BY <2>7, <2>8, <2>9, <2>11
      <3> QED BY <3>1, <3>2 DEF Pays
    <2>14. Pays(args[t])'
      BY <2>12, <2>13 DEF Pays
    <2> QED BY <2>12, <2>14 DEF Fits
  <1>5. ASSUME NEW p \in Payments, NEW s \in {"APPROVED", "REJECTED"}, decidePayment(t, p, s)
        PROVE  Fits(t)'
    <2> DEFINE a == [payment |-> p, status |-> s]
    <2>1. payment[p] # NULL /\ Start(t, "decide", a) /\ UNCHANGED payment
      BY <1>5 DEF decidePayment
    <2>2. a.payment = p /\ a.status = s
      OBVIOUS
    <2> HIDE DEF a
    <2>3. pc'[t] = "decide" /\ args'[t] = a
      BY <1>1, <2>1, Starts DEF Steps
    <2>4. Decides(args[t])'
      BY <2>1, <2>2, <2>3 DEF Decides
    <2> QED BY <2>3, <2>4 DEF Fits
  <1>6. ASSUME NEW b \in Bookings, cancelBooking(t, b) PROVE Fits(t)'
    <2>1. pc'[t] = "cancel" /\ args'[t] = [booking |-> b]
      BY <1>1, <1>6, Starts DEF cancelBooking, Steps
    <2> QED BY <2>1 DEF Fits
  <1>7. ASSUME Clawback(t) PROVE Fits(t)'
    <2>1. /\ pc'[t] = "clawback" /\ args[t].booking \in Bookings
          /\ args'[t].booking = args[t].booking
          /\ args'[t].entries = HandleCancelled(args[t].booking)
      BY <1>1, ClawbackIs, <1>7 DEF Clawback, Fits
    <2>2. \E x, y \in Int : HandleCancelled(args[t].booking) = Clawbacks(x, y)
      BY <1>1, <2>1, ClawbackAmounts
    <2> QED BY <2>1, <2>2 DEF Fits, Settles
  <1> QED BY <1>2, <1>3, <1>4, <1>5, <1>6, <1>7 DEF Reads

\* Every step keeps the invariant.
LEMMA CommissionStep ==
    ASSUME CommissionInv, [Next]_vars
    PROVE  CommissionInv'
  <1>1. CommissionType /\ Once(seen) /\ (\A s \in Txs : Fits(s)) /\ RowsHeld
    BY DEF CommissionInv
  <1>2. CASE Others
    <2>1. Quiet /\ CommissionType' /\ \A s \in Txs : Unmoved(s)
      BY <1>2, OthersAre DEF Unmoved
    <2>2. \A s \in Txs : Fits(s)'
      BY <1>1, <2>1, FitsKept DEF Quiet, PaymentsStand, AmountsStand
    <2>3. RowsHeld'
      BY <1>1, <2>1 DEF RowsHeld, HoldsRow, Unmoved
    <2>4. Once(seen)'
      BY <1>1, <2>1, QuietKeeps
    <2> QED BY <2>1, <2>2, <2>3, <2>4 DEF CommissionInv
  <1>3. ASSUME NEW t \in Txs, Reads(t) PROVE CommissionInv'
    <2>1. Quiet /\ CommissionType' /\ \A s \in Txs \ {t} : Unmoved(s)
      BY <1>3, ReadsAre DEF Moved
    <2>2. \A s \in Txs : Fits(s)'
      BY <1>1, <1>3, <2>1, FitsKept, ReadsFit DEF Quiet, PaymentsStand, AmountsStand
    <2>3. \A s \in Txs \ {t} : HoldsRow(s)' /\ HoldsRow(t)' => args'[s].booking # args'[t].booking
      <3>1. CASE \E b \in Bookings : cancelBooking(t, b)
        <4>1. PICK b \in Bookings : cancelBooking(t, b)
          BY <3>1
        <4>2. args'[t].booking = b
          BY <1>1, <4>1, Starts DEF cancelBooking, Steps
        <4>3. \A s \in Txs : HoldsRow(s) => args[s].booking # b
          BY <4>1 DEF cancelBooking, HoldsRow
        <4> QED BY <2>1, <4>2, <4>3 DEF Unmoved, HoldsRow
      <3>2. CASE Clawback(t)
        <4>1. HoldsRow(t) /\ args'[t].booking = args[t].booking
          BY <1>1, <3>2, ClawbackIs DEF Clawback, HoldsRow
        <4> QED BY <1>1, <2>1, <4>1 DEF RowsHeld, Unmoved, HoldsRow
      <3>3. CASE \E b \in Bookings : accrueForBooking(t, b)
        <4>1. pc'[t] = "check"
          BY <1>1, <3>3, Starts DEF accrueForBooking, Steps
        <4> QED BY <4>1 DEF HoldsRow
      <3>4. CASE AccrueCheck(t)
        <4>1. pc'[t] \in {"idle", "check", "insert"}
          BY <1>1, <3>4 DEF AccrueCheck, Finish, Advance, CommissionType
        <4> QED BY <4>1 DEF HoldsRow
      <3>5. CASE \E p \in Payments : pay(t, p)
        <4>1. pc'[t] = "pay"
          BY <1>1, <3>5, Starts DEF pay, StartPay, Steps
        <4> QED BY <4>1 DEF HoldsRow
      <3>6. CASE \E p \in Payments, s \in {"APPROVED", "REJECTED"} : decidePayment(t, p, s)
        <4>1. pc'[t] = "decide"
          BY <1>1, <3>6, Starts DEF decidePayment, Steps
        <4> QED BY <4>1 DEF HoldsRow
      <3> QED BY <1>3, <3>1, <3>2, <3>3, <3>4, <3>5, <3>6 DEF Reads
    <2>4. RowsHeld'
      BY <1>1, <2>1, <2>3 DEF RowsHeld, HoldsRow, Unmoved
    <2>5. Once(seen)'
      BY <1>1, <2>1, QuietKeeps
    <2> QED BY <2>1, <2>2, <2>4, <2>5 DEF CommissionInv
  <1>4. ASSUME NEW t \in Txs, Commits(t) PROVE CommissionInv'
    <2>1. /\ CommissionType' /\ Once(seen)' /\ AmountsStand /\ Fits(t)' /\ ~HoldsRow(t)'
          /\ \A s \in Txs \ {t} : Unmoved(s)
      BY <1>4, CommitsAre DEF Moved
    <2>2. \A s \in Txs : Fits(s)'
      BY <1>1, <2>1, FitsKept
    <2>3. RowsHeld'
      BY <1>1, <2>1 DEF RowsHeld, HoldsRow, Unmoved
    <2> QED BY <2>1, <2>2, <2>3 DEF CommissionInv
  <1> QED BY <1>2, <1>3, <1>4, NextIs

\* So it always holds, whatever overlaps.
LEMMA CommissionInvariant == Spec => []CommissionInv
  <1>1. CommissionInv /\ [Next]_vars => CommissionInv'
    BY CommissionStep
  <1> QED BY CommissionInitial, <1>1, PTL DEF Spec
-----------------------------------------------------------------------------
(* Payments: as long as one handler at a time is at work on each.          *)

\* A handler that is about to write a payment found it as it still is.
Expects(t) ==
    /\ pc[t] = "decide" => payment[args[t].payment].status = "REQUESTED"
    /\ pc[t] = "pay" => payment[args[t].payment].status = "APPROVED"

PaidInv == PaidMatches /\ \A t \in Txs : Expects(t)

\* Others go on expecting what they found.
LEMMA ExpectsKept ==
    ASSUME NEW t \in Txs, Fits(t), Expects(t), Unmoved(t),
           pc[t] \in {"decide", "pay"} => payment'[args[t].payment] = payment[args[t].payment]
    PROVE  Expects(t)'
  <1> QED BY DEF Expects, Unmoved

LEMMA PaidStep ==
    ASSUME OneHandlerPerPayment, CommissionInv, PaidInv, [Next]_vars
    PROVE  PaidInv'
  <1>1. /\ CommissionType /\ PaidMatches
        /\ \A t \in Txs : Fits(t) /\ Expects(t)
    BY DEF CommissionInv, PaidInv
  <1>2. ASSUME NEW t \in Txs, pc[t] \in {"decide", "pay"}
        PROVE  args[t].payment \in Payments /\ payment[args[t].payment] # NULL
    BY <1>1, <1>2 DEF Fits, Decides, Pays
  <1>3. ASSUME NEW t \in Txs, Unmoved(t), PaymentsStand PROVE Expects(t)'
    BY <1>1, <1>2, <1>3, ExpectsKept DEF PaymentsStand
  <1>4. ASSUME NEW t \in Txs, Unmoved(t), NEW u \in Txs, u # t, pc[u] \in {"decide", "pay"},
               \A q \in Payments \ {args[u].payment} : payment'[q] = payment[q]
        PROVE  Expects(t)'
    <2>1. pc[t] \in {"decide", "pay"} => args[t].payment # args[u].payment
      BY <1>4 DEF OneHandlerPerPayment
    <2> QED BY <1>1, <1>2, <1>4, <2>1, ExpectsKept
  <1>5. CASE Others
    <2>1. Quiet /\ \A t \in Txs : Unmoved(t)
      BY <1>5, OthersAre DEF Unmoved
    <2>2. PaidMatches'
      BY <1>1, <2>1, QuietKeeps DEF PaidMatches
    <2> QED BY <1>3, <2>1, <2>2 DEF PaidInv, Quiet
  <1>6. ASSUME NEW t \in Txs, Reads(t) PROVE PaidInv'
    <2>1. Quiet /\ \A s \in Txs \ {t} : Unmoved(s)
      BY <1>6, ReadsAre DEF Moved
    <2>2. PaidMatches'
      BY <1>1, <2>1, QuietKeeps DEF PaidMatches
    <2>3. Expects(t)'
      <3>1. ASSUME NEW p \in Payments, pay(t, p) PROVE Expects(t)'
        <4> DEFINE a == [payment |-> p, from |-> seen, gross |-> GrossTakes(payment[p].amount),
                         tds |-> allocate(percentOf(payment[p].amount, TdsRate),
                                          GrossTakes(payment[p].amount))]
        <4>1. payment[p].status = "APPROVED" /\ UNCHANGED payment /\ Start(t, "pay", a)
          BY <3>1 DEF pay, StartPay
        <4>2. a.payment = p
          OBVIOUS
        <4> HIDE DEF a
        <4>3. pc'[t] = "pay" /\ args'[t] = a
          BY <1>1, <4>1, Starts DEF Steps
        <4> QED BY <4>1, <4>2, <4>3 DEF Expects
      <3>2. ASSUME NEW p \in Payments, NEW s \in {"APPROVED", "REJECTED"}, decidePayment(t, p, s)
            PROVE  Expects(t)'
        <4>1. /\ payment[p].status = "REQUESTED" /\ UNCHANGED payment
              /\ Start(t, "decide", [payment |-> p, status |-> s])
          BY <3>2 DEF decidePayment
        <4>2. pc'[t] = "decide" /\ args'[t] = [payment |-> p, status |-> s]
          BY <1>1, <4>1, Starts DEF Steps
        <4> QED BY <4>1, <4>2 DEF Expects
      <3>3. CASE \E b \in Bookings : accrueForBooking(t, b)
        <4>1. pc'[t] = "check"
          BY <1>1, <3>3, Starts DEF accrueForBooking, Steps
        <4> QED BY <4>1 DEF Expects
      <3>4. CASE AccrueCheck(t)
        <4>1. pc'[t] \in {"idle", "check", "insert"}
          BY <1>1, <3>4 DEF AccrueCheck, Finish, Advance, CommissionType
        <4> QED BY <4>1 DEF Expects
      <3>5. CASE \E b \in Bookings : cancelBooking(t, b)
        <4>1. pc'[t] = "cancel"
          BY <1>1, <3>5, Starts DEF cancelBooking, Steps
        <4> QED BY <4>1 DEF Expects
      <3>6. CASE Clawback(t)
        <4>1. pc'[t] = "clawback"
          BY <1>1, <3>6, ClawbackIs
        <4> QED BY <4>1 DEF Expects
      <3> QED BY <1>6, <3>1, <3>2, <3>3, <3>4, <3>5, <3>6 DEF Reads
    <2> QED BY <1>3, <2>1, <2>2, <2>3 DEF PaidInv, Quiet
  <1>7. ASSUME NEW t \in Txs, Commits(t)
        PROVE  /\ \A s \in Txs \ {t} : Unmoved(s)
               /\ Expects(t)'
    <2>1. Moved(t)
      BY <1>7, CommitsAre
    <2>2. pc'[t] \in {"idle", "check"}
      BY <1>1, <1>7
      DEF Commits, AccrueInsert, CommitDecision, CommitPay, CommitCancel, Advance, Finish,
          CommissionType
    <2> QED BY <2>1, <2>2 DEF Moved, Expects
  <1>8. ASSUME NEW t \in Txs, Commits(t), UNCHANGED payment, DisbursedTotal' = DisbursedTotal
        PROVE  PaidInv'
    <2>1. PaymentsStand
      BY <1>8 DEF PaymentsStand, PaidTotal, PaidFor
    <2>2. PaidMatches'
      BY <1>1, <1>8, <2>1 DEF PaidMatches, PaymentsStand
    <2> QED BY <1>3, <1>7, <1>8, <2>1, <2>2 DEF PaidInv
  <1>9. ASSUME NEW t \in Txs, AccrueInsert(t) \/ CommitCancel(t) PROVE PaidInv'
    <2>1. PICK b : b = args[t].booking
      OBVIOUS
    <2>2. b \in Bookings /\ Posted(b)
      BY <1>9, <2>1, InsertPosts, CancelPosts
    <2>3. UNCHANGED payment /\ DisbursedTotal' = DisbursedTotal
      BY <1>9, <2>2, PostedKeeps DEF AccrueInsert, CommitCancel
    <2> QED BY <1>8, <1>9, <2>3 DEF Commits
  <1>10. ASSUME NEW t \in Txs, CommitDecision(t) PROVE PaidInv'
    <2>1. PICK p, s : p = args[t].payment /\ s = args[t].status
      OBVIOUS
    <2>2. /\ p \in Payments /\ payment[p] # NULL /\ s \in {"APPROVED", "REJECTED"}
          /\ payment[p].status = "REQUESTED"
      BY <1>1, <1>10, <2>1 DEF CommitDecision, Fits, Decides, Expects
    <2>3. payment' = [payment EXCEPT ![p].status = s] /\ ledger' = ledger
      BY <1>10, <2>1 DEF CommitDecision, books
    <2>4. StatusSet(p, s)
      BY <1>1, <2>2, <2>3, StatusIsSet
    <2>5. PaidTotal' = PaidTotal
      <3>1. PaidFor(p) = 0 /\ PaidFor(p)' = 0
        BY <2>2, <2>4 DEF PaidFor, StatusSet
      <3>2. PaidTotal' = PaidTotal + 0
        BY <1>1, <2>2, <2>4, <3>1, PaidTotalChanges DEF StatusSet
      <3> QED BY <1>1, <3>2, PaidTotalInt
    <2>6. PaidMatches'
      BY <1>1, <2>3, <2>5 DEF PaidMatches, DisbursedTotal
    <2>7. \A u \in Txs \ {t} : Expects(u)'
      BY <1>4, <1>7, <1>10, <2>1, <2>4 DEF Commits, CommitDecision, StatusSet
    <2> QED BY <1>7, <1>10, <2>6, <2>7 DEF PaidInv, Commits
  <1>11. ASSUME NEW t \in Txs, CommitPay(t) PROVE PaidInv'
    <2>1. PICK p : p = args[t].payment
      OBVIOUS
    <2>2. /\ p \in Payments /\ payment[p] # NULL /\ StatusSet(p, "PAID")
          /\ DisbursedTotal' = DisbursedTotal + payment[p].amount
      BY <1>11, <2>1, PayPosts
    <2>3. payment[p].status = "APPROVED" /\ payment[p].amount \in Int
      BY <1>1, <1>11, <2>1, <2>2, PaymentIs DEF CommitPay, Expects
    <2>4. PaidFor(p)' = PaidFor(p) + payment[p].amount
      BY <2>2, <2>3 DEF PaidFor, StatusSet
    <2>5. PaidTotal' = PaidTotal + payment[p].amount
      BY <1>1, <2>2, <2>3, <2>4, PaidTotalChanges DEF StatusSet
    <2>6. PaidMatches'
      BY <1>1, <2>2, <2>5 DEF PaidMatches
    <2>7. \A u \in Txs \ {t} : Expects(u)'
      BY <1>4, <1>7, <1>11, <2>1, <2>2 DEF Commits, CommitPay, StatusSet
    <2> QED BY <1>7, <1>11, <2>6, <2>7 DEF PaidInv, Commits
  <1> QED BY <1>5, <1>6, <1>9, <1>10, <1>11, NextIs DEF Commits

\* For any bookings, payments, amounts, milestones and TDS rate: what the ledger
\* shows as paid or withheld is what the PAID payments amount to, as long as no
\* payment is decided or paid by two requests at once; requests for different
\* payments, accruals and cancellations overlap freely (CommissionPaymentService.pay).
THEOREM LedgerMatchesPaymentsHolds ==
    Spec /\ []OneHandlerPerPayment => []LedgerMatchesPayments
  <1>1. Init => PaidInv
    BY NothingYet DEF PaidInv, PaidMatches, Init, Expects
  <1>2. OneHandlerPerPayment /\ CommissionInv /\ PaidInv /\ [Next]_vars => PaidInv'
    BY PaidStep
  <1>3. CommissionInv /\ PaidInv => LedgerMatchesPayments
    BY PaidMatchesLedger DEF CommissionInv, PaidInv
  <1> QED BY CommissionInvariant, <1>1, <1>2, <1>3, PTL DEF Spec
-----------------------------------------------------------------------------
(* Balances: as long as no two payments under way take from one booking.   *)

CoverInv ==
    /\ NothingOverdrawn
    /\ \A t \in Txs : pc[t] = "pay" => Covered(args[t].gross, args[t].from)

\* Covered payments stay so if no balance they take from falls.
LEMMA CoverKept ==
    ASSUME NEW t \in Txs, Unmoved(t), pc[t] = "pay", Fits(t), Covered(args[t].gross, args[t].from),
           \A b \in Bookings : \/ cancelled'[b]
                               \/ ~cancelled[b] /\ (Takes(t, b) => Balance(b)' >= Balance(b)),
           \A b \in Bookings : Balance(b) \in Int /\ Balance(b)' \in Int
    PROVE  Covered(args[t].gross, args[t].from)'
  <1>1. PICK gross, from : gross = args[t].gross /\ from = args[t].from
    OBVIOUS
  <1>2. /\ from \in Seq(Bookings) /\ gross \in [DOMAIN from -> Nat]
        /\ Covered(gross, from) /\ args'[t] = args[t]
    BY <1>1 DEF Fits, Pays, Unmoved
  <1>3. ASSUME NEW k \in DOMAIN from, gross[k] # 0, ~cancelled'[from[k]]
        PROVE  gross[k] <= Balance(from[k])'
    <2>1. PICK b \in Bookings : b = from[k]
      BY <1>2
    <2>2. gross[k] \in Nat /\ gross[k] > 0
      BY <1>2, <1>3
    <2>3. Takes(t, b)
      BY <1>1, <2>1, <2>2 DEF Takes
    <2>4. Balance(b)' >= Balance(b) /\ ~cancelled[b]
      BY <1>3, <2>1, <2>3
    <2>5. gross[k] <= Balance(b)
      BY <1>2, <1>3, <2>1, <2>4 DEF Covered
    <2>6. Balance(b) \in Int /\ Balance(b)' \in Int
      OBVIOUS
    <2>7. gross[k] <= Balance(b)'
      BY <2>2, <2>4, <2>5, <2>6
    <2>8. Balance(b)' = Balance(from[k])'
      BY <2>1
    <2> QED BY <2>7, <2>8
  <1>4. Covered(gross, from)'
    BY <1>3 DEF Covered
  <1> QED BY <1>1, <1>2, <1>4

\* Balances are integers, before and after a step.
LEMMA BalancesInt ==
    ASSUME CommissionType, CommissionType'
    PROVE  \A b \in Bookings : Balance(b) \in Int /\ Balance(b)' \in Int
  <1>1. \A b \in Bookings : ledger[b] \in [EntryType -> Int] /\ ledger'[b] \in [EntryType -> Int]
    BY DEF CommissionType, Row
  <1>2. \A b \in Bookings : Sigma(ledger[b]) \in Int /\ Sigma(ledger'[b]) \in Int
    BY <1>1, TypesFinite, SigmaType
  <1> QED BY <1>2, BalanceIs

LEMMA CoverStep ==
    ASSUME TakesApart, CommissionInv, CoverInv, [Next]_vars
    PROVE  CoverInv'
  <1>1. /\ CommissionType /\ CommissionType' /\ NothingOverdrawn
        /\ \A t \in Txs : Fits(t)
        /\ \A t \in Txs : pc[t] = "pay" => Covered(args[t].gross, args[t].from)
        /\ cancelled \in [Bookings -> BOOLEAN]
    BY CommissionStep DEF CommissionInv, CommissionType, CoverInv
  <1>2. \A b \in Bookings : Balance(b) \in Int /\ Balance(b)' \in Int
    BY <1>1, BalancesInt
  <1>3. ASSUME Quiet, NEW t \in Txs, Unmoved(t), pc'[t] = "pay"
        PROVE  Covered(args[t].gross, args[t].from)'
    <2>1. pc[t] = "pay" /\ args'[t] = args[t]
      BY <1>3 DEF Unmoved
    <2>2. Covered(args[t].gross, args[t].from)
      BY <1>1, <2>1
    <2>3. PICK gross, from : gross = args[t].gross /\ from = args[t].from
      OBVIOUS
    <2>4. Covered(gross, from)' = Covered(gross, from)
      BY <1>3, QuietKeeps
    <2> QED BY <2>1, <2>2, <2>3, <2>4
  <1>4. ASSUME Quiet PROVE NothingOverdrawn'
    BY <1>1, <1>4, QuietKeeps DEF NothingOverdrawn
  <1>5. CASE Others
    <2>1. Quiet /\ \A t \in Txs : Unmoved(t)
      BY <1>5, OthersAre DEF Unmoved
    <2> QED BY <1>3, <1>4, <2>1 DEF CoverInv
  <1>6. ASSUME NEW t \in Txs, Reads(t) PROVE CoverInv'
    <2>1. Quiet /\ \A s \in Txs \ {t} : Unmoved(s)
      BY <1>6, ReadsAre DEF Moved
    <2>2. pc'[t] = "pay" => Covered(args[t].gross, args[t].from)'
      <3>1. ASSUME NEW p \in Payments, pay(t, p) PROVE Covered(args[t].gross, args[t].from)'
        <4>1. PICK n : n = payment[p].amount
          OBVIOUS
        <4>2. PICK gross, from : gross = GrossTakes(n) /\ from = seen
          OBVIOUS
        <4> DEFINE a == [payment |-> p, from |-> from, gross |-> gross,
                         tds |-> allocate(percentOf(n, TdsRate), gross)]
        <4>3. payment[p] # NULL /\ Start(t, "pay", a)
          BY <3>1, <4>1, <4>2 DEF pay, StartPay
        <4>4. a.gross = gross /\ a.from = from
          OBVIOUS
        <4> HIDE DEF a
        <4>5. args'[t] = a
          BY <1>1, <4>3, Starts DEF Steps
        <4>6. n \in Nat /\ ledger \in [Bookings -> Row] /\ seen \in Seq(Bookings)
          BY <1>1, <4>1, <4>3, PaymentIs DEF CommissionType
        <4>7. Covered(gross, from)
          BY <4>2, <4>6, TakesFit
        <4>8. Covered(gross, from)'
          BY <2>1, <4>7, QuietKeeps
        <4> QED BY <4>4, <4>5, <4>8
      <3>2. CASE \E p \in Payments, s \in {"APPROVED", "REJECTED"} : decidePayment(t, p, s)
        BY <1>1, <3>2, Starts DEF decidePayment, Steps
      <3>3. CASE \E b \in Bookings : accrueForBooking(t, b)
        BY <1>1, <3>3, Starts DEF accrueForBooking, Steps
      <3>4. CASE AccrueCheck(t)
        BY <1>1, <3>4 DEF AccrueCheck, Finish, Advance, CommissionType
      <3>5. CASE \E b \in Bookings : cancelBooking(t, b)
        BY <1>1, <3>5, Starts DEF cancelBooking, Steps
      <3>6. CASE Clawback(t)
        BY <1>1, <3>6, ClawbackIs
      <3> QED BY <1>6, <3>1, <3>2, <3>3, <3>4, <3>5, <3>6 DEF Reads
    <2> QED BY <1>3, <1>4, <2>1, <2>2 DEF CoverInv
  <1>7. ASSUME NEW t \in Txs, Commits(t),
               \A s \in Txs \ {t} : pc[s] = "pay" =>
                   \A b \in Bookings : \/ cancelled'[b]
                                       \/ ~cancelled[b] /\ (Takes(s, b) => Balance(b)' >= Balance(b)),
               NothingOverdrawn'
        PROVE  CoverInv'
    <2>1. \A s \in Txs \ {t} : Unmoved(s)
      BY <1>7, CommitsAre DEF Moved
    <2>2. pc'[t] # "pay"
      BY <1>1, <1>7
      DEF Commits, AccrueInsert, CommitDecision, CommitPay, CommitCancel, Advance, Finish,
          CommissionType
    <2>3. \A s \in Txs \ {t} : pc'[s] = "pay" => Covered(args[s].gross, args[s].from)'
      BY <1>1, <1>2, <1>7, <2>1, CoverKept DEF Unmoved
    <2> QED BY <1>7, <2>2, <2>3 DEF CoverInv
  <1>8. ASSUME NEW t \in Txs, AccrueInsert(t) PROVE CoverInv'
    <2>1. PICK b : b = args[t].booking
      OBVIOUS
    <2>2. /\ b \in Bookings /\ Posted(b) /\ Todo(t) \in [m : Percents, share : Nat]
          /\ Balance(b)' = Balance(b) + Todo(t).share /\ CommissionInv
      BY <1>8, <2>1, InsertPosts
    <2>3. \A c \in Bookings : Balance(c)' >= Balance(c)
      <3>1. Todo(t).share \in Nat
        BY <2>2
      <3> QED BY <1>2, <2>2, <3>1, PostedKeeps
    <2>4. cancelled' = cancelled
      BY <1>8 DEF AccrueInsert
    <2>5. NothingOverdrawn'
      BY <1>1, <1>2, <2>3, <2>4 DEF NothingOverdrawn
    <2> QED BY <1>1, <1>7, <1>8, <2>3, <2>4, <2>5 DEF Commits
  <1>9. ASSUME NEW t \in Txs, CommitDecision(t) PROVE CoverInv'
    <2>1. cancelled' = cancelled /\ \A b : Balance(b)' = Balance(b)
      BY <1>9, BalanceIs DEF CommitDecision, books
    <2>2. NothingOverdrawn'
      BY <1>1, <2>1 DEF NothingOverdrawn
    <2> QED BY <1>1, <1>2, <1>7, <1>9, <2>1, <2>2 DEF Commits
  <1>10. ASSUME NEW t \in Txs, CommitPay(t) PROVE CoverInv'
    <2>1. PICK a : a = args[t]
      OBVIOUS
    <2>2. cancelled' = cancelled /\ pc[t] = "pay" /\ Pays(a) /\ Covered(a.gross, a.from)
      BY <1>1, <1>10, <2>1 DEF CommitPay, Fits
    <2>3. \A b \in Bookings :
              /\ TakenFrom(a, b) \in Nat
              /\ \/ TakenFrom(a, b) = 0
                 \/ \E k \in DOMAIN a.from : a.from[k] = b /\ a.gross[k] = TakenFrom(a, b)
              /\ Balance(b)' = Balance(b) - TakenFrom(a, b)
      BY <1>10, <2>1, PayPosts
    <2>4. NothingOverdrawn'
      <3> SUFFICES ASSUME NEW b \in Bookings, ~cancelled[b] PROVE Balance(b)' >= 0
        BY <2>2 DEF NothingOverdrawn
      <3>1. Balance(b) >= 0
        BY <1>1 DEF NothingOverdrawn
      <3>2. TakenFrom(a, b) = 0 \/ TakenFrom(a, b) <= Balance(b)
        BY <2>2, <2>3 DEF Covered
      <3> QED BY <1>2, <2>3, <3>1, <3>2
    <2>5. ASSUME NEW s \in Txs \ {t}, pc[s] = "pay", NEW b \in Bookings, Takes(s, b)
          PROVE  Balance(b)' >= Balance(b)
      <3>1. ~Takes(t, b)
        BY <2>5 DEF TakesApart
      <3>2. TakenFrom(a, b) = 0
        BY <2>1, <2>2, <2>3, <3>1 DEF Takes
      <3> QED BY <1>2, <2>3, <3>2
    <2> QED BY <1>1, <1>7, <1>10, <2>2, <2>4, <2>5 DEF Commits
  <1>11. ASSUME NEW t \in Txs, CommitCancel(t) PROVE CoverInv'
    <2>1. PICK c : c = args[t].booking
      OBVIOUS
    <2>2. c \in Bookings /\ Posted(c) /\ cancelled' = [cancelled EXCEPT ![c] = TRUE]
      BY <1>11, <2>1, CancelPosts DEF CommitCancel
    <2>3. \A b \in Bookings \ {c} : Balance(b)' = Balance(b) /\ cancelled'[b] = cancelled[b]
      BY <1>1, <2>2, PostedKeeps
    <2>4. cancelled'[c]
      BY <1>1, <2>2
    <2>5. NothingOverdrawn'
      BY <1>1, <2>3, <2>4 DEF NothingOverdrawn
    <2>6. \A b \in Bookings : \/ cancelled'[b]
                              \/ ~cancelled[b] /\ Balance(b)' >= Balance(b)
      <3> SUFFICES ASSUME NEW b \in Bookings, ~cancelled'[b]
                   PROVE  ~cancelled[b] /\ Balance(b)' >= Balance(b)
        OBVIOUS
      <3>1. b # c
        BY <2>4
      <3>2. Balance(b)' = Balance(b) /\ cancelled'[b] = cancelled[b]
        BY <2>3, <3>1
      <3> QED BY <1>2, <3>2
    <2> QED BY <1>7, <1>11, <2>5, <2>6 DEF Commits
  <1> QED BY <1>5, <1>6, <1>8, <1>9, <1>10, <1>11, NextIs DEF Commits

\* A booking that is not cancelled is never paid for beyond what is owed, as long as
\* no two payments under way take from it; accruals and cancellations may come in
\* between, and any number of requests may have been approved against one balance (pay).
THEOREM NothingOverdrawnHolds == Spec /\ []TakesApart => []NothingOverdrawn
  <1>1. Init => CoverInv
    BY NothingYet DEF CoverInv, NothingOverdrawn, Init
  <1>2. TakesApart /\ CommissionInv /\ CoverInv /\ [Next]_vars => CoverInv'
    BY CoverStep
  <1>3. CoverInv => NothingOverdrawn
    BY DEF CoverInv
  <1> QED BY CommissionInvariant, <1>1, <1>2, <1>3, PTL DEF Spec
-----------------------------------------------------------------------------
(* Clawbacks: as long as nothing is posted between the sums and the commit. *)

ClawbackInv ==
    \A t \in Txs : pc[t] = "clawback" => args[t].entries = HandleCancelled(args[t].booking)

\* The step leaves what a clawback of b would read as it was.
Undisturbed(b) == Balance(b)' = Balance(b) /\ ledger'[b]["PAYMENT"] = ledger[b]["PAYMENT"]

\* The sums are as they were where neither the balance nor the payments changed.
LEMMA ClawbackKept ==
    ASSUME NEW t \in Txs, Unmoved(t), policy' = policy,
           NEW b \in Bookings, b = args[t].booking,
           args[t].entries = HandleCancelled(b), Undisturbed(b)
    PROVE  (args[t].entries = HandleCancelled(args[t].booking))'
  <1>1. args'[t] = args[t] /\ args'[t].booking = b
    BY DEF Unmoved
  <1>2. HandleCancelled(b)' = HandleCancelled(b)
    BY DEF Undisturbed, HandleCancelled, NetPaid
  <1>3. HandleCancelled(args[t].booking)' = HandleCancelled(b)'
    BY <1>1
  <1> QED BY <1>1, <1>2, <1>3

LEMMA ClawbackStep ==
    ASSUME ClawbackUndisturbed, CommissionInv, ClawbackInv, [Next]_vars
    PROVE  ClawbackInv'
  <1>1. /\ CommissionType /\ RowsHeld
        /\ \A t \in Txs : Fits(t)
        /\ \A t \in Txs : pc[t] = "clawback" => args[t].entries = HandleCancelled(args[t].booking)
    BY DEF CommissionInv, ClawbackInv
  <1>2. \A t \in Txs : pc[t] = "clawback" => args[t].booking \in Bookings
    BY <1>1 DEF Fits, Settles
  <1>3. ASSUME Quiet, NEW t \in Txs, Unmoved(t), pc'[t] = "clawback"
        PROVE  (args[t].entries = HandleCancelled(args[t].booking))'
    <2>1. pc[t] = "clawback"
      BY <1>3 DEF Unmoved
    <2>2. ledger' = ledger /\ policy' = policy /\ \A b : Balance(b)' = Balance(b)
      BY <1>3, QuietKeeps
    <2>3. PICK b \in Bookings : b = args[t].booking
      BY <1>2, <2>1
    <2>4. Undisturbed(b)
      BY <2>2 DEF Undisturbed
    <2>5. args[t].entries = HandleCancelled(b)
      BY <1>1, <2>1, <2>3
    <2> QED BY <1>3, <2>2, <2>3, <2>4, <2>5, ClawbackKept
  <1>4. CASE Others
    <2>1. Quiet /\ \A t \in Txs : Unmoved(t)
      BY <1>4, OthersAre DEF Unmoved
    <2> QED BY <1>3, <2>1 DEF ClawbackInv
  <1>5. ASSUME NEW t \in Txs, Reads(t) PROVE ClawbackInv'
    <2>1. Quiet /\ \A s \in Txs \ {t} : Unmoved(s)
      BY <1>5, ReadsAre DEF Moved
    <2>2. pc'[t] = "clawback" => (args[t].entries = HandleCancelled(args[t].booking))'
      <3>1. CASE Clawback(t)
        <4>1. PICK b, e : b = args[t].booking /\ e = HandleCancelled(b)
          OBVIOUS
        <4>2. args'[t].booking = b /\ args'[t].entries = e
          BY <1>1, <3>1, <4>1, ClawbackIs
        <4>3. HandleCancelled(b)' = HandleCancelled(b)
          BY <2>1, QuietKeeps
        <4>4. HandleCancelled(args[t].booking)' = HandleCancelled(b)'
          BY <4>2
        <4> QED BY <4>1, <4>2, <4>3, <4>4
      <3>2. CASE \E p \in Payments, s \in {"APPROVED", "REJECTED"} : decidePayment(t, p, s)
        BY <1>1, <3>2, Starts DEF decidePayment, Steps
      <3>3. CASE \E b \in Bookings : accrueForBooking(t, b)
        BY <1>1, <3>3, Starts DEF accrueForBooking, Steps
      <3>4. CASE AccrueCheck(t)
        BY <1>1, <3>4 DEF AccrueCheck, Finish, Advance, CommissionType
      <3>5. CASE \E b \in Bookings : cancelBooking(t, b)
        BY <1>1, <3>5, Starts DEF cancelBooking, Steps
      <3>6. CASE \E p \in Payments : pay(t, p)
        BY <1>1, <3>6, Starts DEF pay, StartPay, Steps
      <3> QED BY <1>5, <3>1, <3>2, <3>3, <3>4, <3>5, <3>6 DEF Reads
    <2> QED BY <1>3, <2>1, <2>2 DEF ClawbackInv
  <1>6. ASSUME NEW t \in Txs, Commits(t),
               \A s \in Txs \ {t}, b \in Bookings :
                   pc[s] = "clawback" /\ b = args[s].booking => Undisturbed(b)
        PROVE  ClawbackInv'
    <2>1. UNCHANGED policy /\ ~HoldsRow(t)' /\ \A s \in Txs \ {t} : Unmoved(s)
      BY <1>6, CommitsAre DEF Moved, config
    <2>2. pc'[t] # "clawback"
      BY <2>1 DEF HoldsRow
    <2>3. \A s \in Txs \ {t} : pc'[s] = "clawback" => pc[s] = "clawback"
      BY <2>1 DEF Unmoved
    <2>4. ASSUME NEW s \in Txs \ {t}, pc'[s] = "clawback"
          PROVE  (args[s].entries = HandleCancelled(args[s].booking))'
      <3>1. pc[s] = "clawback" /\ Unmoved(s) /\ policy' = policy
        BY <2>1, <2>3, <2>4
      <3>2. PICK b \in Bookings : b = args[s].booking
        BY <1>2, <3>1
      <3>3. args[s].entries = HandleCancelled(b) /\ Undisturbed(b)
        BY <1>1, <1>6, <2>4, <3>1, <3>2
      <3> QED BY <3>1, <3>2, <3>3, ClawbackKept
    <2> QED BY <2>2, <2>4 DEF ClawbackInv
  <1>7. ASSUME NEW t \in Txs, AccrueInsert(t) PROVE ClawbackInv'
    <2>1. PICK b : b = args[t].booking
      OBVIOUS
    <2>2. b \in Bookings /\ Posted(b) /\ pc[t] = "insert"
      BY <1>7, <2>1, InsertPosts DEF AccrueInsert
    <2>3. \A s \in Txs : pc[s] = "clawback" => args[s].booking # b
      BY <2>1, <2>2 DEF ClawbackUndisturbed
    <2>4. \A c \in Bookings \ {b} : Undisturbed(c)
      BY <2>2, PostedKeeps DEF Posted, Undisturbed
    <2> QED BY <1>6, <1>7, <2>3, <2>4 DEF Commits
  <1>8. ASSUME NEW t \in Txs, CommitDecision(t) PROVE ClawbackInv'
    <2>1. \A b \in Bookings : Undisturbed(b)
      BY <1>8, BalanceIs DEF CommitDecision, books, Undisturbed
    <2> QED BY <1>6, <1>8, <2>1 DEF Commits
  <1>9. ASSUME NEW t \in Txs, CommitPay(t) PROVE ClawbackInv'
    <2>1. PICK a : a = args[t]
      OBVIOUS
    <2>2. pc[t] = "pay" /\ Pays(a)
      BY <1>1, <1>9, <2>1 DEF CommitPay, Fits
    <2>3. \A b \in Bookings :
              /\ TakenFrom(a, b) \in Nat
              /\ \/ TakenFrom(a, b) = 0
                 \/ \E k \in DOMAIN a.from : a.from[k] = b /\ a.gross[k] = TakenFrom(a, b)
              /\ Balance(b)' = Balance(b) - TakenFrom(a, b)
              /\ TakenFrom(a, b) = 0 => ledger'[b]["PAYMENT"] = ledger[b]["PAYMENT"]
      BY <1>9, <2>1, PayPosts
    <2>4. ASSUME NEW s \in Txs \ {t}, NEW b \in Bookings, pc[s] = "clawback", b = args[s].booking
          PROVE  Undisturbed(b)
      <3>1. ~Takes(t, b)
        BY <2>4 DEF ClawbackUndisturbed
      <3>2. TakenFrom(a, b) = 0
        BY <2>1, <2>2, <2>3, <3>1 DEF Takes
      <3>3. Balance(b) \in Int
        BY <1>1, BalanceInt DEF CommissionType
      <3> QED BY <2>3, <3>2, <3>3 DEF Undisturbed
    <2> QED BY <1>6, <1>9, <2>4 DEF Commits
  <1>10. ASSUME NEW t \in Txs, CommitCancel(t) PROVE ClawbackInv'
    <2>1. PICK c : c = args[t].booking
      OBVIOUS
    <2>2. c \in Bookings /\ Posted(c) /\ HoldsRow(t)
      BY <1>10, <2>1, CancelPosts DEF CommitCancel, HoldsRow
    <2>3. \A s \in Txs \ {t} : pc[s] = "clawback" => args[s].booking # c
      BY <1>1, <2>1, <2>2 DEF RowsHeld, HoldsRow
    <2>4. \A b \in Bookings \ {c} : Undisturbed(b)
      BY <2>2, PostedKeeps DEF Posted, Undisturbed
    <2> QED BY <1>6, <1>10, <2>3, <2>4 DEF Commits
  <1> QED BY <1>4, <1>5, <1>7, <1>8, <1>9, <1>10, NextIs DEF Commits

\* A cancellation leaves the broker owing exactly what was disbursed for that booking,
\* or nothing, as long as nothing is posted to the booking between the clawback's sums
\* and its commit; two cancellations of one booking exclude each other by its row
\* (handleBookingCancelled).
THEOREM CancelSettlesCommissionHolds ==
    Spec /\ []ClawbackUndisturbed => CancelSettlesCommission
  <1> DEFINE Settled == \A b \in Bookings : ~cancelled[b] /\ cancelled'[b] =>
                           Balance(b)' = (IF policy = "RECOVER" THEN -NetPaid(b) ELSE 0)
  <1>1. ASSUME CommissionInv, ClawbackInv, [Next]_vars PROVE [Settled]_vars
    <2> SUFFICES ASSUME NEW b \in Bookings, ~cancelled[b], cancelled'[b]
                 PROVE  Balance(b)' = (IF policy = "RECOVER" THEN -NetPaid(b) ELSE 0)
      OBVIOUS
    <2>1. cancelled \in [Bookings -> BOOLEAN] /\ ledger \in [Bookings -> Row]
      BY <1>1 DEF CommissionInv, CommissionType
    <2>2. PICK t \in Txs : CommitCancel(t)
      <3>1. cancelled' # cancelled
        BY <2>1
      <3>2. ~Quiet
        BY <3>1 DEF Quiet
      <3>3. PICK t \in Txs : Commits(t)
        BY <1>1, <3>2, NextIs, OthersAre, ReadsAre
      <3> QED BY <3>1, <3>3 DEF Commits, AccrueInsert, CommitDecision, CommitPay
    <2>3. PICK c : c = args[t].booking
      OBVIOUS
    <2>4. cancelled' = [cancelled EXCEPT ![c] = TRUE]
      BY <2>2, <2>3 DEF CommitCancel
    <2>5. c = b
      BY <2>1, <2>4
    <2>6. PICK x \in Int, y \in Int :
             args[t].entries = Clawbacks(x, y) /\ Balance(b)' = Balance(b) + x + y
      BY <1>1, <2>2, <2>3, <2>5, CancelPosts
    <2>7. args[t].entries = HandleCancelled(b)
      BY <1>1, <2>2, <2>3, <2>5 DEF ClawbackInv, CommitCancel
    <2>8. x = -Balance(b) /\ y = (IF policy = "RECOVER" THEN -NetPaid(b) ELSE 0)
      <3>1. /\ Clawbacks(x, y).CLAWBACK_REVERSAL = HandleCancelled(b).CLAWBACK_REVERSAL
            /\ Clawbacks(x, y).CLAWBACK_RECOVERY = HandleCancelled(b).CLAWBACK_RECOVERY
        BY <2>6, <2>7
      <3> QED BY <3>1 DEF Clawbacks, HandleCancelled
    <2>9. Balance(b) \in Int
      BY <2>1, BalanceInt
    <2> QED BY <2>6, <2>8, <2>9
  <1>2. CommissionInv /\ ClawbackInv /\ [Next]_vars => [Settled]_vars
    BY <1>1
  <1>3. Init => ClawbackInv
    BY DEF Init, ClawbackInv
  <1>4. ClawbackUndisturbed /\ CommissionInv /\ ClawbackInv /\ [Next]_vars => ClawbackInv'
    BY ClawbackStep
  <1> QED BY CommissionInvariant, <1>2, <1>3, <1>4, PTL DEF CancelSettlesCommission, Spec
-----------------------------------------------------------------------------
(* What was accrued, while no rule is edited: as long as no two inserts of *)
(* one accrual are under way.                                              *)

\* No milestone is listed twice.
LEMMA MilestonesDistinct ==
    ASSUME NEW list \in MilestoneLists, NEW i \in DOMAIN list, NEW j \in DOMAIN list,
           list[i] = list[j]
    PROVE  i = j
  <1> DEFINE n == Len(list)
             N == 1 .. n
             T == {k \in N : \E h \in N : h < k /\ ~(list[h] < list[k])}
             level == [k \in N |-> 0]
  <1>1. \A k \in 2 .. Len(list) : list[k - 1] < list[k]
    BY CommissionAssumption
  <1>2. n \in Nat /\ DOMAIN list = N /\ \A k \in N : list[k] \in Nat
    <2> DEFINE P == 1 .. 100
    <2>1. list \in Seq(P) /\ P \subseteq Nat
      BY CommissionAssumption
    <2> HIDE DEF P
    <2>2. Len(list) \in Nat /\ DOMAIN list = 1 .. Len(list) /\ \A k \in 1 .. Len(list) : list[k] \in P
      BY <2>1
    <2> QED BY <2>1, <2>2
  <1>3. T = {}
    <2> SUFFICES ASSUME T # {} PROVE FALSE
      OBVIOUS
    <2>1. N \subseteq Int /\ IsFiniteSet(N) /\ level \in [N -> Int] /\ T \subseteq N
      BY <1>2, FS_Interval
    <2>2. HasFirst(T, level, N)
      <3> HIDE DEF N, T, level
      <3> QED BY <2>1, FirstOf
    <2>3. PICK k \in T : T \cap Ahead(level, N, k) = {}
      <3> HIDE DEF N, T, level
      <3> QED BY <2>2 DEF HasFirst
    <2>4. \A h \in T : ~(h < k)
      BY <1>2, <2>1, <2>3 DEF Ahead
    <2>5. PICK h \in N : h < k /\ ~(list[h] < list[k])
      OBVIOUS
    <2>6. k - 1 \in N /\ k \in 2 .. n /\ k \in N
      BY <1>2, <2>5
    <2>7. list[k - 1] < list[k] /\ list[k - 1] \in Nat /\ list[k] \in Nat /\ list[h] \in Nat
      BY <1>1, <1>2, <2>6
    <2>8. h # k - 1
      BY <2>5, <2>7
    <2>9. h < k - 1
      BY <1>2, <2>5, <2>6, <2>8
    <2>10. k - 1 \notin T
      <3>1. k - 1 < k
        BY <1>2, <2>6
      <3> HIDE DEF T
      <3> QED BY <2>4, <3>1
    <2>11. list[h] < list[k - 1]
      BY <2>6, <2>9, <2>10
    <2> QED BY <2>5, <2>7, <2>11
  <1>4. \A h, k \in N : h < k => list[h] < list[k]
    BY <1>3
  <1> HIDE DEF T, level, N
  <1>5. i \in N /\ j \in N /\ i \in Int /\ j \in Int
    BY <1>2 DEF N
  <1>6. i < j \/ j < i \/ i = j
    BY <1>5
  <1> QED BY <1>2, <1>4, <1>5, <1>6

\* What a rule in force has to post.
Due ==
    IF trigger = "ON_BOOKING" THEN {[m |-> OnBooking, share |-> Total]}
    ELSE {[m |-> milestones[i], share |-> Share(milestones, i, Total)] : i \in DOMAIN milestones}

\* The shares of the milestones that were accrued for b.
SharesOf(b) ==
    [i \in DOMAIN milestones |->
        IF accrued[b][milestones[i]] = 0 THEN 0 ELSE Share(milestones, i, Total)]

AccruedShare(b) ==
    IF trigger = "ON_BOOKING" THEN (IF accrued[b][OnBooking] = 0 THEN 0 ELSE Total)
    ELSE Sigma(SharesOf(b))

Accounted(b) ==
    /\ snapshot[b] = NULL => \A m \in Percents : accrued[b][m] = 0
    /\ \A m \in Percents : accrued[b][m] \in {0, 1}
    /\ ledger[b]["ACCRUAL"] = AccruedShare(b)

Carries(t) ==
    /\ pc[t] \in {"check", "insert"} =>
          /\ snapshot[args[t].booking] = Total
          /\ \A k \in DOMAIN args[t].todo : args[t].todo[k] \in Due
    /\ pc[t] = "insert" => accrued[args[t].booking][Todo(t).m] = 0

AccrualInv == (\A b \in Bookings : Accounted(b)) /\ (\A t \in Txs : Carries(t))

\* A snapshot is not NULL.
LEMMA TotalIs == Total \in Nat \ {0} /\ Total # NULL
  BY CommissionAssumption

\* Facts about the list of a rule in force.
LEMMA ListIs ==
    ASSUME milestones \in MilestoneLists
    PROVE  /\ DOMAIN milestones = 1 .. Len(milestones) /\ Len(milestones) \in Nat
           /\ IsFiniteSet(DOMAIN milestones)
           /\ \A i \in DOMAIN milestones : /\ milestones[i] \in Percents
                                           /\ Share(milestones, i, Total) \in Nat
  <1>1. DOMAIN milestones = 1 .. Len(milestones) /\ Len(milestones) \in Nat
    BY CommissionAssumption
  <1>2. IsFiniteSet(DOMAIN milestones)
    BY <1>1, FS_Interval
  <1>3. ASSUME NEW i \in DOMAIN milestones
        PROVE  milestones[i] \in Percents /\ Share(milestones, i, Total) \in Nat
    <2>1. milestones # <<>>
      BY <1>1
    <2>2. Shares(milestones, Total)[i] \in Nat
      BY <2>1, TotalIs, SharesPartition
    <2>3. milestones[i] \in Percents
      BY DEF Percents, ToSet
    <2> QED BY <2>2, <2>3 DEF Shares
  <1> QED BY <1>1, <1>2, <1>3

\* Accounted implies the property.
LEMMA AccountedWithin ==
    ASSUME CommissionType, AccrualInv PROVE AccruedWithinSnapshot
  <1> SUFFICES ASSUME NEW b \in Bookings
               PROVE  /\ \A m \in Percents : accrued[b][m] <= 1
                      /\ ledger[b]["ACCRUAL"] <= (IF snapshot[b] = NULL THEN 0 ELSE snapshot[b])
    BY DEF AccruedWithinSnapshot
  <1>1. Accounted(b) /\ milestones \in MilestoneLists /\ snapshot[b] \in {NULL, Total}
    BY DEF AccrualInv, CommissionType
  <1>2. \A m \in Percents : accrued[b][m] <= 1
    BY <1>1 DEF Accounted
  <1> DEFINE f == SharesOf(b)
             g == Shares(milestones, Total)
  <1>3. \A i \in DOMAIN milestones :
           /\ g[i] \in Nat /\ f[i] \in {0, g[i]}
           /\ snapshot[b] = NULL => f[i] = 0
    BY <1>1, ListIs DEF SharesOf, Shares, Accounted
  <1>4. f = [i \in DOMAIN milestones |-> f[i]] /\ g = [i \in DOMAIN milestones |-> g[i]]
    BY DEF SharesOf, Shares
  <1> HIDE DEF f, g
  <1>5. /\ f \in [DOMAIN milestones -> Int] /\ g \in [DOMAIN milestones -> Int]
        /\ \A i \in DOMAIN milestones : f[i] <= g[i]
    BY <1>3, <1>4
  <1>6. Sigma(f) <= Sigma(g)
    BY <1>1, <1>5, ListIs, SigmaMono
  <1>7. Sigma(g) <= Total
    <2>1. CASE milestones = <<>>
      <3>1. DOMAIN milestones = {}
        BY <2>1
      <3>2. Sigma(g) = 0
        BY <1>4, <3>1, SigmaEmpty
      <3> QED BY <3>2, TotalIs
    <2>2. CASE milestones # <<>>
      BY <1>1, <2>2, TotalIs, SharesPartition DEF g
    <2> QED BY <2>1, <2>2
  <1>8. snapshot[b] = NULL => Sigma(f) = 0
    BY <1>1, <1>3, <1>5, ListIs, SigmaZero
  <1>9. Sigma(f) \in Int /\ Sigma(g) \in Int
    BY <1>1, <1>5, ListIs, SigmaType
  <1>10. AccruedShare(b) <= (IF snapshot[b] = NULL THEN 0 ELSE snapshot[b])
    <2>1. CASE trigger = "ON_BOOKING"
      <3>1. OnBooking \in Percents
        BY DEF Percents
      <3> QED BY <1>1, <2>1, <3>1, TotalIs DEF AccruedShare, Accounted
    <2>2. CASE trigger # "ON_BOOKING"
      BY <1>1, <1>6, <1>7, <1>8, <1>9, <2>2, TotalIs DEF AccruedShare, f
    <2> QED BY <2>1, <2>2
  <1> QED BY <1>1, <1>2, <1>10 DEF Accounted

\* What is accounted stays so if nothing is accrued.
LEMMA AccountedKept ==
    ASSUME AccrualInv, UNCHANGED <<trigger, milestones, accrued>>,
           \A b \in Bookings : /\ ledger'[b]["ACCRUAL"] = ledger[b]["ACCRUAL"]
                               /\ snapshot'[b] # NULL \/ snapshot'[b] = snapshot[b]
    PROVE  \A b \in Bookings : Accounted(b)'
  <1> SUFFICES ASSUME NEW b \in Bookings PROVE Accounted(b)'
    OBVIOUS
  <1>1. SharesOf(b)' = SharesOf(b)
    BY DEF SharesOf
  <1>2. AccruedShare(b)' = AccruedShare(b)
    BY <1>1 DEF AccruedShare
  <1>3. Accounted(b)
    BY DEF AccrualInv
  <1>4. accrued' = accrued
    OBVIOUS
  <1>5. ledger'[b]["ACCRUAL"] = ledger[b]["ACCRUAL"]
    OBVIOUS
  <1>6. snapshot'[b] = NULL => snapshot[b] = NULL
    OBVIOUS
  <1> QED BY <1>2, <1>3, <1>4, <1>5, <1>6 DEF Accounted

\* Of the milestones left after the first, all are due.
LEMMA TailDue ==
    ASSUME NEW t \in Txs, Accrues(args[t]), args[t].todo # <<>>,
           \A k \in DOMAIN args[t].todo : args[t].todo[k] \in Due
    PROVE  LET rest == Tail(args[t].todo) IN \A k \in DOMAIN rest : rest[k] \in Due
  <1>1. PICK s : s = args[t].todo
    OBVIOUS
  <1>2. s \in Seq(Todos) /\ s # <<>>
    BY <1>1 DEF Accrues, Todos
  <1>3. \A k \in DOMAIN Tail(s) : Tail(s)[k] = s[k + 1] /\ k + 1 \in DOMAIN s
    BY <1>2
  <1> QED BY <1>1, <1>3

\* A handler that did not move carries what it carried, unless its accrual was made.
LEMMA CarriesKept ==
    ASSUME CommissionInv, AccrualInv, NEW s \in Txs, Unmoved(s), UNCHANGED <<trigger, milestones>>,
           \A b \in Bookings : snapshot[b] = Total => snapshot'[b] = Total,
           pc[s] = "insert" => accrued'[args[s].booking][Todo(s).m] = 0
    PROVE  Carries(s)'
  <1>1. Carries(s) /\ Fits(s) /\ pc'[s] = pc[s] /\ args'[s] = args[s]
    BY DEF AccrualInv, CommissionInv, Unmoved
  <1>2. Due' = Due /\ Todo(s)' = Todo(s)
    BY <1>1 DEF Due, Todo
  <1>3. pc[s] \in {"check", "insert"} => args[s].booking \in Bookings
    BY <1>1 DEF Fits, Accrues
  <1>4. pc[s] \in {"check", "insert"} => snapshot'[args'[s].booking] = Total
    BY <1>1, <1>3 DEF Carries
  <1>5. pc[s] \in {"check", "insert"} => \A k \in DOMAIN args'[s].todo : args'[s].todo[k] \in Due
    BY <1>1 DEF Carries
  <1>6. pc[s] = "insert" => accrued'[args'[s].booking][Todo(s)'.m] = 0
    BY <1>1, <1>2
  <1> QED BY <1>1, <1>2, <1>4, <1>5, <1>6 DEF Carries

\* Steps of t in which nothing is accrued: only what t carries afterwards matters.
LEMMA NoAccrual ==
    ASSUME CommissionInv, AccrualInv, NEW t \in Txs, Moved(t),
           UNCHANGED <<trigger, milestones, accrued>>,
           \A b \in Bookings : /\ ledger'[b]["ACCRUAL"] = ledger[b]["ACCRUAL"]
                               /\ snapshot'[b] # NULL \/ snapshot'[b] = snapshot[b]
                               /\ snapshot[b] = Total => snapshot'[b] = Total,
           pc'[t] \in {"check", "insert"} => Carries(t)'
    PROVE  AccrualInv'
  <1>1. \A b \in Bookings : Accounted(b)'
    BY AccountedKept
  <1>2. ASSUME NEW s \in Txs \ {t} PROVE Carries(s)'
    <2>1. Unmoved(s) /\ Carries(s)
      BY DEF Moved, AccrualInv
    <2>2. pc[s] = "insert" => accrued'[args[s].booking][Todo(s).m] = 0
      BY <2>1 DEF Carries
    <2> QED BY <2>1, <2>2, CarriesKept
  <1>3. Carries(t)'
    BY DEF Carries
  <1> QED BY <1>1, <1>2, <1>3 DEF AccrualInv

\* accrueForBooking carries what is due.
LEMMA AccrualReads ==
    ASSUME CommissionInv, AccrualInv, NEW t \in Txs, NEW b \in Bookings, accrueForBooking(t, b)
    PROVE  pc'[t] = "check" /\ Carries(t)'
  <1>1. CommissionType /\ milestones \in MilestoneLists
    BY DEF CommissionInv, CommissionType
  <1>2. PICK todo : todo = Pending(snapshot'[b])
    OBVIOUS
  <1> DEFINE a == [booking |-> b, collected |-> collected[b], todo |-> todo]
  <1>3. /\ snapshot' = [snapshot EXCEPT ![b] = IF @ = NULL THEN Total ELSE @]
        /\ Start(t, "check", a)
        /\ UNCHANGED <<trigger, milestones>>
    BY <1>2 DEF accrueForBooking, config
  <1>4. snapshot'[b] = Total
    BY <1>1, <1>3, TotalIs DEF CommissionType
  <1>5. a.booking = b /\ a.todo = todo
    OBVIOUS
  <1> HIDE DEF a
  <1>6. pc'[t] = "check" /\ args'[t] = a
    BY <1>1, <1>3, Starts DEF Steps
  <1>7. \A k \in DOMAIN todo : todo[k] \in Due
    <2>1. todo = Pending(Total)
      BY <1>2, <1>4
    <2>2. CASE trigger = "ON_BOOKING"
      BY <2>1, <2>2 DEF Pending, Due
    <2>3. CASE trigger # "ON_BOOKING"
      BY <2>1, <2>3 DEF Pending, Due
    <2> QED BY <2>2, <2>3
  <1>8. Due' = Due
    BY <1>3 DEF Due
  <1>9. snapshot'[args'[t].booking] = Total
    BY <1>4, <1>5, <1>6
  <1>10. \A k \in DOMAIN args'[t].todo : args'[t].todo[k] \in Due
    BY <1>5, <1>6, <1>7
  <1> QED BY <1>6, <1>8, <1>9, <1>10 DEF Carries

\* AccrueCheck goes on to the insert only where nothing was accrued.
LEMMA AccrualLooks ==
    ASSUME CommissionInv, AccrualInv, NEW t \in Txs, AccrueCheck(t)
    PROVE  pc'[t] \in {"check", "insert"} => Carries(t)'
  <1>1. CommissionType /\ Accrues(args[t]) /\ Carries(t) /\ pc[t] = "check"
    BY DEF CommissionInv, Fits, AccrueCheck, AccrualInv
  <1>2. UNCHANGED <<trigger, milestones, snapshot, accrued>>
    BY DEF AccrueCheck, config, books
  <1>3. Due' = Due
    BY <1>2 DEF Due
  <1>4. CASE Finish(t)
    BY <1>1, <1>4, Finishes
  <1>5. CASE Advance(t) /\ args[t].todo # <<>>
    <2>1. /\ pc'[t] = "check"
          /\ args'[t].booking = args[t].booking /\ args'[t].todo = Tail(args[t].todo)
      BY <1>1, <1>5, Advances
    <2>2. \A k \in DOMAIN args'[t].todo : args'[t].todo[k] \in Due
      BY <1>1, <1>5, <2>1, TailDue DEF Carries
    <2>3. snapshot'[args'[t].booking] = Total
      BY <1>1, <1>2, <2>1 DEF Carries
    <2> QED BY <1>3, <2>1, <2>2, <2>3 DEF Carries
  <1>6. CASE /\ pc' = [pc EXCEPT ![t] = "insert"] /\ UNCHANGED args /\ args[t].todo # <<>>
             /\ ~(accrued[args[t].booking][Todo(t).m] > 0)
    <2>1. PICK b, m : b = args[t].booking /\ m = Todo(t).m
      OBVIOUS
    <2>2. args[t].todo \in Seq(Todos) /\ b \in Bookings
      BY <1>1, <2>1 DEF Accrues, Todos
    <2>3. Todo(t) \in Todos
      BY <1>6, <2>2 DEF Todo
    <2>4. m \in Percents
      BY <2>1, <2>3 DEF Todos
    <2>5. accrued[b][m] = 0
      BY <1>1, <1>6, <2>1, <2>2, <2>4 DEF CommissionType
    <2>6. Todo(t)' = Todo(t) /\ args'[t] = args[t]
      BY <1>6 DEF Todo
    <2>7. accrued'[args'[t].booking][Todo(t)'.m] = 0
      BY <1>2, <2>1, <2>5, <2>6
    <2> QED BY <1>1, <1>2, <1>3, <2>6, <2>7 DEF Carries
  <1> QED BY <1>4, <1>5, <1>6 DEF AccrueCheck

\* AccrueInsert adds one share to what was accrued.
LEMMA AccrualPosts ==
    ASSUME InsertsApart, CommissionInv, AccrualInv, NEW t \in Txs, AccrueInsert(t)
    PROVE  AccrualInv'
  <1>1. /\ CommissionType /\ Accrues(args[t]) /\ Carries(t) /\ pc[t] = "insert"
        /\ args[t].todo # <<>> /\ milestones \in MilestoneLists
    BY DEF CommissionInv, CommissionType, Fits, AccrueInsert, AccrualInv
  <1>2. PICK b, r : b = args[t].booking /\ r = Todo(t)
    OBVIOUS
  <1>3. /\ b \in Bookings /\ Posted(b) /\ r \in [m : Percents, share : Nat]
        /\ ledger'[b]["ACCRUAL"] = ledger[b]["ACCRUAL"] + r.share
    BY <1>2, InsertPosts
  <1>4. PICK m \in Percents, n \in Nat : m = r.m /\ n = r.share
    BY <1>3
  <1>5. /\ accrued' = [accrued EXCEPT ![b][m] = @ + 1] /\ Advance(t)
        /\ UNCHANGED <<trigger, milestones, snapshot>>
    BY <1>2, <1>4 DEF AccrueInsert, config
  <1>6. accrued[b][m] = 0 /\ snapshot[b] = Total
    BY <1>1, <1>2, <1>4 DEF Carries
  <1>7. accrued \in [Bookings -> [Percents -> Nat]]
    BY <1>1 DEF CommissionType
  <1>8. /\ accrued'[b][m] = 1 /\ \A k \in Percents \ {m} : accrued'[b][k] = accrued[b][k]
        /\ \A c \in Bookings \ {b} : accrued'[c] = accrued[c]
    BY <1>3, <1>5, <1>6, <1>7
  <1>9. /\ pc'[t] = "check"
        /\ args'[t].booking = b /\ args'[t].todo = Tail(args[t].todo)
    BY <1>1, <1>2, <1>5, Advances
  <1>10. r \in Due
    <2>1. args[t].todo \in Seq(Todos)
      BY <1>1 DEF Accrues, Todos
    <2>2. 1 \in DOMAIN args[t].todo /\ Todo(t) = args[t].todo[1]
      BY <1>1, <2>1 DEF Todo
    <2> QED BY <1>1, <1>2, <2>2 DEF Carries
  <1>11. Due' = Due
    BY <1>5 DEF Due
  <1>12. Carries(t)'
    <2>1. \A k \in DOMAIN args'[t].todo : args'[t].todo[k] \in Due
      BY <1>1, <1>9, TailDue DEF Carries
    <2>2. snapshot'[args'[t].booking] = Total
      BY <1>5, <1>6, <1>9
    <2> QED BY <1>9, <1>11, <2>1, <2>2 DEF Carries
  <1>13. AccruedShare(b)' = AccruedShare(b) + n
    <2>1. CASE trigger = "ON_BOOKING"
      <3>1. r = [m |-> OnBooking, share |-> Total]
        BY <1>10, <2>1 DEF Due
      <3>2. m = OnBooking /\ n = Total
        BY <1>4, <3>1
      <3>3. AccruedShare(b) = 0 /\ AccruedShare(b)' = Total
        BY <1>5, <1>6, <1>8, <2>1, <3>2 DEF AccruedShare
      <3> QED BY <3>2, <3>3, TotalIs
    <2>2. CASE trigger # "ON_BOOKING"
      <3>1. PICK i \in DOMAIN milestones :
                 r = [m |-> milestones[i], share |-> Share(milestones, i, Total)]
        BY <1>10, <2>2 DEF Due
      <3>2. m = milestones[i] /\ n = Share(milestones, i, Total)
        BY <1>4, <3>1
      <3> DEFINE f == SharesOf(b)
                 g == [j \in DOMAIN milestones |->
                         IF accrued'[b][milestones[j]] = 0 THEN 0 ELSE Share(milestones, j, Total)]
      <3>3. f[i] = 0 /\ g[i] = n
        BY <1>6, <1>8, <3>2 DEF SharesOf
      <3>4. ASSUME NEW j \in DOMAIN milestones, j # i
            PROVE  g[j] = f[j]
        <4>1. milestones[j] # m /\ milestones[j] \in Percents
          BY <1>1, <3>2, <3>4, ListIs, MilestonesDistinct
        <4> QED BY <1>8, <4>1 DEF SharesOf
      <3>5. /\ f = [j \in DOMAIN milestones |-> f[j]] /\ g = [j \in DOMAIN milestones |-> g[j]]
            /\ \A j \in DOMAIN milestones : f[j] \in Nat /\ g[j] \in Nat
        BY <1>1, ListIs DEF SharesOf
      <3>6. AccruedShare(b) = Sigma(f) /\ AccruedShare(b)' = Sigma(g)
        BY <1>5, <2>2 DEF AccruedShare, SharesOf
      <3> HIDE DEF f, g
      <3>7. f \in [DOMAIN milestones -> Int] /\ g \in [DOMAIN milestones -> Int]
        BY <3>5
      <3>8. Sigma(g) = Sigma(f) + g[i] - f[i]
        BY <1>1, <3>4, <3>7, ListIs, SigmaChange
      <3>9. Sigma(f) \in Int
        BY <1>1, <3>7, ListIs, SigmaType
      <3> QED BY <3>3, <3>6, <3>8, <3>9
    <2> QED BY <2>1, <2>2
  <1>14. Accounted(b)'
    <2>1. Accounted(b)
      BY <1>3 DEF AccrualInv
    <2>2. \A k \in Percents : accrued'[b][k] \in {0, 1}
      BY <1>8, <2>1 DEF Accounted
    <2>3. snapshot'[b] # NULL
      BY <1>5, <1>6, TotalIs
    <2>4. ledger'[b]["ACCRUAL"] = AccruedShare(b)'
      BY <1>3, <1>4, <1>13, <2>1 DEF Accounted
    <2> QED BY <2>2, <2>3, <2>4 DEF Accounted
  <1>15. ASSUME NEW c \in Bookings, c # b PROVE Accounted(c)'
    <2>1. Accounted(c)
      BY DEF AccrualInv
    <2>2. accrued'[c] = accrued[c] /\ ledger'[c] = ledger[c]
      BY <1>3, <1>8, <1>15 DEF Posted
    <2>3. SharesOf(c)' = SharesOf(c)
      BY <1>5, <2>2 DEF SharesOf
    <2>4. AccruedShare(c)' = AccruedShare(c)
      BY <1>5, <2>2, <2>3 DEF AccruedShare
    <2> QED BY <1>5, <2>1, <2>2, <2>4 DEF Accounted
  <1>16. ASSUME NEW s \in Txs \ {t} PROVE Carries(s)'
    <2>1. Moved(t)
      BY CommitsAre DEF Commits
    <2>2. Unmoved(s) /\ Carries(s) /\ Fits(s)
      BY <2>1 DEF Moved, AccrualInv, CommissionInv
    <2>3. ASSUME pc[s] = "insert" PROVE accrued'[args[s].booking][Todo(s).m] = 0
      <3>1. PICK c, k : c = args[s].booking /\ k = Todo(s).m
        OBVIOUS
      <3>2. args[s].todo \in Seq(Todos) /\ args[s].todo # <<>> /\ c \in Bookings
        BY <2>2, <2>3, <3>1 DEF Fits, Accrues, Todos
      <3>3. Todo(s) \in Todos
        BY <3>2 DEF Todo
      <3>4. k \in Percents
        BY <3>1, <3>3 DEF Todos
      <3>5. accrued[c][k] = 0
        BY <2>2, <2>3, <3>1 DEF Carries
      <3>6. ~(c = b /\ k = m)
        BY <1>1, <1>2, <1>4, <2>3, <3>1 DEF InsertsApart
      <3> QED BY <1>8, <3>1, <3>2, <3>4, <3>5, <3>6
    <2> QED BY <1>5, <2>2, <2>3, CarriesKept
  <1> QED BY <1>12, <1>14, <1>15, <1>16 DEF AccrualInv

\* Every step keeps what is accounted.
LEMMA AccrualStep ==
    ASSUME InsertsApart, "updateRule" \notin Ops, CommissionInv, AccrualInv, [Next]_vars
    PROVE  AccrualInv'
  <1>1. CommissionType
    BY DEF CommissionInv
  <1>2. CASE Others
    <2>1. /\ Quiet /\ UNCHANGED <<snapshot, pc, args, milestones>>
          /\ accrued' = accrued /\ ledger' = ledger /\ trigger' = trigger
      BY <1>2, OthersAre, QuietKeeps
    <2>2. \A b \in Bookings : Accounted(b)'
      BY <2>1, AccountedKept
    <2>3. ASSUME NEW s \in Txs PROVE Carries(s)'
      <3>1. Unmoved(s) /\ Carries(s)
        BY <2>1 DEF Unmoved, AccrualInv
      <3>2. pc[s] = "insert" => accrued'[args[s].booking][Todo(s).m] = 0
        BY <2>1, <3>1 DEF Carries
      <3> QED BY <2>1, <3>1, <3>2, CarriesKept
    <2> QED BY <2>2, <2>3 DEF AccrualInv
  <1>3. ASSUME NEW t \in Txs, Reads(t) PROVE AccrualInv'
    <2>1. /\ Moved(t) /\ milestones' = milestones
          /\ accrued' = accrued /\ ledger' = ledger /\ trigger' = trigger
          /\ \A b \in Bookings : /\ snapshot'[b] # NULL \/ snapshot'[b] = snapshot[b]
                                 /\ snapshot[b] = Total => snapshot'[b] = Total
      BY <1>3, ReadsAre, QuietKeeps
    <2>2. pc'[t] \in {"check", "insert"} => Carries(t)'
      <3>1. CASE \E b \in Bookings : accrueForBooking(t, b)
        BY <3>1, AccrualReads
      <3>2. CASE AccrueCheck(t)
        BY <3>2, AccrualLooks
      <3>3. CASE \E p \in Payments, s \in {"APPROVED", "REJECTED"} : decidePayment(t, p, s)
        BY <1>1, <3>3, Starts DEF decidePayment, Steps
      <3>4. CASE \E p \in Payments : pay(t, p)
        BY <1>1, <3>4, Starts DEF pay, StartPay, Steps
      <3>5. CASE \E b \in Bookings : cancelBooking(t, b)
        BY <1>1, <3>5, Starts DEF cancelBooking, Steps
      <3>6. CASE Clawback(t)
        BY <1>1, <3>6, ClawbackIs
      <3> QED BY <1>3, <3>1, <3>2, <3>3, <3>4, <3>5, <3>6 DEF Reads
    <2> QED BY <2>1, <2>2, NoAccrual
  <1>4. ASSUME NEW t \in Txs, AccrueInsert(t) PROVE AccrualInv'
    BY <1>4, AccrualPosts
  <1>5. ASSUME NEW t \in Txs, CommitDecision(t) \/ CommitPay(t) \/ CommitCancel(t)
        PROVE  AccrualInv'
    <2>1. Moved(t) /\ UNCHANGED <<trigger, milestones, snapshot, accrued>>
      BY <1>5, CommitsAre DEF Commits, config, CommitDecision, CommitPay, CommitCancel, books
    <2>2. pc'[t] = "idle"
      BY <1>1, <1>5, Finishes DEF CommitDecision, CommitPay, CommitCancel
    <2>3. \A b \in Bookings : ledger'[b]["ACCRUAL"] = ledger[b]["ACCRUAL"]
      <3>1. CASE CommitDecision(t)
        BY <3>1 DEF CommitDecision, books
      <3>2. CASE CommitPay(t)
        BY <3>2, PayPosts
      <3>3. CASE CommitCancel(t)
        <4>1. PICK c : c = args[t].booking
          OBVIOUS
        <4> QED BY <3>3, <4>1, CancelPosts DEF Posted
      <3> QED BY <1>5, <3>1, <3>2, <3>3
    <2> QED BY <2>1, <2>2, <2>3, NoAccrual
  <1> QED BY <1>2, <1>3, <1>4, <1>5, NextIs DEF Commits

\* It holds at the start.
LEMMA AccrualInitial == Init => AccrualInv
  <1> SUFFICES ASSUME Init PROVE AccrualInv
    OBVIOUS
  <1>1. milestones \in MilestoneLists
    BY DEF Init
  <1>2. ASSUME NEW b \in Bookings PROVE Accounted(b)
    <2>1. \A m \in Percents : accrued[b][m] = 0
      BY DEF Init
    <2>2. ledger[b]["ACCRUAL"] = 0
      BY DEF Init, EntryType
    <2> DEFINE f == SharesOf(b)
    <2>3. f = [i \in DOMAIN milestones |-> f[i]] /\ \A i \in DOMAIN milestones : f[i] = 0
      BY <1>1, <2>1, ListIs DEF SharesOf
    <2> HIDE DEF f
    <2>4. f \in [DOMAIN milestones -> Int]
      BY <2>3
    <2>5. Sigma(f) = 0
      BY <1>1, <2>3, <2>4, ListIs, SigmaZero
    <2>6. OnBooking \in Percents
      BY DEF Percents
    <2>7. AccruedShare(b) = 0
      BY <2>1, <2>5, <2>6 DEF AccruedShare, f
    <2> QED BY <2>1, <2>2, <2>7 DEF Accounted
  <1>3. \A t \in Txs : Carries(t)
    BY DEF Init, Carries
  <1> QED BY <1>2, <1>3 DEF AccrualInv

\* Repeating accrueForBooking posts a milestone at most once, and all accruals of a
\* booking stay within its snapshot, for any lists of milestones and any trigger, as
\* long as no two handlers are about to insert one accrual and no rule in use is
\* edited; any number of handlers may accrue the same booking (accrueOnMilestones).
THEOREM AccruedWithinSnapshotHolds ==
    ASSUME "updateRule" \notin Ops
    PROVE  Spec /\ []InsertsApart => []AccruedWithinSnapshot
  <1>1. InsertsApart /\ CommissionInv /\ AccrualInv /\ [Next]_vars => AccrualInv'
    BY AccrualStep
  <1>2. CommissionInv /\ AccrualInv => AccruedWithinSnapshot
    BY AccountedWithin DEF CommissionInv
  <1> QED BY CommissionInvariant, AccrualInitial, <1>1, <1>2, PTL DEF Spec
===============================================================================
