------------------------------ MODULE JobProofs ------------------------------
(***************************************************************************)
(* What is done in the background or for many bookings at once, for any    *)
(* installments, stages, endpoints, deliveries, workers and leads: a day   *)
(* of delay interest is charged once, a stage falls due on one date, a     *)
(* disabled webhook stays disabled, and a lapsed follow-up is reported at  *)
(* most once.                                                              *)
(***************************************************************************)
EXTENDS MCSchedule, Webhooks, Escalation, SumFacts, TLAPS

-----------------------------------------------------------------------------
(* Delay interest.                                                         *)

LEMMA Spread == ASSUME NEW p \in Int, NEW a \in Int, NEW b \in Int, NEW c \in Int
                PROVE  p * (c - a) = p * (b - a) + p * (c - b)
  OBVIOUS

\* Rounding is off by half a unit at most (roundedDiv).
LEMMA RoundedNear ==
    ASSUME NEW n \in Nat, NEW d \in Nat \ {0}
    PROVE  /\ roundedDiv(n, d) \in Nat
           /\ 2 * (roundedDiv(n, d) * d - n) <= d /\ -2 * (roundedDiv(n, d) * d - n) <= d
  <1> DEFINE h == d \div 2
             q == (n + h) \div d
  <1>1. h \in Nat /\ 2 * h <= d /\ d <= 2 * h + 1
    OBVIOUS
  <1>2. n + h \in Nat
    BY <1>1
  <1>3. ASSUME NEW m \in Nat PROVE m \div d \in Nat /\ (m \div d) * d <= m /\ m < (m \div d) * d + d
    <2>1. /\ m \div d \in Nat /\ m % d \in Nat /\ m % d < d
          /\ m = d * (m \div d) + (m % d)
      OBVIOUS
    <2>2. PICK e \in Nat : e = m \div d
      BY <2>1
    <2>3. e * d = d * e /\ d * e \in Nat
      OBVIOUS
    <2> QED BY <2>1, <2>2, <2>3
  <1>4. q \in Nat /\ q * d <= n + h /\ n + h < q * d + d
    BY <1>2, <1>3
  <1>5. roundedDiv(n, d) = q
    BY DEF roundedDiv
  <1>6. PICK z \in Int : z = q * d
    BY <1>4
  <1> HIDE DEF h, q
  <1> QED BY <1>1, <1>4, <1>5, <1>6

\* One more value adds itself to the total.
LEMMA SumAppend ==
    ASSUME NEW n \in Nat, NEW f \in [1 .. n -> Int], NEW g \in [1 .. (n + 1) -> Int],
           \A k \in 1 .. n : g[k] = f[k]
    PROVE  SumSeq(g) = SumSeq(f) + g[n + 1]
  <1>1. IsFiniteSet(1 .. (n + 1))
    BY FS_Interval
  <1>2. Without(g, n + 1) = f
    <2>1. (1 .. (n + 1)) \ {n + 1} = 1 .. n
      OBVIOUS
    <2> QED BY <2>1 DEF Without
  <1>3. Sigma(g) = g[n + 1] + Sigma(f)
    BY <1>1, <1>2, SigmaRemove
  <1>4. SumSeq(f) = Sigma(f) /\ SumSeq(g) = Sigma(g)
    BY SumIsSigma
  <1>5. Sigma(f) \in Int
    BY SigmaType, FS_Interval
  <1> QED BY <1>3, <1>4, <1>5

LastEnd(i) == IF accruals[i] = <<>> THEN Due[i] ELSE accruals[i][Len(accruals[i])].end

\* What is committed for installment i: windows with days in them, none of which
\* ends after the last.
WindowsOf(i) ==
    /\ accruals[i] \in Seq(Accrual)
    /\ \A k \in DOMAIN accruals[i] :
          /\ accruals[i][k].start < accruals[i][k].end
          /\ accruals[i][k].end <= LastEnd(i)

\* A draft continues the committed windows and charges its days.
DraftOK(t, i) ==
    LET d == drafts[t][i] IN
    /\ d \in Accrual
    /\ d.start = Cursor(i) /\ d.start < d.end
    /\ d.accrued = Delta(d.principal, d.end - d.start)

\* What a run holds, and that nothing is held without one.
RunOK(t) ==
    /\ drafts[t] = [i \in Installments |-> drafts[t][i]]
    /\ todo[t] \subseteq Installments
    /\ asOf[t] = NULL => todo[t] = {} /\ \A i \in Installments : drafts[t][i] = NULL
    /\ asOf[t] # NULL => asOf[t] \in Nat
    /\ \A i \in todo[t] : rows[t][i] \in Int
    /\ \A i \in Installments : drafts[t][i] # NULL => DraftOK(t, i)

InterestInv ==
    /\ day \in Nat
    /\ allocated \in [Installments -> 0 .. Amount]
    /\ accruals = [i \in Installments |-> accruals[i]]
    /\ asOf = [t \in Txs |-> asOf[t]] /\ rows = [t \in Txs |-> rows[t]]
    /\ todo = [t \in Txs |-> todo[t]] /\ drafts = [t \in Txs |-> drafts[t]]
    /\ \A i \in Installments : WindowsOf(i)
    /\ \A t \in Txs : RunOK(t)
    /\ WindowsAreContiguous /\ RoundingStaysSmall

LEMMA SeqIs ==
    ASSUME NEW S, NEW s \in Seq(S)
    PROVE  Len(s) \in Nat /\ DOMAIN s = 1 .. Len(s) /\ \A k \in DOMAIN s : s[k] \in S
  OBVIOUS

LEMMA AccrualIs ==
    ASSUME NEW a \in Accrual
    PROVE  a.start \in Nat /\ a.end \in Nat /\ a.principal \in Nat /\ a.accrued \in Nat
  BY DEF Accrual

LEMMA CursorIsLastEnd ==
    ASSUME NEW i \in Installments, WindowsOf(i)
    PROVE  Cursor(i) = LastEnd(i) /\ Cursor(i) \in Nat
<1> DEFINE ends == {accruals[i][k].end : k \in DOMAIN accruals[i]}
           n == Len(accruals[i])
<1>1. CASE accruals[i] = <<>>
  <2>1. ends = {}
    BY <1>1
  <2> QED
    BY <1>1, <2>1, InterestAssumption DEF Cursor, LastEnd
<1>2. CASE accruals[i] # <<>>
  <2>1. n \in DOMAIN accruals[i] /\ accruals[i][n] \in Accrual
    BY <1>2 DEF WindowsOf
  <2>2. LastEnd(i) = accruals[i][n].end /\ LastEnd(i) \in Nat
    BY <1>2, <2>1 DEF LastEnd, Accrual
  <2>3. LastEnd(i) \in ends /\ ends # {}
    BY <2>1, <2>2
  <2>4. \A e \in ends : e \in Nat /\ LastEnd(i) >= e
    <3>1. \A k \in DOMAIN accruals[i] : accruals[i][k] \in Accrual
      BY SeqIs DEF WindowsOf
    <3> QED BY <2>2, <3>1, AccrualIs DEF WindowsOf
  <2>5. Cursor(i) = CHOOSE e \in ends : \A f \in ends : e >= f
    BY <2>3 DEF Cursor
  <2>6. Cursor(i) \in ends /\ \A f \in ends : Cursor(i) >= f
    <3> HIDE DEF ends
    <3> QED BY <2>3, <2>4, <2>5
  <2> HIDE DEF ends
  <2> QED
    BY <2>2, <2>3, <2>4, <2>6
<1> QED
  BY <1>1, <1>2

LEMMA AccruedSoFarNat ==
    ASSUME NEW i \in Installments, accruals[i] \in Seq(Accrual)
    PROVE  AccruedSoFar(i) \in Nat
<1> DEFINE n == Len(accruals[i])
           f == [k \in 1 .. n |-> accruals[i][k].accrued]
<1>1. n \in Nat /\ DOMAIN accruals[i] = 1 .. n /\ f \in [1 .. n -> Nat]
  BY SeqIs, AccrualIs
<1>2. AccruedSoFar(i) = SumSeq(f)
  BY <1>1 DEF AccruedSoFar
<1>3. f \in [1 .. n -> Int]
  BY <1>1
<1>6. IsFiniteSet(1 .. n)
  BY <1>1, FS_Interval
<1> HIDE DEF f, n
<1>4. SumSeq(f) = Sigma(f)
  BY <1>1, <1>3, SumIsSigma
<1>5. Sigma(f) \in Nat
  BY <1>1, <1>6, SigmaNat
<1> QED
  BY <1>2, <1>4, <1>5

LEMMA InterestInitOK == Init => InterestInv
<1> SUFFICES ASSUME Init PROVE InterestInv
  OBVIOUS
<1>1. \A i \in Installments : accruals[i] = <<>>
  BY DEF Init
<1>2. \A i \in Installments : WindowsOf(i)
  <2>1. <<>> \in Seq(Accrual) /\ DOMAIN <<>> = {}
    OBVIOUS
  <2> QED BY <1>1, <2>1 DEF WindowsOf
<1>3. \A t \in Txs : RunOK(t)
  BY DEF Init, RunOK
<1>4. WindowsAreContiguous
  BY <1>1 DEF WindowsAreContiguous
<1>5. RoundingStaysSmall
  <2>1. ASSUME NEW i \in Installments
        PROVE  AccruedSoFar(i) = 0 /\ Len(accruals[i]) = 0 /\ Cursor(i) = Due[i]
    <3> DEFINE f == [k \in {} |-> accruals[i][k].accrued]
    <3>1. f \in [1 .. 0 -> Int] /\ DOMAIN f = {} /\ DOMAIN accruals[i] = {}
      BY <1>1
    <3>2. SumSeq(f) = 0
      BY <3>1, SumIsSigma, SigmaEmpty
    <3>3. AccruedSoFar(i) = 0
      BY <3>1, <3>2 DEF AccruedSoFar
    <3> QED BY <1>1, <1>2, <3>3, CursorIsLastEnd DEF LastEnd
  <2>2. \A i \in Installments : Due[i] \in Nat
    BY InterestAssumption
  <2> QED BY <2>1, <2>2, InterestAssumption DEF RoundingStaysSmall
<1> QED
  BY <1>2, <1>3, <1>4, <1>5, InterestAssumption DEF InterestInv, Init

-----------------------------------------------------------------------------
\* A step that leaves the committed accruals as they are.
LEMMA CommittedKept ==
    ASSUME UNCHANGED <<accruals, compound>>, NEW i \in Installments
    PROVE  /\ Cursor(i)' = Cursor(i) /\ LastEnd(i)' = LastEnd(i)
           /\ WindowsOf(i) => WindowsOf(i)'
  BY DEF Cursor, LastEnd, WindowsOf

LEMMA PropertiesKept ==
    ASSUME UNCHANGED <<accruals, compound>>, WindowsAreContiguous, RoundingStaysSmall
    PROVE  WindowsAreContiguous' /\ RoundingStaysSmall'
<1>1. \A i \in Installments : Cursor(i)' = Cursor(i)
  BY CommittedKept
<1>2. \A i \in Installments : AccruedSoFar(i)' = AccruedSoFar(i)
  BY DEF AccruedSoFar
<1> QED
  BY <1>1, <1>2 DEF WindowsAreContiguous, RoundingStaysSmall

\* What a run t holds is as it was.
LEMMA RunKept ==
    ASSUME UNCHANGED <<accruals, compound>>, NEW t \in Txs, RunOK(t), asOf'[t] = asOf[t],
           rows'[t] = rows[t], todo'[t] = todo[t], drafts'[t] = drafts[t]
    PROVE  RunOK(t)'
  BY CommittedKept DEF RunOK, DraftOK, Delta

\* A run starts.
LEMMA AccrueKeeps ==
    ASSUME InterestInv, NEW t \in Txs, NEW d \in 0 .. day, accrue(t, d)
    PROVE  InterestInv'
<1>1. /\ asOf[t] = NULL /\ asOf' = [asOf EXCEPT ![t] = d]
      /\ rows' = [rows EXCEPT ![t] =
            [i \in Installments |-> IF Due[i] < d THEN Amount - allocated[i] ELSE NULL]]
      /\ todo' = [todo EXCEPT ![t] = {i \in Installments : Due[i] < d}]
      /\ UNCHANGED <<compound, day, allocated, accruals, interest, drafts>>
  BY DEF accrue
<1>2. RunOK(t)'
  <2>1. /\ asOf'[t] = d /\ todo'[t] = {i \in Installments : Due[i] < d} /\ drafts'[t] = drafts[t]
        /\ rows'[t] = [i \in Installments |-> IF Due[i] < d THEN Amount - allocated[i] ELSE NULL]
    BY <1>1 DEF InterestInv
  <2>2. d \in Nat /\ d # NULL
    BY InterestAssumption DEF InterestInv
  <2>3. \A i \in Installments : drafts[t][i] = NULL
    BY <1>1 DEF InterestInv, RunOK
  <2>4. drafts[t] = [i \in Installments |-> drafts[t][i]]
    BY DEF InterestInv, RunOK
  <2>5. ASSUME NEW i \in todo'[t] PROVE rows'[t][i] \in Int
    <3>1. Amount \in Int /\ allocated[i] \in Int
      BY <2>1, InterestAssumption DEF InterestInv
    <3> QED BY <2>1, <3>1
  <2> QED BY <2>1, <2>2, <2>3, <2>4, <2>5 DEF RunOK
<1>3. ASSUME NEW o \in Txs \ {t} PROVE RunOK(o)'
  BY <1>1, RunKept DEF InterestInv
<1> QED
  BY <1>1, <1>2, <1>3, CommittedKept, PropertiesKept DEF InterestInv

\* A run looks at one installment.
LEMMA AccrueOneKeeps ==
    ASSUME InterestInv, NEW t \in Txs, NEW i \in Installments, AccrueOne(t, i)
    PROVE  InterestInv'
<1> DEFINE days == asOf[t] - Cursor(i)
           base == Base(i, rows[t][i])
           delta == Delta(base, days)
           d == [start |-> Cursor(i), end |-> asOf[t], principal |-> base, accrued |-> delta]
<1>1. /\ i \in todo[t] /\ todo' = [todo EXCEPT ![t] = @ \ {i}]
      /\ drafts' = IF rows[t][i] > 0 /\ days > 0 /\ delta > 0
                   THEN [drafts EXCEPT ![t][i] = d] ELSE drafts
      /\ UNCHANGED <<compound, day, allocated, accruals, interest, asOf, rows>>
  BY DEF AccrueOne
<1>2. /\ asOf[t] # NULL /\ asOf[t] \in Nat /\ rows[t][i] \in Int
      /\ Cursor(i) \in Nat /\ AccruedSoFar(i) \in Nat
  BY <1>1, CursorIsLastEnd, AccruedSoFarNat DEF InterestInv, RunOK, WindowsOf
<1>3. ASSUME rows[t][i] > 0, days > 0, delta > 0
      PROVE  /\ d \in Accrual /\ d.start < d.end
             /\ d.accrued = Delta(d.principal, d.end - d.start)
  <2>1. base \in Nat
    BY <1>2, <1>3 DEF Base
  <2>2. days \in Nat
    BY <1>2, <1>3
  <2>3. base * Rate * days \in Nat
    <3>1. Rate \in Nat
      BY InterestAssumption
    <3> HIDE DEF base, days
    <3>2. base * Rate \in Nat
      BY <2>1, <3>1
    <3> QED BY <2>2, <3>2
  <2>4. delta \in Nat
    <3> HIDE DEF base, days
    <3> QED BY <2>3, RoundedNear, InterestAssumption DEF Delta
  <2>5. Cursor(i) < asOf[t]
    BY <1>2, <1>3
  <2> HIDE DEF base, delta
  <2> QED
    BY <1>2, <2>1, <2>4, <2>5 DEF Accrual, delta
<1>4. RunOK(t)'
  <2>1. todo'[t] = todo[t] \ {i} /\ asOf'[t] = asOf[t] /\ rows'[t] = rows[t]
    BY <1>1 DEF InterestInv
  <2>2. /\ drafts'[t] = [j \in Installments |-> drafts'[t][j]]
        /\ \A j \in Installments \ {i} : drafts'[t][j] = drafts[t][j]
        /\ \/ drafts'[t][i] = drafts[t][i]
           \/ rows[t][i] > 0 /\ days > 0 /\ delta > 0 /\ drafts'[t][i] = d
    <3>1. drafts = [s \in Txs |-> drafts[s]] /\ drafts[t] = [j \in Installments |-> drafts[t][j]]
      BY DEF InterestInv, RunOK
    <3> HIDE DEF d, days, delta
    <3> QED BY <1>1, <3>1
  <2>3. ASSUME NEW j \in Installments, drafts'[t][j] # NULL PROVE DraftOK(t, j)'
    <3>1. CASE drafts'[t][j] = drafts[t][j]
      <4>1. DraftOK(t, j)
        BY <2>3, <3>1 DEF InterestInv, RunOK
      <4> QED BY <1>1, <3>1, <4>1, CommittedKept DEF DraftOK, Delta
    <3>2. CASE j = i /\ rows[t][i] > 0 /\ days > 0 /\ delta > 0 /\ drafts'[t][i] = d
      <4>1. Cursor(i)' = Cursor(i)
        BY <1>1, CommittedKept
      <4>2. d.start = Cursor(i)
        OBVIOUS
      <4>3. DraftOK(t, i)' = LET e == drafts'[t][i] IN
                /\ e \in Accrual /\ e.start = Cursor(i)' /\ e.start < e.end
                /\ e.accrued = Delta(e.principal, e.end - e.start)
        BY DEF DraftOK, Delta
      <4> HIDE DEF d, days, delta
      <4> QED BY <1>3, <3>2, <4>1, <4>2, <4>3
    <3> QED BY <2>2, <3>1, <3>2
  <2> QED
    BY <1>2, <2>1, <2>2, <2>3 DEF InterestInv, RunOK
<1>5. ASSUME NEW o \in Txs \ {t} PROVE RunOK(o)'
  <2>1. drafts'[o] = drafts[o] /\ todo'[o] = todo[o]
    BY <1>1 DEF InterestInv
  <2> QED BY <1>1, <2>1, RunKept DEF InterestInv
<1>6. drafts' = [s \in Txs |-> drafts'[s]] /\ todo' = [s \in Txs |-> todo'[s]]
  BY <1>1 DEF InterestInv
<1> QED
  BY <1>1, <1>4, <1>5, <1>6, CommittedKept, PropertiesKept DEF InterestInv

\* WindowsAreContiguous and RoundingStaysSmall of one installment.
ContiguousAt(i) ==
    \A k \in DOMAIN accruals[i] :
        accruals[i][k].start = IF k = 1 THEN Due[i] ELSE accruals[i][k - 1].end

AllOnAmount(i) == ~compound /\ \A k \in 1 .. Len(accruals[i]) : accruals[i][k].principal = Amount

NearExact(i, n) ==
    LET error == AccruedSoFar(i) * Year - Amount * Rate * (Cursor(i) - Due[i])
    IN  2 * error <= Year * n /\ -2 * error <= Year * n

LEMMA PropertiesAre ==
    /\ WindowsAreContiguous <=> \A i \in Installments : ContiguousAt(i)
    /\ RoundingStaysSmall <=>
          \A i \in Installments : AllOnAmount(i) => NearExact(i, Len(accruals[i]))
  BY DEF WindowsAreContiguous, ContiguousAt, RoundingStaysSmall, AllOnAmount, NearExact

\* A draft is committed.
Appends(t, i) == accruals'[i] = Append(accruals[i], drafts[t][i]) /\ compound' = compound

LEMMA AppendedIs ==
    ASSUME NEW t \in Txs, NEW i \in Installments, WindowsOf(i), DraftOK(t, i), Appends(t, i)
    PROVE  /\ Len(accruals[i]) \in Nat /\ DOMAIN accruals[i] = 1 .. Len(accruals[i])
           /\ accruals'[i] \in Seq(Accrual) /\ accruals'[i] # <<>>
           /\ Len(accruals'[i]) = Len(accruals[i]) + 1
           /\ DOMAIN accruals'[i] = 1 .. (Len(accruals[i]) + 1)
           /\ \A k \in 1 .. Len(accruals[i]) : accruals'[i][k] = accruals[i][k]
           /\ accruals'[i][Len(accruals[i]) + 1] = drafts[t][i]
           /\ LastEnd(i)' = drafts[t][i].end
<1>1. accruals[i] \in Seq(Accrual) /\ drafts[t][i] \in Accrual
  BY DEF WindowsOf, DraftOK
<1>2. ASSUME NEW S, NEW s \in Seq(S), NEW x \in S
      PROVE  /\ Append(s, x) \in Seq(S) /\ Len(Append(s, x)) = Len(s) + 1
             /\ \A k \in 1 .. Len(s) : Append(s, x)[k] = s[k]
             /\ Append(s, x)[Len(s) + 1] = x
             /\ Len(s) \in Nat /\ DOMAIN s = 1 .. Len(s)
  OBVIOUS
<1>3. /\ accruals'[i] \in Seq(Accrual) /\ Len(accruals'[i]) = Len(accruals[i]) + 1
      /\ \A k \in 1 .. Len(accruals[i]) : accruals'[i][k] = accruals[i][k]
      /\ accruals'[i][Len(accruals[i]) + 1] = drafts[t][i]
      /\ Len(accruals[i]) \in Nat /\ DOMAIN accruals[i] = 1 .. Len(accruals[i])
  BY <1>1, <1>2 DEF Appends
<1>4. DOMAIN accruals'[i] = 1 .. (Len(accruals[i]) + 1)
  BY <1>3, SeqIs
<1>5. accruals'[i] # <<>>
  BY <1>3
<1> QED
  BY <1>3, <1>4, <1>5 DEF LastEnd

LEMMA AppendedWindows ==
    ASSUME NEW t \in Txs, NEW i \in Installments, WindowsOf(i), DraftOK(t, i), Appends(t, i),
           ContiguousAt(i)
    PROVE  WindowsOf(i)' /\ ContiguousAt(i)' /\ Cursor(i)' = drafts[t][i].end
<1> DEFINE n == Len(accruals[i])
           d == drafts[t][i]
<1>1. /\ n \in Nat /\ DOMAIN accruals[i] = 1 .. n
      /\ accruals'[i] \in Seq(Accrual) /\ accruals'[i] # <<>>
      /\ DOMAIN accruals'[i] = 1 .. (n + 1)
      /\ \A k \in 1 .. n : accruals'[i][k] = accruals[i][k]
      /\ accruals'[i][n + 1] = d /\ LastEnd(i)' = d.end
  BY AppendedIs
<1>2. /\ Cursor(i) = LastEnd(i) /\ LastEnd(i) \in Nat
      /\ d.start = LastEnd(i) /\ d.start < d.end /\ d.end \in Nat
  BY CursorIsLastEnd, AccrualIs DEF DraftOK
<1>3. \A k \in 1 .. n : /\ accruals[i][k].start < accruals[i][k].end
                        /\ accruals[i][k].end <= LastEnd(i) /\ accruals[i][k].end \in Nat
  BY <1>1, SeqIs, AccrualIs DEF WindowsOf
<1>4. WindowsOf(i)'
  <2>1. ASSUME NEW k \in 1 .. (n + 1)
        PROVE  accruals'[i][k].start < accruals'[i][k].end /\ accruals'[i][k].end <= d.end
    <3>1. CASE k = n + 1
      BY <1>1, <1>2, <3>1
    <3>2. CASE k # n + 1
      <4>1. k \in 1 .. n
        BY <1>1, <3>2
      <4> HIDE DEF n, d
      <4> QED BY <1>1, <1>2, <1>3, <4>1
    <3> QED BY <3>1, <3>2
  <2> HIDE DEF n, d
  <2> QED BY <1>1, <2>1 DEF WindowsOf
<1>5. ContiguousAt(i)'
  <2>1. n # 0 => LastEnd(i) = accruals[i][n].end
    BY <1>1 DEF LastEnd
  <2>2. n = 0 => LastEnd(i) = Due[i]
    BY <1>1, SeqIs DEF LastEnd, WindowsOf
  <2>3. ASSUME NEW k \in 1 .. (n + 1)
        PROVE  accruals'[i][k].start = IF k = 1 THEN Due[i] ELSE accruals'[i][k - 1].end
    <3> HIDE DEF n, d
    <3>1. CASE k = n + 1 /\ n = 0
      BY <1>1, <1>2, <2>2, <3>1
    <3>2. CASE k = n + 1 /\ n # 0
      <4>1. n \in 1 .. n /\ k - 1 = n /\ k # 1
        BY <1>1, <3>2
      <4> QED BY <1>1, <1>2, <2>1, <3>2, <4>1
    <3>3. CASE k # n + 1
      <4>1. k \in 1 .. n /\ (k # 1 => k - 1 \in 1 .. n)
        BY <1>1, <3>3
      <4> QED BY <1>1, <4>1 DEF ContiguousAt
    <3> QED BY <3>1, <3>2, <3>3
  <2> HIDE DEF n, d
  <2> QED BY <1>1, <2>3 DEF ContiguousAt
<1>6. Cursor(i)' = LastEnd(i)'
  <2> DEFINE ends == {accruals'[i][k].end : k \in DOMAIN accruals'[i]}
  <2>1. d.end \in ends /\ \A e \in ends : e \in Nat /\ e <= d.end
    <3>1. n + 1 \in DOMAIN accruals'[i]
      BY <1>1
    <3>2. \A k \in DOMAIN accruals'[i] : accruals'[i][k].end <= LastEnd(i)'
      BY <1>4 DEF WindowsOf
    <3>3. \A k \in DOMAIN accruals'[i] : accruals'[i][k].end \in Nat
      BY <1>1, SeqIs, AccrualIs
    <3> HIDE DEF n, d
    <3> QED BY <1>1, <3>1, <3>2, <3>3
  <2>2. Cursor(i)' = CHOOSE e \in ends : \A f \in ends : e >= f
    BY <2>1 DEF Cursor
  <2>3. (CHOOSE e \in ends : \A f \in ends : e >= f) = d.end
    <3> HIDE DEF ends, d
    <3>1. \A f \in ends : d.end >= f
      BY <1>2, <2>1
    <3>2. PICK c : c = CHOOSE e \in ends : \A f \in ends : e >= f
      OBVIOUS
    <3>3. c \in ends /\ c >= d.end
      BY <2>1, <3>1, <3>2
    <3> QED BY <1>2, <2>1, <3>2, <3>3
  <2> QED BY <1>1, <2>2, <2>3
<1> QED
  BY <1>1, <1>4, <1>5, <1>6

LEMMA AppendedSum ==
    ASSUME NEW t \in Txs, NEW i \in Installments, WindowsOf(i), DraftOK(t, i), Appends(t, i)
    PROVE  AccruedSoFar(i)' = AccruedSoFar(i) + drafts[t][i].accrued
<1> DEFINE n == Len(accruals[i])
           f == [k \in 1 .. n |-> accruals[i][k].accrued]
           g == [k \in 1 .. (n + 1) |-> accruals'[i][k].accrued]
<1>1. /\ n \in Nat /\ DOMAIN accruals[i] = 1 .. n /\ accruals'[i] \in Seq(Accrual)
      /\ DOMAIN accruals'[i] = 1 .. (n + 1)
      /\ \A k \in 1 .. n : accruals'[i][k] = accruals[i][k]
      /\ accruals'[i][n + 1] = drafts[t][i]
  BY AppendedIs
<1>2. AccruedSoFar(i) = SumSeq(f) /\ AccruedSoFar(i)' = SumSeq(g)
  BY <1>1 DEF AccruedSoFar
<1>3. f \in [1 .. n -> Int] /\ g \in [1 .. (n + 1) -> Int]
  <2>1. \A k \in 1 .. n : accruals[i][k].accrued \in Int
    BY <1>1, SeqIs, AccrualIs DEF WindowsOf
  <2>2. \A k \in 1 .. (n + 1) : accruals'[i][k].accrued \in Int
    BY <1>1, SeqIs, AccrualIs
  <2> QED BY <2>1, <2>2
<1>4. (\A k \in 1 .. n : g[k] = f[k]) /\ g[n + 1] = drafts[t][i].accrued
  BY <1>1
<1> HIDE DEF n, f, g
<1> QED
  BY <1>1, <1>2, <1>3, <1>4, SumAppend

LEMMA AppendedRounding ==
    ASSUME NEW t \in Txs, NEW i \in Installments, WindowsOf(i), DraftOK(t, i), Appends(t, i),
           ContiguousAt(i), AllOnAmount(i) => NearExact(i, Len(accruals[i])), AllOnAmount(i)'
    PROVE  NearExact(i, Len(accruals[i]))'
<1> DEFINE n == Len(accruals[i])
           d == drafts[t][i]
           p == Amount * Rate
           q == roundedDiv(p * (d.end - Cursor(i)), Year)
<1>1. /\ n \in Nat /\ DOMAIN accruals[i] = 1 .. n
      /\ Len(accruals'[i]) = n + 1
      /\ \A k \in 1 .. n : accruals'[i][k] = accruals[i][k]
      /\ accruals'[i][n + 1] = d
  BY AppendedIs
<1>2. AllOnAmount(i) /\ d.principal = Amount
  <2>1. compound' = compound
    BY DEF Appends
  <2>2. \A k \in 1 .. n : k \in 1 .. (n + 1)
    BY <1>1
  <2>3. n + 1 \in 1 .. (n + 1)
    BY <1>1
  <2> HIDE DEF n, d
  <2>4. n = Len(accruals[i])
    BY DEF n
  <2> QED BY <1>1, <2>1, <2>2, <2>3, <2>4 DEF AllOnAmount
<1>3. /\ d.start = Cursor(i) /\ d.start < d.end /\ d.end \in Nat /\ Cursor(i) \in Nat
      /\ d.accrued = Delta(d.principal, d.end - d.start)
  BY CursorIsLastEnd, AccrualIs DEF DraftOK
<1>4. d.accrued = q
  BY <1>2, <1>3 DEF Delta
<1>5. p \in Nat /\ Year \in Nat \ {0} /\ Due[i] \in Nat
  BY InterestAssumption
<1>6. d.end - Cursor(i) \in Nat
  BY <1>3
<1>7. p * (d.end - Cursor(i)) \in Nat
  <2> HIDE DEF p, d
  <2> QED BY <1>5, <1>6
<1>8. /\ q \in Nat
      /\ 2 * (q * Year - p * (d.end - Cursor(i))) <= Year
      /\ -2 * (q * Year - p * (d.end - Cursor(i))) <= Year
  <2> DEFINE m == p * (d.end - Cursor(i))
  <2>1. m \in Nat
    BY <1>7
  <2> HIDE DEF m
  <2>2. /\ roundedDiv(m, Year) \in Nat
        /\ 2 * (roundedDiv(m, Year) * Year - m) <= Year
        /\ -2 * (roundedDiv(m, Year) * Year - m) <= Year
    BY <1>5, <2>1, RoundedNear
  <2> QED BY <2>2 DEF m
<1>9. NearExact(i, n)
  BY <1>2
<1>10. AccruedSoFar(i) \in Nat /\ AccruedSoFar(i)' = AccruedSoFar(i) + q /\ Cursor(i)' = d.end
  BY <1>4, AccruedSoFarNat, AppendedSum, AppendedWindows DEF WindowsOf
<1>11. p * (d.end - Due[i]) = p * (Cursor(i) - Due[i]) + p * (d.end - Cursor(i))
  <2> HIDE DEF p, d
  <2> QED BY <1>3, <1>5, Spread
<1>12. (AccruedSoFar(i) + q) * Year = AccruedSoFar(i) * Year + q * Year
  <2> HIDE DEF q
  <2> QED BY <1>5, <1>8, <1>10
<1>13. Year * (n + 1) = Year * n + Year
  <2> HIDE DEF n
  <2> QED BY <1>1, <1>5
<1>14. PICK a \in Int, b \in Int, c \in Int, e \in Int, f \in Int :
          /\ a = AccruedSoFar(i) * Year /\ b = q * Year
          /\ c = p * (Cursor(i) - Due[i]) /\ e = p * (d.end - Cursor(i)) /\ f = Year * n
  <2> HIDE DEF p, q, d, n
  <2>1. Cursor(i) - Due[i] \in Int
    BY <1>3, <1>5
  <2>2. AccruedSoFar(i) * Year \in Int /\ q * Year \in Int
    BY <1>5, <1>8, <1>10
  <2>3. p * (Cursor(i) - Due[i]) \in Int
    BY <1>5, <2>1
  <2>4. Year * n \in Int
    BY <1>1, <1>5
  <2> QED BY <1>7, <2>2, <2>3, <2>4
<1>15. 2 * (a - c) <= f /\ -2 * (a - c) <= f
  BY <1>9, <1>14 DEF NearExact
<1>16. 2 * (b - e) <= Year /\ -2 * (b - e) <= Year
  BY <1>8, <1>14
<1>17. NearExact(i, Len(accruals[i]))' =
          (/\ 2 * ((AccruedSoFar(i) + q) * Year - p * (d.end - Due[i])) <= Year * (n + 1)
           /\ -2 * ((AccruedSoFar(i) + q) * Year - p * (d.end - Due[i])) <= Year * (n + 1))
  BY <1>1, <1>10 DEF NearExact
<1> HIDE DEF p, q, d, n
<1>18. /\ (AccruedSoFar(i) + q) * Year = a + b
       /\ p * (d.end - Due[i]) = c + e /\ Year * (n + 1) = f + Year
  BY <1>11, <1>12, <1>13, <1>14
<1>19. /\ 2 * ((a + b) - (c + e)) <= f + Year
       /\ -2 * ((a + b) - (c + e)) <= f + Year
  BY <1>5, <1>15, <1>16
<1> QED
  BY <1>17, <1>18, <1>19

\* A run ends, and nothing it held is left.
LEMMA FinishEmpties ==
    ASSUME InterestInv, NEW t \in Txs, Finish(t)
    PROVE  /\ RunOK(t)' /\ asOf'[t] = NULL
           /\ asOf' = [s \in Txs |-> asOf'[s]] /\ rows' = [s \in Txs |-> rows'[s]]
           /\ todo' = [s \in Txs |-> todo'[s]] /\ drafts' = [s \in Txs |-> drafts'[s]]
           /\ \A o \in Txs \ {t} : /\ asOf'[o] = asOf[o] /\ rows'[o] = rows[o]
                                   /\ todo'[o] = todo[o] /\ drafts'[o] = drafts[o]
<1>1. /\ asOf'[t] = NULL /\ todo'[t] = {} /\ drafts'[t] = [i \in Installments |-> NULL]
      /\ \A o \in Txs \ {t} : /\ asOf'[o] = asOf[o] /\ rows'[o] = rows[o]
                              /\ todo'[o] = todo[o] /\ drafts'[o] = drafts[o]
  BY DEF Finish, InterestInv
<1>2. RunOK(t)'
  BY <1>1 DEF RunOK
<1> QED
  BY <1>1, <1>2 DEF Finish, InterestInv

LEMMA CommitKeeps ==
    ASSUME InterestInv, RunsAlone, NEW t \in Txs, Commit(t)
    PROVE  InterestInv'
<1> DEFINE posted == {i \in Installments : drafts[t][i] # NULL}
<1>1. /\ asOf[t] # NULL /\ Finish(t) /\ UNCHANGED <<compound, day, allocated>>
      /\ accruals' = [i \in Installments |->
            IF i \in posted THEN Append(accruals[i], drafts[t][i]) ELSE accruals[i]]
  BY DEF Commit
<1>2. ASSUME NEW i \in Installments
      PROVE  /\ WindowsOf(i)' /\ ContiguousAt(i)'
             /\ (AllOnAmount(i) => NearExact(i, Len(accruals[i])))'
  <2>1. /\ WindowsOf(i) /\ ContiguousAt(i) /\ (AllOnAmount(i) => NearExact(i, Len(accruals[i])))
        /\ (drafts[t][i] # NULL => DraftOK(t, i))
    BY PropertiesAre DEF InterestInv, RunOK
  <2>2. CASE i \in posted
    <3>1. Appends(t, i)
      BY <1>1, <2>2 DEF Appends
    <3>2. DraftOK(t, i)
      BY <2>1, <2>2
    <3>3. AllOnAmount(i)' => NearExact(i, Len(accruals[i]))'
      BY <2>1, <3>1, <3>2, AppendedRounding
    <3> QED BY <2>1, <3>1, <3>2, <3>3, AppendedWindows
  <2>3. CASE i \notin posted
    <3>1. accruals'[i] = accruals[i] /\ compound' = compound
      BY <1>1, <2>3
    <3>2. Cursor(i)' = Cursor(i) /\ AccruedSoFar(i)' = AccruedSoFar(i)
      BY <3>1 DEF Cursor, AccruedSoFar
    <3> QED
      BY <2>1, <3>1, <3>2 DEF WindowsOf, LastEnd, ContiguousAt, AllOnAmount, NearExact
  <2> QED BY <2>2, <2>3
<1>3. ASSUME NEW o \in Txs \ {t} PROVE RunOK(o)'
  <2>1. asOf[o] = NULL
    BY <1>1 DEF RunsAlone
  <2>2. RunOK(o)
    BY DEF InterestInv
  <2> QED BY <1>1, <2>1, <2>2, FinishEmpties DEF RunOK
<1>4. WindowsAreContiguous' /\ RoundingStaysSmall'
  <2>1. WindowsAreContiguous'
    BY <1>2 DEF WindowsAreContiguous, ContiguousAt
  <2>2. RoundingStaysSmall'
    BY <1>2 DEF RoundingStaysSmall, AllOnAmount, NearExact
  <2> QED BY <2>1, <2>2
<1> QED
  BY <1>1, <1>2, <1>3, <1>4, FinishEmpties DEF InterestInv

LEMMA RollbackKeeps ==
    ASSUME InterestInv, NEW t \in Txs, Rollback(t)
    PROVE  InterestInv'
<1>1. Finish(t) /\ UNCHANGED <<compound, day, allocated, accruals, interest>>
  BY DEF Rollback
<1>2. \A o \in Txs \ {t} : RunOK(o)'
  BY <1>1, FinishEmpties, RunKept DEF InterestInv
<1> QED
  BY <1>1, <1>2, FinishEmpties, CommittedKept, PropertiesKept DEF InterestInv

LEMMA InterestStep == InterestInv /\ RunsAlone /\ [Next]_vars => InterestInv'
<1> SUFFICES ASSUME InterestInv, RunsAlone, [Next]_vars PROVE InterestInv'
  OBVIOUS
<1>1. ASSUME UNCHANGED <<compound, accruals, asOf, rows, todo, drafts>>, day' \in Nat,
             allocated' \in [Installments -> 0 .. Amount]
      PROVE  InterestInv'
  <2>1. \A t \in Txs : RunOK(t)'
    BY <1>1, RunKept DEF InterestInv
  <2> QED BY <1>1, <2>1, CommittedKept, PropertiesKept DEF InterestInv
<1>2. CASE NextDay
  BY <1>1, <1>2 DEF NextDay, InterestInv
<1>3. ASSUME NEW i \in Installments, NEW n \in 0 .. Amount, allocateTo(i, n) PROVE InterestInv'
  BY <1>1, <1>3 DEF allocateTo, InterestInv
<1>4. ASSUME NEW n, waiveInterest(n) PROVE InterestInv'
  BY <1>1, <1>4 DEF waiveInterest, InterestInv
<1>5. CASE UNCHANGED vars
  BY <1>1, <1>5 DEF vars, InterestInv
<1>6. ASSUME NEW t \in Txs, NEW d \in 0 .. day, accrue(t, d) PROVE InterestInv'
  BY <1>6, AccrueKeeps
<1>7. ASSUME NEW t \in Txs, NEW i \in Installments, AccrueOne(t, i) PROVE InterestInv'
  BY <1>7, AccrueOneKeeps
<1>8. ASSUME NEW t \in Txs, Commit(t) \/ Rollback(t) PROVE InterestInv'
  BY <1>8, CommitKeeps, RollbackKeeps
<1> QED
  BY <1>2, <1>3, <1>4, <1>5, <1>6, <1>7, <1>8 DEF Next

\* In every history in which no two runs for the booking are under way together,
\* every overdue day is charged once and rounding stays within half a paisa a run,
\* for any installments, amounts, rates and dates, whatever runs fail, are late or
\* are repeated and whatever is paid or waived meanwhile (accrueForBooking).
THEOREM InterestIsExactHolds == Spec /\ []RunsAlone => []InterestIsExact
<1>1. InterestInv => InterestIsExact
  BY DEF InterestInv, InterestIsExact
<1> QED
  BY <1>1, InterestInitOK, InterestStep, PTL DEF Spec

-----------------------------------------------------------------------------
(* Construction stages.                                                    *)

Unraised == {b \in Bookings : inst[b] = "unraised"}

\* There is one raise at most; who raises has it, or is about to make it, and
\* who inserts a plan knows of it.
StageTxOK(t) ==
    /\ Stage!Raising(t) =>
          /\ stage[t] \in [no : Nat, on : Days]
          /\ stage[t] \in raises \/ raises = {}
          /\ pc[t] # "match" => target[t] = Unraised
    /\ pc[t] = "insert" =>
          /\ booking[t] \in Bookings
          /\ stage[t] \in raises \/ (stage[t] = NULL /\ raises = {})

StageInv ==
    /\ raises \subseteq [no : Nat, on : Days] /\ \A r, s \in raises : r = s
    /\ inst \in [Bookings -> Days \cup {"unraised", NULL}]
    /\ \A b \in Bookings : inst[b] \in Days => \E r \in raises : r.on = inst[b]
    /\ raises # {} => Unraised = {}
    /\ pc = [t \in Txs |-> pc[t]] /\ stage = [t \in Txs |-> stage[t]]
    /\ target = [t \in Txs |-> target[t]] /\ booking = [t \in Txs |-> booking[t]]
    /\ \A t \in Txs : StageTxOK(t)

LEMMA StageInitOK == Stage!Init => StageInv
  BY ScheduleAssumption DEF Stage!Init, StageInv, StageTxOK, Stage!Raising, Unraised

\* Transaction t moves on, and the committed rows stay.
Moves(t) ==
    /\ UNCHANGED <<raises, inst>>
    /\ pc' = [pc EXCEPT ![t] = pc'[t]] /\ stage' = [stage EXCEPT ![t] = stage'[t]]
    /\ target' = [target EXCEPT ![t] = target'[t]] /\ booking' = [booking EXCEPT ![t] = booking'[t]]

LEMMA MovesKeeps ==
    ASSUME StageInv, NEW t \in Txs, Moves(t), StageTxOK(t)'
    PROVE  StageInv'
<1>1. ASSUME NEW o \in Txs \ {t} PROVE StageTxOK(o)'
  <2>1. pc'[o] = pc[o] /\ stage'[o] = stage[o] /\ target'[o] = target[o] /\ booking'[o] = booking[o]
    BY DEF Moves, StageInv
  <2> QED BY <2>1 DEF StageInv, StageTxOK, Stage!Raising, Unraised, Moves
<1>2. /\ pc' = [s \in Txs |-> pc'[s]] /\ stage' = [s \in Txs |-> stage'[s]]
      /\ target' = [s \in Txs |-> target'[s]] /\ booking' = [s \in Txs |-> booking'[s]]
  BY DEF Moves, StageInv
<1>3. UNCHANGED <<raises, inst>> /\ Unraised' = Unraised
  BY DEF Moves, Unraised
<1> QED
  BY <1>1, <1>2, <1>3 DEF StageInv

LEMMA RaiseOpens ==
    ASSUME StageInv, NEW t \in Txs, NEW d \in Days, Stage!raiseStage(t, d)
    PROVE  StageInv'
<1> DEFINE row == Stage!NewRaise(t, d)
<1>1. PICK s \in Stage!findStageRaise : stage' = [stage EXCEPT ![t] = IF s = NULL THEN row ELSE s]
  BY DEF Stage!raiseStage
<1>2. pc[t] = "idle" /\ pc' = [pc EXCEPT ![t] = "match"] /\ UNCHANGED <<raises, inst, booking, target>>
  BY DEF Stage!raiseStage
<1>3. row \in [no : Nat, on : Days]
  <2>1. IsFiniteSet(raises)
    <3>1. CASE raises = {}
      BY <3>1, FS_EmptySet
    <3>2. CASE raises # {}
      <4>1. PICK r \in raises : raises = {r}
        BY <3>2 DEF StageInv
      <4> QED BY <4>1, FS_Singleton
    <3> QED BY <3>1, <3>2
  <2>2. IsFiniteSet({o \in Txs \ {t} : stage[o] # NULL /\ stage[o] \notin raises})
    BY ScheduleAssumption, FS_Subset
  <2>3. /\ Cardinality(raises) \in Nat
        /\ Cardinality({o \in Txs \ {t} : stage[o] # NULL /\ stage[o] \notin raises}) \in Nat
    BY <2>1, <2>2, FS_CardinalityType
  <2>4. row = [no |-> Cardinality(raises)
                 + Cardinality({o \in Txs \ {t} : stage[o] # NULL /\ stage[o] \notin raises}) + 1,
               on |-> d]
    BY DEF Stage!NewRaise, Stage!Cardinality, Cardinality
  <2> HIDE DEF row
  <2> QED BY <2>3, <2>4
<1>4. /\ stage'[t] \in [no : Nat, on : Days]
      /\ stage'[t] \in raises \/ raises = {}
  <2>1. CASE raises = {}
    BY <1>1, <1>3, <2>1 DEF Stage!findStageRaise, StageInv
  <2>2. CASE raises # {}
    <3>1. s \in raises /\ s # NULL
      BY <2>2, ScheduleAssumption DEF Stage!findStageRaise, StageInv
    <3> HIDE DEF row
    <3> QED BY <1>1, <3>1 DEF StageInv
  <2> QED BY <2>1, <2>2
<1>5. Moves(t)
  <2> HIDE DEF row
  <2> QED BY <1>1, <1>2 DEF Moves, StageInv
<1>6. pc'[t] = "match" /\ raises' = raises
  BY <1>2 DEF StageInv
<1>7. StageTxOK(t)'
  BY <1>4, <1>6 DEF StageTxOK, Stage!Raising
<1> QED
  BY <1>5, <1>7, MovesKeeps

LEMMA PlanOpens ==
    ASSUME StageInv, NEW t \in Txs, NEW b \in Bookings, Stage!instantiate(t, b)
    PROVE  StageInv'
<1>1. /\ pc' = [pc EXCEPT ![t] = "insert"] /\ booking' = [booking EXCEPT ![t] = b]
      /\ UNCHANGED <<raises, inst, target>>
  BY DEF Stage!instantiate
<1>2. PICK s \in Stage!findStageRaise : stage' = [stage EXCEPT ![t] = s]
  BY DEF Stage!instantiate
<1>3. s \in raises \/ (s = NULL /\ raises = {})
  BY DEF Stage!findStageRaise
<1>4. pc'[t] = "insert" /\ booking'[t] = b /\ stage'[t] = s
  BY <1>1, <1>2 DEF StageInv
<1>5. Moves(t)
  BY <1>1, <1>2 DEF Moves, StageInv
<1>6. StageTxOK(t)'
  BY <1>1, <1>3, <1>4 DEF StageTxOK, Stage!Raising
<1> QED
  BY <1>5, <1>6, MovesKeeps

LEMMA BulkUpdateMoves ==
    ASSUME StageInv, NEW t \in Txs, Stage!Match(t) \/ Stage!Update(t)
    PROVE  StageInv'
<1>1. /\ pc[t] \in {"match", "update"} /\ UNCHANGED <<raises, inst, booking, stage>>
      /\ \E x : target' = [target EXCEPT ![t] = x]
      /\ \E y \in {"update", "commitRaise"} : pc' = [pc EXCEPT ![t] = y]
  BY DEF Stage!Match, Stage!Update
<1>2. target'[t] = Unraised
  <2>1. CASE Stage!Match(t)
    BY <2>1 DEF Stage!Match, StageInv, Unraised
  <2>2. CASE Stage!Update(t)
    <3>1. pc[t] = "update" /\ target' = [target EXCEPT ![t] = {b \in target[t] : inst[b] = "unraised"}]
      BY <2>2 DEF Stage!Update
    <3>2. target[t] = Unraised
      BY <3>1 DEF StageInv, StageTxOK, Stage!Raising
    <3>3. target'[t] = {b \in target[t] : inst[b] = "unraised"}
      BY <3>1 DEF StageInv
    <3> QED BY <3>2, <3>3 DEF Unraised
  <2> QED BY <2>1, <2>2
<1>3. Moves(t)
  BY <1>1 DEF Moves, StageInv
<1>4. pc'[t] \in {"update", "commitRaise"} /\ stage'[t] = stage[t] /\ raises' = raises
  BY <1>1 DEF StageInv
<1>5. StageTxOK(t) /\ Unraised' = Unraised
  BY <1>1 DEF StageInv, Unraised
<1>6. StageTxOK(t)'
  BY <1>1, <1>2, <1>4, <1>5 DEF StageTxOK, Stage!Raising
<1> QED
  BY <1>3, <1>6, MovesKeeps

\* A transaction ends.
LEMMA StageFinishes ==
    ASSUME StageInv, NEW t \in Txs, Stage!Finish(t)
    PROVE  /\ pc'[t] = "idle" /\ StageTxOK(t)'
           /\ \A o \in Txs \ {t} : /\ pc'[o] = pc[o] /\ stage'[o] = stage[o]
                                   /\ target'[o] = target[o] /\ booking'[o] = booking[o]
           /\ pc' = [s \in Txs |-> pc'[s]] /\ stage' = [s \in Txs |-> stage'[s]]
           /\ target' = [s \in Txs |-> target'[s]] /\ booking' = [s \in Txs |-> booking'[s]]
<1>1. pc'[t] = "idle"
  BY DEF Stage!Finish, StageInv
<1>2. StageTxOK(t)'
  BY <1>1 DEF StageTxOK, Stage!Raising
<1> QED
  BY <1>1, <1>2 DEF Stage!Finish, StageInv

LEMMA RaiseCommits ==
    ASSUME StageInv, Stage!FirstRaiseAlone, NEW t \in Txs, Stage!CommitRaise(t)
    PROVE  StageInv'
<1>1. /\ pc[t] = "commitRaise" /\ raises' = raises \cup {stage[t]} /\ Stage!Finish(t)
      /\ inst' = [b \in Bookings |-> IF b \in target[t] THEN stage[t].on ELSE inst[b]]
  BY DEF Stage!CommitRaise
<1>2. /\ stage[t] \in [no : Nat, on : Days] /\ stage[t].on \in Days
      /\ stage[t] \in raises \/ raises = {}
      /\ target[t] = Unraised
  BY <1>1 DEF StageInv, StageTxOK, Stage!Raising
<1>3. raises' = {stage[t]}
  BY <1>1, <1>2 DEF StageInv
<1>4. Unraised' = {}
  <2>1. \A b \in Bookings : inst'[b] # "unraised"
    BY <1>1, <1>2, ScheduleAssumption DEF Unraised
  <2> QED BY <2>1 DEF Unraised
<1>5. /\ inst' \in [Bookings -> Days \cup {"unraised", NULL}]
      /\ \A b \in Bookings : inst'[b] \in Days => stage[t].on = inst'[b]
  <2>1. ASSUME NEW b \in Bookings, inst'[b] \in Days PROVE stage[t].on = inst'[b]
    <3>1. CASE b \in target[t]
      BY <1>1, <3>1
    <3>2. CASE b \notin target[t]
      <4>1. inst[b] \in Days
        BY <1>1, <2>1, <3>2
      <4>2. PICK r \in raises : r.on = inst[b]
        BY <4>1 DEF StageInv
      <4>3. r = stage[t]
        BY <1>2 DEF StageInv
      <4> QED BY <1>1, <3>2, <4>2, <4>3
    <3> QED BY <3>1, <3>2
  <2> QED BY <1>1, <1>2, <2>1 DEF StageInv
<1>6. ASSUME NEW o \in Txs \ {t} PROVE StageTxOK(o)'
  <2>1. pc'[o] = pc[o] /\ stage'[o] = stage[o] /\ target'[o] = target[o] /\ booking'[o] = booking[o]
    BY <1>1, StageFinishes
  <2>2. CASE raises = {}
    <3>1. pc[o] = "idle"
      BY <1>1, <2>2 DEF Stage!FirstRaiseAlone, Stage!Raising
    <3> QED BY <2>1, <3>1 DEF StageTxOK, Stage!Raising
  <2>3. CASE raises # {}
    <3>1. raises' = raises /\ Unraised = {}
      BY <1>2, <1>3, <2>3 DEF StageInv
    <3> QED BY <1>4, <2>1, <2>3, <3>1 DEF StageInv, StageTxOK, Stage!Raising
  <2> QED BY <2>2, <2>3
<1> QED
  BY <1>1, <1>2, <1>3, <1>4, <1>5, <1>6, StageFinishes DEF StageInv

LEMMA PlanCommits ==
    ASSUME StageInv, Stage!FirstRaiseAlone, NEW t \in Txs, Stage!CommitInsert(t)
    PROVE  StageInv'
<1> DEFINE b == booking[t]
           date == IF stage[t] = NULL THEN "unraised" ELSE stage[t].on
<1>1. /\ pc[t] = "insert" /\ raises' = raises /\ Stage!Finish(t)
      /\ inst' = [inst EXCEPT ![b] = date]
  BY DEF Stage!CommitInsert
<1>2. b \in Bookings /\ (stage[t] \in raises \/ (stage[t] = NULL /\ raises = {}))
  BY <1>1 DEF StageInv, StageTxOK
<1>3. /\ inst'[b] = date /\ \A c \in Bookings \ {b} : inst'[c] = inst[c]
      /\ raises # {} => date \in Days /\ \E r \in raises : r.on = date
      /\ raises = {} => date = "unraised"
  BY <1>1, <1>2, ScheduleAssumption DEF StageInv
<1>4. /\ inst' \in [Bookings -> Days \cup {"unraised", NULL}]
      /\ \A c \in Bookings : inst'[c] \in Days => \E r \in raises : r.on = inst'[c]
  <2> HIDE DEF date, b
  <2> QED BY <1>1, <1>2, <1>3, ScheduleAssumption DEF StageInv
<1>5. raises # {} => Unraised' = {}
  <2> HIDE DEF date, b
  <2> QED BY <1>2, <1>3, ScheduleAssumption DEF StageInv, Unraised
<1>6. ASSUME NEW o \in Txs \ {t} PROVE StageTxOK(o)'
  <2>1. pc'[o] = pc[o] /\ stage'[o] = stage[o] /\ target'[o] = target[o] /\ booking'[o] = booking[o]
    BY <1>1, StageFinishes
  <2>2. StageTxOK(o)
    BY DEF StageInv
  <2>3. CASE raises = {}
    <3>1. ~Stage!Raising(o)
      BY <1>1, <2>3 DEF Stage!FirstRaiseAlone
    <3> QED BY <1>1, <2>1, <2>2, <3>1 DEF StageTxOK, Stage!Raising
  <2>4. CASE raises # {}
    <3>1. Unraised = {}
      BY <2>4 DEF StageInv
    <3> QED BY <1>1, <1>5, <2>1, <2>2, <2>4, <3>1 DEF StageTxOK, Stage!Raising
  <2> QED BY <2>3, <2>4
<1> QED
  BY <1>1, <1>4, <1>5, <1>6, StageFinishes DEF StageInv

LEMMA StageStep == StageInv /\ Stage!FirstRaiseAlone /\ [Stage!Next]_stageVars => StageInv'
<1> SUFFICES ASSUME StageInv, Stage!FirstRaiseAlone, [Stage!Next]_stageVars PROVE StageInv'
  OBVIOUS
<1>1. CASE UNCHANGED stageVars
  BY <1>1 DEF stageVars, StageInv, StageTxOK, Stage!Raising, Unraised
<1>2. ASSUME NEW t \in Txs, Stage!Rollback(t) PROVE StageInv'
  <2>1. Stage!Finish(t) /\ UNCHANGED <<raises, inst>>
    BY <1>2 DEF Stage!Rollback
  <2>2. Moves(t)
    BY <2>1 DEF Moves, Stage!Finish, StageInv
  <2> QED BY <2>1, <2>2, StageFinishes, MovesKeeps
<1>3. ASSUME NEW t \in Txs PROVE
        (\/ \E d \in Days : Stage!raiseStage(t, d)
         \/ Stage!Match(t) \/ Stage!Update(t) \/ Stage!CommitRaise(t)
         \/ \E b \in Bookings : Stage!instantiate(t, b)
         \/ Stage!CommitInsert(t)) => StageInv'
  BY RaiseOpens, BulkUpdateMoves, RaiseCommits, PlanOpens, PlanCommits
<1> QED
  BY <1>1, <1>2, <1>3 DEF Stage!Next

\* In every history in which nothing overlaps what may become the stage's first
\* raise, all installments of the stage fall due on the date of that raise and
\* none is left without one, for any bookings, plans and dates; later raises and
\* plans may overlap as they like (raiseStage, instantiateFromTemplate).
THEOREM RaisedOnOneDateHolds == Stage!Spec /\ []Stage!FirstRaiseAlone => []RaisedOnOneDate
<1>1. StageInv => RaisedOnOneDate
  BY DEF StageInv, RaisedOnOneDate, Stage!NoneStuck, Stage!OneDatePerStage, Unraised
<1> QED
  BY <1>1, StageInitOK, StageStep, PTL DEF Stage!Spec, stageVars, Stage!vars

-----------------------------------------------------------------------------
(* Webhooks.                                                               *)

\* A delivery has its endpoint (the foreign key restricts), a job and an unsent
\* delivery their row.
RowsExist ==
    /\ \A d \in Deliveries : delivery[d] # NULL => endpoint[delivery[d].to] # NULL
    /\ \A j \in Jobs : job[j] # NULL => delivery[job[j].delivery] # NULL
    /\ \A d \in unsent : delivery[d] # NULL

ActiveBelowThreshold ==
    \A e \in Endpoints : endpoint[e] # NULL /\ endpoint[e].active => endpoint[e].failures < Threshold

HookInv == HookTypeOK /\ RowsExist /\ ActiveBelowThreshold

\* What a step may do to an endpoint's row (DisabledStaysDisabled's step).
FairOn(e) ==
    endpoint[e] # NULL /\ endpoint'[e] # NULL =>
        /\ endpoint'[e].active => endpoint'[e].failures < Threshold
        /\ /\ ~endpoint[e].active
           /\ endpoint'[e].active \/ endpoint'[e].failures < endpoint[e].failures
           => endpoint'[e] = Fresh

LEMMA HookInitOK == HookInit => HookInv
  BY WebhookAssumption DEF HookInit, HookInv, HookTypeOK, RowsExist, ActiveBelowThreshold

\* A step that leaves every endpoint alone and moves jobs, deliveries and what is
\* unsent between rows that exist.
LEMMA EndpointsAlone ==
    ASSUME HookInv, UNCHANGED endpoint, HookTypeOK', RowsExist'
    PROVE  HookInv' /\ \A e \in Endpoints : FairOn(e)
  BY DEF HookInv, HookTypeOK, EndpointRow, ActiveBelowThreshold, FairOn

\* A job moves on or ends; the rows stay.
LEMMA JobStep ==
    ASSUME HookInv, NEW j \in Jobs, job[j] # NULL, NEW v \in Job \cup {NULL},
           v # NULL => v.delivery = job[j].delivery,
           job' = [job EXCEPT ![j] = v],
           UNCHANGED <<endpoint, delivery, unsent>>, workerStops' \in 0 .. MaxWorkerStops,
           gaveUp' \subseteq Deliveries
    PROVE  HookInv' /\ \A e \in Endpoints : FairOn(e)
<1>1. HookTypeOK'
  BY DEF HookInv, HookTypeOK
<1>2. RowsExist'
  <2>1. \A i \in Jobs : job'[i] = IF i = j THEN v ELSE job[i]
    BY DEF HookInv, HookTypeOK
  <2> QED
    BY <2>1 DEF HookInv, RowsExist
<1> QED
  BY <1>1, <1>2, EndpointsAlone

\* An exhausted delivery only adds to the count, and never switches on.
LEMMA ChargedRow ==
    ASSUME NEW q \in EndpointRow
    PROVE  /\ Charged(q) \in EndpointRow /\ (Charged(q).active => Charged(q).failures < Threshold)
           /\ ~q.active => ~Charged(q).active
           /\ Charged(q).failures >= q.failures
<1> DEFINE n == q.failures + 1
           a == q.active /\ n < Threshold
<1>1. q.failures \in Nat /\ n \in Nat /\ n >= q.failures /\ a \in BOOLEAN
  BY DEF EndpointRow
<1>2. Charged(q) = [active |-> a, failures |-> n]
  BY DEF Charged
<1>3. (a => n < Threshold) /\ (~q.active => ~a)
  OBVIOUS
<1> HIDE DEF a, n
<1> QED
  BY <1>1, <1>2, <1>3 DEF EndpointRow

\* One endpoint's row becomes r, and a job may move on.
LEMMA EndpointStep ==
    ASSUME HookInv, NEW e \in Endpoints, NEW r \in EndpointRow,
           endpoint' = [endpoint EXCEPT ![e] = r],
           r.active => r.failures < Threshold,
           endpoint[e] # NULL /\ ~endpoint[e].active
               => r = Fresh \/ (~r.active /\ r.failures >= endpoint[e].failures),
           UNCHANGED <<delivery, unsent, gaveUp, workerStops>>,
           job' \in [Jobs -> Job \cup {NULL}],
           \A j \in Jobs : job'[j] # NULL => job[j] # NULL /\ job'[j].delivery = job[j].delivery
    PROVE  HookInv' /\ \A x \in Endpoints : FairOn(x)
<1>1. \A x \in Endpoints : endpoint'[x] = IF x = e THEN r ELSE endpoint[x]
  BY DEF HookInv, HookTypeOK
<1>2. HookTypeOK'
  BY DEF HookInv, HookTypeOK
<1>3. r # NULL
  BY WebhookAssumption
<1>4. RowsExist'
  <2>1. \A d \in Deliveries : delivery[d] # NULL => delivery[d].to \in Endpoints
    BY DEF HookInv, HookTypeOK, DeliveryRow
  <2> QED
    BY <1>1, <1>3, <2>1 DEF HookInv, RowsExist
<1>5. ActiveBelowThreshold'
  BY <1>1 DEF HookInv, ActiveBelowThreshold
<1>6. ASSUME NEW x \in Endpoints PROVE FairOn(x)
  <2>1. endpoint[x] # NULL => endpoint[x] \in EndpointRow
    BY DEF HookInv, HookTypeOK
  <2>2. CASE x = e
    BY <1>1, <2>1, <2>2 DEF FairOn, EndpointRow
  <2>3. CASE x # e
    BY <1>1, <2>1, <2>3 DEF FairOn, EndpointRow, HookInv, ActiveBelowThreshold
  <2> QED
    BY <2>2, <2>3
<1> QED
  BY <1>2, <1>4, <1>5, <1>6 DEF HookInv

\* Every step keeps the invariant, and is fair on every endpoint.
LEMMA HookStep ==
    HookInv /\ [HookNext]_hookVars => HookInv' /\ \A e \in Endpoints : FairOn(e)
<1> SUFFICES ASSUME HookInv, [HookNext]_hookVars
             PROVE  HookInv' /\ \A e \in Endpoints : FairOn(e)
  OBVIOUS
<1>t. HookTypeOK /\ RowsExist /\ ActiveBelowThreshold
  BY DEF HookInv
<1>f. Fresh \in EndpointRow /\ Fresh.active /\ Fresh.failures < Threshold
  BY WebhookAssumption DEF Fresh, EndpointRow
<1>j. ASSUME NEW j \in Jobs, job[j] # NULL, NEW s,
             s \in {"wait", "post", "succeeded", "failed", "close SUCCESS", "close EXHAUSTED", "done"}
      PROVE  LET v == [job[j] EXCEPT !.step = s]
             IN  v \in Job /\ v.delivery = job[j].delivery
  <2>1. job[j] \in Job
    BY <1>t, <1>j DEF HookTypeOK
  <2> QED
    BY <1>j, <2>1 DEF Job
<1>q. ASSUME NEW j \in Jobs, job[j] # NULL
      PROVE  /\ job[j] \in Job /\ delivery[job[j].delivery] # NULL
             /\ Target(j) \in Endpoints /\ endpoint[Target(j)] # NULL
             /\ endpoint[Target(j)] \in EndpointRow
  <2>1. job[j] \in Job /\ job[j].delivery \in Deliveries /\ delivery[job[j].delivery] # NULL
    BY <1>t, <1>q DEF HookTypeOK, RowsExist, Job
  <2>2. delivery[job[j].delivery] \in DeliveryRow
    BY <1>t, <2>1 DEF HookTypeOK
  <2> QED
    BY <1>t, <2>1, <2>2 DEF HookTypeOK, RowsExist, DeliveryRow, Target
<1>k. /\ job \in [Jobs -> Job \cup {NULL}] /\ workerStops \in 0 .. MaxWorkerStops
      /\ gaveUp \subseteq Deliveries
  BY <1>t DEF HookTypeOK
<1>0. CASE UNCHANGED hookVars
  <2>1. UNCHANGED <<endpoint, delivery, unsent, job, gaveUp, workerStops>>
    BY <1>0 DEF hookVars
  <2>2. HookTypeOK' /\ RowsExist'
    BY <1>t, <2>1 DEF HookTypeOK, RowsExist
  <2> QED
    BY <2>1, <2>2, EndpointsAlone
<1>1. ASSUME NEW e \in Endpoints, createEndpoint(e) \/ enable(e)
      PROVE  HookInv' /\ \A x \in Endpoints : FairOn(x)
  BY <1>1, <1>f, <1>k, EndpointStep DEF createEndpoint, enable
<1>2. ASSUME NEW e \in Endpoints, disable(e)
      PROVE  HookInv' /\ \A x \in Endpoints : FairOn(x)
  <2> DEFINE r == [endpoint[e] EXCEPT !.active = FALSE]
  <2>1. endpoint[e] # NULL /\ endpoint[e] \in EndpointRow /\ endpoint' = [endpoint EXCEPT ![e] = r]
        /\ UNCHANGED <<delivery, unsent, job, gaveUp, workerStops>>
    BY <1>2, <1>t DEF disable, HookTypeOK
  <2>2. r \in EndpointRow /\ ~r.active /\ r.failures = endpoint[e].failures
    BY <2>1 DEF EndpointRow
  <2>3. r.failures >= endpoint[e].failures
    BY <2>1, <2>2 DEF EndpointRow
  <2> HIDE DEF r
  <2> QED
    BY <2>1, <2>2, <2>3, <1>k, EndpointStep
<1>3. ASSUME NEW e \in Endpoints, removeEndpoint(e)
      PROVE  HookInv' /\ \A x \in Endpoints : FairOn(x)
  <2>1. \A x \in Endpoints : endpoint'[x] = IF x = e THEN NULL ELSE endpoint[x]
    BY <1>3, <1>t DEF removeEndpoint, HookTypeOK
  <2>2. HookTypeOK'
    BY <1>3, <1>t DEF removeEndpoint, HookTypeOK
  <2>3. RowsExist'
    <3>1. \A d \in Deliveries : delivery[d] # NULL => delivery[d].to \in Endpoints \ {e}
      BY <1>3, <1>t DEF removeEndpoint, HookTypeOK, DeliveryRow
    <3> QED
      BY <1>3, <1>t, <2>1, <3>1 DEF removeEndpoint, RowsExist
  <2>4. ActiveBelowThreshold'
    BY <1>t, <2>1 DEF ActiveBelowThreshold
  <2>5. \A x \in Endpoints : FairOn(x)
    BY <1>t, <2>1 DEF FairOn, ActiveBelowThreshold, HookTypeOK, EndpointRow
  <2> QED
    BY <2>2, <2>3, <2>4, <2>5 DEF HookInv
<1>4. ASSUME NEW e \in Endpoints, NEW d \in Deliveries, dispatchEvent(e, d)
      PROVE  HookInv' /\ \A x \in Endpoints : FairOn(x)
  <2> DEFINE v == [to |-> e, status |-> "PENDING"]
  <2>1. v \in DeliveryRow /\ v # NULL /\ v.to = e
    BY WebhookAssumption DEF DeliveryRow
  <2>2. \A x \in Deliveries : delivery'[x] = IF x = d THEN v ELSE delivery[x]
    BY <1>4, <1>t DEF dispatchEvent, HookTypeOK
  <2>3. HookTypeOK'
    BY <1>4, <1>t, <2>1 DEF dispatchEvent, HookTypeOK
  <2> HIDE DEF v
  <2>4. RowsExist'
    <3>1. \A j \in Jobs : job[j] # NULL => job[j].delivery \in Deliveries
      BY <1>k DEF Job
    <3> QED
      BY <1>4, <1>t, <2>1, <2>2, <3>1 DEF dispatchEvent, RowsExist, HookTypeOK
  <2> QED
    BY <1>4, <2>3, <2>4, EndpointsAlone DEF dispatchEvent
<1>v. ASSUME NEW d \in Deliveries, delivery[d] # NULL, NEW s \in {"PENDING", "SUCCESS", "EXHAUSTED"},
             delivery' = [delivery EXCEPT ![d].status = s], unsent' \subseteq unsent \cup {d},
             job' \in [Jobs -> Job \cup {NULL}],
             \A j \in Jobs : job'[j] # NULL => job[j] # NULL /\ job'[j].delivery = job[j].delivery,
             UNCHANGED <<endpoint, gaveUp, workerStops>>
      PROVE  HookInv' /\ \A x \in Endpoints : FairOn(x)
  <2> DEFINE v == [delivery[d] EXCEPT !.status = s]
  <2>1. delivery[d] \in DeliveryRow
    BY <1>v, <1>t DEF HookTypeOK
  <2>2. v \in DeliveryRow /\ v.to = delivery[d].to
    BY <2>1 DEF DeliveryRow
  <2>3. delivery' = [delivery EXCEPT ![d] = v]
    BY <1>v
  <2> HIDE DEF v
  <2>4. \A x \in Deliveries : delivery'[x] = IF x = d THEN v ELSE delivery[x]
    BY <2>3, <1>t DEF HookTypeOK
  <2>5. HookTypeOK'
    BY <1>v, <1>t, <2>2, <2>3 DEF HookTypeOK
  <2>6. v # NULL
    BY <2>2, WebhookAssumption
  <2>7. RowsExist'
    <3>1. \A j \in Jobs : job[j] # NULL => job[j].delivery \in Deliveries
      BY <1>k DEF Job
    <3>2. \A x \in Deliveries : delivery'[x] # NULL => endpoint'[delivery'[x].to] # NULL
      BY <1>v, <1>t, <2>2, <2>4 DEF RowsExist
    <3>3. \A x \in Deliveries : delivery[x] # NULL => delivery'[x] # NULL
      BY <2>4, <2>6
    <3>4. \A j \in Jobs : job'[j] # NULL => delivery'[job'[j].delivery] # NULL
      BY <1>v, <1>t, <3>1, <3>3 DEF RowsExist
    <3>5. \A x \in unsent' : delivery'[x] # NULL
      BY <1>v, <1>t, <3>3 DEF RowsExist, HookTypeOK
    <3> QED
      BY <3>2, <3>4, <3>5 DEF RowsExist
  <2> QED
    BY <1>v, <2>5, <2>7, EndpointsAlone
<1>5. ASSUME NEW d \in Deliveries, retry(d)
      PROVE  HookInv' /\ \A x \in Endpoints : FairOn(x)
  BY <1>5, <1>k, <1>v DEF retry
<1>6. ASSUME NEW d \in Deliveries, QueueAdd(d)
      PROVE  HookInv' /\ \A x \in Endpoints : FairOn(x)
  <2> DEFINE v == [delivery |-> d, made |-> 0, step |-> "wait"]
  <2>1. PICK j \in Jobs : job' = [job EXCEPT ![j] = v]
    BY <1>6 DEF QueueAdd
  <2>2. v \in Job /\ v.delivery = d
    <3>1. 0 \in 0 .. MaxAttempts
      BY WebhookAssumption
    <3> QED
      BY <3>1 DEF Job
  <2> HIDE DEF v
  <2>3. \A i \in Jobs : job'[i] = IF i = j THEN v ELSE job[i]
    BY <2>1, <1>k
  <2>4. HookTypeOK'
    BY <1>6, <1>t, <2>1, <2>2 DEF QueueAdd, HookTypeOK
  <2>5. RowsExist'
    BY <1>6, <1>t, <2>2, <2>3 DEF QueueAdd, RowsExist
  <2> QED
    BY <1>6, <2>4, <2>5, EndpointsAlone DEF QueueAdd
<1>7. ASSUME NEW d \in Deliveries, LoseJob(d)
      PROVE  HookInv' /\ \A x \in Endpoints : FairOn(x)
  <2>1. HookTypeOK'
    BY <1>7, <1>t, WebhookAssumption DEF LoseJob, HookTypeOK
  <2>2. RowsExist'
    BY <1>7, <1>t DEF LoseJob, RowsExist
  <2> QED
    BY <1>7, <2>1, <2>2, EndpointsAlone DEF LoseJob
<1>8. ASSUME NEW j \in Jobs, LoadDelivery(j)
      PROVE  HookInv' /\ \A x \in Endpoints : FairOn(x)
  <2>1. job[j] # NULL /\ UNCHANGED <<endpoint, delivery, unsent, gaveUp, workerStops>>
        /\ (Step(j, "post") \/ job' = [job EXCEPT ![j] = NULL])
    BY <1>8 DEF LoadDelivery
  <2>2. CASE job' = [job EXCEPT ![j] = NULL]
    BY <2>1, <2>2, <1>k, JobStep
  <2>3. CASE Step(j, "post")
    BY <2>1, <2>3, <1>j, <1>k, JobStep DEF Step
  <2> QED
    BY <2>1, <2>2, <2>3
<1>9. ASSUME NEW j \in Jobs, Post(j)
      PROVE  HookInv' /\ \A x \in Endpoints : FairOn(x)
  <2>1. PICK s \in {"succeeded", "failed"} : Step(j, s)
    BY <1>9 DEF Post
  <2> QED
    BY <1>9, <2>1, <1>j, <1>k, JobStep DEF Post, Step
<1>s. ASSUME NEW j \in Jobs, job[j] # NULL, NEW s,
             s \in {"wait", "post", "succeeded", "failed", "close SUCCESS", "close EXHAUSTED", "done"},
             Step(j, s)
      PROVE  /\ job' \in [Jobs -> Job \cup {NULL}]
             /\ \A i \in Jobs : job'[i] # NULL => job[i] # NULL /\ job'[i].delivery = job[i].delivery
  BY <1>s, <1>j, <1>k DEF Step
<1>10. ASSUME NEW j \in Jobs, CountSuccess(j)
       PROVE  HookInv' /\ \A x \in Endpoints : FairOn(x)
  <2> DEFINE e == Target(j)
             r == IF endpoint[e].active THEN [endpoint[e] EXCEPT !.failures = 0] ELSE endpoint[e]
  <2>1. e \in Endpoints /\ endpoint[e] # NULL /\ endpoint[e] \in EndpointRow
    BY <1>10, <1>q DEF CountSuccess
  <2>2. endpoint' = [endpoint EXCEPT ![e] = r]
    BY <1>10, <1>t, <2>1 DEF CountSuccess, Reset, HookTypeOK
  <2>3. r \in EndpointRow /\ (r.active => r.failures = 0) /\ (~endpoint[e].active => r = endpoint[e])
    BY <2>1 DEF EndpointRow
  <2>4. /\ r.active => r.failures < Threshold
        /\ ~endpoint[e].active => ~r.active /\ r.failures >= endpoint[e].failures
    BY <2>1, <2>3, WebhookAssumption DEF EndpointRow
  <2>5. /\ job' \in [Jobs -> Job \cup {NULL}]
        /\ \A i \in Jobs : job'[i] # NULL => job[i] # NULL /\ job'[i].delivery = job[i].delivery
    BY <1>10, <1>s DEF CountSuccess
  <2>6. UNCHANGED <<delivery, unsent, gaveUp, workerStops>>
    BY <1>10 DEF CountSuccess
  <2> HIDE DEF e, r
  <2> QED
    BY <2>1, <2>2, <2>3, <2>4, <2>5, <2>6, EndpointStep
<1>b. ASSUME NEW j \in Jobs, job[j] # NULL, job[j].made + 1 < MaxAttempts,
             job' = [job EXCEPT ![j].made = @ + 1, ![j].step = "wait"],
             UNCHANGED <<endpoint, delivery, unsent, gaveUp, workerStops>>
      PROVE  HookInv' /\ \A x \in Endpoints : FairOn(x)
  <2>1. job[j] \in Job
    BY <1>b, <1>k
  <2>2. PICK k \in 0 .. MaxAttempts : k = job[j].made + 1
    <3>1. job[j].made \in 0 .. MaxAttempts
      BY <2>1 DEF Job
    <3> QED
      BY <1>b, <3>1, WebhookAssumption
  <2> DEFINE v == [job[j] EXCEPT !.made = k, !.step = "wait"]
  <2>3. v \in Job /\ v.delivery = job[j].delivery
    BY <2>1 DEF Job
  <2>4. job' = [job EXCEPT ![j] = v]
    BY <1>b, <2>2, <1>k
  <2> HIDE DEF v
  <2> QED
    BY <1>b, <1>k, <2>3, <2>4, JobStep
<1>g. ASSUME NEW j \in Jobs, job[j] # NULL, GiveUp(j),
             UNCHANGED <<endpoint, delivery, unsent>>, workerStops' \in 0 .. MaxWorkerStops
      PROVE  HookInv' /\ \A x \in Endpoints : FairOn(x)
  <2>1. job' = [job EXCEPT ![j] = NULL]
    BY <1>g DEF GiveUp
  <2>2. gaveUp' \subseteq Deliveries
    BY <1>g, <1>k, <1>q DEF GiveUp, Job
  <2> QED
    BY <1>g, <2>1, <2>2, JobStep
<1>11. ASSUME NEW j \in Jobs, ThrowForRetry(j)
       PROVE  HookInv' /\ \A x \in Endpoints : FairOn(x)
  BY <1>11, <1>b DEF ThrowForRetry
<1>12. ASSUME NEW j \in Jobs, CountExhausted(j)
       PROVE  HookInv' /\ \A x \in Endpoints : FairOn(x)
  <2> DEFINE e == Target(j)
             r == Charged(endpoint[e])
  <2>1. e \in Endpoints /\ endpoint[e] # NULL /\ endpoint[e] \in EndpointRow
    BY <1>12, <1>q DEF CountExhausted
  <2>2. endpoint' = [endpoint EXCEPT ![e] = r]
    BY <1>12 DEF CountExhausted
  <2>3. /\ r \in EndpointRow /\ (r.active => r.failures < Threshold)
        /\ ~endpoint[e].active => ~r.active
        /\ r.failures >= endpoint[e].failures
    BY <2>1, ChargedRow
  <2>5. /\ job' \in [Jobs -> Job \cup {NULL}]
        /\ \A i \in Jobs : job'[i] # NULL => job[i] # NULL /\ job'[i].delivery = job[i].delivery
    BY <1>12, <1>s DEF CountExhausted
  <2>6. UNCHANGED <<delivery, unsent, gaveUp, workerStops>>
    BY <1>12 DEF CountExhausted
  <2> HIDE DEF e, r
  <2> QED
    BY <2>1, <2>2, <2>3, <2>5, <2>6, EndpointStep
<1>13. ASSUME NEW j \in Jobs, Close(j)
       PROVE  HookInv' /\ \A x \in Endpoints : FairOn(x)
  <2>1. PICK s \in {"SUCCESS", "EXHAUSTED"} :
           /\ delivery' = Verdict(job[j].delivery, s)
           /\ Step(j, "done")
           /\ UNCHANGED <<endpoint, unsent, gaveUp, workerStops>>
    BY <1>13 DEF Close
  <2>2. job[j] # NULL
    BY <1>13 DEF Close
  <2>3. job[j].delivery \in Deliveries /\ delivery[job[j].delivery] # NULL
    BY <1>q, <2>2 DEF Job
  <2>4. /\ job' \in [Jobs -> Job \cup {NULL}]
        /\ \A i \in Jobs : job'[i] # NULL => job[i] # NULL /\ job'[i].delivery = job[i].delivery
    BY <1>s, <2>1, <2>2
  <2> QED
    BY <2>1, <2>3, <2>4, <1>v DEF Verdict
<1>14. ASSUME NEW j \in Jobs, Acknowledge(j)
       PROVE  HookInv' /\ \A x \in Endpoints : FairOn(x)
  BY <1>14, <1>k, JobStep DEF Acknowledge
<1>15. ASSUME NEW j \in Jobs, ProcessThrows(j)
       PROVE  HookInv' /\ \A x \in Endpoints : FairOn(x)
  <2>1. job[j] # NULL /\ UNCHANGED <<endpoint, delivery, unsent, workerStops>>
    BY <1>15 DEF ProcessThrows
  <2>2. CASE GiveUp(j)
    BY <2>1, <2>2, <1>g, <1>k
  <2>3. CASE /\ job[j].made + 1 < MaxAttempts /\ UNCHANGED gaveUp
             /\ job' = [job EXCEPT ![j].made = @ + 1, ![j].step = "wait"]
    BY <2>1, <2>3, <1>b
  <2> QED
    BY <1>15, <2>2, <2>3 DEF ProcessThrows
<1>16. ASSUME NEW j \in Jobs, WorkerStops(j)
       PROVE  HookInv' /\ \A x \in Endpoints : FairOn(x)
  <2>1. workerStops' \in 0 .. MaxWorkerStops
    BY <1>16, <1>k, WebhookAssumption DEF WorkerStops
  <2>2. job[j] # NULL /\ UNCHANGED <<endpoint, delivery, unsent>>
    BY <1>16 DEF WorkerStops
  <2>3. CASE Step(j, "wait") /\ UNCHANGED gaveUp
    BY <2>1, <2>2, <2>3, <1>j, <1>k, JobStep DEF Step
  <2>4. CASE GiveUp(j)
    BY <2>1, <2>2, <2>4, <1>g
  <2> QED
    BY <1>16, <2>3, <2>4 DEF WorkerStops
<1> QED
  BY <1>0, <1>1, <1>2, <1>3, <1>4, <1>5, <1>6, <1>7, <1>8, <1>9, <1>10, <1>11, <1>12, <1>13, <1>14,
     <1>15, <1>16
  DEF HookNext, Process

\* An endpoint that was disabled stays so until an administrator enables it, and an
\* active one is below the threshold, whatever workers and administrators overlap
\* (the single UPDATEs of WebhookDeliveryProcessor).
THEOREM DisabledStaysDisabledHolds == HookSpec => DisabledStaysDisabled
<1>1. (\A e \in Endpoints : FairOn(e)) =>
      \A e \in Endpoints : endpoint[e] # NULL /\ endpoint'[e] # NULL =>
          /\ endpoint'[e].active => endpoint'[e].failures < Threshold
          /\ /\ ~endpoint[e].active
             /\ endpoint'[e].active \/ endpoint'[e].failures < endpoint[e].failures
             => endpoint'[e] = Fresh
  BY DEF FairOn
<1> QED
  BY HookInitOK, HookStep, <1>1, PTL DEF HookSpec, DisabledStaysDisabled

-----------------------------------------------------------------------------
(* Escalation.                                                             *)

\* The times a run and a stamp hold have passed.
TimesPassed ==
    /\ running # NULL => running.now <= clockNow
    /\ \A i \in Chased : chase[i].last # NULL =>
          /\ chase[i].last <= clockNow
          /\ running # NULL => chase[i].last <= running.now

\* A date that was reported is not later than the stamp.
ReportedIsStamped ==
    \A i \in Chased : notices[i] # 0 =>
        chase[i].next # NULL /\ chase[i].last # NULL /\ chase[i].next <= chase[i].last

\* What the run under way found eligible was overdue then; if the date is still
\* the one it read, nobody has been told of it; and once it has stamped a lead, the
\* stamp is its own.
RunIsCurrent ==
    running # NULL => \A i \in running.eligible :
        /\ running.dates[i] # NULL /\ running.dates[i] < running.now
        /\ running.dates[i] = chase[i].next => notices[i] = 0
        /\ running.step = "stamped" => chase[i].last = running.now

EscInv == EscTypeOK /\ TimesPassed /\ ReportedIsStamped /\ RunIsCurrent /\ OneNoticePerLapse

\* EscInv without its types, which every step proof takes for granted.
EscTrue == TimesPassed /\ ReportedIsStamped /\ RunIsCurrent /\ OneNoticePerLapse

LEMMA EscInitOK == EscInit => EscInv
<1> SUFFICES ASSUME EscInit PROVE EscInv
  OBVIOUS
<1>1. chase \in [Chased -> Chase] /\ \A i \in Chased : chase[i].last = NULL
  BY DEF EscInit, Chase
<1>2. notices \in [Chased -> Nat] /\ \A i \in Chased : notices[i] = 0
  BY DEF EscInit
<1>3. EscTypeOK
  <2>1. 0 \in Times /\ 0 \in 0 .. MaxRunFailures
    BY EscAssumption DEF Times
  <2> QED
    BY <1>1, <1>2, <2>1 DEF EscInit, EscTypeOK
<1> QED
  BY <1>1, <1>2, <1>3
  DEF EscInit, EscInv, TimesPassed, ReportedIsStamped, RunIsCurrent, OneNoticePerLapse

\* Every step keeps the invariant: a date is reported by the run that stamps it, and
\* a stamp not before the date keeps later runs away.
LEMMA EscStep == EscInv /\ [EscNext]_escVars => EscInv'
<1> SUFFICES ASSUME EscInv, [EscNext]_escVars PROVE EscInv'
  OBVIOUS
<1>t. EscTypeOK /\ EscTrue
  BY DEF EscInv, EscTrue
<1>i. ASSUME NEW i \in Chased
      PROVE  /\ chase[i] \in Chase /\ notices[i] \in Nat
             /\ chase[i].next \in Times \cup {NULL} /\ chase[i].last \in Times \cup {NULL}
  BY <1>t DEF EscTypeOK, Chase
<1>r. running # NULL => /\ running \in Run /\ running.now \in Times
                        /\ running.dates \in [Chased -> Times \cup {NULL}]
                        /\ running.eligible \subseteq Chased
                        /\ running.step \in {"read", "stamped"}
  BY <1>t DEF EscTypeOK, Run
<1>n. Times \subseteq Nat /\ NULL \notin Times /\ clockNow \in Times
  BY <1>t, EscAssumption DEF Times, EscTypeOK
<1>l. ASSUME NEW i \in Chased
      PROVE  /\ chase[i].last # NULL => chase[i].last \in Nat
             /\ chase[i].next # NULL => chase[i].next \in Nat
  BY <1>i, <1>n
<1>0. CASE UNCHANGED escVars
  BY <1>0, <1>t DEF escVars, EscInv, EscTypeOK, EscTrue, TimesPassed, ReportedIsStamped,
                    RunIsCurrent, OneNoticePerLapse
<1>1. ASSUME NEW i \in Chased, NEW d \in Times, schedule(i, d) PROVE EscInv'
  <2> DEFINE v == [chase[i] EXCEPT !.next = d]
  <2>1. v \in Chase /\ v.next = d /\ v.last = chase[i].last
    BY <1>i DEF Chase
  <2>2. chase' = [chase EXCEPT ![i] = v] /\ notices' = [notices EXCEPT ![i] = 0]
        /\ unheard' = unheard \ {i} /\ UNCHANGED <<companyOn, clockNow, queued, running, runFailures>>
    BY <1>1 DEF schedule
  <2> HIDE DEF v
  <2>3. \A k \in Chased : /\ chase'[k] = IF k = i THEN v ELSE chase[k]
                          /\ notices'[k] = IF k = i THEN 0 ELSE notices[k]
    BY <1>t, <2>2 DEF EscTypeOK
  <2>4. EscTypeOK'
    BY <1>t, <2>1, <2>2 DEF EscTypeOK
  <2>5. TimesPassed'
    BY <1>t, <2>1, <2>2, <2>3 DEF EscTrue, TimesPassed
  <2>6. ReportedIsStamped' /\ OneNoticePerLapse'
    BY <1>t, <2>3 DEF EscTrue, ReportedIsStamped, OneNoticePerLapse
  <2>7. RunIsCurrent'
    BY <1>t, <1>r, <2>1, <2>2, <2>3 DEF EscTrue, RunIsCurrent
  <2> QED
    BY <2>4, <2>5, <2>6, <2>7 DEF EscInv
<1>2. ASSUME NEW i \in Chased, NEW on \in BOOLEAN, setActive(i, on) PROVE EscInv'
  <2> DEFINE v == [chase[i] EXCEPT !.active = on]
  <2>1. v \in Chase /\ v.next = chase[i].next /\ v.last = chase[i].last
    BY <1>i DEF Chase
  <2>2. chase' = [chase EXCEPT ![i] = v]
        /\ UNCHANGED <<companyOn, clockNow, queued, running, notices, unheard, runFailures>>
    BY <1>2 DEF setActive
  <2> HIDE DEF v
  <2>3. \A k \in Chased : chase'[k].next = chase[k].next /\ chase'[k].last = chase[k].last
    BY <1>t, <2>1, <2>2 DEF EscTypeOK
  <2>4. EscTypeOK'
    BY <1>t, <2>1, <2>2 DEF EscTypeOK
  <2>5. TimesPassed' /\ ReportedIsStamped' /\ OneNoticePerLapse'
    BY <1>t, <2>2, <2>3 DEF EscTrue, TimesPassed, ReportedIsStamped, OneNoticePerLapse
  <2>6. RunIsCurrent'
    BY <1>t, <1>r, <2>2, <2>3 DEF EscTrue, RunIsCurrent
  <2> QED
    BY <2>4, <2>5, <2>6 DEF EscInv
<1>3. ASSUME NEW on \in BOOLEAN, setCompany(on) PROVE EscInv'
  BY <1>3, <1>t DEF setCompany, EscInv, EscTypeOK, EscTrue, TimesPassed, ReportedIsStamped,
                    RunIsCurrent, OneNoticePerLapse
<1>4. CASE Pass
  <2>1. clockNow' = clockNow + 1 /\ clockNow' \in Times
        /\ UNCHANGED <<chase, companyOn, queued, running, notices, unheard, runFailures>>
    BY <1>4, <1>n, EscAssumption DEF Pass, Times
  <2>2. EscTypeOK'
    BY <1>t, <2>1 DEF EscTypeOK
  <2>3. TimesPassed'
    <3>1. clockNow \in Nat /\ (running # NULL => running.now \in Nat)
      BY <1>n, <1>r
    <3>2. \A i \in Chased : chase[i].last # NULL => chase[i].last <= clockNow + 1
      BY <3>1, <1>t, <1>l DEF EscTrue, TimesPassed
    <3>3. running # NULL => running.now <= clockNow + 1
      BY <3>1, <1>t DEF EscTrue, TimesPassed
    <3> QED
      BY <1>t, <2>1, <3>2, <3>3 DEF EscTrue, TimesPassed
  <2> QED
    BY <1>t, <2>1, <2>2, <2>3 DEF EscInv, EscTrue, ReportedIsStamped, RunIsCurrent, OneNoticePerLapse
<1>5. CASE dispatchTick
  BY <1>5, <1>t DEF dispatchTick, EscInv, EscTypeOK, EscTrue, TimesPassed, ReportedIsStamped,
                    RunIsCurrent, OneNoticePerLapse
<1>6. CASE StartRun
  <2> DEFINE e == {i \in Chased : chase[i].active
                      /\ isEscalationEligible(chase[i].next, chase[i].last, clockNow)}
             ds == [i \in Chased |-> chase[i].next]
  <2>1. running' = [now |-> clockNow, dates |-> ds, eligible |-> e, step |-> "read"]
        /\ queued' = FALSE
        /\ UNCHANGED <<chase, companyOn, clockNow, notices, unheard, runFailures>>
    BY <1>6 DEF StartRun
  <2>2. e \subseteq Chased /\ ds \in [Chased -> Times \cup {NULL}]
    BY <1>i
  <2>3. \A i \in e : /\ i \in Chased /\ chase[i].next # NULL /\ chase[i].next < clockNow
                     /\ chase[i].last # NULL => chase[i].last < chase[i].next
    BY DEF isEscalationEligible, isFollowUpOverdue
  <2>4. \A i \in Chased : ds[i] = chase[i].next
    OBVIOUS
  <2> HIDE DEF e, ds
  <2>5. /\ running' \in Run /\ running'.now = clockNow /\ running'.dates = ds
        /\ running'.eligible = e /\ running'.step = "read"
    BY <2>1, <2>2, <1>n DEF Run
  <2>6. EscTypeOK'
    BY <1>t, <2>1, <2>5 DEF EscTypeOK
  <2>7. TimesPassed'
    <3>1. clockNow <= clockNow
      BY <1>n
    <3> QED
      BY <1>t, <2>1, <2>5, <3>1 DEF EscTrue, TimesPassed
  <2>8. \A i \in e : notices[i] = 0
    <3> SUFFICES ASSUME NEW i \in e, notices[i] # 0 PROVE FALSE
      OBVIOUS
    <3>1. i \in Chased /\ chase[i].next # NULL /\ chase[i].last # NULL
          /\ chase[i].next <= chase[i].last /\ chase[i].last < chase[i].next
      BY <1>t, <2>3 DEF EscTrue, ReportedIsStamped
    <3>2. chase[i].last \in Nat /\ chase[i].next \in Nat
      BY <3>1, <1>l
    <3> QED
      BY ONLY <3>1, <3>2
  <2>9. RunIsCurrent'
    BY <2>1, <2>3, <2>4, <2>5, <2>8 DEF RunIsCurrent
  <2> QED
    BY <1>t, <2>1, <2>6, <2>7, <2>9 DEF EscInv, EscTrue, ReportedIsStamped, OneNoticePerLapse
<1>7. CASE StampRun
  <2> DEFINE v(i) == IF i \in running.eligible THEN [chase[i] EXCEPT !.last = running.now] ELSE chase[i]
             w == [running EXCEPT !.step = "stamped"]
  <2>1. running # NULL /\ running.step = "read" /\ chase' = [i \in Chased |-> v(i)] /\ running' = w
        /\ UNCHANGED <<companyOn, clockNow, queued, notices, unheard, runFailures>>
    BY <1>7 DEF StampRun
  <2>2. ASSUME NEW i \in Chased
        PROVE  /\ v(i) \in Chase /\ v(i).next = chase[i].next
               /\ v(i).last = IF i \in running.eligible THEN running.now ELSE chase[i].last
    <3>1. chase[i] \in Chase /\ running.now \in Times
      BY <1>i, <1>r, <2>1
    <3>2. LET x == [chase[i] EXCEPT !.last = running.now]
          IN  x \in Chase /\ x.next = chase[i].next /\ x.last = running.now
      BY <3>1 DEF Chase
    <3> QED
      BY <3>1, <3>2
  <2>3. ASSUME NEW i \in Chased
        PROVE  /\ chase'[i].next = chase[i].next
               /\ chase'[i].last = IF i \in running.eligible THEN running.now ELSE chase[i].last
    <3>1. chase'[i] = v(i)
      BY <2>1
    <3> QED
      BY <3>1, <2>2
  <2>4. /\ running' \in Run /\ running' # NULL /\ running'.now = running.now
        /\ running'.dates = running.dates /\ running'.eligible = running.eligible
    <3>1. running \in Run
      BY <1>r, <2>1
    <3>2. w \in Run /\ w.now = running.now /\ w.dates = running.dates /\ w.eligible = running.eligible
      BY <3>1 DEF Run
    <3> QED
      BY <2>1, <3>2, EscAssumption
  <2>5. EscTypeOK'
    <3>1. chase' \in [Chased -> Chase]
      BY <2>1, <2>2
    <3> QED
      BY <1>t, <2>1, <2>4, <3>1 DEF EscTypeOK
  <2>6. TimesPassed'
    BY <1>t, <1>r, <1>n, <2>1, <2>3, <2>4 DEF EscTrue, TimesPassed
  <2>7. OneNoticePerLapse'
    BY <1>t, <2>1 DEF EscTrue, OneNoticePerLapse
  <2>8. ReportedIsStamped'
    <3> SUFFICES ASSUME NEW i \in Chased, notices[i] # 0
                 PROVE  chase'[i].next # NULL /\ chase'[i].last # NULL /\ chase'[i].next <= chase'[i].last
      BY <2>1 DEF ReportedIsStamped
    <3>1. chase[i].next # NULL /\ chase[i].last # NULL /\ chase[i].next <= chase[i].last
          /\ chase[i].last <= running.now
      BY <1>t, <2>1 DEF EscTrue, ReportedIsStamped, TimesPassed
    <3> QED
      BY <3>1, <2>3, <1>i, <1>r, <1>n, <2>1
  <2>9. RunIsCurrent'
    BY <1>t, <1>r, <2>1, <2>3, <2>4 DEF EscTrue, RunIsCurrent
  <2> QED
    BY <2>5, <2>6, <2>7, <2>8, <2>9 DEF EscInv
<1>8. CASE FailRun
  <2>1. runFailures' \in 0 .. MaxRunFailures
    BY <1>8, <1>t, EscAssumption DEF FailRun, EscTypeOK
  <2> QED
    BY <1>8, <1>t, <2>1 DEF FailRun, EscInv, EscTypeOK, EscTrue, TimesPassed, ReportedIsStamped,
                            RunIsCurrent, OneNoticePerLapse
<1>9. CASE NotifyManagers
  <2> DEFINE c(i) == IF i \in StillLapsed THEN notices[i] + 1 ELSE notices[i]
  <2>1. running # NULL /\ running.step = "stamped" /\ notices' = [i \in Chased |-> c(i)]
        /\ running' = NULL /\ UNCHANGED <<chase, companyOn, clockNow, queued, unheard, runFailures>>
    BY <1>9 DEF NotifyManagers
  <2>2. ASSUME NEW i \in Chased
        PROVE  c(i) \in Nat /\ notices'[i] = c(i)
    BY <1>i, <2>1
  <2>3. EscTypeOK'
    <3>1. notices' \in [Chased -> Nat]
      BY <2>1, <2>2
    <3> QED
      BY <1>t, <2>1, <3>1 DEF EscTypeOK
  <2>4. TimesPassed'
    BY <1>t, <2>1 DEF EscTrue, TimesPassed
  <2>5. ASSUME NEW i \in Chased, i \in StillLapsed
        PROVE  /\ notices[i] = 0 /\ chase[i].next # NULL /\ chase[i].last # NULL
               /\ chase[i].next <= chase[i].last
    <3>1. /\ running.dates[i] # NULL /\ running.dates[i] < running.now
          /\ running.dates[i] = chase[i].next /\ notices[i] = 0 /\ chase[i].last = running.now
      BY <1>t, <2>1, <2>5 DEF EscTrue, RunIsCurrent, StillLapsed
    <3>2. running.dates[i] \in Nat /\ running.now \in Nat /\ running.now # NULL
      BY <1>r, <1>n, <2>1, <3>1
    <3> QED
      BY <3>1, <3>2
  <2>6. OneNoticePerLapse'
    <3> SUFFICES ASSUME NEW i \in Chased PROVE notices'[i] <= 1
      BY DEF OneNoticePerLapse
    <3>1. CASE i \in StillLapsed
      BY <2>2, <2>5, <3>1
    <3>2. CASE i \notin StillLapsed
      BY <1>t, <2>2, <3>2 DEF EscTrue, OneNoticePerLapse
    <3> QED
      BY <3>1, <3>2
  <2>7. ReportedIsStamped'
    <3> SUFFICES ASSUME NEW i \in Chased, notices'[i] # 0
                 PROVE  chase[i].next # NULL /\ chase[i].last # NULL /\ chase[i].next <= chase[i].last
      BY <2>1 DEF ReportedIsStamped
    <3>1. CASE i \in StillLapsed
      BY <2>5, <3>1
    <3>2. CASE i \notin StillLapsed
      BY <1>t, <2>2, <3>2 DEF EscTrue, ReportedIsStamped
    <3> QED
      BY <3>1, <3>2
  <2> QED
    BY <2>1, <2>3, <2>4, <2>6, <2>7 DEF EscInv, RunIsCurrent
<1>10. ASSUME running # NULL, running' = NULL, UNCHANGED <<chase, companyOn, clockNow, notices>>,
              queued' \in BOOLEAN, unheard' \subseteq Chased, runFailures' \in 0 .. MaxRunFailures
       PROVE  EscInv'
  BY <1>10, <1>t DEF EscInv, EscTypeOK, EscTrue, TimesPassed, ReportedIsStamped, RunIsCurrent,
                     OneNoticePerLapse
<1>11. StillLapsed \cup unheard \subseteq Chased \/ running = NULL
  BY <1>t, <1>r DEF StillLapsed, EscTypeOK
<1>12. CASE NoticeLost
  BY <1>12, <1>10, <1>11, <1>t DEF NoticeLost, EscTypeOK
<1>13. CASE RunStops
  <2>1. runFailures' \in 0 .. MaxRunFailures /\ queued' \in BOOLEAN
    <3>1. runFailures' \in 0 .. MaxRunFailures
      BY <1>13, <1>t, EscAssumption DEF RunStops, EscTypeOK
    <3>2. queued' = queued \/ queued' = TRUE
      BY <1>13 DEF RunStops
    <3>3. queued \in BOOLEAN
      BY <1>t DEF EscTypeOK
    <3> QED
      BY <3>1, <3>2, <3>3
  <2>2. unheard' \subseteq Chased
    BY <1>13, <1>11, <1>t DEF RunStops, EscTypeOK
  <2> QED
    BY <1>13, <1>10, <2>1, <2>2 DEF RunStops
<1> QED
  BY <1>0, <1>1, <1>2, <1>3, <1>4, <1>5, <1>6, <1>7, <1>8, <1>9, <1>12, <1>13 DEF EscNext

\* A follow-up date that lapses is reported at most once, however ticks,
\* reschedulings, failed runs and stopped workers interleave (runForCompany).
THEOREM OneNoticePerLapseHolds == EscSpec => []OneNoticePerLapse
<1>1. EscInv => OneNoticePerLapse
  BY DEF EscInv
<1> QED
  BY EscInitOK, EscStep, <1>1, PTL DEF EscSpec
=============================================================================
