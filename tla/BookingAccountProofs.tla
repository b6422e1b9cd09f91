------------------------- MODULE BookingAccountProofs -------------------------
(***************************************************************************)
(* The money of a booking, for any bookings, installments, receipts and    *)
(* prices.  First BookingAccount's handlers, each one transaction: the     *)
(* cached allocations, the ledger and the schedule agree with the receipts *)
(* and the price, and a cancellation settles the balance.  Then ReceiptTx, *)
(* where the statements of receipts, reversals and bounces interleave: a   *)
(* receipt's credit is given back at most once, one at a time no           *)
(* installment receives more than its amount, and within one financial     *)
(* year no update of a cached allocation is lost.                          *)
(***************************************************************************)
EXTENDS MCBookingAccount, SumFacts, TLAPS

(* The account, handler by handler.                                        *)

Standing(rc) == rc # NULL /\ ~rc.isReversed

\* What the receipts of table rc that stand allocate to installment i; the cash
\* of those of booking b; the TDS of its certificates; the amounts of its plan.
AllocOf(rc, i) == [r \in Receipts |-> IF Standing(rc[r]) THEN rc[r].alloc[i] ELSE 0]

NetOf(rc, b) == [r \in Receipts |-> IF Standing(rc[r]) /\ rc[r].booking = b
                                    THEN Sigma(rc[r].alloc) - rc[r].tds ELSE 0]

CertOf(rc, b) == [r \in Receipts |-> IF rc[r] # NULL /\ rc[r].booking = b /\ rc[r].certificate
                                     THEN rc[r].tds ELSE 0]

AmountOf(in, b) == [i \in Installments |-> IF in[i] # NULL /\ in[i].booking = b
                                           THEN in[i].amount ELSE 0]

ReceiptTypes == {"RECEIPT_ALLOC", "TDS_RECEIVABLE", "BOUNCE_REVERSAL", "ADJUSTMENT",
                 "TDS_CERT_ADJUSTMENT"}

\* m is l with the entries e, of types D, added.
Posted(l, m, D, e) == \A t \in EntryType : m[t] = l[t] + (IF t \in D THEN e[t] ELSE 0)

ReceiptTable == [Receipts -> ReceiptRow \cup {NULL}]
InstTable == [Installments -> InstallmentRow \cup {NULL}]

-----------------------------------------------------------------------------
LEMMA FiveFinite ==
    ASSUME NEW a, NEW b, NEW c, NEW d, NEW e
    PROVE  IsFiniteSet({a, b, c, d, e})
  <1>1. IsFiniteSet({a})
    BY FS_Singleton
  <1>2. IsFiniteSet({a} \cup {b})
    BY <1>1, FS_AddElement, Zenon
  <1>3. IsFiniteSet(({a} \cup {b}) \cup {c})
    BY <1>2, FS_AddElement, Zenon
  <1>4. IsFiniteSet((({a} \cup {b}) \cup {c}) \cup {d})
    BY <1>3, FS_AddElement, Zenon
  <1>5. IsFiniteSet(((({a} \cup {b}) \cup {c}) \cup {d}) \cup {e})
    BY <1>4, FS_AddElement, Zenon
  <1>6. {a, b, c, d, e} = ((({a} \cup {b}) \cup {c}) \cup {d}) \cup {e}
    OBVIOUS
  <1> QED BY <1>5, <1>6

LEMMA TypesFinite == IsFiniteSet(EntryType) /\ ReceiptTypes \subseteq EntryType
  <1> DEFINE A == {"CHARGE", "EXTRA_CHARGE", "RECEIPT_ALLOC", "BOUNCE_REVERSAL", "BOUNCE_CHARGE"}
             B == {"REFUND_APPROVED", "REFUND_BOUNCE_REVERSAL", "TRANSFER_CARRY_OUT",
                   "TRANSFER_CARRY_IN", "TRANSFER_FEE"}
             C == {"CANCELLATION_SETTLEMENT", "CANCELLATION_DEDUCTION", "TDS_RECEIVABLE",
                   "TDS_CERT_ADJUSTMENT", "ADJUSTMENT"}
  <1>1. EntryType = (A \cup B) \cup C
    BY DEF EntryType
  <1>2. IsFiniteSet(A) /\ IsFiniteSet(B) /\ IsFiniteSet(C)
    BY FiveFinite
  <1>3. ReceiptTypes \subseteq EntryType
    BY DEF ReceiptTypes, EntryType
  <1> HIDE DEF A, B, C
  <1>4. IsFiniteSet((A \cup B) \cup C)
    BY <1>2, FS_Union
  <1> QED BY <1>1, <1>3, <1>4

\* Adding entries e to the totals l changes a sum of totals by those of the
\* entries that belong to it.
LEMMA PostAdds ==
    ASSUME NEW l \in [EntryType -> Int], NEW m \in [EntryType -> Int],
           NEW D, D \subseteq EntryType, NEW e \in [D -> Int],
           Posted(l, m, D, e), NEW F, F \subseteq EntryType
    PROVE  /\ Sigma(On(m, F)) = Sigma(On(l, F)) + Sigma(On(e, D \cap F))
           /\ Sigma(On(e, D \cap F)) \in Int /\ Sigma(On(l, F)) \in Int
  <1> DEFINE x == [t \in F |-> IF t \in D THEN e[t] ELSE 0]
             G == D \cap F
  <1>1. IsFiniteSet(F) /\ IsFiniteSet(G) /\ G \subseteq F
    BY TypesFinite, FS_Subset
  <1>2. /\ On(m, F) \in [F -> Int] /\ On(l, F) \in [F -> Int] /\ x \in [F -> Int]
        /\ On(e, G) \in [G -> Int]
    BY DEF On
  <1>3. AddsUp(On(l, F), x, On(m, F), F)
    BY DEF AddsUp, On, Posted
  <1>4. SameOn(x, On(e, G), G) /\ \A t \in F \ G : x[t] = 0
    BY DEF SameOn, On
  <1> HIDE DEF x, G
  <1>5. Sigma(On(m, F)) = Sigma(On(l, F)) + Sigma(x)
    BY <1>1, <1>2, <1>3, SigmaAdd
  <1>6. Sigma(x) = Sigma(On(e, G))
    BY <1>1, <1>2, <1>4, SigmaFilter
  <1>7. Sigma(On(e, G)) \in Int /\ Sigma(On(l, F)) \in Int
    BY <1>1, <1>2, SigmaType
  <1> QED BY <1>5, <1>6, <1>7 DEF G

-----------------------------------------------------------------------------
\* The sums over receipts and installments.
LEMMA RowsOfTable ==
    ASSUME NEW rc \in ReceiptTable, NEW r \in Receipts, rc[r] # NULL
    PROVE  rc[r] \in ReceiptRow
  BY DEF ReceiptTable

LEMMA GrossType ==
    ASSUME NEW a \in [Installments -> Nat]
    PROVE  Sigma(a) \in Nat
  BY AccountAssumption, SigmaNat

LEMMA TableSums ==
    ASSUME NEW rc \in ReceiptTable, NEW b
    PROVE  /\ \A i \in Installments : AllocOf(rc, i) \in [Receipts -> Nat]
           /\ NetOf(rc, b) \in [Receipts -> Int]
           /\ CertOf(rc, b) \in [Receipts -> Nat]
  <1>1. \A r \in Receipts : rc[r] # NULL =>
           /\ rc[r].alloc \in [Installments -> Nat] /\ rc[r].tds \in Nat
           /\ Sigma(rc[r].alloc) \in Nat
    <2> TAKE r \in Receipts
    <2> HAVE rc[r] # NULL
    <2>1. rc[r].alloc \in [Installments -> Nat] /\ rc[r].tds \in Nat
      BY RowsOfTable DEF ReceiptRow
    <2> QED BY <2>1, GrossType
  <1>2. ASSUME NEW i \in Installments PROVE AllocOf(rc, i) \in [Receipts -> Nat]
    BY <1>1 DEF AllocOf, Standing
  <1>3. NetOf(rc, b) \in [Receipts -> Int]
    BY <1>1 DEF NetOf, Standing
  <1>4. CertOf(rc, b) \in [Receipts -> Nat]
    BY <1>1 DEF CertOf
  <1> QED BY <1>2, <1>3, <1>4

\* One receipt changes.
LEMMA TableChange ==
    ASSUME NEW rc \in ReceiptTable, NEW rn \in ReceiptTable, NEW r \in Receipts,
           SameOn(rn, rc, Receipts \ {r}), NEW b
    PROVE  /\ \A i \in Installments :
                 /\ Sigma(AllocOf(rn, i)) = Sigma(AllocOf(rc, i)) + AllocOf(rn, i)[r] - AllocOf(rc, i)[r]
                 /\ Sigma(AllocOf(rc, i)) \in Int
           /\ Sigma(NetOf(rn, b)) = Sigma(NetOf(rc, b)) + NetOf(rn, b)[r] - NetOf(rc, b)[r]
           /\ Sigma(NetOf(rc, b)) \in Int
           /\ Sigma(CertOf(rn, b)) = Sigma(CertOf(rc, b)) + CertOf(rn, b)[r] - CertOf(rc, b)[r]
           /\ Sigma(CertOf(rc, b)) \in Int
  <1>0. IsFiniteSet(Receipts)
    BY AccountAssumption
  <1>1. ASSUME NEW i \in Installments
        PROVE  /\ Sigma(AllocOf(rn, i)) = Sigma(AllocOf(rc, i)) + AllocOf(rn, i)[r] - AllocOf(rc, i)[r]
               /\ Sigma(AllocOf(rc, i)) \in Int
    <2> DEFINE f == AllocOf(rc, i)
               g == AllocOf(rn, i)
    <2>1. f \in [Receipts -> Int] /\ g \in [Receipts -> Int]
      BY TableSums
    <2>2. \A q \in Receipts \ {r} : g[q] = f[q]
      BY DEF AllocOf, SameOn
    <2> HIDE DEF f, g
    <2>3. Sigma(g) = Sigma(f) + g[r] - f[r] /\ Sigma(f) \in Int
      BY <1>0, <2>1, <2>2, SigmaChange, SigmaType
    <2> QED BY <2>3 DEF f, g
  <1>2. /\ Sigma(NetOf(rn, b)) = Sigma(NetOf(rc, b)) + NetOf(rn, b)[r] - NetOf(rc, b)[r]
        /\ Sigma(NetOf(rc, b)) \in Int
    <2> DEFINE f == NetOf(rc, b)
               g == NetOf(rn, b)
    <2>1. f \in [Receipts -> Int] /\ g \in [Receipts -> Int]
      BY TableSums
    <2>2. \A q \in Receipts \ {r} : g[q] = f[q]
      BY DEF NetOf, SameOn
    <2> HIDE DEF f, g
    <2>3. Sigma(g) = Sigma(f) + g[r] - f[r] /\ Sigma(f) \in Int
      BY <1>0, <2>1, <2>2, SigmaChange, SigmaType
    <2> QED BY <2>3 DEF f, g
  <1>3. /\ Sigma(CertOf(rn, b)) = Sigma(CertOf(rc, b)) + CertOf(rn, b)[r] - CertOf(rc, b)[r]
        /\ Sigma(CertOf(rc, b)) \in Int
    <2> DEFINE f == CertOf(rc, b)
               g == CertOf(rn, b)
    <2>1. f \in [Receipts -> Int] /\ g \in [Receipts -> Int]
      BY TableSums
    <2>2. \A q \in Receipts \ {r} : g[q] = f[q]
      BY DEF CertOf, SameOn
    <2> HIDE DEF f, g
    <2>3. Sigma(g) = Sigma(f) + g[r] - f[r] /\ Sigma(f) \in Int
      BY <1>0, <2>1, <2>2, SigmaChange, SigmaType
    <2> QED BY <2>3 DEF f, g
  <1> QED BY <1>1, <1>2, <1>3, Zenon

\* The sums as the properties write them.
LEMMA AllocAsStated ==
    ASSUME NEW rc \in ReceiptTable, NEW i \in Installments
    PROVE  TotalOf([r \in {q \in Receipts : rc[q] # NULL /\ ~rc[q].isReversed} |-> rc[r].alloc[i]])
           = Sigma(AllocOf(rc, i))
  <1> DEFINE T == {q \in Receipts : rc[q] # NULL /\ ~rc[q].isReversed}
             g == [r \in T |-> rc[r].alloc[i]]
             f == AllocOf(rc, i)
  <1>1. f \in [Receipts -> Int] /\ IsFiniteSet(Receipts)
    BY TableSums, AccountAssumption
  <1>2. SameOn(f, g, T) /\ (\A q \in Receipts \ T : f[q] = 0) /\ T \subseteq Receipts
    BY DEF SameOn, AllocOf, Standing
  <1>3. g \in [T -> Int]
    <2>1. \A q \in T : g[q] = f[q] /\ q \in Receipts
      BY <1>2 DEF SameOn
    <2>2. g = [q \in T |-> g[q]]
      OBVIOUS
    <2> HIDE DEF f, g, T
    <2> QED BY <2>1, <2>2, <1>1
  <1> HIDE DEF f, g, T
  <1>4. Sigma(f) = Sigma(g)
    BY <1>1, <1>2, <1>3, SigmaFilter
  <1> QED BY <1>4 DEF f, g, T, TotalOf, Sigma

LEMMA NetAsStated ==
    ASSUME NEW rc \in ReceiptTable, NEW b
    PROVE  TotalOf([r \in {q \in {p \in Receipts : rc[p] # NULL /\ rc[p].booking = b} :
                          ~rc[q].isReversed} |-> TotalOf(rc[r].alloc) - rc[r].tds])
           = Sigma(NetOf(rc, b))
  <1> DEFINE T == {q \in {p \in Receipts : rc[p] # NULL /\ rc[p].booking = b} : ~rc[q].isReversed}
             g == [r \in T |-> TotalOf(rc[r].alloc) - rc[r].tds]
             f == NetOf(rc, b)
  <1>1. f \in [Receipts -> Int] /\ IsFiniteSet(Receipts)
    BY TableSums, AccountAssumption
  <1>2. SameOn(f, g, T) /\ (\A q \in Receipts \ T : f[q] = 0) /\ T \subseteq Receipts
    <2>1. \A x : TotalOf(x) = Sigma(x)
      BY DEF TotalOf, Sigma
    <2> QED BY <2>1 DEF SameOn, NetOf, Standing
  <1>3. g \in [T -> Int]
    <2>1. \A q \in T : g[q] = f[q] /\ q \in Receipts
      BY <1>2 DEF SameOn
    <2>2. g = [q \in T |-> g[q]]
      OBVIOUS
    <2> HIDE DEF f, g, T
    <2> QED BY <2>1, <2>2, <1>1
  <1> HIDE DEF f, g, T
  <1>4. Sigma(f) = Sigma(g)
    BY <1>1, <1>2, <1>3, SigmaFilter
  <1> QED BY <1>4 DEF f, g, T, TotalOf, Sigma

LEMMA CertAsStated ==
    ASSUME NEW rc \in ReceiptTable, NEW b
    PROVE  TotalOf([r \in {q \in {p \in Receipts : rc[p] # NULL /\ rc[p].booking = b} :
                          rc[q].certificate} |-> rc[r].tds])
           = Sigma(CertOf(rc, b))
  <1> DEFINE T == {q \in {p \in Receipts : rc[p] # NULL /\ rc[p].booking = b} : rc[q].certificate}
             g == [r \in T |-> rc[r].tds]
             f == CertOf(rc, b)
  <1>1. f \in [Receipts -> Int] /\ IsFiniteSet(Receipts)
    BY TableSums, AccountAssumption
  <1>2. SameOn(f, g, T) /\ (\A q \in Receipts \ T : f[q] = 0) /\ T \subseteq Receipts
    BY DEF SameOn, CertOf
  <1>3. g \in [T -> Int]
    <2>1. \A q \in T : g[q] = f[q] /\ q \in Receipts
      BY <1>2 DEF SameOn
    <2>2. g = [q \in T |-> g[q]]
      OBVIOUS
    <2> HIDE DEF f, g, T
    <2> QED BY <2>1, <2>2, <1>1
  <1> HIDE DEF f, g, T
  <1>4. Sigma(f) = Sigma(g)
    BY <1>1, <1>2, <1>3, SigmaFilter
  <1> QED BY <1>4 DEF f, g, T, TotalOf, Sigma

LEMMA AmountType ==
    ASSUME NEW in \in InstTable, NEW b
    PROVE  AmountOf(in, b) \in [Installments -> Nat]
  BY DEF AmountOf, InstTable, InstallmentRow

\* The amounts of the installments T of booking b, the others of which are left out.
LEMMA AmountAsStated ==
    ASSUME NEW in \in InstTable, NEW b, NEW T, T \subseteq Installments,
           \A i \in T : in[i] # NULL /\ in[i].booking = b,
           NEW f \in [Installments -> Int],
           \A i \in Installments : f[i] = IF i \in T THEN in[i].amount ELSE 0
    PROVE  TotalOf([i \in T |-> in[i].amount]) = Sigma(f)
  <1> DEFINE g == [i \in T |-> in[i].amount]
  <1>1. SameOn(f, g, T) /\ (\A q \in Installments \ T : f[q] = 0) /\ IsFiniteSet(Installments)
    BY AccountAssumption DEF SameOn
  <1>2. g \in [T -> Int]
    <2>1. \A q \in T : g[q] = f[q] /\ q \in Installments
      BY <1>1 DEF SameOn
    <2>2. g = [q \in T |-> g[q]]
      OBVIOUS
    <2> HIDE DEF g
    <2> QED BY <2>1, <2>2
  <1> HIDE DEF g
  <1>3. Sigma(f) = Sigma(g)
    BY <1>1, <1>2, SigmaFilter
  <1> QED BY <1>3 DEF g, TotalOf, Sigma

-----------------------------------------------------------------------------
(* The inductive invariant.                                                *)

\* A receipt refers to installments that are there.
RefersToPlan ==
    \A r \in Receipts, i \in Installments :
        receipt[r] # NULL /\ receipt[r].alloc[i] > 0 => inst[i] # NULL

FlagsAgree ==
    \A r \in Receipts : receipt[r] # NULL =>
        (receipt[r].isReversed <=> receipt[r].entriesReversed)

\* Nothing was deducted from a booking that is not over.
Undeducted ==
    \A b \in Bookings : status[b] \notin Over => ledger[b]["CANCELLATION_DEDUCTION"] = 0

CacheInv ==
    \A i \in Installments : inst[i] # NULL =>
        /\ inst[i].allocated = Sigma(AllocOf(receipt, i))
        /\ inst[i].allocated <= inst[i].amount

LedgerInv ==
    \A b \in Bookings :
        Sigma(On(ledger[b], ReceiptTypes)) = -Sigma(NetOf(receipt, b)) - Sigma(CertOf(receipt, b))

PlanInv ==
    \A b \in Bookings : PlanOf(b) # {} => Sigma(AmountOf(inst, b)) = Price

AccountInv ==
    /\ TypeOK /\ RefersToPlan /\ FlagsAgree /\ Undeducted
    /\ CacheInv /\ LedgerInv /\ PlanInv

LEMMA InvGivesProperties ==
    ASSUME AccountInv
    PROVE  AllocatedMatchesReceipts /\ LedgerMatchesReceipts /\ ScheduleSumsToPrice
  <1>1. PICK rc \in ReceiptTable : rc = receipt
    BY DEF AccountInv, TypeOK, ReceiptTable
  <1>2. PICK in \in InstTable : in = inst
    BY DEF AccountInv, TypeOK, InstTable
  <1>3. AllocatedMatchesReceipts
    <2> SUFFICES ASSUME NEW i \in Installments, inst[i] # NULL
                 PROVE  /\ inst[i].allocated =
                            TotalOf([r \in {q \in Receipts : receipt[q] # NULL /\ ~receipt[q].isReversed}
                                    |-> receipt[r].alloc[i]])
                        /\ inst[i].allocated <= inst[i].amount
      BY DEF AllocatedMatchesReceipts
    <2>1. TotalOf([r \in {q \in Receipts : rc[q] # NULL /\ ~rc[q].isReversed} |-> rc[r].alloc[i]])
          = Sigma(AllocOf(rc, i))
      BY AllocAsStated
    <2>2. inst[i].allocated = Sigma(AllocOf(receipt, i)) /\ inst[i].allocated <= inst[i].amount
      BY DEF AccountInv, CacheInv
    <2> QED BY <1>1, <2>1, <2>2
  <1>4. LedgerMatchesReceipts
    <2> SUFFICES ASSUME NEW b \in Bookings
                 PROVE  TotalOf([t \in ReceiptTypes |-> ledger[b][t]])
                        = - TotalOf([r \in {q \in ReceiptsOf(b) : ~receipt[q].isReversed}
                                    |-> Gross(receipt[r]) - receipt[r].tds])
                          - TotalOf([r \in {q \in ReceiptsOf(b) : receipt[q].certificate}
                                    |-> receipt[r].tds])
      BY DEF LedgerMatchesReceipts, ReceiptTypes
    <2>1. TotalOf([r \in {q \in ReceiptsOf(b) : ~receipt[q].isReversed}
                                    |-> Gross(receipt[r]) - receipt[r].tds])
          = Sigma(NetOf(receipt, b))
      BY <1>1, NetAsStated DEF ReceiptsOf, Gross
    <2>2. TotalOf([r \in {q \in ReceiptsOf(b) : receipt[q].certificate} |-> receipt[r].tds])
          = Sigma(CertOf(receipt, b))
      BY <1>1, CertAsStated DEF ReceiptsOf
    <2>3. TotalOf([t \in ReceiptTypes |-> ledger[b][t]]) = Sigma(On(ledger[b], ReceiptTypes))
      BY DEF TotalOf, Sigma, On
    <2>4. Sigma(On(ledger[b], ReceiptTypes)) = -Sigma(NetOf(receipt, b)) - Sigma(CertOf(receipt, b))
      BY DEF AccountInv, LedgerInv
    <2> QED BY <2>1, <2>2, <2>3, <2>4
  <1>5. ScheduleSumsToPrice
    <2> SUFFICES ASSUME NEW b \in Bookings, PlanOf(b) # {}
                 PROVE  TotalOf([i \in PlanOf(b) |-> inst[i].amount]) = Price
      BY DEF ScheduleSumsToPrice
    <2>1. PICK T : T = PlanOf(b)
      OBVIOUS
    <2>2. AmountOf(in, b) \in [Installments -> Int]
      BY AmountType
    <2>3. /\ T \subseteq Installments
          /\ \A i \in T : in[i] # NULL /\ in[i].booking = b
          /\ \A i \in Installments : AmountOf(in, b)[i] = IF i \in T THEN in[i].amount ELSE 0
      BY <1>2, <2>1 DEF PlanOf, AmountOf
    <2>4. TotalOf([i \in T |-> in[i].amount]) = Sigma(AmountOf(in, b))
      BY <2>2, <2>3, AmountAsStated
    <2>5. Sigma(AmountOf(inst, b)) = Price
      BY DEF AccountInv, PlanInv
    <2> QED BY <1>2, <2>1, <2>4, <2>5
  <1> QED BY <1>3, <1>4, <1>5

-----------------------------------------------------------------------------
(* Initial states and steps.                                               *)

LEMMA AccountInitOK == Init => AccountInv
  <1> SUFFICES ASSUME Init PROVE AccountInv
    OBVIOUS
  <1>1. TypeOK
    BY DEF Init, TypeOK
  <1>2. RefersToPlan /\ FlagsAgree /\ CacheInv /\ PlanInv
    BY DEF Init, RefersToPlan, FlagsAgree, CacheInv, PlanInv, PlanOf
  <1>3. Undeducted
    BY DEF Init, Undeducted, EntryType
  <1>4. LedgerInv
    <2> SUFFICES ASSUME NEW b \in Bookings
                 PROVE  Sigma(On(ledger[b], ReceiptTypes)) = -Sigma(NetOf(receipt, b)) - Sigma(CertOf(receipt, b))
      BY DEF LedgerInv
    <2>1. PICK l : l = On(ledger[b], ReceiptTypes)
      OBVIOUS
    <2>2. PICK rc : rc = receipt
      OBVIOUS
    <2>3. l \in [ReceiptTypes -> Int] /\ \A t \in ReceiptTypes : l[t] = 0
      BY <2>1, TypesFinite DEF Init, On
    <2>4. IsFiniteSet(ReceiptTypes) /\ IsFiniteSet(Receipts)
      BY TypesFinite, FS_Subset, AccountAssumption
    <2>5. Sigma(l) = 0
      BY <2>3, <2>4, SigmaZero
    <2>6. /\ NetOf(rc, b) \in [Receipts -> Int] /\ CertOf(rc, b) \in [Receipts -> Int]
          /\ \A r \in Receipts : NetOf(rc, b)[r] = 0 /\ CertOf(rc, b)[r] = 0
      BY <2>2 DEF Init, NetOf, CertOf, Standing
    <2>7. Sigma(NetOf(rc, b)) = 0 /\ Sigma(CertOf(rc, b)) = 0
      BY <2>4, <2>6, SigmaZero
    <2> QED BY <2>1, <2>2, <2>5, <2>7
  <1> QED BY <1>1, <1>2, <1>3, <1>4 DEF AccountInv

\* Posting integers keeps the ledger's type.
LEMMA PostType ==
    ASSUME TypeOK, NEW b \in Bookings, NEW D, NEW e \in [D -> Int]
    PROVE  /\ Post(b, e) \in [EntryType -> Int]
           /\ \A t \in EntryType : Post(b, e)[t] = ledger[b][t] + (IF t \in D THEN e[t] ELSE 0)
  BY DEF TypeOK, Post

\* A step that leaves installments, receipts and their entries alone.
LEMMA LedgerOnly ==
    ASSUME AccountInv, TypeOK', Undeducted', UNCHANGED <<inst, receipt>>,
           \A b \in Bookings, t \in ReceiptTypes : ledger'[b][t] = ledger[b][t]
    PROVE  AccountInv'
  <1>1. RefersToPlan' /\ FlagsAgree'
    BY DEF AccountInv, RefersToPlan, FlagsAgree
  <1>2. CacheInv' /\ PlanInv'
    BY DEF AccountInv, CacheInv, PlanInv, PlanOf
  <1>3. LedgerInv'
    <2> SUFFICES ASSUME NEW b \in Bookings
                 PROVE  Sigma(On(ledger'[b], ReceiptTypes))
                        = -Sigma(NetOf(receipt', b)) - Sigma(CertOf(receipt', b))
      BY DEF LedgerInv
    <2>1. On(ledger'[b], ReceiptTypes) = On(ledger[b], ReceiptTypes)
      BY DEF On
    <2> QED BY <2>1 DEF AccountInv, LedgerInv
  <1> QED BY <1>1, <1>2, <1>3 DEF AccountInv

\* Entry types that receipts and deductions do not use.
OtherTypes == EntryType \ (ReceiptTypes \cup {"CANCELLATION_DEDUCTION"})

\* A handler that posts other entries to one booking.
LEMMA PostOnly ==
    ASSUME AccountInv, NEW b \in Bookings, NEW D, D \subseteq OtherTypes, NEW e \in [D -> Int],
           ledger' = [ledger EXCEPT ![b] = Post(b, e)], UNCHANGED <<inst, receipt>>,
           status' \in [Bookings -> BOOKING_STATUS \cup {NULL}],
           \A c \in Bookings : status'[c] \notin Over => status[c] \notin Over,
           refund' \in [Refunds -> RefundRow \cup {NULL}]
    PROVE  AccountInv'
  <1>0. TypeOK /\ Undeducted
    BY DEF AccountInv
  <1>2. /\ Post(b, e) \in [EntryType -> Int]
        /\ \A t \in EntryType \ D : Post(b, e)[t] = ledger[b][t]
    BY <1>0, PostType DEF TypeOK
  <1>4. TypeOK'
    BY <1>0, <1>2 DEF TypeOK
  <1>5. \A c \in Bookings, t \in EntryType \ D : ledger'[c][t] = ledger[c][t]
    BY <1>0, <1>2 DEF TypeOK
  <1>6. "CANCELLATION_DEDUCTION" \in EntryType \ D /\ ReceiptTypes \subseteq EntryType \ D
    BY DEF OtherTypes, ReceiptTypes, EntryType
  <1>7. Undeducted'
    BY <1>0, <1>5, <1>6 DEF Undeducted
  <1>8. \A c \in Bookings, t \in ReceiptTypes : ledger'[c][t] = ledger[c][t]
    BY <1>5, <1>6
  <1> QED BY <1>4, <1>7, <1>8, LedgerOnly

LEMMA CreateBookingOK ==
    ASSUME AccountInv, NEW b \in Bookings, createBooking(b)
    PROVE  AccountInv'
  <1> DEFINE e == [CHARGE |-> Price]
             D == {"CHARGE"}
  <1>1. e \in [D -> Int] /\ D \subseteq OtherTypes
    BY AccountAssumption DEF OtherTypes, ReceiptTypes, EntryType
  <1>2. ledger' = [ledger EXCEPT ![b] = Post(b, e)] /\ UNCHANGED <<inst, receipt>>
    BY DEF createBooking
  <1>3. /\ status' \in [Bookings -> BOOKING_STATUS \cup {NULL}]
        /\ \A c \in Bookings : status'[c] \notin Over => status[c] \notin Over
        /\ refund' \in [Refunds -> RefundRow \cup {NULL}]
    BY AccountAssumption DEF createBooking, AccountInv, TypeOK, Over, BOOKING_STATUS
  <1> HIDE DEF e, D
  <1> QED BY <1>1, <1>2, <1>3, PostOnly

LEMMA AddExtraChargeOK ==
    ASSUME AccountInv, NEW b \in Bookings, addExtraCharge(b)
    PROVE  AccountInv'
  <1> DEFINE e == [EXTRA_CHARGE |-> ExtraCharge]
             D == {"EXTRA_CHARGE"}
  <1>1. e \in [D -> Int] /\ D \subseteq OtherTypes
    BY AccountAssumption DEF OtherTypes, ReceiptTypes, EntryType
  <1>2. ledger' = [ledger EXCEPT ![b] = Post(b, e)] /\ UNCHANGED <<inst, receipt>>
    BY DEF addExtraCharge
  <1>3. /\ status' \in [Bookings -> BOOKING_STATUS \cup {NULL}]
        /\ \A c \in Bookings : status'[c] \notin Over => status[c] \notin Over
        /\ refund' \in [Refunds -> RefundRow \cup {NULL}]
    BY DEF addExtraCharge, AccountInv, TypeOK
  <1> HIDE DEF e, D
  <1> QED BY <1>1, <1>2, <1>3, PostOnly

LEMMA ApproveRefundOK ==
    ASSUME AccountInv, NEW f \in Refunds, approveRefund(f)
    PROVE  AccountInv'
  <1>0. TypeOK /\ refund[f] \in RefundRow
    BY DEF AccountInv, TypeOK, approveRefund
  <1>1. PICK b \in Bookings, n \in Nat : b = refund[f].booking /\ n = refund[f].amount
    BY <1>0 DEF RefundRow
  <1> DEFINE e == [REFUND_APPROVED |-> n]
             D == {"REFUND_APPROVED"}
  <1>2. e \in [D -> Int] /\ D \subseteq OtherTypes
    BY DEF OtherTypes, ReceiptTypes, EntryType
  <1>3. ledger' = [ledger EXCEPT ![b] = Post(b, e)] /\ UNCHANGED <<inst, receipt, status>>
    BY <1>1 DEF approveRefund
  <1>4. refund' \in [Refunds -> RefundRow \cup {NULL}]
    BY <1>0 DEF approveRefund, TypeOK, RefundRow
  <1>5. /\ status' \in [Bookings -> BOOKING_STATUS \cup {NULL}]
        /\ \A c \in Bookings : status'[c] \notin Over => status[c] \notin Over
    BY <1>0, <1>3 DEF TypeOK
  <1> HIDE DEF e, D
  <1> QED BY <1>2, <1>3, <1>4, <1>5, PostOnly

LEMMA VoucherBouncedOK ==
    ASSUME AccountInv, NEW f \in Refunds, voucherBounced(f)
    PROVE  AccountInv'
  <1>0. TypeOK /\ refund[f] \in RefundRow
    BY DEF AccountInv, TypeOK, voucherBounced
  <1>1. PICK b \in Bookings, n \in Int : b = refund[f].booking /\ n = -refund[f].amount
    BY <1>0 DEF RefundRow
  <1> DEFINE e == [REFUND_BOUNCE_REVERSAL |-> n, BOUNCE_CHARGE |-> BounceCharge]
             D == {"REFUND_BOUNCE_REVERSAL", "BOUNCE_CHARGE"}
  <1>2. e \in [D -> Int] /\ D \subseteq OtherTypes
    BY AccountAssumption DEF OtherTypes, ReceiptTypes, EntryType
  <1>3. ledger' = [ledger EXCEPT ![b] = Post(b, e)] /\ UNCHANGED <<inst, receipt, status>>
    BY <1>1 DEF voucherBounced
  <1>4. refund' \in [Refunds -> RefundRow \cup {NULL}]
    BY <1>0 DEF voucherBounced, TypeOK, RefundRow
  <1>5. /\ status' \in [Bookings -> BOOKING_STATUS \cup {NULL}]
        /\ \A c \in Bookings : status'[c] \notin Over => status[c] \notin Over
    BY <1>0, <1>3 DEF TypeOK
  <1> HIDE DEF e, D
  <1> QED BY <1>2, <1>3, <1>4, <1>5, PostOnly

LEMMA RefundRowsOK ==
    ASSUME AccountInv, NEW f \in Refunds,
           payRefund(f) \/ \E b \in Bookings, n \in 1 .. Price : requestRefund(f, b, n)
    PROVE  AccountInv'
  <1>0. TypeOK
    BY DEF AccountInv
  <1>1. UNCHANGED <<status, ledger, inst, receipt>>
    BY DEF payRefund, requestRefund
  <1>2. refund' \in [Refunds -> RefundRow \cup {NULL}]
    <2>1. CASE payRefund(f)
      <3>1. refund[f] \in RefundRow
        BY <2>1, <1>0 DEF TypeOK, payRefund
      <3> QED BY <2>1, <3>1, <1>0 DEF payRefund, TypeOK, RefundRow
    <2>2. ASSUME NEW b \in Bookings, NEW n \in 1 .. Price, requestRefund(f, b, n)
          PROVE  refund' \in [Refunds -> RefundRow \cup {NULL}]
      BY <2>2, <1>0, AccountAssumption DEF requestRefund, TypeOK, RefundRow
    <2> QED BY <2>1, <2>2
  <1>3. TypeOK' /\ Undeducted'
    BY <1>0, <1>1, <1>2 DEF AccountInv, TypeOK, Undeducted
  <1> QED BY <1>1, <1>3, LedgerOnly

\* A balance is an integer.
LEMMA BalanceType ==
    ASSUME TypeOK, NEW b \in Bookings
    PROVE  Balance(b) \in Int /\ Balance(b) = Sigma(ledger[b])
  <1>1. PICK l \in [EntryType -> Int] : l = ledger[b]
    BY DEF TypeOK
  <1>2. Sigma(l) \in Int
    BY TypesFinite, SigmaType
  <1> QED BY <1>1, <1>2 DEF Balance, TotalOf, Sigma

LEMMA TransferOK ==
    ASSUME AccountInv, NEW b \in Bookings, NEW c \in Bookings, NEW fee \in {0, TransferFee},
           transfer(b, c, fee)
    PROVE  AccountInv'
  <1>0. TypeOK /\ Undeducted
    BY DEF AccountInv
  <1>1. PICK n \in Int, m \in Int : n = Balance(b) /\ m = -Balance(b)
    BY <1>0, BalanceType
  <1> DEFINE e == [TRANSFER_CARRY_OUT |-> m]
             g == [TRANSFER_CARRY_IN |-> n, TRANSFER_FEE |-> fee]
             D == {"TRANSFER_CARRY_OUT"}
             E == {"TRANSFER_CARRY_IN", "TRANSFER_FEE"}
  <1>2. e \in [D -> Int] /\ g \in [E -> Int] /\ D \cup E \subseteq OtherTypes
    BY AccountAssumption DEF OtherTypes, ReceiptTypes, EntryType
  <1>3. /\ ledger' = [ledger EXCEPT ![b] = Post(b, e), ![c] = Post(c, g)]
        /\ UNCHANGED <<inst, receipt, refund>>
        /\ status' = [status EXCEPT ![b] = "TRANSFERRED_OUT", ![c] = "BOOKED"]
        /\ status[b] \in TRANSFERABLE_FROM /\ status[c] = NULL
    BY <1>1 DEF transfer
  <1>4. \A d \in Bookings : status[d] \in Over => status'[d] \in Over
    BY <1>0, <1>3, AccountAssumption DEF TRANSFERABLE_FROM, Over, TypeOK, BOOKING_STATUS
  <1>5. status' \in [Bookings -> BOOKING_STATUS \cup {NULL}]
    BY <1>0, <1>3 DEF TypeOK, BOOKING_STATUS
  <1> HIDE DEF e, g, D, E
  <1>6. /\ Post(b, e) \in [EntryType -> Int] /\ Post(c, g) \in [EntryType -> Int]
        /\ \A t \in EntryType \ D : Post(b, e)[t] = ledger[b][t]
        /\ \A t \in EntryType \ E : Post(c, g)[t] = ledger[c][t]
    BY <1>0, <1>2, PostType DEF TypeOK
  <1>7. TypeOK'
    BY <1>0, <1>3, <1>5, <1>6 DEF TypeOK
  <1>8. \A d \in Bookings, t \in EntryType \ OtherTypes : ledger'[d][t] = ledger[d][t]
    BY <1>0, <1>2, <1>3, <1>6 DEF TypeOK
  <1>9. EntryType \ OtherTypes = ReceiptTypes \cup {"CANCELLATION_DEDUCTION"}
    BY DEF OtherTypes, ReceiptTypes, EntryType
  <1>10. Undeducted'
    BY <1>0, <1>4, <1>8, <1>9 DEF Undeducted
  <1>11. \A d \in Bookings, t \in ReceiptTypes : ledger'[d][t] = ledger[d][t]
    BY <1>8, <1>9
  <1> QED BY <1>3, <1>7, <1>10, <1>11, LedgerOnly

\* Net receipts are an integer.
LEMMA RefundableType ==
    ASSUME TypeOK, NEW b \in Bookings, NEW d \in Nat
    PROVE  Refundable(b, d) \in Int
  <1>1. PICK rc \in ReceiptTable : rc = receipt
    BY DEF TypeOK, ReceiptTable
  <1> DEFINE T == {q \in Receipts : /\ rc[q] # NULL /\ rc[q].booking = b /\ ~rc[q].isReversed
                                    /\ rc[q].clearance \in {"NOT_APPLICABLE", "CLEARED"}}
             f == [r \in T |-> TotalOf(rc[r].alloc) - rc[r].tds]
  <1>2. NetReceived(b) = Sigma(f)
    <2>1. {q \in ReceiptsOf(b) : /\ ~receipt[q].isReversed
                                 /\ receipt[q].clearance \in {"NOT_APPLICABLE", "CLEARED"}} = T
      BY <1>1 DEF ReceiptsOf
    <2> QED BY <1>1, <2>1 DEF NetReceived, TotalOf, Sigma, Gross
  <1>3. IsFiniteSet(T)
    BY AccountAssumption, FS_Subset
  <1>4. f \in [T -> Int]
    <2> SUFFICES ASSUME NEW r \in T PROVE TotalOf(rc[r].alloc) - rc[r].tds \in Int
      OBVIOUS
    <2>1. rc[r].alloc \in [Installments -> Nat] /\ rc[r].tds \in Nat
      BY RowsOfTable DEF ReceiptRow
    <2>2. Sigma(rc[r].alloc) \in Nat
      BY <2>1, GrossType
    <2>3. TotalOf(rc[r].alloc) = Sigma(rc[r].alloc)
      BY DEF TotalOf, Sigma
    <2> QED BY <2>1, <2>2, <2>3
  <1> HIDE DEF T, f
  <1>5. NetReceived(b) \in Int
    BY <1>2, <1>3, <1>4, SigmaType
  <1> QED BY <1>5 DEF Refundable

\* What cancel leaves: its own entries bring the balance to what is refundable.
LEMMA CancelOK ==
    ASSUME AccountInv, NEW b \in Bookings, NEW d \in Deductions,
           NEW s \in {"CANCELLED", "SURRENDERED"}, cancel(b, d, s)
    PROVE  /\ AccountInv'
           /\ Sigma(ledger'[b]) = -Refundable(b, ledger'[b]["CANCELLATION_DEDUCTION"])
           /\ \A c \in Bookings \ {b} : status'[c] = status[c]
  <1>0. TypeOK /\ Undeducted /\ d \in Nat
    BY AccountAssumption DEF AccountInv
  <1>1. PICK bal \in Int, back \in Int : bal = Balance(b) /\ back = Refundable(b, d)
    BY <1>0, BalanceType, RefundableType
  <1>2. PICK n \in Int : n = -back - bal - d
    <2>1. -back - bal - d \in Int
      BY <1>0
    <2> QED BY <2>1, Zenon
  <1> DEFINE e == [CANCELLATION_DEDUCTION |-> d, CANCELLATION_SETTLEMENT |-> n]
             D == {"CANCELLATION_DEDUCTION", "CANCELLATION_SETTLEMENT"}
  <1>3. /\ e \in [D -> Int] /\ D \subseteq EntryType /\ D \cap ReceiptTypes = {}
        /\ e["CANCELLATION_DEDUCTION"] = d /\ e["CANCELLATION_SETTLEMENT"] = n
    BY <1>0 DEF ReceiptTypes, EntryType
  <1>4. /\ ledger' = [ledger EXCEPT ![b] = Post(b, e)]
        /\ UNCHANGED <<inst, receipt, refund>>
        /\ status' = [status EXCEPT ![b] = s] /\ status[b] \in CANCELLABLE_FROM
    BY <1>1, <1>2 DEF cancel
  <1> HIDE DEF e
  <1>5. /\ Post(b, e) \in [EntryType -> Int]
        /\ \A t \in EntryType : Post(b, e)[t] = ledger[b][t] + (IF t \in D THEN e[t] ELSE 0)
    BY <1>0, <1>3, PostType
  <1>6. ledger'[b] = Post(b, e) /\ \A c \in Bookings \ {b} : ledger'[c] = ledger[c]
    BY <1>0, <1>4 DEF TypeOK
  <1>7. TypeOK'
    BY <1>0, <1>4, <1>5 DEF TypeOK, BOOKING_STATUS
  <1>8. \A c \in Bookings, t \in ReceiptTypes : ledger'[c][t] = ledger[c][t]
    BY <1>0, <1>3, <1>5, <1>6, TypesFinite DEF TypeOK
  <1>9. Undeducted'
    BY <1>0, <1>4, <1>6 DEF Undeducted, TypeOK, Over
  <1>10. AccountInv'
    BY <1>4, <1>7, <1>8, <1>9, LedgerOnly
  <1>11. ledger'[b]["CANCELLATION_DEDUCTION"] = d
    <2>1. ledger[b]["CANCELLATION_DEDUCTION"] = 0
      BY <1>0, <1>4 DEF Undeducted, CANCELLABLE_FROM, Over
    <2>2. "CANCELLATION_DEDUCTION" \in EntryType /\ "CANCELLATION_DEDUCTION" \in D
      BY DEF EntryType
    <2> QED BY <2>1, <2>2, <1>0, <1>3, <1>5, <1>6
  <1>12. Sigma(ledger'[b]) = -back
    <2>1. PICK l \in [EntryType -> Int], m \in [EntryType -> Int] : l = ledger[b] /\ m = ledger'[b]
      BY <1>0, <1>7 DEF TypeOK
    <2>2. Posted(l, m, D, e)
      BY <2>1, <1>5, <1>6 DEF Posted
    <2>3. D \cap EntryType = D /\ On(m, EntryType) = m /\ On(l, EntryType) = l /\ On(e, D) = e
      BY <1>3 DEF On
    <2>4. Sigma(On(m, EntryType)) = Sigma(On(l, EntryType)) + Sigma(On(e, D \cap EntryType))
      <3> HIDE DEF D
      <3> QED BY <1>3, <2>2, PostAdds
    <2>5. Sigma(e) = d + n
      BY <1>3, SigmaTwo
    <2>6. Sigma(l) = bal
      BY <2>1, <1>0, <1>1, BalanceType
    <2>7. Sigma(m) = bal + (d + n)
      BY <2>3, <2>4, <2>5, <2>6
    <2> QED BY <2>1, <2>7, <1>0, <1>2
  <1>13. \A c \in Bookings \ {b} : status'[c] = status[c]
    BY <1>0, <1>4 DEF TypeOK
  <1> QED BY <1>1, <1>10, <1>11, <1>12, <1>13

-----------------------------------------------------------------------------
(* Schedules.                                                              *)

\* Installments D of booking b, none of which a receipt refers to, give way to
\* schedule a, which with the rest of the plan sums to the price.
LEMMA RescheduleOK ==
    ASSUME AccountInv, NEW b \in Bookings, NEW D, D \subseteq PlanOf(b),
           \A i \in D : ~Referenced(i), NEW S, S \subseteq Free \cup D, NEW a \in [S -> Nat],
           NEW raised, Reschedule(b, D, a, raised), UNCHANGED <<status, ledger, receipt, refund>>,
           NEW rest \in [Installments -> Int],
           \A i \in Installments : rest[i] = IF i \in PlanOf(b) \ D THEN inst[i].amount ELSE 0,
           Sigma(a) + Sigma(rest) = Price
    PROVE  AccountInv'
  <1>0. TypeOK /\ S \subseteq Installments
    BY DEF AccountInv, Free, PlanOf
  <1>1. PICK in \in InstTable : in = inst
    BY <1>0 DEF TypeOK, InstTable
  <1>2. inst' = [i \in Installments |->
                  IF i \in S
                  THEN [booking |-> b, amount |-> a[i], allocated |-> 0, raised |-> i \in raised]
                  ELSE IF i \in D THEN NULL ELSE inst[i]]
    BY DEF Reschedule
  <1>3. \A i \in S : /\ inst'[i] \in InstallmentRow /\ inst'[i] # NULL
                     /\ inst'[i].booking = b /\ inst'[i].amount = a[i] /\ inst'[i].allocated = 0
    <2> SUFFICES ASSUME NEW i \in S
                 PROVE  /\ inst'[i] \in InstallmentRow /\ inst'[i] # NULL
                        /\ inst'[i].booking = b /\ inst'[i].amount = a[i]
                        /\ inst'[i].allocated = 0
      OBVIOUS
    <2>1. inst'[i] = [booking |-> b, amount |-> a[i], allocated |-> 0, raised |-> i \in raised]
      BY <1>0, <1>2
    <2>2. a[i] \in Nat /\ (i \in raised) \in BOOLEAN
      OBVIOUS
    <2>3. inst'[i] \in InstallmentRow
      BY <2>1, <2>2 DEF InstallmentRow
    <2> QED BY <2>1, <2>3, AccountAssumption
  <1>4. /\ \A i \in D \ S : inst'[i] = NULL
        /\ \A i \in Installments \ (S \cup D) : inst'[i] = inst[i]
    BY <1>0, <1>2 DEF PlanOf
  <1>5. TypeOK'
    <2>1. \A i \in Installments : inst'[i] \in InstallmentRow \cup {NULL}
      BY <1>0, <1>3, <1>4 DEF TypeOK
    <2>2. inst' \in [Installments -> InstallmentRow \cup {NULL}]
      <3>1. inst' = [i \in Installments |-> inst'[i]]
        BY <1>2
      <3> QED BY <2>1, <3>1
    <2> QED BY <1>0, <2>2 DEF TypeOK
  <1>6. PICK in2 \in InstTable : in2 = inst'
    BY <1>5 DEF TypeOK, InstTable
  <1>7. PICK rc \in ReceiptTable : rc = receipt
    BY <1>0 DEF TypeOK, ReceiptTable
  <1>8. \A r \in Receipts, i \in S \cup D : rc[r] # NULL => rc[r].alloc[i] = 0
    <2> SUFFICES ASSUME NEW r \in Receipts, NEW i \in S \cup D, rc[r] # NULL
                 PROVE  rc[r].alloc[i] = 0
      OBVIOUS
    <2>1. rc[r].alloc[i] \in Nat /\ i \in Installments
      BY <1>0, RowsOfTable DEF ReceiptRow, PlanOf
    <2>2. ~(rc[r].alloc[i] > 0)
      <3>1. CASE i \in D
        BY <3>1, <1>7 DEF Referenced
      <3>2. CASE i \in Free
        BY <3>2, <1>7 DEF AccountInv, RefersToPlan, Free
      <3> QED BY <3>1, <3>2
    <2> QED BY <2>1, <2>2
  <1>9. RefersToPlan'
    <2> SUFFICES ASSUME NEW r \in Receipts, NEW i \in Installments, rc[r] # NULL,
                        rc[r].alloc[i] > 0
                 PROVE  inst'[i] # NULL
      BY <1>7 DEF RefersToPlan
    <2>1. i \notin S \cup D
      BY <1>8
    <2> QED BY <2>1, <1>4, <1>7 DEF AccountInv, RefersToPlan
  <1>10. CacheInv'
    <2> SUFFICES ASSUME NEW i \in Installments, inst'[i] # NULL
                 PROVE  /\ inst'[i].allocated = Sigma(AllocOf(rc, i))
                        /\ inst'[i].allocated <= inst'[i].amount
      BY <1>7 DEF CacheInv
    <2>1. CASE i \in S
      <3>1. AllocOf(rc, i) \in [Receipts -> Int] /\ \A r \in Receipts : AllocOf(rc, i)[r] = 0
        BY <2>1, <1>8 DEF AllocOf, Standing
      <3>2. Sigma(AllocOf(rc, i)) = 0
        BY <3>1, AccountAssumption, SigmaZero
      <3> QED BY <3>2, <2>1, <1>3
    <2>2. CASE i \notin S
      <3>1. inst'[i] = inst[i] /\ inst[i] # NULL
        BY <2>2, <1>4
      <3> QED BY <3>1, <1>7 DEF AccountInv, CacheInv
    <2> QED BY <2>1, <2>2
  <1>11. Sigma(AmountOf(in2, b)) = Price
    <2> DEFINE A == [i \in Installments |-> IF i \in S THEN a[i] ELSE 0]
    <2>1. A \in [Installments -> Int] /\ SameOn(A, a, S) /\ \A i \in Installments \ S : A[i] = 0
      BY <1>0 DEF SameOn
    <2>2. AmountOf(in2, b) \in [Installments -> Int]
      BY AmountType
    <2>3. AddsUp(A, rest, AmountOf(in2, b), Installments)
      <3> SUFFICES ASSUME NEW i \in Installments
                   PROVE  AmountOf(in2, b)[i] = A[i] + rest[i]
        BY DEF AddsUp
      <3>1. CASE i \in S
        <4>1. rest[i] = 0
          BY <3>1 DEF Free, PlanOf
        <4>2. AmountOf(in2, b)[i] = a[i]
          BY <3>1, <1>3, <1>6 DEF AmountOf
        <4> QED BY <4>1, <4>2, <3>1
      <3>2. CASE i \notin S /\ i \in D
        <4>1. AmountOf(in2, b)[i] = 0
          BY <3>2, <1>4, <1>6 DEF AmountOf
        <4> QED BY <4>1, <3>2
      <3>3. CASE i \notin S /\ i \notin D
        <4>1. in2[i] = inst[i]
          BY <3>3, <1>4, <1>6
        <4>2. AmountOf(in2, b)[i] = rest[i]
          BY <4>1, <3>3 DEF AmountOf, PlanOf
        <4> QED BY <4>2, <3>3
      <3> QED BY <3>1, <3>2, <3>3
    <2> HIDE DEF A
    <2>4. IsFiniteSet(Installments) /\ a \in [S -> Int]
      BY AccountAssumption
    <2>5. Sigma(A) = Sigma(a)
      BY <1>0, <2>1, <2>4, SigmaFilter
    <2>6. Sigma(AmountOf(in2, b)) = Sigma(A) + Sigma(rest)
      BY <2>1, <2>2, <2>3, <2>4, SigmaAdd
    <2> QED BY <2>5, <2>6
  <1>12. PlanInv'
    <2> SUFFICES ASSUME NEW c \in Bookings, PlanOf(c)' # {}
                 PROVE  Sigma(AmountOf(in2, c)) = Price
      BY <1>6 DEF PlanInv
    <2>1. CASE c = b
      BY <2>1, <1>11
    <2>2. CASE c # b
      <3>1. \A i \in Installments :
               (in2[i] # NULL /\ in2[i].booking = c) <=> (in[i] # NULL /\ in[i].booking = c)
        BY <2>2, <1>1, <1>3, <1>4, <1>6 DEF Free, PlanOf
      <3>2. \A i \in Installments : in2[i] # NULL /\ in2[i].booking = c => in2[i] = in[i]
        BY <2>2, <1>1, <1>3, <1>4, <1>6
      <3>3. AmountOf(in2, c) = AmountOf(in, c)
        BY <3>1, <3>2 DEF AmountOf
      <3>4. PlanOf(c) # {}
        BY <3>1, <1>1, <1>6 DEF PlanOf
      <3> QED BY <3>3, <3>4, <1>1 DEF AccountInv, PlanInv
    <2> QED BY <2>1, <2>2
  <1>13. FlagsAgree' /\ Undeducted' /\ LedgerInv'
    BY DEF AccountInv, FlagsAgree, Undeducted, LedgerInv
  <1> QED BY <1>5, <1>9, <1>10, <1>12, <1>13 DEF AccountInv

\* A schedule is a function to positive amounts.
LEMMA ScheduleType ==
    ASSUME NEW n \in Int, NEW free, NEW a \in Schedules(n, free)
    PROVE  DOMAIN a \subseteq free /\ a \in [DOMAIN a -> Nat] /\ Sigma(a) = n
  <1>1. PICK S \in SUBSET free : a \in [S -> 1 .. n]
    BY DEF Schedules
  <1>2. DOMAIN a = S /\ a \in [S -> Nat]
    BY <1>1
  <1>3. TotalOf(a) = n
    BY DEF Schedules
  <1> QED BY <1>2, <1>3 DEF TotalOf, Sigma

LEMMA CreatePlanOK ==
    ASSUME AccountInv, NEW b \in Bookings, NEW a \in Schedules(Price, Free \cup PlanOf(b)),
           NEW raised, createPlan(b, a, raised)
    PROVE  AccountInv'
  <1> DEFINE S == DOMAIN a
             rest == [i \in Installments |-> 0]
  <1>1. PICK free, D : free = Free \cup PlanOf(b) /\ D = PlanOf(b)
    OBVIOUS
  <1>2. S \subseteq free /\ a \in [S -> Nat] /\ Sigma(a) = Price
    BY <1>1, AccountAssumption, ScheduleType
  <1>3. rest \in [Installments -> Int] /\ \A i \in Installments : rest[i] = 0
    OBVIOUS
  <1> HIDE DEF rest
  <1>4. Sigma(rest) = 0
    BY <1>3, AccountAssumption, SigmaZero
  <1>5. \A i \in Installments : rest[i] = IF i \in PlanOf(b) \ D THEN inst[i].amount ELSE 0
    BY <1>1, <1>3
  <1>6. UNCHANGED <<status, ledger, receipt, refund>>
    BY <1>1 DEF createPlan
  <1>7. Sigma(a) + Sigma(rest) = Price
    BY <1>2, <1>4, AccountAssumption
  <1>8. S \subseteq Free \cup D /\ D \subseteq PlanOf(b)
    BY <1>1, <1>2
  <1>9. Reschedule(b, D, a, raised)
    BY <1>1 DEF createPlan
  <1>10. \A i \in D : ~Referenced(i)
    BY <1>1 DEF createPlan
  <1>11. rest \in [Installments -> Int] /\ a \in [S -> Nat]
    BY <1>2, <1>3
  <1> HIDE DEF S
  <1> QED BY <1>5, <1>6, <1>7, <1>8, <1>9, <1>10, <1>11, RescheduleOK

LEMMA EditPlanOK ==
    ASSUME AccountInv, NEW b \in Bookings, NEW a \in Schedules(Residual(b), Free \cup Unpaid(b)),
           editPlan(b, a)
    PROVE  AccountInv'
  <1>0. TypeOK
    BY DEF AccountInv
  <1> DEFINE S == DOMAIN a
  <1>1. PICK free, D, F : free = Free \cup Unpaid(b) /\ D = Unpaid(b) /\ F = Frozen(b)
    OBVIOUS
  <1>2. PICK in \in InstTable : in = inst
    BY <1>0 DEF TypeOK, InstTable
  <1> DEFINE rest == [i \in Installments |-> IF i \in F THEN in[i].amount ELSE 0]
  <1>3. F = PlanOf(b) \ D /\ D \subseteq PlanOf(b) /\ F \subseteq Installments
    BY <1>0, <1>1 DEF Frozen, Unpaid, PlanOf, TypeOK, InstallmentRow
  <1>4. \A i \in F : in[i] # NULL /\ in[i].booking = b /\ in[i].amount \in Nat
    BY <1>0, <1>2, <1>3 DEF PlanOf, TypeOK, InstallmentRow
  <1>5. /\ rest \in [Installments -> Int]
        /\ \A i \in Installments : rest[i] = IF i \in F THEN in[i].amount ELSE 0
    BY <1>3, <1>4
  <1> HIDE DEF rest
  <1>6. TotalOf([i \in F |-> in[i].amount]) = Sigma(rest)
    BY <1>3, <1>4, <1>5, AmountAsStated
  <1>7. Sigma(rest) \in Int
    BY <1>5, AccountAssumption, SigmaType
  <1>8. PICK n \in Int : n = Residual(b) /\ n = Price - Sigma(rest)
    <2>1. Residual(b) = Price - Sigma(rest)
      BY <1>1, <1>2, <1>6 DEF Residual
    <2> QED BY <2>1, <1>7, AccountAssumption
  <1>9. S \subseteq free /\ a \in [S -> Nat] /\ Sigma(a) = n
    BY <1>1, <1>8, ScheduleType
  <1>10. Sigma(a) + Sigma(rest) = Price
    BY <1>7, <1>8, <1>9, AccountAssumption
  <1>11. \A i \in Installments : rest[i] = IF i \in PlanOf(b) \ D THEN inst[i].amount ELSE 0
    BY <1>2, <1>3, <1>5
  <1>12. PICK raised : Reschedule(b, D, a, raised)
    BY <1>1 DEF editPlan
  <1>13. /\ \A i \in D : ~Referenced(i)
         /\ UNCHANGED <<status, ledger, receipt, refund>>
    BY <1>1 DEF editPlan
  <1>14. S \subseteq Free \cup D
    BY <1>1, <1>9
  <1> HIDE DEF S
  <1> QED BY <1>3, <1>5, <1>9, <1>10, <1>11, <1>12, <1>13, <1>14, RescheduleOK

LEMMA RaiseStageOK ==
    ASSUME AccountInv, raiseStage
    PROVE  AccountInv'
  <1>0. TypeOK
    BY DEF AccountInv
  <1>1. \A i \in Installments : /\ inst[i] = NULL => inst'[i] = NULL
                                /\ inst[i] # NULL => inst'[i] = [inst[i] EXCEPT !.raised = TRUE]
    BY DEF raiseStage
  <1>2. \A i \in Installments : inst[i] # NULL =>
           /\ inst'[i] \in InstallmentRow /\ inst'[i] # NULL
           /\ inst'[i].booking = inst[i].booking /\ inst'[i].amount = inst[i].amount
           /\ inst'[i].allocated = inst[i].allocated
    <2> TAKE i \in Installments
    <2> HAVE inst[i] # NULL
    <2>1. PICK w \in InstallmentRow : w = inst[i]
      BY <1>0 DEF TypeOK
    <2>2. inst'[i] = [w EXCEPT !.raised = TRUE]
      BY <1>1, <2>1
    <2>3. inst'[i] \in InstallmentRow
      BY <2>2 DEF InstallmentRow
    <2> QED BY <2>1, <2>2, <2>3, AccountAssumption DEF InstallmentRow
  <1>3. TypeOK'
    <2>1. inst' \in [Installments -> InstallmentRow \cup {NULL}]
      <3>1. \A i \in Installments : inst'[i] \in InstallmentRow \cup {NULL}
        BY <1>1, <1>2
      <3>2. inst' = [i \in Installments |-> inst'[i]]
        BY DEF raiseStage
      <3> QED BY <3>1, <3>2
    <2> QED BY <2>1, <1>0 DEF raiseStage, TypeOK
  <1>4. RefersToPlan' /\ CacheInv'
    BY <1>1, <1>2 DEF raiseStage, AccountInv, RefersToPlan, CacheInv
  <1>5. PlanInv'
    <2> SUFFICES ASSUME NEW b \in Bookings, PlanOf(b)' # {}
                 PROVE  Sigma(AmountOf(inst', b)) = Price
      BY DEF PlanInv
    <2>1. PlanOf(b) # {}
      BY <1>1, <1>2 DEF PlanOf
    <2>2. AmountOf(inst', b) = AmountOf(inst, b)
      BY <1>1, <1>2 DEF AmountOf
    <2> QED BY <2>1, <2>2 DEF AccountInv, PlanInv
  <1>6. FlagsAgree' /\ Undeducted' /\ LedgerInv'
    BY DEF raiseStage, AccountInv, FlagsAgree, Undeducted, LedgerInv
  <1> QED BY <1>3, <1>4, <1>5, <1>6 DEF AccountInv

-----------------------------------------------------------------------------
(* Receipts.                                                               *)

\* Installments keep their booking and amount.
KeepsPlan ==
    \A i \in Installments :
        /\ inst[i] = NULL <=> inst'[i] = NULL
        /\ inst[i] # NULL => inst'[i].booking = inst[i].booking /\ inst'[i].amount = inst[i].amount

LEMMA KeepsPlanOK ==
    ASSUME AccountInv, KeepsPlan
    PROVE  PlanInv'
  <1> SUFFICES ASSUME NEW b \in Bookings, PlanOf(b)' # {}
               PROVE  Sigma(AmountOf(inst', b)) = Price
    BY DEF PlanInv
  <1>1. PlanOf(b) # {}
    BY DEF PlanOf, KeepsPlan
  <1>2. AmountOf(inst', b) = AmountOf(inst, b)
    BY DEF AmountOf, KeepsPlan
  <1> QED BY <1>1, <1>2 DEF AccountInv, PlanInv

LEMMA BumpOK ==
    ASSUME TypeOK, NEW d \in [Installments -> Int], Bump(d),
           \A i \in Installments : inst[i] # NULL => inst[i].allocated + d[i] \in Nat
    PROVE  /\ KeepsPlan
           /\ inst' \in [Installments -> InstallmentRow \cup {NULL}]
           /\ \A i \in Installments : inst[i] # NULL => inst'[i].allocated = inst[i].allocated + d[i]
  <1>1. \A i \in Installments :
           /\ inst[i] = NULL => inst'[i] = NULL
           /\ inst[i] # NULL => /\ inst'[i] \in InstallmentRow /\ inst'[i] # NULL
                                /\ inst'[i].booking = inst[i].booking
                                /\ inst'[i].amount = inst[i].amount
                                /\ inst'[i].allocated = inst[i].allocated + d[i]
    <2> TAKE i \in Installments
    <2>1. CASE inst[i] = NULL
      BY <2>1 DEF Bump
    <2>2. CASE inst[i] # NULL
      <3>1. PICK w \in InstallmentRow : w = inst[i]
        BY <2>2 DEF TypeOK
      <3>2. PICK n \in Nat : n = w.allocated + d[i]
        BY <2>2, <3>1
      <3>3. inst'[i] = [w EXCEPT !.allocated = n]
        BY <2>2, <3>1, <3>2 DEF Bump
      <3>4. inst'[i] \in InstallmentRow
        BY <3>3 DEF InstallmentRow
      <3> QED BY <2>2, <3>1, <3>2, <3>3, <3>4, AccountAssumption DEF InstallmentRow
    <2> QED BY <2>1, <2>2
  <1>2. inst' = [i \in Installments |-> inst'[i]]
    BY DEF Bump
  <1>3. inst' \in [Installments -> InstallmentRow \cup {NULL}]
    BY <1>1, <1>2
  <1> QED BY <1>1, <1>3 DEF KeepsPlan

\* What the receipts of booking b come to changes by x from table rc to table rn;
\* for the other bookings it stays.
AccountsFor(rn, rc, b, x) ==
    -Sigma(NetOf(rn, b)) - Sigma(CertOf(rn, b)) = -Sigma(NetOf(rc, b)) - Sigma(CertOf(rc, b)) + x

OtherBookingsKept(rn, rc, b) ==
    \A c \in Bookings \ {b} : NetOf(rn, c) = NetOf(rc, c) /\ CertOf(rn, c) = CertOf(rc, c)

\* Entries e, of which x belongs to the receipts' types, and receipts that account
\* for x.
LEMMA LedgerPostOK ==
    ASSUME AccountInv, NEW b \in Bookings, NEW D, D \subseteq EntryType \ {"CANCELLATION_DEDUCTION"},
           NEW e \in [D -> Int], ledger' = [ledger EXCEPT ![b] = Post(b, e)], UNCHANGED status,
           NEW x \in Int, Sigma(On(e, D \cap ReceiptTypes)) = x,
           AccountsFor(receipt', receipt, b, x), OtherBookingsKept(receipt', receipt, b)
    PROVE  /\ ledger' \in [Bookings -> [EntryType -> Int]]
           /\ Undeducted' /\ LedgerInv'
  <1>0. TypeOK /\ Undeducted /\ LedgerInv
    BY DEF AccountInv
  <1>1. /\ Post(b, e) \in [EntryType -> Int]
        /\ Posted(ledger[b], Post(b, e), D, e)
    BY <1>0, PostType DEF Posted
  <1>2. /\ ledger' \in [Bookings -> [EntryType -> Int]]
        /\ ledger'[b] = Post(b, e)
        /\ \A c \in Bookings \ {b} : ledger'[c] = ledger[c]
    BY <1>0, <1>1 DEF TypeOK
  <1>3. Undeducted'
    <2>1. "CANCELLATION_DEDUCTION" \in EntryType \ D
      BY DEF EntryType
    <2>2. Post(b, e)["CANCELLATION_DEDUCTION"] = ledger[b]["CANCELLATION_DEDUCTION"]
      BY <2>1, <1>0, <1>1 DEF Posted, TypeOK
    <2> QED BY <2>2, <1>0, <1>2 DEF Undeducted
  <1>4. Sigma(On(ledger'[b], ReceiptTypes)) = Sigma(On(ledger[b], ReceiptTypes)) + x
    <2>1. PICK l \in [EntryType -> Int], m \in [EntryType -> Int] : l = ledger[b] /\ m = ledger'[b]
      BY <1>0, <1>2 DEF TypeOK
    <2>2. Posted(l, m, D, e) /\ D \subseteq EntryType /\ ReceiptTypes \subseteq EntryType
      BY <2>1, <1>1, <1>2, TypesFinite
    <2>3. Sigma(On(m, ReceiptTypes)) = Sigma(On(l, ReceiptTypes)) + Sigma(On(e, D \cap ReceiptTypes))
      BY <2>2, PostAdds
    <2> QED BY <2>1, <2>3
  <1>5. LedgerInv'
    <2> SUFFICES ASSUME NEW c \in Bookings
                 PROVE  Sigma(On(ledger'[c], ReceiptTypes))
                        = -Sigma(NetOf(receipt', c)) - Sigma(CertOf(receipt', c))
      BY DEF LedgerInv
    <2>1. Sigma(On(ledger[c], ReceiptTypes)) = -Sigma(NetOf(receipt, c)) - Sigma(CertOf(receipt, c))
      BY <1>0 DEF LedgerInv
    <2>2. CASE c = b
      BY <2>1, <2>2, <1>4 DEF AccountsFor
    <2>3. CASE c # b
      BY <2>1, <2>3, <1>2 DEF OtherBookingsKept
    <2> QED BY <2>2, <2>3
  <1> QED BY <1>2, <1>3, <1>5

\* Receipts of other bookings are not touched by a change of receipt r of booking b.
LEMMA OtherBookings ==
    ASSUME NEW rc, NEW rn, NEW r \in Receipts, SameOn(rn, rc, Receipts \ {r}), NEW b,
           rc[r] = NULL \/ rc[r].booking = b, rn[r] = NULL \/ rn[r].booking = b
    PROVE  OtherBookingsKept(rn, rc, b)
  BY DEF OtherBookingsKept, NetOf, CertOf, SameOn, Standing

LEMMA CreateReceiptOK ==
    ASSUME AccountInv, NEW r \in Receipts, NEW b \in Bookings, NEW a \in Allocations(b),
           NEW tds \in 0 .. 1, NEW cheque \in BOOLEAN, createReceipt(r, b, a, tds, cheque)
    PROVE  AccountInv'
  <1>0. TypeOK
    BY DEF AccountInv
  <1>1. /\ a \in [Installments -> Int] /\ a \in [Installments -> Nat]
        /\ \A i \in Installments : a[i] > 0 => /\ inst[i] # NULL
                                               /\ inst[i].allocated + a[i] <= inst[i].amount
    BY DEF Allocations, PlanOf
  <1>2. PICK g \in Nat, n \in Int : g = Sigma(a) /\ n = -Sigma(a)
    BY <1>1, GrossType
  <1>3. PICK w \in ReceiptRow :
           /\ receipt' = [receipt EXCEPT ![r] = w]
           /\ w.booking = b /\ w.alloc = a /\ w.tds = tds
           /\ ~w.isReversed /\ ~w.entriesReversed /\ ~w.certificate
    <2> DEFINE w == [booking |-> b, alloc |-> a, tds |-> tds,
                     clearance |-> IF cheque THEN "RECEIVED" ELSE "NOT_APPLICABLE",
                     isReversed |-> FALSE, entriesReversed |-> FALSE, certificate |-> FALSE]
    <2>1. w \in ReceiptRow
      BY <1>1 DEF ReceiptRow, Clearance
    <2>2. receipt' = [receipt EXCEPT ![r] = w]
      BY DEF createReceipt
    <2>3. /\ w.booking = b /\ w.alloc = a /\ w.tds = tds
          /\ ~w.isReversed /\ ~w.entriesReversed /\ ~w.certificate
      OBVIOUS
    <2> HIDE DEF w
    <2> QED BY <2>1, <2>2, <2>3
  <1>4. receipt[r] = NULL /\ w # NULL /\ Bump(a) /\ UNCHANGED <<status, refund>>
    BY AccountAssumption DEF createReceipt
  <1>5. PICK rc \in ReceiptTable, rn \in ReceiptTable : rc = receipt /\ rn = receipt'
    BY <1>0, <1>3 DEF TypeOK, ReceiptTable
  <1>6. rc[r] = NULL /\ rn[r] = w /\ SameOn(rn, rc, Receipts \ {r})
    BY <1>0, <1>3, <1>4, <1>5 DEF TypeOK, SameOn
  <1>7. /\ KeepsPlan
        /\ inst' \in [Installments -> InstallmentRow \cup {NULL}]
        /\ \A i \in Installments : inst[i] # NULL => inst'[i].allocated = inst[i].allocated + a[i]
    <2>1. \A i \in Installments : inst[i] # NULL => inst[i].allocated + a[i] \in Nat
      BY <1>0, <1>1 DEF TypeOK, InstallmentRow
    <2> QED BY <1>0, <1>1, <1>4, <2>1, BumpOK
  <1>8. RefersToPlan'
    BY <1>1, <1>3, <1>5, <1>6, <1>7 DEF AccountInv, RefersToPlan, KeepsPlan, SameOn
  <1>9. FlagsAgree'
    BY <1>3, <1>5, <1>6 DEF AccountInv, FlagsAgree, SameOn
  <1>10. CacheInv'
    <2> SUFFICES ASSUME NEW i \in Installments, inst'[i] # NULL
                 PROVE  /\ inst'[i].allocated = Sigma(AllocOf(rn, i))
                        /\ inst'[i].allocated <= inst'[i].amount
      BY <1>5 DEF CacheInv
    <2>1. /\ inst[i] # NULL /\ inst'[i].allocated = inst[i].allocated + a[i]
          /\ inst'[i].amount = inst[i].amount
      BY <1>7 DEF KeepsPlan
    <2>2. inst[i].allocated = Sigma(AllocOf(rc, i)) /\ inst[i].allocated <= inst[i].amount
      BY <2>1, <1>5 DEF AccountInv, CacheInv
    <2>3. AllocOf(rn, i)[r] = a[i] /\ AllocOf(rc, i)[r] = 0
      BY <1>3, <1>4, <1>6 DEF AllocOf, Standing
    <2>4. /\ Sigma(AllocOf(rn, i)) = Sigma(AllocOf(rc, i)) + AllocOf(rn, i)[r] - AllocOf(rc, i)[r]
          /\ Sigma(AllocOf(rc, i)) \in Int
      BY <1>6, TableChange
    <2>5. a[i] \in Nat /\ inst[i].allocated \in Nat /\ inst[i].amount \in Nat
      BY <1>0, <1>1, <2>1 DEF TypeOK, InstallmentRow
    <2>6. inst[i].allocated + a[i] <= inst[i].amount
      BY <1>1, <2>2, <2>5
    <2> QED BY <2>1, <2>2, <2>3, <2>4, <2>5, <2>6
  <1>11. PlanInv'
    BY <1>7, KeepsPlanOK
  <1>12. /\ ledger' \in [Bookings -> [EntryType -> Int]]
         /\ Undeducted' /\ LedgerInv'
    <2> DEFINE e == [RECEIPT_ALLOC |-> n, TDS_RECEIVABLE |-> tds]
               D == {"RECEIPT_ALLOC", "TDS_RECEIVABLE"}
    <2>1. /\ e \in [D -> Int] /\ D \subseteq EntryType \ {"CANCELLATION_DEDUCTION"}
          /\ D \cap ReceiptTypes = D /\ e["RECEIPT_ALLOC"] = n /\ e["TDS_RECEIVABLE"] = tds
      BY DEF EntryType, ReceiptTypes
    <2>2. ledger' = [ledger EXCEPT ![b] = Post(b, e)]
      BY <1>2 DEF createReceipt, TotalOf, Sigma
    <2> HIDE DEF e
    <2>3. On(e, D \cap ReceiptTypes) = e
      BY <2>1 DEF On
    <2>4. Sigma(e) = n + tds
      BY <2>1, SigmaTwo
    <2>5. PICK x \in Int : x = n + tds
      OBVIOUS
    <2>6. /\ NetOf(rn, b)[r] = g - tds /\ NetOf(rc, b)[r] = 0
          /\ CertOf(rn, b)[r] = 0 /\ CertOf(rc, b)[r] = 0
      BY <1>2, <1>3, <1>4, <1>6 DEF NetOf, CertOf, Standing
    <2>7. /\ Sigma(NetOf(rn, b)) = Sigma(NetOf(rc, b)) + NetOf(rn, b)[r] - NetOf(rc, b)[r]
          /\ Sigma(NetOf(rc, b)) \in Int
          /\ Sigma(CertOf(rn, b)) = Sigma(CertOf(rc, b)) + CertOf(rn, b)[r] - CertOf(rc, b)[r]
          /\ Sigma(CertOf(rc, b)) \in Int
      BY <1>6, TableChange
    <2>8. AccountsFor(rn, rc, b, x)
      BY <1>2, <2>5, <2>6, <2>7 DEF AccountsFor
    <2>9. OtherBookingsKept(rn, rc, b)
      BY <1>3, <1>6, OtherBookings
    <2>10. Sigma(On(e, D \cap ReceiptTypes)) = x
      BY <2>3, <2>4, <2>5
    <2> HIDE DEF D
    <2>11. AccountsFor(receipt', receipt, b, x) /\ OtherBookingsKept(receipt', receipt, b)
      BY <1>5, <2>8, <2>9
    <2>12. UNCHANGED status
      BY <1>4
    <2> QED BY <2>1, <2>2, <2>10, <2>11, <2>12, LedgerPostOK
  <1>13. TypeOK'
    BY <1>0, <1>4, <1>5, <1>7, <1>12 DEF TypeOK, ReceiptTable
  <1> QED BY <1>8, <1>9, <1>10, <1>11, <1>12, <1>13 DEF AccountInv

LEMMA CertificateOK ==
    ASSUME AccountInv, NEW r \in Receipts, recordTdsCertificate(r)
    PROVE  AccountInv'
  <1>0. TypeOK
    BY DEF AccountInv
  <1>1. PICK w \in ReceiptRow : w = receipt[r] /\ ~w.certificate
    BY <1>0 DEF TypeOK, recordTdsCertificate
  <1>2. PICK v \in ReceiptRow :
           /\ receipt' = [receipt EXCEPT ![r] = v] /\ v.certificate
           /\ v.booking = w.booking /\ v.alloc = w.alloc /\ v.tds = w.tds
           /\ v.isReversed = w.isReversed /\ v.entriesReversed = w.entriesReversed
    <2> DEFINE v == [w EXCEPT !.certificate = TRUE]
    <2>1. /\ v \in ReceiptRow /\ v.certificate /\ v.booking = w.booking /\ v.alloc = w.alloc
          /\ v.tds = w.tds
          /\ v.isReversed = w.isReversed /\ v.entriesReversed = w.entriesReversed
      BY DEF ReceiptRow
    <2>2. receipt' = [receipt EXCEPT ![r] = v]
      BY <1>1 DEF recordTdsCertificate
    <2> HIDE DEF v
    <2> QED BY <2>1, <2>2
  <1>3. PICK b \in Bookings, n \in Nat, m \in Int : b = w.booking /\ n = w.tds /\ m = -w.tds
    BY DEF ReceiptRow
  <1>4. v # NULL /\ w # NULL /\ UNCHANGED <<status, inst, refund>>
    BY AccountAssumption DEF recordTdsCertificate
  <1>5. PICK rc \in ReceiptTable, rn \in ReceiptTable : rc = receipt /\ rn = receipt'
    BY <1>0, <1>2 DEF TypeOK, ReceiptTable
  <1>6. rc[r] = w /\ rn[r] = v /\ SameOn(rn, rc, Receipts \ {r})
    BY <1>0, <1>1, <1>2, <1>5 DEF TypeOK, SameOn
  <1>7. \A i \in Installments : AllocOf(rn, i) = AllocOf(rc, i)
    BY <1>2, <1>4, <1>6 DEF AllocOf, SameOn, Standing
  <1>8. NetOf(rn, b) = NetOf(rc, b)
    BY <1>2, <1>4, <1>6 DEF NetOf, SameOn, Standing
  <1>9. RefersToPlan' /\ FlagsAgree'
    BY <1>2, <1>4, <1>5, <1>6 DEF AccountInv, RefersToPlan, FlagsAgree, SameOn
  <1>10. CacheInv' /\ PlanInv'
    BY <1>4, <1>5, <1>7 DEF AccountInv, CacheInv, PlanInv, PlanOf
  <1>11. /\ ledger' \in [Bookings -> [EntryType -> Int]]
         /\ Undeducted' /\ LedgerInv'
    <2> DEFINE e == [TDS_CERT_ADJUSTMENT |-> m]
               D == {"TDS_CERT_ADJUSTMENT"}
    <2>1. /\ e \in [D -> Int] /\ D \subseteq EntryType \ {"CANCELLATION_DEDUCTION"}
          /\ D \cap ReceiptTypes = D /\ e["TDS_CERT_ADJUSTMENT"] = m
      BY DEF EntryType, ReceiptTypes
    <2>2. ledger' = [ledger EXCEPT ![b] = Post(b, e)]
      BY <1>1, <1>3 DEF recordTdsCertificate
    <2> HIDE DEF e
    <2>3. On(e, D \cap ReceiptTypes) = e
      BY <2>1 DEF On
    <2>4. Sigma(On(e, D \cap ReceiptTypes)) = m
      BY <2>1, <2>3, SigmaOne
    <2>6. CertOf(rn, b)[r] = n /\ CertOf(rc, b)[r] = 0
      BY <1>1, <1>2, <1>3, <1>4, <1>6 DEF CertOf
    <2>7. /\ Sigma(NetOf(rc, b)) \in Int
          /\ Sigma(CertOf(rn, b)) = Sigma(CertOf(rc, b)) + CertOf(rn, b)[r] - CertOf(rc, b)[r]
          /\ Sigma(CertOf(rc, b)) \in Int
      BY <1>6, TableChange
    <2>8. AccountsFor(rn, rc, b, m)
      BY <1>3, <1>8, <2>6, <2>7 DEF AccountsFor
    <2>9. OtherBookingsKept(rn, rc, b)
      BY <1>2, <1>3, <1>6, OtherBookings
    <2> HIDE DEF D
    <2>10. AccountsFor(receipt', receipt, b, m) /\ OtherBookingsKept(receipt', receipt, b)
      BY <1>5, <2>8, <2>9
    <2>11. UNCHANGED status
      BY <1>4
    <2> QED BY <2>1, <2>2, <2>4, <2>10, <2>11, LedgerPostOK
  <1>12. TypeOK'
    BY <1>0, <1>4, <1>5, <1>11 DEF TypeOK, ReceiptTable
  <1> QED BY <1>9, <1>10, <1>11, <1>12 DEF AccountInv

\* reverseReceiptLedger as it is called: row w of receipt r becomes v.
Reverses(r, w, v, ty, charge) ==
    /\ w = receipt[r] /\ receipt' = [receipt EXCEPT ![r] = v]
    /\ ReverseLedger(r, ty, charge)
    /\ v.booking = w.booking /\ v.alloc = w.alloc /\ v.tds = w.tds /\ v.certificate = w.certificate
    /\ v.isReversed /\ v.entriesReversed
    /\ ty \in {"BOUNCE_REVERSAL", "ADJUSTMENT"}
    /\ UNCHANGED <<status, refund>>

ReversalEntry(ty, x, charge) == [t \in {ty, "BOUNCE_CHARGE"} |-> IF t = ty THEN x ELSE charge]

\* The entries that a reversal posts.
LEMMA ReversalEntries ==
    ASSUME AccountInv, NEW b \in Bookings, NEW ty \in {"BOUNCE_REVERSAL", "ADJUSTMENT"},
           NEW x \in Int, NEW charge \in Nat,
           ledger' = [ledger EXCEPT ![b] = Post(b, ReversalEntry(ty, x, charge))],
           UNCHANGED status, AccountsFor(receipt', receipt, b, x), OtherBookingsKept(receipt', receipt, b)
    PROVE  /\ ledger' \in [Bookings -> [EntryType -> Int]]
           /\ Undeducted' /\ LedgerInv'
  <1> DEFINE D == {ty, "BOUNCE_CHARGE"}
             e == ReversalEntry(ty, x, charge)
  <1>1. /\ e \in [D -> Int] /\ D \subseteq EntryType \ {"CANCELLATION_DEDUCTION"}
        /\ D \cap ReceiptTypes = {ty} /\ e[ty] = x
    <2>1. e \in [D -> Int] /\ e[ty] = x
      BY DEF ReversalEntry
    <2>2. CASE ty = "ADJUSTMENT"
      BY <2>1, <2>2 DEF EntryType, ReceiptTypes
    <2>3. CASE ty = "BOUNCE_REVERSAL"
      BY <2>1, <2>3 DEF EntryType, ReceiptTypes
    <2> QED BY <2>2, <2>3
  <1> HIDE DEF e, D
  <1>2. On(e, {ty}) \in [{ty} -> Int] /\ On(e, {ty})[ty] = x
    BY <1>1 DEF On
  <1>3. Sigma(On(e, {ty})) = x
    BY <1>2, SigmaOne
  <1>4. ledger' = [ledger EXCEPT ![b] = Post(b, e)]
    BY DEF e, D
  <1>5. Sigma(On(e, D \cap ReceiptTypes)) = x
    BY <1>1, <1>3
  <1> QED BY <1>1, <1>4, <1>5, LedgerPostOK

\* A receipt that stood is reversed.
LEMMA ReverseOK ==
    ASSUME AccountInv, NEW r \in Receipts, NEW w \in ReceiptRow, NEW v \in ReceiptRow,
           NEW ty, NEW charge \in Nat, Reverses(r, w, v, ty, charge), ~w.entriesReversed
    PROVE  AccountInv'
  <1>0. TypeOK /\ FlagsAgree /\ RefersToPlan /\ CacheInv
    BY DEF AccountInv
  <1>1. v # NULL /\ w # NULL /\ ~w.isReversed
    BY <1>0, AccountAssumption DEF FlagsAgree, Reverses
  <1>2. PICK rc \in ReceiptTable, rn \in ReceiptTable : rc = receipt /\ rn = receipt'
    BY <1>0 DEF TypeOK, ReceiptTable, Reverses
  <1>3. rc[r] = w /\ rn[r] = v /\ SameOn(rn, rc, Receipts \ {r})
    BY <1>0, <1>2 DEF TypeOK, SameOn, Reverses
  <1>4. PICK b \in Bookings, a \in [Installments -> Nat], tds \in Nat :
           b = w.booking /\ a = w.alloc /\ tds = w.tds
    BY DEF ReceiptRow
  <1>5. PICK g \in Nat, x \in Int : g = Sigma(a) /\ x = g - tds
    <2>1. Sigma(a) \in Nat /\ \A g \in Nat : g - tds \in Int
      BY GrossType
    <2> QED BY <2>1
  <1> DEFINE d == [i \in Installments |-> -a[i]]
  <1>6. d \in [Installments -> Int] /\ Bump(d)
    BY <1>4 DEF Reverses, ReverseLedger
  <1>7. ASSUME NEW i \in Installments
        PROVE  /\ AllocOf(rc, i)[r] = a[i] /\ AllocOf(rn, i)[r] = 0
               /\ Sigma(AllocOf(rn, i)) = Sigma(AllocOf(rc, i)) - a[i]
               /\ Sigma(AllocOf(rc, i)) \in Int /\ a[i] <= Sigma(AllocOf(rc, i))
    <2>1. AllocOf(rc, i)[r] = a[i] /\ AllocOf(rn, i)[r] = 0
      BY <1>1, <1>3, <1>4 DEF AllocOf, Standing, Reverses
    <2>2. /\ Sigma(AllocOf(rn, i)) = Sigma(AllocOf(rc, i)) + AllocOf(rn, i)[r] - AllocOf(rc, i)[r]
          /\ Sigma(AllocOf(rc, i)) \in Int
      BY <1>3, TableChange
    <2>3. AllocOf(rc, i) \in [Receipts -> Nat]
      BY TableSums
    <2>4. AllocOf(rc, i)[r] <= Sigma(AllocOf(rc, i))
      BY <2>3, AccountAssumption, SigmaMember
    <2> QED BY <2>1, <2>2, <2>4
  <1>8. /\ KeepsPlan
        /\ inst' \in [Installments -> InstallmentRow \cup {NULL}]
        /\ \A i \in Installments : inst[i] # NULL => inst'[i].allocated = inst[i].allocated - a[i]
    <2>1. \A i \in Installments : d[i] = -a[i] /\ a[i] \in Nat
      OBVIOUS
    <2>2. \A i \in Installments : inst[i] # NULL => inst[i].allocated \in Nat
      BY <1>0 DEF TypeOK, InstallmentRow
    <2>3. \A i \in Installments : inst[i] # NULL => a[i] <= inst[i].allocated
      BY <1>0, <1>2, <1>7 DEF CacheInv
    <2> HIDE DEF d
    <2>4. \A i \in Installments : inst[i] # NULL => inst[i].allocated + d[i] \in Nat
      BY <2>1, <2>2, <2>3
    <2>5. /\ KeepsPlan
          /\ inst' \in [Installments -> InstallmentRow \cup {NULL}]
          /\ \A i \in Installments : inst[i] # NULL => inst'[i].allocated = inst[i].allocated + d[i]
      BY <1>0, <1>6, <2>4, BumpOK
    <2> QED BY <2>1, <2>2, <2>5
  <1> HIDE DEF d
  <1>9. RefersToPlan' /\ FlagsAgree'
    BY <1>0, <1>1, <1>2, <1>3, <1>8 DEF Reverses, RefersToPlan, FlagsAgree, KeepsPlan, SameOn
  <1>10. CacheInv'
    <2> SUFFICES ASSUME NEW i \in Installments, inst'[i] # NULL
                 PROVE  /\ inst'[i].allocated = Sigma(AllocOf(rn, i))
                        /\ inst'[i].allocated <= inst'[i].amount
      BY <1>2 DEF CacheInv
    <2>1. /\ inst[i] # NULL /\ inst'[i].allocated = inst[i].allocated - a[i]
          /\ inst'[i].amount = inst[i].amount
      BY <1>8 DEF KeepsPlan
    <2>2. inst[i].allocated = Sigma(AllocOf(rc, i)) /\ inst[i].allocated <= inst[i].amount
      BY <1>0, <2>1, <1>2 DEF CacheInv
    <2>3. a[i] \in Nat /\ inst[i].allocated \in Nat /\ inst[i].amount \in Nat
      BY <1>0, <2>1 DEF TypeOK, InstallmentRow
    <2> QED BY <2>1, <2>2, <2>3, <1>7
  <1>11. PlanInv'
    BY <1>8, KeepsPlanOK
  <1>12. /\ ledger' \in [Bookings -> [EntryType -> Int]]
         /\ Undeducted' /\ LedgerInv'
    <2>1. ledger' = [ledger EXCEPT ![b] = Post(b, ReversalEntry(ty, x, charge))]
      BY <1>4, <1>5 DEF Reverses, ReverseLedger, ReversalEntry, Gross, TotalOf, Sigma
    <2>2. NetOf(rn, b)[r] = 0 /\ NetOf(rc, b)[r] = x /\ CertOf(rn, b)[r] = CertOf(rc, b)[r]
      BY <1>1, <1>3, <1>4, <1>5 DEF NetOf, CertOf, Standing, Reverses
    <2>3. /\ Sigma(NetOf(rn, b)) = Sigma(NetOf(rc, b)) + NetOf(rn, b)[r] - NetOf(rc, b)[r]
          /\ Sigma(NetOf(rc, b)) \in Int
          /\ Sigma(CertOf(rn, b)) = Sigma(CertOf(rc, b)) + CertOf(rn, b)[r] - CertOf(rc, b)[r]
          /\ Sigma(CertOf(rc, b)) \in Int
      BY <1>3, TableChange
    <2>4. CertOf(rc, b)[r] \in Nat
      BY TableSums
    <2>5. AccountsFor(rn, rc, b, x)
      BY <2>2, <2>3, <2>4 DEF AccountsFor
    <2>6. OtherBookingsKept(rn, rc, b)
      <3>1. rc[r].booking = b /\ rn[r].booking = b
        BY <1>3, <1>4 DEF Reverses
      <3> QED BY <1>3, <3>1, OtherBookings
    <2>7. AccountsFor(receipt', receipt, b, x) /\ OtherBookingsKept(receipt', receipt, b)
      BY <1>2, <2>5, <2>6
    <2>8. UNCHANGED status /\ ty \in {"BOUNCE_REVERSAL", "ADJUSTMENT"}
      BY DEF Reverses
    <2> QED BY <2>1, <2>7, <2>8, ReversalEntries
  <1>13. TypeOK'
    BY <1>0, <1>2, <1>8, <1>12 DEF TypeOK, ReceiptTable, Reverses
  <1> QED BY <1>9, <1>10, <1>11, <1>12, <1>13 DEF AccountInv

\* A step that leaves the installments and what the receipts come to.
LEMMA SameReceipts ==
    ASSUME AccountInv, NEW r \in Receipts, NEW w \in ReceiptRow, NEW v \in ReceiptRow,
           w = receipt[r], receipt' = [receipt EXCEPT ![r] = v], UNCHANGED <<status, inst, refund>>,
           v.booking = w.booking, v.alloc = w.alloc, v.tds = w.tds,
           v.certificate = w.certificate, v.isReversed = w.isReversed,
           v.entriesReversed = w.entriesReversed
    PROVE  /\ receipt' \in ReceiptTable /\ RefersToPlan' /\ FlagsAgree' /\ CacheInv' /\ PlanInv'
           /\ \A b : NetOf(receipt', b) = NetOf(receipt, b) /\ CertOf(receipt', b) = CertOf(receipt, b)
  <1>0. TypeOK
    BY DEF AccountInv
  <1>1. v # NULL /\ w # NULL
    BY AccountAssumption
  <1>2. PICK rc \in ReceiptTable, rn \in ReceiptTable : rc = receipt /\ rn = receipt'
    BY <1>0 DEF TypeOK, ReceiptTable
  <1>3. rc[r] = w /\ rn[r] = v /\ SameOn(rn, rc, Receipts \ {r})
    BY <1>0, <1>2 DEF TypeOK, SameOn
  <1>4. \A i \in Installments : AllocOf(rn, i) = AllocOf(rc, i)
    BY <1>1, <1>3 DEF AllocOf, SameOn, Standing
  <1>5. \A b : NetOf(rn, b) = NetOf(rc, b)
    BY <1>1, <1>3 DEF NetOf, SameOn, Standing
  <1>6. \A b : CertOf(rn, b) = CertOf(rc, b)
    BY <1>1, <1>3 DEF CertOf, SameOn
  <1>7. RefersToPlan' /\ FlagsAgree'
    BY <1>1, <1>2, <1>3 DEF AccountInv, RefersToPlan, FlagsAgree, SameOn
  <1>8. CacheInv' /\ PlanInv'
    BY <1>2, <1>4 DEF AccountInv, CacheInv, PlanInv, PlanOf
  <1> QED BY <1>2, <1>5, <1>6, <1>7, <1>8

\* A cheque bounces whose receipt was already reversed: only the charge is new.
LEMMA ReverseAgainOK ==
    ASSUME AccountInv, NEW r \in Receipts, NEW w \in ReceiptRow, NEW v \in ReceiptRow,
           NEW ty, NEW charge \in Nat, Reverses(r, w, v, ty, charge), w.entriesReversed
    PROVE  AccountInv'
  <1>0. TypeOK /\ FlagsAgree
    BY DEF AccountInv
  <1>1. w # NULL /\ w.isReversed
    BY <1>0, AccountAssumption DEF FlagsAgree, Reverses
  <1>2. PICK b \in Bookings : b = w.booking
    BY DEF ReceiptRow
  <1>3. /\ ledger' = [ledger EXCEPT ![b] = Post(b, ReversalEntry(ty, 0, charge))]
        /\ UNCHANGED <<status, inst, refund>>
        /\ ty \in {"BOUNCE_REVERSAL", "ADJUSTMENT"}
    BY <1>2 DEF Reverses, ReverseLedger, ReversalEntry
  <1>4. /\ w = receipt[r] /\ receipt' = [receipt EXCEPT ![r] = v]
        /\ v.booking = w.booking /\ v.alloc = w.alloc /\ v.tds = w.tds
        /\ v.certificate = w.certificate /\ v.isReversed = w.isReversed
        /\ v.entriesReversed = w.entriesReversed
    BY <1>1 DEF Reverses, ReceiptRow
  <1>5. /\ receipt' \in ReceiptTable /\ RefersToPlan' /\ FlagsAgree' /\ CacheInv' /\ PlanInv'
        /\ \A c : NetOf(receipt', c) = NetOf(receipt, c) /\ CertOf(receipt', c) = CertOf(receipt, c)
    BY <1>3, <1>4, SameReceipts
  <1>6. AccountsFor(receipt', receipt, b, 0) /\ OtherBookingsKept(receipt', receipt, b)
    <2>1. PICK rc \in ReceiptTable : rc = receipt
      BY <1>0 DEF TypeOK, ReceiptTable
    <2>2. NetOf(rc, b) \in [Receipts -> Int] /\ CertOf(rc, b) \in [Receipts -> Int]
      BY TableSums
    <2>3. Sigma(NetOf(rc, b)) \in Int /\ Sigma(CertOf(rc, b)) \in Int
      BY <2>2, AccountAssumption, SigmaType
    <2> QED BY <1>5, <2>1, <2>3 DEF AccountsFor, OtherBookingsKept
  <1>7. /\ ledger' \in [Bookings -> [EntryType -> Int]]
        /\ Undeducted' /\ LedgerInv'
    <2>1. UNCHANGED status /\ 0 \in Int
      BY <1>3
    <2> QED BY <1>3, <1>6, <2>1, ReversalEntries
  <1>8. TypeOK'
    BY <1>0, <1>3, <1>5, <1>7 DEF TypeOK, ReceiptTable
  <1> QED BY <1>5, <1>7, <1>8 DEF AccountInv

LEMMA ChequeEventOK ==
    ASSUME AccountInv, NEW r \in Receipts, NEW s \in {"DEPOSITED", "CLEARED", "BOUNCED"},
           recordChequeEvent(r, s)
    PROVE  AccountInv'
  <1>0. TypeOK /\ BounceCharge \in Nat
    BY AccountAssumption DEF AccountInv
  <1>1. PICK w \in ReceiptRow : w = receipt[r]
    BY <1>0 DEF TypeOK, recordChequeEvent
  <1>2. CASE s = "BOUNCED"
    <2> DEFINE v == [w EXCEPT !.clearance = "BOUNCED", !.isReversed = TRUE, !.entriesReversed = TRUE]
    <2>1. /\ v \in ReceiptRow /\ v.booking = w.booking /\ v.alloc = w.alloc /\ v.tds = w.tds
          /\ v.certificate = w.certificate /\ v.isReversed /\ v.entriesReversed
      BY DEF ReceiptRow, Clearance
    <2>2. receipt' = [receipt EXCEPT ![r] = v]
      BY <1>0, <1>1, <1>2 DEF recordChequeEvent, TypeOK
    <2> HIDE DEF v
    <2>3. Reverses(r, w, v, "BOUNCE_REVERSAL", BounceCharge)
      BY <1>1, <1>2, <2>1, <2>2 DEF Reverses, recordChequeEvent
    <2> QED BY <1>0, <2>1, <2>3, ReverseOK, ReverseAgainOK
  <1>3. CASE s # "BOUNCED"
    <2> DEFINE v == [w EXCEPT !.clearance = s]
    <2>1. /\ v \in ReceiptRow /\ v.booking = w.booking /\ v.alloc = w.alloc /\ v.tds = w.tds
          /\ v.certificate = w.certificate /\ v.isReversed = w.isReversed
          /\ v.entriesReversed = w.entriesReversed
      BY DEF ReceiptRow, Clearance
    <2>2. receipt' = [receipt EXCEPT ![r] = v] /\ UNCHANGED <<status, inst, ledger, refund>>
      BY <1>1, <1>3 DEF recordChequeEvent
    <2> HIDE DEF v
    <2>3. /\ receipt' \in ReceiptTable /\ RefersToPlan' /\ FlagsAgree' /\ CacheInv' /\ PlanInv'
          /\ \A b : NetOf(receipt', b) = NetOf(receipt, b) /\ CertOf(receipt', b) = CertOf(receipt, b)
      BY <1>1, <2>1, <2>2, SameReceipts
    <2>4. LedgerInv' /\ Undeducted'
      BY <2>2, <2>3 DEF AccountInv, LedgerInv, Undeducted
    <2>5. TypeOK'
      BY <1>0, <2>2, <2>3 DEF TypeOK, ReceiptTable
    <2> QED BY <2>3, <2>4, <2>5 DEF AccountInv
  <1> QED BY <1>2, <1>3

LEMMA ReverseReceiptOK ==
    ASSUME AccountInv, NEW r \in Receipts, reverseReceipt(r)
    PROVE  AccountInv'
  <1>0. TypeOK /\ FlagsAgree
    BY DEF AccountInv
  <1>1. PICK w \in ReceiptRow : w = receipt[r] /\ ~w.entriesReversed
    BY <1>0 DEF TypeOK, reverseReceipt, FlagsAgree
  <1> DEFINE v == [w EXCEPT !.isReversed = TRUE, !.entriesReversed = TRUE]
  <1>2. /\ v \in ReceiptRow /\ v.booking = w.booking /\ v.alloc = w.alloc /\ v.tds = w.tds
        /\ v.certificate = w.certificate /\ v.isReversed /\ v.entriesReversed
    BY DEF ReceiptRow
  <1>3. receipt' = [receipt EXCEPT ![r] = v]
    BY <1>0, <1>1 DEF reverseReceipt, TypeOK
  <1> HIDE DEF v
  <1>4. Reverses(r, w, v, "ADJUSTMENT", 0)
    BY <1>1, <1>2, <1>3 DEF Reverses, reverseReceipt
  <1> QED BY <1>1, <1>2, <1>4, ReverseOK

-----------------------------------------------------------------------------
(* The specification.                                                      *)

\* A booking ends only by cancel, which settles its balance.
Settles ==
    \A b \in Bookings : status[b] \notin Over /\ status'[b] \in Over =>
        Balance(b)' = -Refundable(b, ledger'[b]["CANCELLATION_DEDUCTION"])

LEMMA CancelSettles ==
    ASSUME AccountInv, NEW b \in Bookings, NEW d \in Deductions,
           NEW s \in {"CANCELLED", "SURRENDERED"}, cancel(b, d, s)
    PROVE  Settles
  <1>1. Sigma(ledger'[b]) = -Refundable(b, ledger'[b]["CANCELLATION_DEDUCTION"])
    BY CancelOK
  <1>2. \A c \in Bookings \ {b} : status'[c] = status[c]
    BY CancelOK
  <1>3. Balance(b)' = Sigma(ledger'[b])
    <2>1. PICK l : l = ledger'[b]
      OBVIOUS
    <2>2. Balance(b)' = TotalOf(l)
      BY <2>1 DEF Balance
    <2>3. TotalOf(l) = Sigma(l)
      BY DEF TotalOf, Sigma
    <2> QED BY <2>1, <2>2, <2>3
  <1> QED BY <1>1, <1>2, <1>3 DEF Settles

\* The handlers that leave no booking ended.
LEMMA NotOver ==
    ASSUME TypeOK, NEW b \in Bookings, NEW c \in Bookings, NEW s \in BOOKING_STATUS \ Over,
           NEW z \in BOOKING_STATUS \ Over,
           status' = [status EXCEPT ![b] = s, ![c] = z]
    PROVE  Settles
  BY DEF Settles, TypeOK

LEMMA AccountNextOK ==
    ASSUME AccountInv, [Next]_vars
    PROVE  AccountInv' /\ Settles
  <1>0. TypeOK
    BY DEF AccountInv
  <1>s. (UNCHANGED status) => Settles
    BY DEF Settles
  <1>1. ASSUME NEW b \in Bookings, createBooking(b)
        PROVE  AccountInv' /\ Settles
    <2>1. status' = [status EXCEPT ![b] = "BOOKED", ![b] = "BOOKED"]
      BY <1>0, <1>1 DEF createBooking, TypeOK
    <2>2. "BOOKED" \in BOOKING_STATUS \ Over
      BY DEF BOOKING_STATUS, Over
    <2> QED BY <1>0, <1>1, <2>1, <2>2, CreateBookingOK, NotOver
  <1>2. ASSUME NEW b \in Bookings, addExtraCharge(b)
        PROVE  AccountInv' /\ Settles
    BY <1>2, <1>s, AddExtraChargeOK DEF addExtraCharge
  <1>3. ASSUME NEW b \in Bookings, NEW a \in Schedules(Price, Free \cup PlanOf(b)),
               NEW raised, createPlan(b, a, raised)
        PROVE  AccountInv' /\ Settles
    BY <1>3, <1>s, CreatePlanOK DEF createPlan
  <1>4. ASSUME NEW b \in Bookings, NEW a \in Schedules(Residual(b), Free \cup Unpaid(b)),
               editPlan(b, a)
        PROVE  AccountInv' /\ Settles
    BY <1>4, <1>s, EditPlanOK DEF editPlan
  <1>5. ASSUME NEW b \in Bookings, NEW r \in Receipts, NEW a \in Allocations(b), NEW tds \in 0 .. 1,
               NEW cheque \in BOOLEAN, createReceipt(r, b, a, tds, cheque)
        PROVE  AccountInv' /\ Settles
    BY <1>5, <1>s, CreateReceiptOK DEF createReceipt
  <1>6. ASSUME NEW b \in Bookings, NEW d \in Deductions, NEW s \in {"CANCELLED", "SURRENDERED"},
               cancel(b, d, s)
        PROVE  AccountInv' /\ Settles
    BY <1>6, CancelOK, CancelSettles
  <1>7. ASSUME NEW b \in Bookings, NEW f \in Refunds, NEW n \in 1 .. Price, requestRefund(f, b, n)
        PROVE  AccountInv' /\ Settles
    BY <1>7, <1>s, RefundRowsOK DEF requestRefund
  <1>8. ASSUME NEW b \in Bookings, NEW c \in Bookings, NEW fee \in {0, TransferFee},
               transfer(b, c, fee)
        PROVE  AccountInv' /\ Settles
    <2>1. status' = [status EXCEPT ![b] = "TRANSFERRED_OUT", ![c] = "BOOKED"]
      BY <1>8 DEF transfer
    <2>2. {"TRANSFERRED_OUT", "BOOKED"} \subseteq BOOKING_STATUS \ Over
      BY DEF BOOKING_STATUS, Over
    <2> QED BY <1>0, <1>8, <2>1, <2>2, TransferOK, NotOver
  <1>9. CASE raiseStage
    BY <1>9, <1>s, RaiseStageOK DEF raiseStage
  <1>10. ASSUME NEW r \in Receipts, NEW s \in {"DEPOSITED", "CLEARED", "BOUNCED"},
                recordChequeEvent(r, s)
         PROVE  AccountInv' /\ Settles
    BY <1>10, <1>s, ChequeEventOK DEF recordChequeEvent
  <1>11. ASSUME NEW r \in Receipts, reverseReceipt(r)
         PROVE  AccountInv' /\ Settles
    BY <1>11, <1>s, ReverseReceiptOK DEF reverseReceipt
  <1>12. ASSUME NEW r \in Receipts, recordTdsCertificate(r)
         PROVE  AccountInv' /\ Settles
    BY <1>12, <1>s, CertificateOK DEF recordTdsCertificate
  <1>13. ASSUME NEW f \in Refunds, approveRefund(f)
         PROVE  AccountInv' /\ Settles
    BY <1>13, <1>s, ApproveRefundOK DEF approveRefund
  <1>14. ASSUME NEW f \in Refunds, payRefund(f)
         PROVE  AccountInv' /\ Settles
    BY <1>14, <1>s, RefundRowsOK DEF payRefund
  <1>15. ASSUME NEW f \in Refunds, voucherBounced(f)
         PROVE  AccountInv' /\ Settles
    BY <1>15, <1>s, VoucherBouncedOK DEF voucherBounced
  <1>16. CASE UNCHANGED vars
    <2>1. UNCHANGED <<status, ledger, inst, receipt, refund>>
      BY <1>16 DEF vars
    <2>2. TypeOK' /\ Undeducted'
      BY <2>1 DEF AccountInv, TypeOK, Undeducted
    <2> QED BY <1>s, <2>1, <2>2, LedgerOnly
  <1> QED BY <1>1, <1>2, <1>3, <1>4, <1>5, <1>6, <1>7, <1>8, <1>9, <1>10, <1>11, <1>12, <1>13,
             <1>14, <1>15, <1>16 DEF Next

\* Every handler keeps the account's inductive invariant: types, receipts that refer
\* to installments that are there, and the three sums (BookingAccount's handlers).
THEOREM AccountInvHolds == Spec => []AccountInv
  <1>1. AccountInv /\ [Next]_vars => AccountInv'
    BY AccountNextOK
  <1> QED BY <1>1, AccountInitOK, PTL DEF Spec

\* An installment's cached allocation is the sum of its standing receipts and stays
\* within its amount, for any price, installments and receipts (bumpInstallment).
THEOREM AllocatedMatchesReceiptsHolds == Spec => []AllocatedMatchesReceipts
  <1>1. AccountInv => AllocatedMatchesReceipts
    BY InvGivesProperties
  <1> QED BY <1>1, AccountInvHolds, PTL

\* What receipts, bounces, reversals and certificates posted to a booking is what
\* its receipts' flags say (createReceipt, reverseReceiptLedger, recordTdsCertificate).
THEOREM LedgerMatchesReceiptsHolds == Spec => []LedgerMatchesReceipts
  <1>1. AccountInv => LedgerMatchesReceipts
    BY InvGivesProperties
  <1> QED BY <1>1, AccountInvHolds, PTL

\* A booking's schedule sums to its agreed price after every creation and edit of
\* the plan (createPlan, editPlan).
THEOREM ScheduleSumsToPriceHolds == Spec => []ScheduleSumsToPrice
  <1>1. AccountInv => ScheduleSumsToPrice
    BY InvGivesProperties
  <1> QED BY <1>1, AccountInvHolds, PTL

\* A cancellation leaves the balance at minus what is refundable, whatever stood in
\* the ledger (cancel), and no other handler ends a booking that way.
THEOREM CancelSettlesBalanceHolds == Spec => CancelSettlesBalance
  <1>1. AccountInv /\ [Next]_vars => [Settles]_vars
    BY AccountNextOK
  <1>2. Spec => []AccountInv
    BY AccountInvHolds
  <1>3. Spec => [][Settles]_vars
    BY <1>1, <1>2, PTL DEF Spec
  <1> QED BY <1>3 DEF CancelSettlesBalance, Settles

-----------------------------------------------------------------------------
(* Receipts, reversals and bounces as transactions.                        *)

TxLabels == {"idle", "allocate", "flag", "readEntries", "bumpRead", "bumpWrite", "commit"}

TxRequest == [op : {"create", "reverse", "bounce", NULL}, receipt : Rows \cup {NULL},
              inst : Installments \cup {NULL}, delta : Int, fy : FYs \cup {NULL}]

TxType ==
    /\ allocated \in [Installments -> Int]
    /\ row \in [Rows -> TxRow \cup {NULL}]
    /\ reversals \in [Rows -> Nat]
    /\ pc \in [Txs -> TxLabels]
    /\ req \in [Txs -> TxRequest]
    /\ counter \in [Txs -> FYs \cup {NULL}]
    /\ seen \in [Txs -> Int]
    /\ wAllocated \in [Txs -> [Installments -> Int \cup {NULL}]]
    /\ wReceipt \in [Txs -> [Rows -> TxRow \cup {NULL}]]
    /\ posted \in [Txs -> BOOLEAN]
    /\ alone \in BOOLEAN

\* Nothing is under way.
IdleFits(t) ==
    /\ pc[t] = "idle" <=> req[t].op = NULL
    /\ pc[t] = "idle" =>
        /\ ~posted[t]
        /\ \A i \in Installments : wAllocated[t][i] = NULL
        /\ \A r \in Rows : wReceipt[t][r] = NULL

\* createReceipt: only rows that nothing reverses.
CreateFits(t) ==
    req[t].op = "create" =>
        /\ pc[t] \in {"allocate", "bumpRead", "bumpWrite", "commit"} /\ ~posted[t]
        /\ req[t].inst \in Installments /\ req[t].delta \in Nat /\ req[t].fy \in FYs
        /\ \A r \in Rows : wReceipt[t][r] # NULL => ~wReceipt[t][r].isReversed /\ reversals[r] = 0

\* reverseReceipt and a bounce: what has been flagged and posted at each statement.
ReverseFits(t) ==
    req[t].op \in {"reverse", "bounce"} =>
        /\ pc[t] \in {"flag", "readEntries", "bumpRead", "bumpWrite", "commit"}
        /\ req[t].receipt \in Rows /\ row[req[t].receipt] # NULL
        /\ req[t].inst \in Installments /\ req[t].delta <= 0
        /\ \A r \in Rows : wReceipt[t][r] # NULL => r = req[t].receipt /\ wReceipt[t][r].isReversed
        /\ posted[t] => reversals[req[t].receipt] = 0
        /\ pc[t] \in {"bumpRead", "bumpWrite"} => posted[t]
        /\ pc[t] = "readEntries" => ~posted[t]
        /\ req[t].op = "bounce" /\ pc[t] # "flag" => wReceipt[t][req[t].receipt] # NULL
        /\ req[t].op = "bounce" /\ pc[t] = "flag" => ~posted[t]
        /\ pc[t] = "commit" => wReceipt[t][req[t].receipt] # NULL
        /\ pc[t] = "commit" \/ (req[t].op = "reverse" /\ pc[t] = "flag") =>
              posted[t] \/ reversals[req[t].receipt] = 1

\* A row nobody committed has no reversal.
ReversedRows ==
    /\ \A r \in Rows : row[r] = NULL => reversals[r] = 0
    /\ Tx!ReversedOnce

\* The two schedules.
OnSchedule ==
    /\ alone => \A t, o \in Txs : pc[t] # "idle" /\ pc[o] # "idle" => t = o
    /\ ~alone => \A t \in Txs : req[t].op \in {"create", NULL}

\* One at a time, what a transaction will write keeps within the amount.
WithinFits(t) ==
    /\ \A i \in Installments : wAllocated[t][i] # NULL => wAllocated[t][i] <= Amount
    /\ pc[t] = "bumpWrite" => seen[t] = allocated[req[t].inst]
    /\ req[t].op = "create" /\ pc[t] \in {"allocate", "bumpRead", "bumpWrite"} =>
          allocated[req[t].inst] + req[t].delta <= Amount

Within == alone => Tx!NoOverAllocation /\ \A t \in Txs : WithinFits(t)

TxInv ==
    /\ TxType /\ ReversedRows /\ OnSchedule /\ Within
    /\ \A t \in Txs : IdleFits(t) /\ CreateFits(t) /\ ReverseFits(t)

LEMMA TxInitOK == MCInit => TxInv
<1> SUFFICES ASSUME MCInit PROVE TxInv
  OBVIOUS
<1>1. Tx!Init /\ alone \in BOOLEAN
  BY DEF MCInit, Tx!MCInit
<1>2. Tx!NoRequest \in TxRequest /\ Tx!NoRequest.op = NULL
  BY DEF Tx!NoRequest, TxRequest
<1>3. TxType
  BY <1>1, <1>2 DEF Tx!Init, TxType, TxLabels
<1>4. ReversedRows
  BY <1>1 DEF Tx!Init, ReversedRows, Tx!ReversedOnce
<1>5. \A t \in Txs : IdleFits(t) /\ CreateFits(t) /\ ReverseFits(t)
  BY <1>1, <1>2, TxAssumption DEF Tx!Init, IdleFits, CreateFits, ReverseFits
<1>6. OnSchedule
  BY <1>1, <1>2 DEF Tx!Init, OnSchedule
<1>7. Within
  BY <1>1, <1>2, TxAssumption DEF Tx!Init, Within, WithinFits, Tx!NoOverAllocation
<1> QED
  BY <1>3, <1>4, <1>5, <1>6, <1>7 DEF TxInv

-----------------------------------------------------------------------------
(* One statement of transaction t.                                         *)

OthersKept(t) ==
    \A o \in Txs \ {t} :
        /\ pc'[o] = pc[o] /\ req'[o] = req[o] /\ seen'[o] = seen[o]
        /\ wAllocated'[o] = wAllocated[o] /\ wReceipt'[o] = wReceipt[o] /\ posted'[o] = posted[o]

LEMMA ScheduledStays ==
    ASSUME SameTime \subseteq {"create"}, Tx!Scheduled, UNCHANGED alone
    PROVE  OnSchedule'
  BY DEF Tx!Scheduled, OnSchedule

\* A statement that commits nothing.
LEMMA LocalStep ==
    ASSUME SameTime \subseteq {"create"}, TxInv, Tx!Scheduled, UNCHANGED alone,
           NEW t \in Txs, OthersKept(t), UNCHANGED <<allocated, row, reversals>>,
           TxType', IdleFits(t)', CreateFits(t)', ReverseFits(t)', alone => WithinFits(t)'
    PROVE  TxInv'
<1>1. OnSchedule'
  BY ScheduledStays
<1>2. ReversedRows'
  BY DEF TxInv, ReversedRows, Tx!ReversedOnce
<1>3. \A o \in Txs \ {t} : IdleFits(o)' /\ CreateFits(o)' /\ ReverseFits(o)'
  BY DEF TxInv, OthersKept, IdleFits, CreateFits, ReverseFits
<1>4. alone => \A o \in Txs \ {t} : WithinFits(o)'
  BY DEF TxInv, Within, OthersKept, WithinFits
<1>5. Within'
  BY <1>4 DEF TxInv, Within, Tx!NoOverAllocation
<1> QED
  BY <1>1, <1>2, <1>3, <1>5 DEF TxInv

\* A request begins.
LEMMA BeginStep ==
    ASSUME SameTime \subseteq {"create"}, TxInv, Tx!Scheduled, UNCHANGED alone,
           NEW t \in Txs, NEW r \in TxRequest, NEW label \in TxLabels, Tx!Begin(t, r, label),
           r.op # NULL, label # "idle",
           r.op = "create" => /\ label = "allocate" /\ r.inst \in Installments /\ r.delta \in Nat
                              /\ r.fy \in FYs /\ allocated[r.inst] + r.delta <= Amount,
           r.op \in {"reverse", "bounce"} =>
              /\ label = (IF r.op = "reverse" THEN "readEntries" ELSE "flag")
              /\ r.receipt \in Rows /\ row[r.receipt] # NULL /\ r.inst \in Installments /\ r.delta <= 0
    PROVE  TxInv'
<1>1. /\ pc[t] = "idle" /\ req' = [req EXCEPT ![t] = r] /\ pc' = [pc EXCEPT ![t] = label]
      /\ UNCHANGED <<allocated, row, reversals, counter, seen, wAllocated, wReceipt, posted>>
  BY DEF Tx!Begin, Tx!Goto
<1>2. TxType'
  BY <1>1 DEF TxInv, TxType
<1>3. OthersKept(t)
  BY <1>1 DEF TxInv, TxType, OthersKept
<1>4. pc'[t] = label /\ req'[t] = r
  BY <1>1 DEF TxInv, TxType
<1>5. ~posted[t] /\ (\A i \in Installments : wAllocated[t][i] = NULL) /\ (\A q \in Rows : wReceipt[t][q] = NULL)
  BY <1>1, TxAssumption DEF TxInv, IdleFits
<1>6. IdleFits(t)'
  BY <1>4, TxAssumption DEF IdleFits
<1>7. CreateFits(t)'
  BY <1>1, <1>4, <1>5 DEF CreateFits
<1>8. ReverseFits(t)'
  BY <1>1, <1>4, <1>5 DEF ReverseFits
<1>9. WithinFits(t)'
  BY <1>1, <1>4, <1>5 DEF WithinFits, TxRequest, TxLabels
<1> QED
  BY <1>1, <1>2, <1>3, <1>6, <1>7, <1>8, <1>9, LocalStep

LEMMA FirstStatements ==
    ASSUME SameTime \subseteq {"create"}, TxInv, Tx!Scheduled, UNCHANGED alone, NEW t \in Txs,
           \/ \E i \in Installments, n \in 1 .. Amount, f \in FYs : Tx!createReceipt(t, i, n, f)
           \/ \E r \in Rows : Tx!reverseReceipt(t, r) \/ Tx!bounceCheque(t, r)
    PROVE  TxInv'
<1>1. ASSUME NEW i \in Installments, NEW n \in 1 .. Amount, NEW f \in FYs, Tx!createReceipt(t, i, n, f)
      PROVE  TxInv'
  <2> DEFINE q == [op |-> "create", receipt |-> NULL, inst |-> i, delta |-> n, fy |-> f]
  <2>1. Tx!Begin(t, q, "allocate") /\ allocated[i] + n <= Amount
    BY <1>1 DEF Tx!createReceipt
  <2>2. q \in TxRequest /\ n \in Nat
    BY TxAssumption DEF TxRequest
  <2>3. /\ q.op = "create" /\ q.inst = i /\ q.delta = n /\ q.fy = f /\ q.op # NULL
        /\ "allocate" \in TxLabels
    BY TxAssumption DEF TxLabels
  <2> HIDE DEF q
  <2> QED
    BY <2>1, <2>2, <2>3, BeginStep
<1>2. ASSUME NEW r \in Rows, row[r] # NULL, NEW o \in {"reverse", "bounce"},
             Tx!Begin(t, [op |-> o, receipt |-> r, inst |-> row[r].inst,
                          delta |-> -row[r].amount, fy |-> NULL],
                      IF o = "reverse" THEN "readEntries" ELSE "flag")
      PROVE  TxInv'
  <2> DEFINE q == [op |-> o, receipt |-> r, inst |-> row[r].inst, delta |-> -row[r].amount, fy |-> NULL]
             l == IF o = "reverse" THEN "readEntries" ELSE "flag"
  <2>1. row[r].inst \in Installments /\ row[r].amount \in Nat
    BY <1>2 DEF TxInv, TxType, TxRow
  <2>2. q \in TxRequest /\ -row[r].amount <= 0
    BY <2>1 DEF TxRequest
  <2>3. /\ q.op = o /\ q.inst = row[r].inst /\ q.delta = -row[r].amount /\ q.receipt = r
        /\ o # NULL /\ o # "create" /\ l \in TxLabels /\ l # "idle"
    BY TxAssumption DEF TxLabels
  <2>4. Tx!Begin(t, q, l)
    BY <1>2
  <2>5. l = IF q.op = "reverse" THEN "readEntries" ELSE "flag"
    BY <2>3
  <2> HIDE DEF q, l
  <2> QED
    BY <1>2, <2>1, <2>2, <2>3, <2>4, <2>5, BeginStep
<1>3. ASSUME NEW r \in Rows, Tx!reverseReceipt(t, r) PROVE TxInv'
  BY <1>2, <1>3 DEF Tx!reverseReceipt
<1>4. ASSUME NEW r \in Rows, Tx!bounceCheque(t, r) PROVE TxInv'
  BY <1>2, <1>4 DEF Tx!bounceCheque
<1> QED
  BY <1>1, <1>3, <1>4

\* What a transaction may be doing at each statement.
LEMMA OpenOps ==
    ASSUME TxInv, NEW t \in Txs
    PROVE  /\ pc[t] = "allocate" => req[t].op = "create"
           /\ pc[t] \in {"flag", "readEntries"} => req[t].op \in {"reverse", "bounce"}
           /\ pc[t] # "idle" => req[t].op \in {"create", "reverse", "bounce"} /\ req[t].inst \in Installments
           /\ req[t] \in TxRequest
<1>1. req[t] \in TxRequest /\ pc[t] \in TxLabels
  BY DEF TxInv, TxType
<1>2. req[t].op \in {"create", "reverse", "bounce", NULL}
  BY <1>1 DEF TxRequest
<1>3. pc[t] # "idle" => req[t].op # NULL
  BY <1>2, TxAssumption DEF TxInv, IdleFits
<1> QED
  BY <1>1, <1>2, <1>3, TxAssumption DEF TxInv, CreateFits, ReverseFits

LEMMA AllocateStep ==
    ASSUME SameTime \subseteq {"create"}, TxInv, Tx!Scheduled, UNCHANGED alone, NEW t \in Txs, Tx!Allocate(t)
    PROVE  TxInv'
<1>1. /\ pc[t] = "allocate" /\ pc' = [pc EXCEPT ![t] = "bumpRead"]
      /\ counter' = [counter EXCEPT ![t] = req[t].fy]
      /\ UNCHANGED <<allocated, row, reversals, req, seen, wAllocated, posted>>
  BY DEF Tx!Allocate, Tx!Goto
<1>2. req[t].op = "create" /\ req[t].fy \in FYs /\ req[t].inst \in Installments /\ req[t].delta \in Nat
  BY <1>1, OpenOps DEF TxInv, CreateFits
<1>3. PICK v : v = [inst |-> req[t].inst, amount |-> req[t].delta, fy |-> req[t].fy,
                    bounced |-> FALSE, isReversed |-> FALSE]
  OBVIOUS
<1>4. v \in TxRow /\ ~v.isReversed
  BY <1>2, <1>3 DEF TxRow
<1>5. PICK r \in Rows : row[r] = NULL /\ wReceipt' = [wReceipt EXCEPT ![t][r] = v]
  BY <1>3 DEF Tx!Allocate
<1>6. wReceipt' = [wReceipt EXCEPT ![t] = [wReceipt[t] EXCEPT ![r] = v]]
  BY <1>5 DEF TxInv, TxType
<1>7. wReceipt'[t] = [wReceipt[t] EXCEPT ![r] = v]
  BY <1>6 DEF TxInv, TxType
<1>8. wReceipt[t] \in [Rows -> TxRow \cup {NULL}]
  BY DEF TxInv, TxType
<1>9. TxType'
  BY <1>1, <1>2, <1>4, <1>6, <1>8 DEF TxInv, TxType, TxLabels
<1>10. OthersKept(t) /\ pc'[t] = "bumpRead" /\ req'[t] = req[t]
  BY <1>1, <1>6 DEF TxInv, TxType, OthersKept
<1>11. reversals[r] = 0
  BY <1>5 DEF TxInv, ReversedRows
<1>12. CreateFits(t)'
  BY <1>1, <1>2, <1>4, <1>7, <1>8, <1>10, <1>11 DEF TxInv, CreateFits
<1>13. IdleFits(t)' /\ ReverseFits(t)'
  BY <1>2, <1>10, TxAssumption DEF IdleFits, ReverseFits
<1>14. alone => WithinFits(t)'
  BY <1>1, <1>2, <1>10 DEF TxInv, Within, WithinFits
<1> QED
  BY <1>1, <1>9, <1>10, <1>12, <1>13, <1>14, LocalStep

LEMMA FlagStep ==
    ASSUME SameTime \subseteq {"create"}, TxInv, Tx!Scheduled, UNCHANGED alone, NEW t \in Txs, Tx!Flag(t)
    PROVE  TxInv'
<1>1. PICK r, l : r = req[t].receipt /\ l = IF req[t].op = "bounce" THEN "readEntries" ELSE "commit"
  OBVIOUS
<1>2. /\ pc[t] = "flag" /\ pc' = [pc EXCEPT ![t] = l]
      /\ UNCHANGED <<allocated, row, reversals, req, counter, seen, wAllocated, posted>>
  BY <1>1 DEF Tx!Flag, Tx!Goto
<1>3. /\ req[t].op \in {"reverse", "bounce"} /\ r \in Rows /\ row[r] # NULL
      /\ req[t].inst \in Installments /\ req[t].delta <= 0
  BY <1>1, <1>2, OpenOps DEF TxInv, ReverseFits
<1>4. PICK v : v = [row[r] EXCEPT !.isReversed = TRUE, !.bounced = @ \/ req[t].op = "bounce"]
  OBVIOUS
<1>5. v \in TxRow /\ v.isReversed
  BY <1>3, <1>4 DEF TxRow, TxInv, TxType
<1>6. wReceipt' = [wReceipt EXCEPT ![t][r] = v]
  BY <1>1, <1>4 DEF Tx!Flag
<1>7. wReceipt' = [wReceipt EXCEPT ![t] = [wReceipt[t] EXCEPT ![r] = v]]
  BY <1>3, <1>6 DEF TxInv, TxType
<1>8. wReceipt[t] \in [Rows -> TxRow \cup {NULL}] /\ wReceipt'[t] = [wReceipt[t] EXCEPT ![r] = v]
  BY <1>7 DEF TxInv, TxType
<1>9. TxType'
  BY <1>1, <1>2, <1>5, <1>7, <1>8 DEF TxInv, TxType, TxLabels
<1>10. OthersKept(t) /\ pc'[t] = l /\ req'[t] = req[t] /\ posted'[t] = posted[t]
  BY <1>2, <1>7 DEF TxInv, TxType, OthersKept
<1>11. v # NULL
  BY <1>5, TxAssumption
<1>12. ReverseFits(t)'
  BY <1>1, <1>2, <1>3, <1>5, <1>8, <1>10, <1>11 DEF TxInv, ReverseFits
<1>13. IdleFits(t)' /\ CreateFits(t)'
  BY <1>1, <1>3, <1>10, TxAssumption DEF IdleFits, CreateFits
<1>14. alone => WithinFits(t)'
  BY <1>1, <1>2, <1>3, <1>10 DEF TxInv, Within, WithinFits
<1> QED
  BY <1>2, <1>9, <1>10, <1>12, <1>13, <1>14, LocalStep

LEMMA ReadEntriesStep ==
    ASSUME SameTime \subseteq {"create"}, TxInv, Tx!Scheduled, UNCHANGED alone, NEW t \in Txs, Tx!ReadEntries(t)
    PROVE  TxInv'
<1>1. PICK r : r = req[t].receipt
  OBVIOUS
<1>2. /\ pc[t] = "readEntries"
      /\ UNCHANGED <<allocated, row, reversals, req, counter, seen, wAllocated, wReceipt>>
  BY DEF Tx!ReadEntries
<1>3. req[t].op \in {"reverse", "bounce"} /\ r \in Rows /\ row[r] # NULL /\ ~posted[t]
  BY <1>1, <1>2, OpenOps DEF TxInv, ReverseFits
<1>4. reversals[r] \in {0, 1}
  BY <1>3 DEF TxInv, ReversedRows, Tx!ReversedOnce
<1>5. PICK l \in TxLabels, b \in BOOLEAN :
        /\ pc' = [pc EXCEPT ![t] = l] /\ posted' = [posted EXCEPT ![t] = b]
        /\ \/ reversals[r] = 1 /\ ~b /\ l = IF req[t].op = "reverse" THEN "flag" ELSE "commit"
           \/ reversals[r] = 0 /\ b /\ l = "bumpRead"
  <2>1. CASE reversals[r] = 1
    <3>1. pc' = [pc EXCEPT ![t] = IF req[t].op = "reverse" THEN "flag" ELSE "commit"] /\ posted' = posted
      BY <1>1, <2>1 DEF Tx!ReadEntries, Tx!Goto, Tx!AfterEntries
    <3>2. posted' = [posted EXCEPT ![t] = FALSE]
      BY <1>3, <3>1 DEF TxInv, TxType
    <3>3. PICK l : l = IF req[t].op = "reverse" THEN "flag" ELSE "commit"
      OBVIOUS
    <3>4. pc' = [pc EXCEPT ![t] = l]
      BY <3>1, <3>3
    <3>5. l \in TxLabels
      BY <3>3 DEF TxLabels
    <3> QED
      BY <2>1, <3>2, <3>3, <3>4, <3>5
  <2>2. CASE reversals[r] = 0
    <3>1. pc' = [pc EXCEPT ![t] = "bumpRead"] /\ posted' = [posted EXCEPT ![t] = TRUE]
      BY <1>1, <2>2 DEF Tx!ReadEntries, Tx!Goto
    <3>2. "bumpRead" \in TxLabels
      BY DEF TxLabels
    <3> QED
      BY <2>2, <3>1, <3>2
  <2> QED
    BY <1>4, <2>1, <2>2
<1>6. l \in TxLabels /\ l \in {"flag", "commit", "bumpRead"}
  BY <1>5 DEF TxLabels
<1>7. TxType'
  BY <1>2, <1>5, <1>6 DEF TxInv, TxType
<1>8. OthersKept(t) /\ pc'[t] = l /\ req'[t] = req[t] /\ posted'[t] = b
  BY <1>2, <1>5 DEF TxInv, TxType, OthersKept
<1>9. ReverseFits(t)'
  BY <1>1, <1>2, <1>3, <1>5, <1>6, <1>8 DEF TxInv, ReverseFits
<1>10. IdleFits(t)' /\ CreateFits(t)'
  BY <1>3, <1>6, <1>8, TxAssumption DEF IdleFits, CreateFits
<1>11. alone => WithinFits(t)'
  BY <1>2, <1>3, <1>6, <1>8 DEF TxInv, Within, WithinFits
<1> QED
  BY <1>2, <1>7, <1>8, <1>9, <1>10, <1>11, LocalStep

LEMMA BumpReadStep ==
    ASSUME SameTime \subseteq {"create"}, TxInv, Tx!Scheduled, UNCHANGED alone, NEW t \in Txs, Tx!BumpRead(t)
    PROVE  TxInv'
<1>1. PICK n : n = allocated[req[t].inst]
  OBVIOUS
<1>2. /\ pc[t] = "bumpRead" /\ pc' = [pc EXCEPT ![t] = "bumpWrite"] /\ seen' = [seen EXCEPT ![t] = n]
      /\ UNCHANGED <<allocated, row, reversals, req, counter, wAllocated, wReceipt, posted>>
  BY <1>1 DEF Tx!BumpRead, Tx!Goto
<1>3. req[t].op \in {"create", "reverse", "bounce"} /\ n \in Int
  BY <1>1, <1>2, OpenOps DEF TxInv, TxType
<1>4. TxType'
  BY <1>2, <1>3 DEF TxInv, TxType, TxLabels
<1>5. OthersKept(t) /\ pc'[t] = "bumpWrite" /\ req'[t] = req[t] /\ posted'[t] = posted[t] /\ seen'[t] = n
  BY <1>2 DEF TxInv, TxType, OthersKept
<1>6. IdleFits(t)' /\ CreateFits(t)' /\ ReverseFits(t)'
  BY <1>2, <1>5, TxAssumption DEF TxInv, IdleFits, CreateFits, ReverseFits
<1>7. alone => WithinFits(t)'
  BY <1>1, <1>2, <1>5 DEF TxInv, Within, WithinFits
<1> QED
  BY <1>2, <1>4, <1>5, <1>6, <1>7, LocalStep

LEMMA BumpWriteStep ==
    ASSUME SameTime \subseteq {"create"}, TxInv, Tx!Scheduled, UNCHANGED alone, NEW t \in Txs, Tx!BumpWrite(t)
    PROVE  TxInv'
<1>1. PICK i, n, l : /\ i = req[t].inst /\ n = seen[t] + req[t].delta
                     /\ l = IF req[t].op = "reverse" THEN "flag" ELSE "commit"
  OBVIOUS
<1>2. /\ pc[t] = "bumpWrite" /\ pc' = [pc EXCEPT ![t] = l]
      /\ wAllocated' = [wAllocated EXCEPT ![t][i] = n]
      /\ UNCHANGED <<allocated, row, reversals, req, counter, seen, wReceipt, posted>>
  BY <1>1 DEF Tx!BumpWrite, Tx!Goto, Tx!AfterEntries
<1>3. /\ req[t].op \in {"create", "reverse", "bounce"} /\ i \in Installments
      /\ seen[t] \in Int /\ req[t].delta \in Int /\ n \in Int
  BY <1>1, <1>2, OpenOps DEF TxInv, TxType, TxRequest
<1>4. wAllocated' = [wAllocated EXCEPT ![t] = [wAllocated[t] EXCEPT ![i] = n]]
  BY <1>2, <1>3 DEF TxInv, TxType
<1>5. /\ wAllocated[t] \in [Installments -> Int \cup {NULL}]
      /\ wAllocated'[t] = [wAllocated[t] EXCEPT ![i] = n]
  BY <1>4 DEF TxInv, TxType
<1>6. l \in {"flag", "commit"} /\ l \in TxLabels
  BY <1>1 DEF TxLabels
<1>7. TxType'
  BY <1>2, <1>3, <1>4, <1>5, <1>6 DEF TxInv, TxType
<1>8. OthersKept(t) /\ pc'[t] = l /\ req'[t] = req[t] /\ posted'[t] = posted[t]
  BY <1>2, <1>4 DEF TxInv, TxType, OthersKept
<1>9. IdleFits(t)' /\ CreateFits(t)' /\ ReverseFits(t)'
  BY <1>1, <1>2, <1>3, <1>6, <1>8, TxAssumption DEF TxInv, IdleFits, CreateFits, ReverseFits
<1>10. ASSUME alone PROVE n <= Amount
  <2>1. seen[t] = allocated[i] /\ allocated[i] <= Amount /\ allocated[i] \in Int
    BY <1>1, <1>2, <1>3, <1>10 DEF TxInv, TxType, Within, WithinFits, Tx!NoOverAllocation
  <2>2. CASE req[t].op = "create"
    BY <1>1, <1>2, <1>10, <2>1, <2>2 DEF TxInv, Within, WithinFits
  <2>3. CASE req[t].op # "create"
    <3>1. req[t].delta <= 0
      BY <1>3, <2>3 DEF TxInv, ReverseFits
    <3> QED
      BY <1>1, <1>3, <2>1, <3>1, TxAssumption
  <2> QED
    BY <2>2, <2>3
<1>11. alone => WithinFits(t)'
  BY <1>2, <1>5, <1>6, <1>8, <1>10 DEF TxInv, Within, WithinFits
<1> QED
  BY <1>2, <1>7, <1>8, <1>9, <1>11, LocalStep

-----------------------------------------------------------------------------
(* A transaction ends.                                                     *)

LEMMA EndStep ==
    ASSUME SameTime \subseteq {"create"}, TxInv, Tx!Scheduled, UNCHANGED alone,
           NEW t \in Txs, pc[t] # "idle", Tx!End(t),
           allocated' \in [Installments -> Int], row' \in [Rows -> TxRow \cup {NULL}],
           reversals' \in [Rows -> Nat], ReversedRows', alone => Tx!NoOverAllocation',
           ~alone => reversals' = reversals
    PROVE  TxInv'
<1>1. /\ pc' = [pc EXCEPT ![t] = "idle"] /\ req' = [req EXCEPT ![t] = Tx!NoRequest]
      /\ counter' = [counter EXCEPT ![t] = NULL] /\ seen' = [seen EXCEPT ![t] = 0]
      /\ wAllocated' = [wAllocated EXCEPT ![t] = [i \in Installments |-> NULL]]
      /\ wReceipt' = [wReceipt EXCEPT ![t] = [r \in Rows |-> NULL]]
      /\ posted' = [posted EXCEPT ![t] = FALSE]
  BY DEF Tx!End, Tx!Goto
<1>2. Tx!NoRequest \in TxRequest /\ Tx!NoRequest.op = NULL
  BY DEF Tx!NoRequest, TxRequest
<1>3. TxType'
  BY <1>1, <1>2 DEF TxInv, TxType, TxLabels
<1>4. OthersKept(t)
  BY <1>1 DEF TxInv, TxType, OthersKept
<1>5. /\ pc'[t] = "idle" /\ req'[t].op = NULL /\ ~posted'[t]
      /\ \A i \in Installments : wAllocated'[t][i] = NULL
      /\ \A r \in Rows : wReceipt'[t][r] = NULL
  BY <1>1, <1>2 DEF TxInv, TxType
<1>6. OnSchedule'
  BY ScheduledStays
<1>7. \A o \in Txs : IdleFits(o)'
  BY <1>4, <1>5 DEF TxInv, OthersKept, IdleFits
<1>8. alone => \A o \in Txs : pc'[o] = "idle"
  BY <1>4, <1>5 DEF TxInv, OnSchedule, OthersKept
<1>9. alone => \A o \in Txs : req'[o].op = NULL /\ \A i \in Installments : wAllocated'[o][i] = NULL
  BY <1>7, <1>8 DEF IdleFits
<1>10. \A o \in Txs : CreateFits(o)' /\ ReverseFits(o)'
  <2>1. CASE alone
    BY <1>9, <2>1, TxAssumption DEF CreateFits, ReverseFits
  <2>2. CASE ~alone
    <3>1. \A o \in Txs : req'[o].op \in {"create", NULL}
      BY <1>6, <2>2 DEF OnSchedule
    <3>2. \A o \in Txs : ReverseFits(o)'
      BY <3>1, TxAssumption DEF ReverseFits
    <3>3. \A o \in Txs : CreateFits(o)'
      BY <1>4, <1>5, <2>2, TxAssumption DEF TxInv, OthersKept, CreateFits
    <3> QED
      BY <3>2, <3>3
  <2> QED
    BY <2>1, <2>2
<1>11. Within'
  BY <1>8, <1>9, TxAssumption DEF Within, WithinFits
<1> QED
  BY <1>3, <1>6, <1>7, <1>10, <1>11 DEF TxInv

LEMMA RollbackStep ==
    ASSUME SameTime \subseteq {"create"}, TxInv, Tx!Scheduled, UNCHANGED alone, NEW t \in Txs, Tx!Rollback(t)
    PROVE  TxInv'
<1>1. pc[t] # "idle" /\ Tx!End(t) /\ UNCHANGED <<allocated, row, reversals>>
  BY DEF Tx!Rollback
<1>2. ReversedRows' /\ (alone => Tx!NoOverAllocation')
  BY <1>1 DEF TxInv, ReversedRows, Tx!ReversedOnce, Within, Tx!NoOverAllocation
<1>3. /\ allocated' \in [Installments -> Int] /\ row' \in [Rows -> TxRow \cup {NULL}]
      /\ reversals' \in [Rows -> Nat]
  BY <1>1 DEF TxInv, TxType
<1> QED
  BY <1>1, <1>2, <1>3, EndStep

LEMMA CommitStep ==
    ASSUME SameTime \subseteq {"create"}, TxInv, Tx!Scheduled, UNCHANGED alone, NEW t \in Txs, Tx!Commit(t)
    PROVE  TxInv'
<1>1. /\ pc[t] = "commit" /\ Tx!End(t)
      /\ allocated' = [i \in Installments |->
            IF wAllocated[t][i] # NULL THEN wAllocated[t][i] ELSE allocated[i]]
      /\ row' = [r \in Rows |-> IF wReceipt[t][r] # NULL THEN wReceipt[t][r] ELSE row[r]]
      /\ reversals' = [r \in Rows |->
            reversals[r] + (IF posted[t] /\ req[t].receipt = r THEN 1 ELSE 0)]
  BY DEF Tx!Commit
<1>2. /\ wAllocated[t] \in [Installments -> Int \cup {NULL}]
      /\ wReceipt[t] \in [Rows -> TxRow \cup {NULL}] /\ posted[t] \in BOOLEAN
  BY DEF TxInv, TxType
<1>3. /\ allocated' \in [Installments -> Int] /\ row' \in [Rows -> TxRow \cup {NULL}]
  BY <1>1, <1>2 DEF TxInv, TxType
<1>4. reversals' \in [Rows -> Nat]
  BY <1>1 DEF TxInv, TxType
<1>5. alone => Tx!NoOverAllocation'
  BY <1>1 DEF TxInv, Within, WithinFits, Tx!NoOverAllocation
<1>6. req[t].op \in {"create", "reverse", "bounce"}
  BY <1>1, OpenOps
<1>7. CASE req[t].op = "create"
  <2>1. ~posted[t] /\ \A r \in Rows : wReceipt[t][r] # NULL => ~wReceipt[t][r].isReversed /\ reversals[r] = 0
    BY <1>7 DEF TxInv, CreateFits
  <2>2. reversals' = reversals
    BY <1>1, <2>1 DEF TxInv, TxType
  <2>3. \A r \in Rows : row'[r] = IF wReceipt[t][r] # NULL THEN wReceipt[t][r] ELSE row[r]
    BY <1>1
  <2>4. ReversedRows'
    BY <2>1, <2>2, <2>3 DEF TxInv, ReversedRows, Tx!ReversedOnce
  <2> QED
    BY <1>1, <1>3, <1>4, <1>5, <2>2, <2>4, EndStep
<1>8. CASE req[t].op \in {"reverse", "bounce"}
  <2>1. PICK q : q = req[t].receipt
    OBVIOUS
  <2>2. /\ q \in Rows /\ row[q] # NULL /\ wReceipt[t][q] # NULL /\ wReceipt[t][q].isReversed
        /\ \A r \in Rows : wReceipt[t][r] # NULL => r = q
        /\ posted[t] => reversals[q] = 0
        /\ posted[t] \/ reversals[q] = 1
    BY <1>1, <1>8, <2>1 DEF TxInv, ReverseFits
  <2>3. \A r \in Rows : r # q => row'[r] = row[r] /\ reversals'[r] = reversals[r]
    BY <1>1, <2>1, <2>2 DEF TxInv, TxType
  <2>4. row'[q] = wReceipt[t][q] /\ reversals'[q] = 1
    BY <1>1, <1>2, <2>1, <2>2 DEF TxInv, TxType
  <2>5. ReversedRows'
    BY <2>2, <2>3, <2>4 DEF TxInv, ReversedRows, Tx!ReversedOnce
  <2>6. alone
    BY <1>8, TxAssumption DEF TxInv, OnSchedule
  <2> QED
    BY <1>1, <1>3, <1>4, <1>5, <2>5, <2>6, EndStep
<1> QED
  BY <1>6, <1>7, <1>8

LEMMA TxStep ==
    ASSUME SameTime \subseteq {"create"}, TxInv, [MCNext]_<<vars, txVars, scope>>
    PROVE  TxInv'
<1>1. CASE UNCHANGED txVars
  BY <1>1 DEF txVars, TxInv, TxType, ReversedRows, Tx!ReversedOnce, OnSchedule, Within, WithinFits,
              Tx!NoOverAllocation, IdleFits, CreateFits, ReverseFits
<1>2. CASE Tx!MCNext
  <2>1. Tx!Next /\ Tx!Scheduled /\ UNCHANGED alone
    BY <1>2 DEF Tx!MCNext
  <2>2. PICK t \in Txs :
          \/ \E i \in Installments, n \in 1 .. Amount, f \in FYs : Tx!createReceipt(t, i, n, f)
          \/ \E r \in Rows : Tx!reverseReceipt(t, r) \/ Tx!bounceCheque(t, r)
          \/ Tx!Allocate(t) \/ Tx!Flag(t) \/ Tx!ReadEntries(t) \/ Tx!BumpRead(t) \/ Tx!BumpWrite(t)
          \/ Tx!Commit(t) \/ Tx!Rollback(t)
    BY <2>1 DEF Tx!Next
  <2> QED
    BY <2>1, <2>2, FirstStatements, AllocateStep, FlagStep, ReadEntriesStep, BumpReadStep, BumpWriteStep,
       CommitStep, RollbackStep
<1> QED
  BY <1>1, <1>2 DEF MCNext

\* As long as only createReceipt overlaps with itself, a receipt's credit is given
\* back at most once and exactly when the receipt is flagged, and transactions one
\* at a time never put more on an installment than its amount, for any number of
\* installments, receipts, financial years and connections and with a rollback
\* possible at every statement (createReceipt, reverseReceipt, recordChequeEvent,
\* bumpInstallment).
THEOREM ReversedOnceWithinAmountHolds ==
    ASSUME SameTime \subseteq {"create"}
    PROVE  MCSpec => []ReversedOnceWithinAmount
<1>1. TxInv => ReversedOnceWithinAmount
  BY DEF TxInv, ReversedRows, Within, ReversedOnceWithinAmount
<1> QED
  BY <1>1, TxInitOK, TxStep, PTL DEF MCSpec

-----------------------------------------------------------------------------
(* The cache under receipts of one financial year.                         *)

OneFY == \A f, g \in FYs : f = g

Past(t) == pc[t] \notin {"idle", "allocate"}

SoleHolder == \A t, o \in Txs : Past(t) /\ Past(o) => t = o

HoldsCounter(t) == req[t].op = "create" /\ Past(t) => counter[t] = req[t].fy

NothingWritten(t) == \A i \in Installments : wAllocated[t][i] = NULL

DeltaWritten(t) ==
    \A i \in Installments :
        wAllocated[t][i] = IF i = req[t].inst THEN allocated[i] + req[t].delta ELSE NULL

NewRow(t) ==
    \E r \in Rows :
        /\ row[r] = NULL /\ wReceipt[t][r] # NULL
        /\ wReceipt[t][r].inst = req[t].inst /\ wReceipt[t][r].amount = req[t].delta
        /\ \A q \in Rows \ {r} : wReceipt[t][q] = NULL

CreateWrites(t) ==
    req[t].op = "create" =>
        /\ pc[t] = "allocate" => \A r \in Rows : wReceipt[t][r] = NULL
        /\ pc[t] \in {"allocate", "bumpRead", "bumpWrite"} => NothingWritten(t)
        /\ Past(t) => NewRow(t)
        /\ pc[t] = "commit" => DeltaWritten(t)

ReverseWrites(t) ==
    req[t].op \in {"reverse", "bounce"} =>
        /\ req[t].inst = row[req[t].receipt].inst /\ req[t].delta = -row[req[t].receipt].amount
        /\ \A r \in Rows : wReceipt[t][r] # NULL =>
              wReceipt[t][r].inst = row[r].inst /\ wReceipt[t][r].amount = row[r].amount
        /\ ~posted[t] \/ pc[t] \in {"bumpRead", "bumpWrite"} => NothingWritten(t)
        /\ posted[t] /\ pc[t] \in {"flag", "commit"} => DeltaWritten(t)

SeenIsCurrent(t) == pc[t] = "bumpWrite" => seen[t] = allocated[req[t].inst]

Fits(t) == HoldsCounter(t) /\ CreateWrites(t) /\ ReverseWrites(t) /\ SeenIsCurrent(t)

\* What receipt row x, reversed n times, leaves on its installment.
Left(x, n) == x.amount * (1 - n)

\* The allocations of table rc, with reversals rv, to installment i.
EntriesOf(rc, rv, i) ==
    [r \in Rows |-> IF rc[r] # NULL /\ rc[r].inst = i THEN Left(rc[r], rv[r]) ELSE 0]

Cached == \A i \in Installments : allocated[i] = Sigma(EntriesOf(row, reversals, i))

HolderInv == SoleHolder /\ Cached /\ \A t \in Txs : Fits(t)

TxTable == [Rows -> TxRow \cup {NULL}]

LEMMA LeftValues ==
    ASSUME NEW x \in TxRow
    PROVE  /\ \A n \in Nat : Left(x, n) \in Int
           /\ Left(x, 0) = x.amount /\ Left(x, 1) = 0
  <1>1. x.amount \in Nat
    BY DEF TxRow
  <1>2. \A m \in Nat : \A n \in Nat : m * (1 - n) \in Int
    OBVIOUS
  <1>3. \A m \in Nat : m * (1 - 0) = m /\ m * (1 - 1) = 0
    OBVIOUS
  <1> QED BY <1>1, <1>2, <1>3 DEF Left

LEMMA EntriesType ==
    ASSUME NEW rc \in TxTable, NEW rv \in [Rows -> Nat], NEW i
    PROVE  EntriesOf(rc, rv, i) \in [Rows -> Int]
  <1>1. \A r \in Rows : rc[r] # NULL => Left(rc[r], rv[r]) \in Int
    BY LeftValues DEF TxTable
  <1> QED BY <1>1 DEF EntriesOf

\* One row of the table or of the reversals changes.
LEMMA EntriesChange ==
    ASSUME NEW rc \in TxTable, NEW rn \in TxTable, NEW rv \in [Rows -> Nat], NEW rw \in [Rows -> Nat],
           NEW r \in Rows, SameOn(rn, rc, Rows \ {r}), SameOn(rw, rv, Rows \ {r}), NEW i
    PROVE  /\ Sigma(EntriesOf(rn, rw, i))
                = Sigma(EntriesOf(rc, rv, i)) + EntriesOf(rn, rw, i)[r] - EntriesOf(rc, rv, i)[r]
           /\ Sigma(EntriesOf(rc, rv, i)) \in Int
  <1> DEFINE f == EntriesOf(rc, rv, i)
             g == EntriesOf(rn, rw, i)
  <1>1. f \in [Rows -> Int] /\ g \in [Rows -> Int] /\ IsFiniteSet(Rows)
    BY EntriesType, TxAssumption
  <1>2. \A q \in Rows \ {r} : g[q] = f[q]
    BY DEF EntriesOf, SameOn
  <1> HIDE DEF f, g
  <1>3. Sigma(g) = Sigma(f) + g[r] - f[r] /\ Sigma(f) \in Int
    BY <1>1, <1>2, SigmaChange, SigmaType
  <1> QED BY <1>3 DEF f, g

\* ReceiptTx's own sum is the same operator.
TxSum(f) == Tx!FoldFunction(+, 0, f)

LEMMA SameFold ==
    ASSUME NEW f
    PROVE  TxSum(f) = Sigma(f)
  BY DEF TxSum, Sigma, Tx!FoldFunction, Tx!FoldFunctionOnSet, Tx!MapThenFoldSet,
         FoldFunction, FoldFunctionOnSet, MapThenFoldSet

\* The sum as the property states it.
LEMMA EntriesAsStated ==
    ASSUME NEW rc \in TxTable, NEW rv \in [Rows -> Nat], NEW i
    PROVE  TxSum([r \in {q \in Rows : rc[q] # NULL /\ rc[q].inst = i} |-> rc[r].amount * (1 - rv[r])])
           = Sigma(EntriesOf(rc, rv, i))
  <1> DEFINE T == {q \in Rows : rc[q] # NULL /\ rc[q].inst = i}
             f == EntriesOf(rc, rv, i)
             g == [r \in T |-> rc[r].amount * (1 - rv[r])]
  <1>1. f \in [Rows -> Int] /\ IsFiniteSet(Rows) /\ T \subseteq Rows
    BY EntriesType, TxAssumption
  <1>2. \A r \in T : g[r] = f[r]
    BY DEF EntriesOf, Left
  <1>3. \A r \in Rows \ T : f[r] = 0
    BY DEF EntriesOf
  <1>4. g \in [T -> Int] /\ SameOn(f, g, T)
    <2>1. g = [r \in T |-> g[r]]
      OBVIOUS
    <2> HIDE DEF f, g, T
    <2> QED BY <1>1, <1>2, <2>1 DEF SameOn
  <1> HIDE DEF f, g, T
  <1>5. TxSum(g) = Sigma(g)
    BY SameFold
  <1>6. Sigma(f) = Sigma(g)
    BY <1>1, <1>3, <1>4, SigmaFilter
  <1>7. TxSum(g) = Sigma(f)
    BY <1>5, <1>6
  <1> QED BY <1>7 DEF f, g, T

LEMMA CachedGivesProperty ==
    ASSUME TxInv, Cached
    PROVE  CacheMatchesEntries
  <1>1. PICK rc \in TxTable, rv \in [Rows -> Nat] : rc = row /\ rv = reversals
    BY DEF TxInv, TxType, TxTable
  <1>2. \A i \in Installments :
           allocated[i] =
               TxSum([r \in {q \in Rows : row[q] # NULL /\ row[q].inst = i}
                         |-> row[r].amount * (1 - reversals[r])])
    <2> TAKE i \in Installments
    <2>1. allocated[i] = Sigma(EntriesOf(row, reversals, i))
      BY DEF Cached
    <2>2. TxSum([r \in {q \in Rows : rc[q] # NULL /\ rc[q].inst = i} |-> rc[r].amount * (1 - rv[r])])
          = Sigma(EntriesOf(rc, rv, i))
      BY EntriesAsStated
    <2> QED BY <1>1, <2>1, <2>2
  <1> QED BY <1>2, Zenon DEF TxSum, CacheMatchesEntries, Tx!CacheMatchesEntries

LEMMA HolderInitOK == MCInit => HolderInv
  <1> SUFFICES ASSUME MCInit PROVE HolderInv
    OBVIOUS
  <1>1. Tx!Init
    BY DEF MCInit, Tx!MCInit
  <1>2. Tx!NoRequest.op = NULL
    BY DEF Tx!NoRequest
  <1>3. \A t \in Txs : ~Past(t) /\ pc[t] = "idle" /\ req[t].op = NULL
    BY <1>1, <1>2 DEF Tx!Init, Past
  <1>4. SoleHolder /\ \A t \in Txs : Fits(t)
    BY <1>3, TxAssumption DEF SoleHolder, Fits, HoldsCounter, CreateWrites, ReverseWrites, SeenIsCurrent
  <1>5. Cached
    <2> SUFFICES ASSUME NEW i \in Installments
                 PROVE  allocated[i] = Sigma(EntriesOf(row, reversals, i))
      BY DEF Cached
    <2> DEFINE f == EntriesOf(row, reversals, i)
    <2>1. f \in [Rows -> Int] /\ \A r \in Rows : f[r] = 0
      BY <1>1 DEF EntriesOf, Tx!Init
    <2> HIDE DEF f
    <2>2. Sigma(f) = 0
      BY <2>1, TxAssumption, SigmaZero
    <2> QED BY <1>1, <2>2 DEF Tx!Init, f
  <1> QED BY <1>4, <1>5 DEF HolderInv

\* Transaction t takes a statement that the others and the tables do not see.
Locally(t) ==
    /\ OthersKept(t)
    /\ \A o \in Txs \ {t} : counter'[o] = counter[o]
    /\ UNCHANGED <<allocated, row, reversals>>

LEMMA HolderLocal ==
    ASSUME TxInv', HolderInv, NEW t \in Txs, Locally(t), Fits(t)', UNCHANGED alone,
           Past(t)' => Past(t) \/ alone \/ \A o \in Txs \ {t} : ~Past(o)
    PROVE  HolderInv'
  <1>1. \A o \in Txs \ {t} : Past(o)' <=> Past(o)
    BY DEF Locally, OthersKept, Past
  <1>2. \A o \in Txs \ {t} : Fits(o)'
    <2> TAKE o \in Txs \ {t}
    <2>1. Fits(o)
      BY DEF HolderInv
    <2>2. HoldsCounter(o)' /\ SeenIsCurrent(o)'
      BY <2>1 DEF Fits, HoldsCounter, SeenIsCurrent, Past, Locally, OthersKept
    <2>3. CreateWrites(o)'
      BY <2>1 DEF Fits, CreateWrites, NothingWritten, DeltaWritten, NewRow, Past, Locally, OthersKept
    <2>4. ReverseWrites(o)'
      BY <2>1 DEF Fits, ReverseWrites, NothingWritten, DeltaWritten, Locally, OthersKept
    <2> QED BY <2>2, <2>3, <2>4 DEF Fits
  <1>3. alone => \A o \in Txs : Past(t)' /\ Past(o)' => t = o
    BY DEF TxInv, OnSchedule, Past
  <1>4. SoleHolder'
    BY <1>1, <1>3 DEF HolderInv, SoleHolder
  <1>5. Cached'
    BY DEF HolderInv, Cached, Locally
  <1> QED BY <1>2, <1>4, <1>5 DEF HolderInv

LEMMA HolderBegins ==
    ASSUME TxInv, TxInv', HolderInv, UNCHANGED alone, NEW t \in Txs,
           NEW r, NEW label \in TxLabels, Tx!Begin(t, r, label), label \in {"allocate", "flag", "readEntries"},
           r.op = "create" => label = "allocate",
           r.op # "create" => alone,
           r.op \in {"reverse", "bounce"} =>
              r.inst = row[r.receipt].inst /\ r.delta = -row[r.receipt].amount
    PROVE  HolderInv'
  <1>1. /\ pc[t] = "idle" /\ req' = [req EXCEPT ![t] = r] /\ pc' = [pc EXCEPT ![t] = label]
        /\ UNCHANGED <<allocated, row, reversals, counter, seen, wAllocated, wReceipt, posted>>
    BY DEF Tx!Begin, Tx!Goto
  <1>2. Locally(t) /\ pc'[t] = label /\ req'[t] = r
    BY <1>1 DEF TxInv, TxType, Locally, OthersKept
  <1>3. ~posted'[t] /\ NothingWritten(t)' /\ (\A q \in Rows : wReceipt'[t][q] = NULL)
    BY <1>1 DEF TxInv, IdleFits, NothingWritten
  <1>4. Fits(t)'
    BY <1>1, <1>2, <1>3 DEF Fits, HoldsCounter, CreateWrites, ReverseWrites, SeenIsCurrent, Past
  <1>5. Past(t)' => alone
    BY <1>2 DEF Past
  <1> QED BY <1>2, <1>4, <1>5, HolderLocal

LEMMA HolderFirstStatements ==
    ASSUME SameTime \subseteq {"create"}, TxInv, TxInv', HolderInv, Tx!Scheduled, UNCHANGED alone,
           NEW t \in Txs,
           \/ \E i \in Installments, n \in 1 .. Amount, f \in FYs : Tx!createReceipt(t, i, n, f)
           \/ \E r \in Rows : Tx!reverseReceipt(t, r) \/ Tx!bounceCheque(t, r)
    PROVE  HolderInv'
  <1>1. ASSUME NEW i \in Installments, NEW n \in 1 .. Amount, NEW f \in FYs, Tx!createReceipt(t, i, n, f)
        PROVE  HolderInv'
    <2> DEFINE q == [op |-> "create", receipt |-> NULL, inst |-> i, delta |-> n, fy |-> f]
    <2>1. Tx!Begin(t, q, "allocate") /\ "allocate" \in TxLabels
      BY <1>1 DEF Tx!createReceipt, TxLabels
    <2>2. q.op = "create"
      OBVIOUS
    <2> HIDE DEF q
    <2> QED BY <2>1, <2>2, HolderBegins
  <1>2. ASSUME NEW r \in Rows, NEW o \in {"reverse", "bounce"}, NEW l \in {"flag", "readEntries"},
               Tx!Begin(t, [op |-> o, receipt |-> r, inst |-> row[r].inst,
                            delta |-> -row[r].amount, fy |-> NULL], l)
        PROVE  HolderInv'
    <2> DEFINE q == [op |-> o, receipt |-> r, inst |-> row[r].inst, delta |-> -row[r].amount, fy |-> NULL]
    <2>1. /\ Tx!Begin(t, q, l) /\ q.op = o /\ q.inst = row[r].inst /\ q.delta = -row[r].amount
          /\ q.receipt = r /\ l \in TxLabels
      BY <1>2 DEF TxLabels
    <2> HIDE DEF q
    <2>2. req'[t] = q
      BY <2>1 DEF Tx!Begin, TxInv, TxType
    <2>3. alone
      BY <2>1, <2>2, TxAssumption DEF TxInv, OnSchedule
    <2> QED BY <2>1, <2>3, HolderBegins
  <1>3. ASSUME NEW r \in Rows, Tx!reverseReceipt(t, r) PROVE HolderInv'
    BY <1>2, <1>3 DEF Tx!reverseReceipt
  <1>4. ASSUME NEW r \in Rows, Tx!bounceCheque(t, r) PROVE HolderInv'
    BY <1>2, <1>4 DEF Tx!bounceCheque
  <1> QED BY <1>1, <1>3, <1>4

LEMMA HolderAllocates ==
    ASSUME OneFY, TxInv, TxInv', HolderInv, UNCHANGED alone, NEW t \in Txs, Tx!Allocate(t)
    PROVE  HolderInv'
  <1>1. /\ pc[t] = "allocate" /\ pc' = [pc EXCEPT ![t] = "bumpRead"]
        /\ counter' = [counter EXCEPT ![t] = req[t].fy]
        /\ Tx!CounterFree(t, req[t].fy)
        /\ UNCHANGED <<allocated, row, reversals, req, seen, wAllocated, posted>>
    BY DEF Tx!Allocate, Tx!Goto
  <1>2. req[t].op = "create" /\ req[t].fy \in FYs /\ req[t].inst \in Installments /\ req[t].delta \in Nat
    BY <1>1, OpenOps DEF TxInv, CreateFits
  <1>3. PICK v : v = [inst |-> req[t].inst, amount |-> req[t].delta, fy |-> req[t].fy,
                      bounced |-> FALSE, isReversed |-> FALSE]
    OBVIOUS
  <1>4. v \in TxRow /\ v.inst = req[t].inst /\ v.amount = req[t].delta /\ v # NULL
    <2>1. v \in TxRow
      BY <1>2, <1>3 DEF TxRow
    <2>2. v.inst = req[t].inst /\ v.amount = req[t].delta
      BY <1>3
    <2> QED BY <2>1, <2>2, TxAssumption
  <1>5. PICK r \in Rows : row[r] = NULL /\ wReceipt' = [wReceipt EXCEPT ![t][r] = v]
    BY <1>3 DEF Tx!Allocate
  <1>6. wReceipt' = [wReceipt EXCEPT ![t] = [wReceipt[t] EXCEPT ![r] = v]]
    BY <1>5 DEF TxInv, TxType
  <1>7. wReceipt'[t] = [wReceipt[t] EXCEPT ![r] = v] /\ wReceipt[t] \in [Rows -> TxRow \cup {NULL}]
    BY <1>6 DEF TxInv, TxType
  <1>8. Locally(t) /\ pc'[t] = "bumpRead" /\ req'[t] = req[t] /\ counter'[t] = req[t].fy
    BY <1>1, <1>6 DEF TxInv, TxType, Locally, OthersKept
  <1>9. CreateWrites(t)
    BY DEF HolderInv, Fits
  <1>10. NewRow(t)'
    <2>1. wReceipt'[t][r] = v /\ \A q \in Rows \ {r} : wReceipt'[t][q] = NULL
      BY <1>1, <1>2, <1>7, <1>9 DEF CreateWrites
    <2> QED BY <1>1, <1>4, <1>5, <2>1 DEF NewRow
  <1>11. NothingWritten(t)'
    BY <1>1, <1>2, <1>9 DEF CreateWrites, NothingWritten
  <1>12. Fits(t)'
    BY <1>2, <1>8, <1>10, <1>11 DEF Fits, HoldsCounter, CreateWrites, ReverseWrites, SeenIsCurrent, Past
  <1>13. ~alone => \A o \in Txs \ {t} : ~Past(o)
    <2> SUFFICES ASSUME ~alone, NEW o \in Txs \ {t}, Past(o) PROVE FALSE
      OBVIOUS
    <2>1. req[o].op = "create"
      BY OpenOps DEF TxInv, OnSchedule, IdleFits, Past
    <2>2. counter[o] = req[o].fy
      BY <2>1 DEF HolderInv, Fits, HoldsCounter
    <2>3. req[o].fy \in FYs
      BY <2>1 DEF TxInv, CreateFits
    <2> QED BY <1>1, <1>2, <2>2, <2>3 DEF OneFY, Tx!CounterFree
  <1> QED BY <1>8, <1>12, <1>13, HolderLocal

LEMMA HolderFlags ==
    ASSUME TxInv, TxInv', HolderInv, UNCHANGED alone, NEW t \in Txs, Tx!Flag(t)
    PROVE  HolderInv'
  <1>1. PICK r, l : r = req[t].receipt /\ l = IF req[t].op = "bounce" THEN "readEntries" ELSE "commit"
    OBVIOUS
  <1>2. /\ pc[t] = "flag" /\ pc' = [pc EXCEPT ![t] = l]
        /\ UNCHANGED <<allocated, row, reversals, req, counter, seen, wAllocated, posted>>
    BY <1>1 DEF Tx!Flag, Tx!Goto
  <1>3. req[t].op \in {"reverse", "bounce"} /\ r \in Rows /\ row[r] # NULL
    BY <1>1, <1>2, OpenOps DEF TxInv, ReverseFits
  <1>4. PICK v : v = [row[r] EXCEPT !.isReversed = TRUE, !.bounced = @ \/ req[t].op = "bounce"]
    OBVIOUS
  <1>5. v.inst = row[r].inst /\ v.amount = row[r].amount
    BY <1>3, <1>4 DEF TxRow, TxInv, TxType
  <1>6. wReceipt' = [wReceipt EXCEPT ![t][r] = v]
    BY <1>1, <1>4 DEF Tx!Flag
  <1>7. wReceipt' = [wReceipt EXCEPT ![t] = [wReceipt[t] EXCEPT ![r] = v]]
    BY <1>3, <1>6 DEF TxInv, TxType
  <1>8. wReceipt[t] \in [Rows -> TxRow \cup {NULL}] /\ wReceipt'[t] = [wReceipt[t] EXCEPT ![r] = v]
    BY <1>7 DEF TxInv, TxType
  <1>9. Locally(t) /\ pc'[t] = l /\ req'[t] = req[t] /\ posted'[t] = posted[t]
    BY <1>2, <1>7 DEF TxInv, TxType, Locally, OthersKept
  <1>10. \A q \in Rows : wReceipt'[t][q] # NULL =>
            wReceipt'[t][q].inst = row'[q].inst /\ wReceipt'[t][q].amount = row'[q].amount
    BY <1>2, <1>3, <1>5, <1>8 DEF HolderInv, Fits, ReverseWrites
  <1>11. /\ NothingWritten(t)' <=> NothingWritten(t)
         /\ DeltaWritten(t)' <=> DeltaWritten(t)
    BY <1>2 DEF NothingWritten, DeltaWritten
  <1>12. req[t].op = "bounce" => ~posted[t]
    BY <1>2, <1>3 DEF TxInv, ReverseFits
  <1>13. ReverseWrites(t)'
    BY <1>1, <1>2, <1>3, <1>9, <1>10, <1>11, <1>12 DEF HolderInv, Fits, ReverseWrites
  <1>14. Fits(t)'
    BY <1>1, <1>3, <1>9, <1>13 DEF Fits, HoldsCounter, CreateWrites, SeenIsCurrent
  <1>15. Past(t)
    BY <1>2 DEF Past
  <1> QED BY <1>9, <1>14, <1>15, HolderLocal

LEMMA HolderReadsEntries ==
    ASSUME TxInv, TxInv', HolderInv, UNCHANGED alone, NEW t \in Txs, Tx!ReadEntries(t)
    PROVE  HolderInv'
  <1>1. /\ pc[t] = "readEntries"
        /\ UNCHANGED <<allocated, row, reversals, req, counter, seen, wAllocated, wReceipt>>
    BY DEF Tx!ReadEntries
  <1>2. req[t].op \in {"reverse", "bounce"} /\ ~posted[t]
    BY <1>1, OpenOps DEF TxInv, ReverseFits
  <1>3. PICK l : /\ pc' = [pc EXCEPT ![t] = l] /\ l \in {"flag", "commit", "bumpRead"}
                 /\ \/ UNCHANGED posted
                    \/ l = "bumpRead" /\ posted' = [posted EXCEPT ![t] = TRUE]
    BY DEF Tx!ReadEntries, Tx!Goto, Tx!AfterEntries
  <1>4. Locally(t) /\ pc'[t] = l /\ req'[t] = req[t] /\ (posted'[t] => l = "bumpRead")
    BY <1>1, <1>2, <1>3 DEF TxInv, TxType, Locally, OthersKept
  <1>5. NothingWritten(t)'
    BY <1>1, <1>2 DEF HolderInv, Fits, ReverseWrites, NothingWritten
  <1>6. ReverseWrites(t)'
    BY <1>1, <1>2, <1>3, <1>4, <1>5 DEF HolderInv, Fits, ReverseWrites
  <1>7. Fits(t)'
    BY <1>2, <1>3, <1>4, <1>6 DEF Fits, HoldsCounter, CreateWrites, SeenIsCurrent
  <1>8. Past(t)
    BY <1>1 DEF Past
  <1> QED BY <1>4, <1>7, <1>8, HolderLocal

LEMMA HolderReadsCache ==
    ASSUME TxInv, TxInv', HolderInv, UNCHANGED alone, NEW t \in Txs, Tx!BumpRead(t)
    PROVE  HolderInv'
  <1>1. PICK n : n = allocated[req[t].inst]
    OBVIOUS
  <1>2. /\ pc[t] = "bumpRead" /\ pc' = [pc EXCEPT ![t] = "bumpWrite"] /\ seen' = [seen EXCEPT ![t] = n]
        /\ UNCHANGED <<allocated, row, reversals, req, counter, wAllocated, wReceipt, posted>>
    BY <1>1 DEF Tx!BumpRead, Tx!Goto
  <1>3. Locally(t) /\ pc'[t] = "bumpWrite" /\ req'[t] = req[t] /\ seen'[t] = n
    BY <1>2 DEF TxInv, TxType, Locally, OthersKept
  <1>4. Fits(t) /\ Past(t)
    BY <1>2 DEF HolderInv, Past
  <1>5. /\ NothingWritten(t)' <=> NothingWritten(t)
        /\ NewRow(t)' <=> NewRow(t)
    BY <1>2 DEF NothingWritten, NewRow
  <1>6. CreateWrites(t)' /\ ReverseWrites(t)'
    BY <1>2, <1>3, <1>4, <1>5 DEF Fits, CreateWrites, ReverseWrites
  <1>7. SeenIsCurrent(t)' /\ HoldsCounter(t)'
    BY <1>1, <1>2, <1>3, <1>4 DEF Fits, SeenIsCurrent, HoldsCounter
  <1>8. Fits(t)'
    BY <1>6, <1>7 DEF Fits
  <1> QED BY <1>3, <1>4, <1>8, HolderLocal

LEMMA HolderWritesCache ==
    ASSUME TxInv, TxInv', HolderInv, UNCHANGED alone, NEW t \in Txs, Tx!BumpWrite(t)
    PROVE  HolderInv'
  <1>1. PICK i, n, l : /\ i = req[t].inst /\ n = seen[t] + req[t].delta
                       /\ l = IF req[t].op = "reverse" THEN "flag" ELSE "commit"
    OBVIOUS
  <1>2. /\ pc[t] = "bumpWrite" /\ pc' = [pc EXCEPT ![t] = l]
        /\ wAllocated' = [wAllocated EXCEPT ![t][i] = n]
        /\ UNCHANGED <<allocated, row, reversals, req, counter, seen, wReceipt, posted>>
    BY <1>1 DEF Tx!BumpWrite, Tx!Goto, Tx!AfterEntries
  <1>3. req[t].op \in {"create", "reverse", "bounce"} /\ i \in Installments
    BY <1>1, <1>2, OpenOps
  <1>4. Fits(t) /\ Past(t)
    BY <1>2 DEF HolderInv, Past
  <1>5. n = allocated[i] + req[t].delta
    BY <1>1, <1>2, <1>4 DEF Fits, SeenIsCurrent
  <1>6. wAllocated' = [wAllocated EXCEPT ![t] = [wAllocated[t] EXCEPT ![i] = n]]
    BY <1>2, <1>3 DEF TxInv, TxType
  <1>7. /\ wAllocated[t] \in [Installments -> Int \cup {NULL}]
        /\ wAllocated'[t] = [wAllocated[t] EXCEPT ![i] = n]
    BY <1>6 DEF TxInv, TxType
  <1>8. Locally(t) /\ pc'[t] = l /\ req'[t] = req[t] /\ posted'[t] = posted[t]
    BY <1>2, <1>6 DEF TxInv, TxType, Locally, OthersKept
  <1>9. NothingWritten(t)
    BY <1>2, <1>3, <1>4 DEF Fits, CreateWrites, ReverseWrites
  <1>10. DeltaWritten(t)'
    <2>1. wAllocated'[t][i] = allocated'[i] + req'[t].delta
      BY <1>2, <1>3, <1>5, <1>7, <1>8
    <2>2. \A j \in Installments \ {i} : wAllocated'[t][j] = NULL
      BY <1>7, <1>9 DEF NothingWritten
    <2> QED BY <1>1, <1>8, <2>1, <2>2 DEF DeltaWritten
  <1>11. NewRow(t)' <=> NewRow(t)
    BY <1>2 DEF NewRow
  <1>12. CreateWrites(t)'
    BY <1>1, <1>3, <1>4, <1>8, <1>10, <1>11 DEF Fits, CreateWrites
  <1>13. req[t].op \in {"reverse", "bounce"} => posted[t]
    BY <1>2 DEF TxInv, ReverseFits
  <1>14. ReverseWrites(t)'
    BY <1>1, <1>2, <1>3, <1>4, <1>8, <1>10, <1>13 DEF Fits, ReverseWrites
  <1>15. SeenIsCurrent(t)' /\ HoldsCounter(t)'
    BY <1>1, <1>2, <1>4, <1>8 DEF Fits, SeenIsCurrent, HoldsCounter
  <1>16. Fits(t)'
    BY <1>12, <1>14, <1>15 DEF Fits
  <1> QED BY <1>4, <1>8, <1>16, HolderLocal

\* The transaction ends, and what it left of the tables is consistent.
LEMMA HolderEnds ==
    ASSUME TxInv, TxInv', HolderInv, UNCHANGED alone, NEW t \in Txs, Tx!End(t), Cached',
           Past(t) \/ UNCHANGED <<allocated, row, reversals>>
    PROVE  HolderInv'
  <1>1. /\ pc' = [pc EXCEPT ![t] = "idle"] /\ req' = [req EXCEPT ![t] = Tx!NoRequest]
        /\ counter' = [counter EXCEPT ![t] = NULL] /\ seen' = [seen EXCEPT ![t] = 0]
        /\ wAllocated' = [wAllocated EXCEPT ![t] = [i \in Installments |-> NULL]]
        /\ wReceipt' = [wReceipt EXCEPT ![t] = [r \in Rows |-> NULL]]
        /\ posted' = [posted EXCEPT ![t] = FALSE]
    BY DEF Tx!End, Tx!Goto
  <1>2. OthersKept(t) /\ \A o \in Txs \ {t} : counter'[o] = counter[o]
    BY <1>1 DEF TxInv, TxType, OthersKept
  <1>3. pc'[t] = "idle" /\ req'[t].op = NULL
    BY <1>1 DEF TxInv, TxType, Tx!NoRequest
  <1>4. Fits(t)' /\ ~Past(t)'
    BY <1>3, TxAssumption DEF Fits, HoldsCounter, CreateWrites, ReverseWrites, SeenIsCurrent, Past
  <1>5. CASE UNCHANGED <<allocated, row, reversals>>
    <2>1. Locally(t)
      BY <1>2, <1>5 DEF Locally
    <2> QED BY <1>4, <2>1, HolderLocal
  <1>6. CASE Past(t)
    <2>1. \A o \in Txs \ {t} : ~Past(o) /\ ~Past(o)'
      BY <1>2, <1>6 DEF HolderInv, SoleHolder, OthersKept, Past
    <2>2. \A o \in Txs \ {t} : Fits(o)'
      <3> TAKE o \in Txs \ {t}
      <3>1. Fits(o) /\ ReverseFits(o)'
        BY DEF HolderInv, TxInv
      <3>2. ReverseWrites(o)'
        BY <2>1, <3>1 DEF ReverseFits, ReverseWrites, Past
      <3>3. CreateWrites(o)'
        BY <1>2, <2>1, <3>1 DEF Fits, CreateWrites, NothingWritten, OthersKept, Past
      <3>4. HoldsCounter(o)' /\ SeenIsCurrent(o)'
        BY <2>1 DEF HoldsCounter, SeenIsCurrent, Past
      <3> QED BY <3>2, <3>3, <3>4 DEF Fits
    <2>3. SoleHolder'
      BY <1>4, <2>1 DEF SoleHolder
    <2> QED BY <1>4, <2>2, <2>3 DEF HolderInv
  <1> QED BY <1>5, <1>6

LEMMA HolderRollsBack ==
    ASSUME TxInv, TxInv', HolderInv, UNCHANGED alone, NEW t \in Txs, Tx!Rollback(t)
    PROVE  HolderInv'
  <1>1. Tx!End(t) /\ UNCHANGED <<allocated, row, reversals>>
    BY DEF Tx!Rollback
  <1>2. Cached'
    BY <1>1 DEF HolderInv, Cached
  <1> QED BY <1>1, <1>2, HolderEnds

\* What is committed: at most one row q changes, and the cache of one installment
\* changes by what that row leaves on it.
LEMMA CommitCaches ==
    ASSUME TxInv, TxInv', HolderInv, NEW t \in Txs, Tx!Commit(t),
           NEW q \in Rows, SameOn(row', row, Rows \ {q}), SameOn(reversals', reversals, Rows \ {q}),
           \A i \in Installments :
              allocated'[i] = allocated[i] + EntriesOf(row', reversals', i)[q]
                                           - EntriesOf(row, reversals, i)[q]
    PROVE  Cached'
  <1>1. PICK rc \in TxTable, rn \in TxTable, rv \in [Rows -> Nat], rw \in [Rows -> Nat] :
           rc = row /\ rn = row' /\ rv = reversals /\ rw = reversals'
    BY DEF TxInv, TxType, TxTable
  <1> SUFFICES ASSUME NEW i \in Installments
               PROVE  allocated'[i] = Sigma(EntriesOf(rn, rw, i))
    BY <1>1 DEF Cached
  <1>2. Sigma(EntriesOf(rn, rw, i))
          = Sigma(EntriesOf(rc, rv, i)) + EntriesOf(rn, rw, i)[q] - EntriesOf(rc, rv, i)[q]
    BY <1>1, EntriesChange
  <1>3. allocated[i] = Sigma(EntriesOf(rc, rv, i))
    BY <1>1 DEF HolderInv, Cached
  <1>4. allocated'[i] = allocated[i] + EntriesOf(rn, rw, i)[q] - EntriesOf(rc, rv, i)[q]
    BY <1>1
  <1> QED BY <1>2, <1>3, <1>4

LEMMA HolderCommits ==
    ASSUME TxInv, TxInv', HolderInv, UNCHANGED alone, NEW t \in Txs, Tx!Commit(t)
    PROVE  HolderInv'
  <1>1. /\ pc[t] = "commit" /\ Tx!End(t)
        /\ allocated' = [i \in Installments |->
              IF wAllocated[t][i] # NULL THEN wAllocated[t][i] ELSE allocated[i]]
        /\ row' = [r \in Rows |-> IF wReceipt[t][r] # NULL THEN wReceipt[t][r] ELSE row[r]]
        /\ reversals' = [r \in Rows |->
              reversals[r] + (IF posted[t] /\ req[t].receipt = r THEN 1 ELSE 0)]
    BY DEF Tx!Commit
  <1>2. Past(t) /\ Fits(t)
    BY <1>1 DEF Past, HolderInv
  <1>3. req[t].op \in {"create", "reverse", "bounce"} /\ req[t].inst \in Installments /\ req[t] \in TxRequest
    BY <1>1, OpenOps
  <1>4. PICK j \in Installments, d \in Int : j = req[t].inst /\ d = req[t].delta
    BY <1>3 DEF TxRequest
  <1>5. \A i \in Installments : allocated[i] \in Int /\ allocated[i] + d \in Int
    BY DEF TxInv, TxType
  <1>6. DeltaWritten(t) => \A i \in Installments :
           allocated'[i] = IF i = j THEN allocated[i] + d ELSE allocated[i]
    BY <1>1, <1>4, <1>5, TxAssumption DEF DeltaWritten
  <1>7. NothingWritten(t) => \A i \in Installments : allocated'[i] = allocated[i]
    BY <1>1 DEF NothingWritten
  <1>8. \A r \in Rows : row'[r] = IF wReceipt[t][r] # NULL THEN wReceipt[t][r] ELSE row[r]
    BY <1>1
  <1>9. reversals \in [Rows -> Nat] /\ row \in TxTable /\ row' \in TxTable
    BY DEF TxInv, TxType, TxTable
  <1>10. CASE req[t].op = "create"
    <2>1. DeltaWritten(t) /\ NewRow(t) /\ ~posted[t]
      BY <1>1, <1>2, <1>10 DEF Fits, CreateWrites, TxInv, CreateFits
    <2>2. reversals' = reversals
      BY <1>1, <1>9, <2>1
    <2>3. PICK q \in Rows :
             /\ row[q] = NULL /\ wReceipt[t][q] # NULL
             /\ wReceipt[t][q].inst = req[t].inst /\ wReceipt[t][q].amount = req[t].delta
             /\ \A r \in Rows \ {q} : wReceipt[t][r] = NULL
      BY <2>1 DEF NewRow
    <2>4. PICK v \in TxRow : v = row'[q] /\ v # NULL /\ v.inst = j /\ v.amount = d
      BY <1>4, <1>8, <1>9, <2>3 DEF TxTable
    <2>5. SameOn(row', row, Rows \ {q}) /\ SameOn(reversals', reversals, Rows \ {q})
      BY <1>8, <2>2, <2>3 DEF SameOn
    <2>6. reversals[q] = 0
      BY <2>3 DEF TxInv, ReversedRows
    <2>7. \A i \in Installments : /\ EntriesOf(row, reversals, i)[q] = 0
                                  /\ EntriesOf(row', reversals', i)[q] = IF i = j THEN d ELSE 0
      BY <2>2, <2>3, <2>4, <2>6, LeftValues DEF EntriesOf
    <2>8. \A i \in Installments :
             allocated'[i] = allocated[i] + EntriesOf(row', reversals', i)[q]
                                          - EntriesOf(row, reversals, i)[q]
      BY <1>5, <1>6, <2>1, <2>7
    <2>9. Cached'
      BY <2>5, <2>8, CommitCaches
    <2> QED BY <1>1, <1>2, <2>9, HolderEnds
  <1>11. CASE req[t].op \in {"reverse", "bounce"}
    <2>1. PICK q : q = req[t].receipt
      OBVIOUS
    <2>2. /\ q \in Rows /\ row[q] # NULL /\ wReceipt[t][q] # NULL
          /\ \A r \in Rows : wReceipt[t][r] # NULL => r = q
          /\ posted[t] => reversals[q] = 0
      BY <1>1, <1>11, <2>1 DEF TxInv, ReverseFits
    <2>3. /\ wReceipt[t][q].inst = row[q].inst /\ wReceipt[t][q].amount = row[q].amount
          /\ row[q].inst = j /\ d = -row[q].amount
          /\ posted[t] => DeltaWritten(t)
          /\ ~posted[t] => NothingWritten(t)
      BY <1>1, <1>2, <1>4, <1>11, <2>1, <2>2 DEF Fits, ReverseWrites
    <2>4. PICK u \in TxRow, v \in TxRow : /\ u = row[q] /\ v = row'[q] /\ u # NULL /\ v # NULL
                                          /\ u.inst = j /\ v.inst = j /\ v.amount = u.amount
      BY <1>8, <1>9, <2>2, <2>3 DEF TxTable
    <2>5. PICK n \in Nat : n = u.amount
      BY DEF TxRow
    <2>6. SameOn(row', row, Rows \ {q}) /\ SameOn(reversals', reversals, Rows \ {q})
      BY <1>1, <1>8, <1>9, <2>1, <2>2 DEF SameOn
    <2>7. CASE posted[t]
      <3>1. reversals[q] = 0 /\ reversals'[q] = 1
        BY <1>1, <2>1, <2>2, <2>7
      <3>2. Left(u, 0) = n /\ Left(v, 1) = 0
        BY <2>5, LeftValues
      <3>3. \A i \in Installments : /\ EntriesOf(row, reversals, i)[q] = IF i = j THEN n ELSE 0
                                    /\ EntriesOf(row', reversals', i)[q] = 0
        BY <2>2, <2>4, <3>1, <3>2 DEF EntriesOf
      <3>4. d = -n
        BY <2>3, <2>4, <2>5
      <3>5. \A i \in Installments :
               allocated'[i] = allocated[i] + EntriesOf(row', reversals', i)[q]
                                            - EntriesOf(row, reversals, i)[q]
        BY <1>5, <1>6, <2>3, <2>7, <3>3, <3>4
      <3>6. Cached'
        BY <2>2, <2>6, <3>5, CommitCaches
      <3> QED BY <1>1, <1>2, <3>6, HolderEnds
    <2>8. CASE ~posted[t]
      <3>1. reversals'[q] = reversals[q] /\ reversals[q] \in Nat
        BY <1>1, <1>9, <2>2, <2>8
      <3>2. PICK m \in Int : m = Left(u, reversals[q])
        BY <3>1, LeftValues
      <3>3. Left(v, reversals[q]) = m
        BY <2>4, <3>2 DEF Left
      <3>4. \A i \in Installments : /\ EntriesOf(row, reversals, i)[q] = IF i = j THEN m ELSE 0
                                    /\ EntriesOf(row', reversals', i)[q] = IF i = j THEN m ELSE 0
        BY <2>2, <2>4, <3>1, <3>2, <3>3 DEF EntriesOf
      <3>5. \A i \in Installments :
               allocated'[i] = allocated[i] + EntriesOf(row', reversals', i)[q]
                                            - EntriesOf(row, reversals, i)[q]
        BY <1>5, <1>7, <2>3, <2>8, <3>4
      <3>6. Cached'
        BY <2>2, <2>6, <3>5, CommitCaches
      <3> QED BY <1>1, <1>2, <3>6, HolderEnds
    <2> QED BY <2>7, <2>8
  <1> QED BY <1>3, <1>10, <1>11

LEMMA HolderStep ==
    ASSUME SameTime \subseteq {"create"}, OneFY, TxInv, HolderInv, [MCNext]_<<vars, txVars, scope>>
    PROVE  HolderInv'
  <1>0. TxInv'
    BY TxStep
  <1>1. CASE UNCHANGED txVars
    BY <1>1 DEF txVars, HolderInv, SoleHolder, Past, Cached, Fits, HoldsCounter, CreateWrites, ReverseWrites,
                SeenIsCurrent, NothingWritten, DeltaWritten, NewRow
  <1>2. CASE Tx!MCNext
    <2>1. Tx!Next /\ Tx!Scheduled /\ UNCHANGED alone
      BY <1>2 DEF Tx!MCNext
    <2>2. PICK t \in Txs :
            \/ \E i \in Installments, n \in 1 .. Amount, f \in FYs : Tx!createReceipt(t, i, n, f)
            \/ \E r \in Rows : Tx!reverseReceipt(t, r) \/ Tx!bounceCheque(t, r)
            \/ Tx!Allocate(t) \/ Tx!Flag(t) \/ Tx!ReadEntries(t) \/ Tx!BumpRead(t) \/ Tx!BumpWrite(t)
            \/ Tx!Commit(t) \/ Tx!Rollback(t)
      BY <2>1 DEF Tx!Next
    <2> QED
      BY <1>0, <2>1, <2>2, HolderFirstStatements, HolderAllocates, HolderFlags, HolderReadsEntries,
         HolderReadsCache, HolderWritesCache, HolderCommits, HolderRollsBack
  <1> QED BY <1>1, <1>2 DEF MCNext

\* Within one financial year, and as long as only createReceipt overlaps with
\* itself, no update of an installment's cached allocation is lost: it equals the
\* sum of its receipts less what the ledger reverses, for any number of
\* installments, receipts and connections and with a rollback possible at every
\* statement.  The counter's row is what serialises the read and the write of
\* bumpInstallment (createReceipt, allocateForFy, bumpInstallment).
THEOREM CacheMatchesEntriesHolds ==
    ASSUME SameTime \subseteq {"create"}, OneFY
    PROVE  MCSpec => []CacheMatchesEntries
  <1>1. MCInit => TxInv /\ HolderInv
    BY TxInitOK, HolderInitOK
  <1>2. (TxInv /\ HolderInv) /\ [MCNext]_<<vars, txVars, scope>> => (TxInv /\ HolderInv)'
    BY TxStep, HolderStep
  <1>3. TxInv /\ HolderInv => CacheMatchesEntries
    BY CachedGivesProperty DEF HolderInv
  <1> QED BY <1>1, <1>2, <1>3, PTL DEF MCSpec
=============================================================================
