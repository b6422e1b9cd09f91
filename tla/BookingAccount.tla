---------------------------- MODULE BookingAccount ----------------------------
(***************************************************************************)
(* The money of a booking: its schedule of installments, the receipts and  *)
(* cheques that pay it, TDS, cancellation, refunds and transfer, and the   *)
(* append-only ledger they all post to.  Every action is one handler, run  *)
(* as one transaction; the statements inside createReceipt and the         *)
(* reversals, which interleave, are in ReceiptTx.                          *)
(*                                                                         *)
(* The ledger is kept as the running total of each entry type per booking; *)
(* a booking's balance is their sum (positive: the customer owes).         *)
(***************************************************************************)
EXTENDS Integers, FiniteSets, Functions, UnitStateMachine

CONSTANTS Bookings, Installments, Receipts, Refunds,  \* row identifiers
          Ops,           \* the operations the environment requests
          Price,         \* agreedPricePaise
          TdsThreshold,  \* of the effective 194-IA rule
          BounceCharge,  \* companyConfig.chequeBounceChargePaise
          TransferFee,   \* what the transfer fee rule yields
          Deductions,    \* what a cancellation rule may yield, forfeit included
          ExtraCharge,   \* lineTotalPaise of an off-schedule charge
          MaxExtra,      \* bound on extra charges per booking
          NULL

EntryType == {"CHARGE", "EXTRA_CHARGE", "RECEIPT_ALLOC", "BOUNCE_REVERSAL",
              "BOUNCE_CHARGE", "REFUND_APPROVED", "REFUND_BOUNCE_REVERSAL",
              "TRANSFER_CARRY_OUT", "TRANSFER_CARRY_IN", "TRANSFER_FEE",
              "CANCELLATION_SETTLEMENT", "CANCELLATION_DEDUCTION",
              "TDS_RECEIVABLE", "TDS_CERT_ADJUSTMENT", "ADJUSTMENT"}

Clearance == {"NOT_APPLICABLE", "RECEIVED", "DEPOSITED", "CLEARED", "BOUNCED"}

InstallmentRow == [booking : Bookings, amount : Nat, allocated : Nat, raised : BOOLEAN]

ReceiptRow == [booking : Bookings, alloc : [Installments -> Nat], tds : Nat, clearance : Clearance,
               isReversed : BOOLEAN, entriesReversed : BOOLEAN, certificate : BOOLEAN]

RefundRow == [booking : Bookings, amount : Nat, status : {"REQUESTED", "APPROVED", "PAID"},
              voucher : {NULL, "ISSUED", "BOUNCED"}]

ASSUME AccountAssumption ==
    /\ Price \in Nat \ {0} /\ TdsThreshold \in Nat
    /\ {BounceCharge, TransferFee, ExtraCharge, MaxExtra} \subseteq Nat
    /\ Deductions \subseteq Nat
    /\ IsFiniteSet(Installments) /\ IsFiniteSet(Receipts)
    /\ NULL \notin BOOKING_STATUS
    /\ NULL \notin InstallmentRow /\ NULL \notin ReceiptRow /\ NULL \notin RefundRow

VARIABLES
    status,   \* bookings.status, NULL where there is no booking
    ledger,   \* running total of every entry type of every booking
    inst,     \* installments of the active plan
    receipt,  \* receipts with their allocations, TDS deduction and certificate
    refund    \* refunds with their latest payment voucher

vars == <<status, ledger, inst, receipt, refund>>

TotalOf(f) == FoldFunction(+, 0, f)

Balance(b) == TotalOf(ledger[b])

Gross(rc) == TotalOf(rc.alloc)

\* ledger.post for booking b: e maps entry types to signed amounts.
Post(b, e) ==
    [t \in EntryType |-> ledger[b][t] + (IF t \in DOMAIN e THEN e[t] ELSE 0)]

PlanOf(b) == {i \in Installments : inst[i] # NULL /\ inst[i].booking = b}

\* A receipt allocation, kept for ever, refers to the installment: the foreign
\* key refuses to delete it.
Referenced(i) == \E r \in Receipts : receipt[r] # NULL /\ receipt[r].alloc[i] > 0

TypeOK ==
    /\ status \in [Bookings -> BOOKING_STATUS \cup {NULL}]
    /\ ledger \in [Bookings -> [EntryType -> Int]]
    /\ inst \in [Installments -> InstallmentRow \cup {NULL}]
    /\ receipt \in [Receipts -> ReceiptRow \cup {NULL}]
    /\ refund \in [Refunds -> RefundRow \cup {NULL}]

Init ==
    /\ status = [b \in Bookings |-> NULL]
    /\ ledger = [b \in Bookings |-> [t \in EntryType |-> 0]]
    /\ inst = [i \in Installments |-> NULL]
    /\ receipt = [r \in Receipts |-> NULL]
    /\ refund = [f \in Refunds |-> NULL]

-----------------------------------------------------------------------------
(* Booking and schedule.                                                   *)

\* createBooking posts the cost breakup, whose lines sum to the agreed price.
createBooking(b) ==
    /\ "create" \in Ops
    /\ status[b] = NULL
    /\ status' = [status EXCEPT ![b] = "BOOKED"]
    /\ ledger' = [ledger EXCEPT ![b] = Post(b, [CHARGE |-> Price])]
    /\ UNCHANGED <<inst, receipt, refund>>

\* Schedules of a given total on installments not in use: explicit amounts must
\* sum to it and percents are allocated without remainder (resolveAmounts).
Schedules(total, free) ==
    {a \in UNION {[S -> 1 .. total] : S \in SUBSET free} : TotalOf(a) = total}

\* Replace the installments D of booking b by schedule a, of which raised are due.
Reschedule(b, D, a, raised) ==
    inst' = [i \in Installments |->
        IF i \in DOMAIN a
        THEN [booking |-> b, amount |-> a[i], allocated |-> 0, raised |-> i \in raised]
        ELSE IF i \in D THEN NULL ELSE inst[i]]

Free == {i \in Installments : inst[i] = NULL}

\* instantiateFromTemplate and createCustomPlan: refused once anything is
\* allocated.  A custom plan's rows all have a due date; a template's
\* STAGE_LINKED rows have one only if the stage was raised.
createPlan(b, a, raised) ==
    /\ "plan" \in Ops
    /\ status[b] # NULL
    /\ \A i \in PlanOf(b) : inst[i].allocated <= 0
    /\ \A i \in PlanOf(b) : ~Referenced(i)
    /\ Reschedule(b, PlanOf(b), a, raised)
    /\ UNCHANGED <<status, ledger, receipt, refund>>

Frozen(b) == {i \in PlanOf(b) : inst[i].allocated > 0}
Unpaid(b) == {i \in PlanOf(b) : inst[i].allocated = 0}
\* Fault: the new rows are made to cover the whole price.
ResidualIsPrice(b) == Price

Residual(b) == Price - TotalOf([i \in Frozen(b) |-> inst[i].amount])

\* editPlan: only strictly unpaid installments are replaced, by new ones that
\* cover the residual.
editPlan(b, a) ==
    /\ "plan" \in Ops
    /\ PlanOf(b) # {}
    /\ \A i \in Unpaid(b) : ~Referenced(i)
    /\ Reschedule(b, Unpaid(b), a, DOMAIN a)
    /\ UNCHANGED <<status, ledger, receipt, refund>>

\* raiseStage, for the stage that every unraised row of the project waits for.
raiseStage ==
    /\ "plan" \in Ops
    /\ \E i \in Installments : inst[i] # NULL /\ ~inst[i].raised
    /\ inst' = [i \in Installments |->
                  IF inst[i] = NULL THEN NULL ELSE [inst[i] EXCEPT !.raised = TRUE]]
    /\ UNCHANGED <<status, ledger, receipt, refund>>

\* ExtraChargeService.add.
addExtraCharge(b) ==
    /\ "extra" \in Ops
    /\ status[b] # NULL
    /\ ledger[b]["EXTRA_CHARGE"] < MaxExtra * ExtraCharge
    /\ ledger' = [ledger EXCEPT ![b] = Post(b, [EXTRA_CHARGE |-> ExtraCharge])]
    /\ UNCHANGED <<status, inst, receipt, refund>>

-----------------------------------------------------------------------------
(* Receipts.                                                               *)

\* bumpInstallment on every installment at once: d[i] is added to i's cache.
Bump(d) ==
    inst' = [i \in Installments |->
        IF inst[i] = NULL THEN NULL
        ELSE [inst[i] EXCEPT !.allocated = @ + d[i]]]

\* Fault: the check forgets what is already allocated.
AllocationsIgnoringPaid(b) ==
    {a \in [Installments -> 0 .. Price] :
        /\ TotalOf(a) > 0
        /\ \A i \in Installments : a[i] > 0 =>
              /\ i \in PlanOf(b) /\ inst[i].raised
              /\ a[i] <= inst[i].amount}

\* Allocations of one receipt to booking b: none beyond an installment's amount
\* and none to an installment that was not raised.
Allocations(b) ==
    {a \in [Installments -> 0 .. Price] :
        /\ TotalOf(a) > 0
        /\ \A i \in Installments : a[i] > 0 =>
              /\ i \in PlanOf(b) /\ inst[i].raised
              /\ inst[i].allocated + a[i] <= inst[i].amount}

createReceipt(r, b, a, tds, cheque) ==
    /\ "receipt" \in Ops
    /\ receipt[r] = NULL
    /\ status[b] # NULL
    /\ tds <= TotalOf(a)
    /\ tds > 0 => Price >= TdsThreshold
    /\ receipt' = [receipt EXCEPT ![r] =
          [booking |-> b, alloc |-> a, tds |-> tds,
           clearance |-> IF cheque THEN "RECEIVED" ELSE "NOT_APPLICABLE",
           isReversed |-> FALSE, entriesReversed |-> FALSE, certificate |-> FALSE]]
    /\ ledger' = [ledger EXCEPT ![b] =
          Post(b, [RECEIPT_ALLOC |-> -TotalOf(a), TDS_RECEIVABLE |-> tds])]
    /\ Bump(a)
    /\ UNCHANGED <<status, refund>>

\* reverseReceiptLedger: the receipt's credits and its TDS debit are negated
\* under entry type ty unless they already were, and a bounce charge is added.
ReverseLedger(r, ty, charge) ==
    LET rc == receipt[r]
        back == IF rc.entriesReversed THEN 0 ELSE Gross(rc) - rc.tds
    IN  /\ ledger' = [ledger EXCEPT ![rc.booking] =
              Post(rc.booking, [t \in {ty, "BOUNCE_CHARGE"} |->
                                  IF t = ty THEN back ELSE charge])]
        /\ IF rc.entriesReversed THEN UNCHANGED inst
           ELSE Bump([i \in Installments |-> -rc.alloc[i]])

\* Fault: a bounce does not mark the receipt reversed.
recordChequeEventUnflagged(r, s) ==
    /\ "cheque" \in Ops
    /\ receipt[r] # NULL
    /\ receipt[r].clearance \in {"RECEIVED", "DEPOSITED"}
    /\ IF s = "BOUNCED"
       THEN /\ ReverseLedger(r, "BOUNCE_REVERSAL", BounceCharge)
            /\ receipt' = [receipt EXCEPT ![r].clearance = s, ![r].entriesReversed = TRUE]
       ELSE /\ receipt' = [receipt EXCEPT ![r].clearance = s]
            /\ UNCHANGED <<ledger, inst>>
    /\ UNCHANGED <<status, refund>>

\* recordChequeEvent: final once CLEARED or BOUNCED; a bounce reverses.
recordChequeEvent(r, s) ==
    /\ "cheque" \in Ops
    /\ receipt[r] # NULL
    /\ receipt[r].clearance \in {"RECEIVED", "DEPOSITED"}
    /\ IF s = "BOUNCED"
       THEN /\ ReverseLedger(r, "BOUNCE_REVERSAL", BounceCharge)
            /\ receipt' = [receipt EXCEPT ![r].clearance = s, ![r].isReversed = TRUE,
                                          ![r].entriesReversed = TRUE]
       ELSE /\ receipt' = [receipt EXCEPT ![r].clearance = s]
            /\ UNCHANGED <<ledger, inst>>
    /\ UNCHANGED <<status, refund>>

reverseReceipt(r) ==
    /\ "reverse" \in Ops
    /\ receipt[r] # NULL
    /\ ~receipt[r].isReversed
    /\ receipt[r].clearance # "BOUNCED"
    /\ ReverseLedger(r, "ADJUSTMENT", 0)
    /\ receipt' = [receipt EXCEPT ![r].isReversed = TRUE, ![r].entriesReversed = TRUE]
    /\ UNCHANGED <<status, refund>>

\* recordTdsCertificate: once per deduction, whatever became of the receipt.
recordTdsCertificate(r) ==
    /\ "certificate" \in Ops
    /\ receipt[r] # NULL
    /\ receipt[r].tds > 0
    /\ ~receipt[r].certificate
    /\ receipt' = [receipt EXCEPT ![r].certificate = TRUE]
    /\ ledger' = [ledger EXCEPT ![receipt[r].booking] =
          Post(receipt[r].booking, [TDS_CERT_ADJUSTMENT |-> -receipt[r].tds])]
    /\ UNCHANGED <<status, inst, refund>>

-----------------------------------------------------------------------------
(* Cancellation, refund and transfer.                                      *)

ReceiptsOf(b) == {r \in Receipts : receipt[r] # NULL /\ receipt[r].booking = b}

\* Cash collected: immediate or cleared receipts that stand, less TDS withheld.
NetReceived(b) ==
    TotalOf([r \in {q \in ReceiptsOf(b) : /\ ~receipt[q].isReversed
                                          /\ receipt[q].clearance \in {"NOT_APPLICABLE", "CLEARED"}}
                |-> Gross(receipt[r]) - receipt[r].tds])

Refundable(b, deduction) ==
    IF NetReceived(b) > deduction THEN NetReceived(b) - deduction ELSE 0

\* Fault: the settlement ignores the deduction posted beside it.
cancelWithoutDeduction(b, deduction, outcome) ==
    /\ "cancel" \in Ops
    /\ status[b] \in CANCELLABLE_FROM
    /\ status' = [status EXCEPT ![b] = outcome]
    /\ ledger' = [ledger EXCEPT ![b] =
          Post(b, [CANCELLATION_DEDUCTION  |-> deduction,
                   CANCELLATION_SETTLEMENT |-> -Refundable(b, deduction) - Balance(b)])]
    /\ UNCHANGED <<inst, receipt, refund>>

cancel(b, deduction, outcome) ==
    /\ "cancel" \in Ops
    /\ status[b] \in CANCELLABLE_FROM
    /\ status' = [status EXCEPT ![b] = outcome]
    /\ ledger' = [ledger EXCEPT ![b] =
          Post(b, [CANCELLATION_DEDUCTION  |-> deduction,
                   CANCELLATION_SETTLEMENT |->
                       -Refundable(b, deduction) - Balance(b) - deduction])]
    /\ UNCHANGED <<inst, receipt, refund>>

\* RefundService.request: at most what the balance says is owed now.
requestRefund(f, b, amount) ==
    /\ "refund" \in Ops
    /\ refund[f] = NULL
    /\ status[b] # NULL
    /\ amount <= -Balance(b)
    /\ refund' = [refund EXCEPT ![f] =
          [booking |-> b, amount |-> amount, status |-> "REQUESTED", voucher |-> NULL]]
    /\ UNCHANGED <<status, ledger, inst, receipt>>

\* approve: the obligation is discharged in the ledger.
approveRefund(f) ==
    /\ refund[f] # NULL /\ refund[f].status = "REQUESTED"
    /\ refund' = [refund EXCEPT ![f].status = "APPROVED"]
    /\ ledger' = [ledger EXCEPT ![refund[f].booking] =
          Post(refund[f].booking, [REFUND_APPROVED |-> refund[f].amount])]
    /\ UNCHANGED <<status, inst, receipt>>

\* pay: a voucher is issued; the ledger is left alone.
payRefund(f) ==
    /\ refund[f] # NULL /\ refund[f].status = "APPROVED"
    /\ refund' = [refund EXCEPT ![f].status = "PAID", ![f].voucher = "ISSUED"]
    /\ UNCHANGED <<status, ledger, inst, receipt>>

\* Bound: a refund's cheque bounces at most once.
BouncedOnce(b) == ledger[b]["REFUND_BOUNCE_REVERSAL"] < 0

\* voucherBounced: the obligation is re-opened and the refund may be paid again.
voucherBounced(f) ==
    LET b == refund[f].booking IN
    /\ "voucherBounce" \in Ops
    /\ refund[f] # NULL /\ refund[f].voucher = "ISSUED"
    /\ ~BouncedOnce(b)
    /\ refund' = [refund EXCEPT ![f].status = "APPROVED", ![f].voucher = "BOUNCED"]
    /\ ledger' = [ledger EXCEPT ![b] =
          Post(b, [REFUND_BOUNCE_REVERSAL |-> -refund[f].amount,
                   BOUNCE_CHARGE |-> BounceCharge])]
    /\ UNCHANGED <<status, inst, receipt>>

\* transfer: the balance is carried from b to a new booking c, plus the fee of
\* the rule the request names, if any.
transfer(b, c, fee) ==
    /\ "transfer" \in Ops
    /\ status[b] \in TRANSFERABLE_FROM
    /\ status[c] = NULL
    /\ status' = [status EXCEPT ![b] = "TRANSFERRED_OUT", ![c] = "BOOKED"]
    /\ ledger' = [ledger EXCEPT
          ![b] = Post(b, [TRANSFER_CARRY_OUT |-> -Balance(b)]),
          ![c] = Post(c, [TRANSFER_CARRY_IN |-> Balance(b), TRANSFER_FEE |-> fee])]
    /\ UNCHANGED <<inst, receipt, refund>>

Next ==
    \/ \E b \in Bookings :
          \/ createBooking(b)
          \/ addExtraCharge(b)
          \/ \E a \in Schedules(Price, Free \cup PlanOf(b)) :
                \E raised \in SUBSET DOMAIN a : createPlan(b, a, raised)
          \/ \E a \in Schedules(Residual(b), Free \cup Unpaid(b)) : editPlan(b, a)
          \/ \E r \in Receipts, a \in Allocations(b), tds \in 0 .. 1, cheque \in BOOLEAN :
                createReceipt(r, b, a, tds, cheque)
          \/ \E d \in Deductions, s \in {"CANCELLED", "SURRENDERED"} : cancel(b, d, s)
          \/ \E f \in Refunds, n \in 1 .. Price : requestRefund(f, b, n)
          \/ \E c \in Bookings, fee \in {0, TransferFee} : transfer(b, c, fee)
    \/ raiseStage
    \/ \E r \in Receipts :
          \/ \E s \in {"DEPOSITED", "CLEARED", "BOUNCED"} : recordChequeEvent(r, s)
          \/ reverseReceipt(r)
          \/ recordTdsCertificate(r)
    \/ \E f \in Refunds :
          \/ approveRefund(f)
          \/ payRefund(f)
          \/ voucherBounced(f)

Spec == Init /\ [][Next]_vars

-----------------------------------------------------------------------------
(* Properties.                                                             *)

\* An installment's cached allocatedPaise is what the standing receipts allocate
\* to it (bumpInstallment on receipt, bounce and reversal), and stays within the
\* installment's amount.
AllocatedMatchesReceipts ==
    \A i \in Installments : inst[i] # NULL =>
        /\ inst[i].allocated =
              TotalOf([r \in {q \in Receipts : receipt[q] # NULL /\ ~receipt[q].isReversed}
                      |-> receipt[r].alloc[i]])
        /\ inst[i].allocated <= inst[i].amount

\* What receipts, bounces, reversals and certificates have posted to a booking
\* is what its receipts' own flags say: standing cash less TDS, plus the TDS
\* that a certificate has settled.  Every report filters on isReversed.
LedgerMatchesReceipts ==
    \A b \in Bookings :
        TotalOf([t \in {"RECEIPT_ALLOC", "TDS_RECEIVABLE", "BOUNCE_REVERSAL", "ADJUSTMENT",
                        "TDS_CERT_ADJUSTMENT"} |-> ledger[b][t]])
        = - TotalOf([r \in {q \in ReceiptsOf(b) : ~receipt[q].isReversed}
                        |-> Gross(receipt[r]) - receipt[r].tds])
          - TotalOf([r \in {q \in ReceiptsOf(b) : receipt[q].certificate} |-> receipt[r].tds])

\* A booking's schedule always sums to its agreed price, however often the plan
\* is replaced or edited between receipts and reversals (editPlan).
ScheduleSumsToPrice ==
    \A b \in Bookings : PlanOf(b) # {} =>
        TotalOf([i \in PlanOf(b) |-> inst[i].amount]) = Price

Over == {"CANCELLED", "SURRENDERED"}

\* A cancellation or surrender leaves the balance at minus what was collected
\* beyond the deduction, whatever charges, fees and open receipts stood in the
\* ledger (cancel).
CancelSettlesBalance ==
    [][\A b \in Bookings : status[b] \notin Over /\ status'[b] \in Over =>
          Balance(b)' = -Refundable(b, ledger'[b]["CANCELLATION_DEDUCTION"])]_vars

-----------------------------------------------------------------------------
(* What the comments in the code say and the code does not keep (README.md,  *)
(* Known divergences).                                                       *)

\* Certificates credit a booking with no more TDS than its standing receipts
\* carry: each one zeroes a receivable that is there (recordTdsCertificate).
CertificateZeroesReceivable ==
    \A b \in Bookings :
        -ledger[b]["TDS_CERT_ADJUSTMENT"]
            <= TotalOf([r \in {q \in ReceiptsOf(b) : ~receipt[q].isReversed} |-> receipt[r].tds])

\* Approving a refund moves the balance toward zero and never past it.
ApprovalStaysWithinOwed ==
    [][\A f \in Refunds : approveRefund(f) => Balance(refund[f].booking)' <= 0]_vars

\* While a refund's voucher is out, the ledger shows that obligation discharged.
PaidRefundsAreDischarged ==
    \A b \in Bookings :
        LET paid == {f \in Refunds : refund[f] # NULL /\ refund[f].booking = b
                                     /\ refund[f].status = "PAID"}
        IN  TotalOf([f \in paid |-> refund[f].amount])
            <= ledger[b]["REFUND_APPROVED"] + ledger[b]["REFUND_BOUNCE_REVERSAL"]

\* The ledger of a booking that was transferred out stays closed.
TransferredOutIsClosed ==
    \A b \in Bookings : status[b] = "TRANSFERRED_OUT" => Balance(b) = 0

\* editPlan can replace every installment that holds no allocation.
UnpaidIsReplaceable ==
    \A b \in Bookings : \A i \in Unpaid(b) : ~Referenced(i)
=============================================================================
