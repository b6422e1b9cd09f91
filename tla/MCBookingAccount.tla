--------------------------- MODULE MCBookingAccount ---------------------------
(* Instances of BookingAccount and ReceiptTx for TLC.  A behaviour has one   *)
(* of three scopes, so that each is explored in depth: the schedule of one   *)
(* live booking, what charges, transfer, cancellation and refunds do to two  *)
(* bookings, or receipts, reversals and bounces as transactions.             *)
EXTENDS BookingAccount, TLC

CONSTANTS Rows,          \* receipts of the transactions
          FYs, Txs, Amount, TxOps, SameTime

TxRow == [inst : Installments, amount : Nat, fy : FYs, bounced : BOOLEAN, isReversed : BOOLEAN]

ASSUME TxAssumption ==
    /\ Amount \in Nat /\ IsFiniteSet(Rows)
    /\ NULL \notin Int /\ NULL \notin TxRow /\ NULL \notin {"create", "reverse", "bounce"}

VARIABLES scope, allocated, row, reversals, pc, req, counter, seen, wAllocated, wReceipt,
          posted, alone

Tx == INSTANCE MCReceiptTx WITH Receipts <- Rows, receipt <- row, Ops <- TxOps

txVars == <<allocated, row, reversals, pc, req, counter, seen, wAllocated, wReceipt, posted, alone>>

\* Row identifiers are interchangeable.
Symmetry == Permutations(Bookings) \cup Permutations(Installments)
            \cup Permutations(Receipts) \cup Permutations(Refunds)

InScope ==
    IF scope = "schedule"
    THEN /\ Cardinality({b \in Bookings : status'[b] # NULL}) <= 1
         /\ \A b \in Bookings : status'[b] \in {NULL, "BOOKED"} /\ ledger'[b]["EXTRA_CHARGE"] = 0
         /\ \A f \in Refunds : refund'[f] = NULL
    ELSE /\ Cardinality({i \in Installments : inst'[i] # NULL}) <= 1
         /\ \A b \in Bookings : /\ ledger'[b]["ADJUSTMENT"] = 0
                                /\ ledger'[b]["TDS_CERT_ADJUSTMENT"] = 0

MCInit ==
    /\ Init /\ Tx!MCInit
    /\ scope \in {"schedule", "settlement", "transactions"}
    /\ scope # "transactions" => alone

MCNext ==
    /\ UNCHANGED scope
    /\ \/ scope \in {"schedule", "settlement"} /\ Next /\ InScope /\ UNCHANGED txVars
       \/ scope = "transactions" /\ Tx!MCNext /\ UNCHANGED vars

MCSpec == MCInit /\ [][MCNext]_<<vars, txVars, scope>>

\* The cached allocation of an installment is the sum of its receipts that stand,
\* although bumpInstallment reads it, computes, and writes it back: what serialises
\* two receipts is the row of the counter both take a number from.
CacheMatchesEntries == Tx!CacheMatchesEntries

\* A receipt's credit is given back at most once and exactly when it is flagged
\* (reverseReceipt, recordChequeEvent), and receipts taken one at a time never
\* exceed an installment's amount, whatever was reversed in between.
ReversedOnceWithinAmount == Tx!ReversedOnce /\ (alone => Tx!NoOverAllocation)
=============================================================================
