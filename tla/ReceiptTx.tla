------------------------------ MODULE ReceiptTx ------------------------------
(***************************************************************************)
(* createReceipt, reverseReceipt and a cheque bounce as the READ COMMITTED *)
(* transactions they are, statement by statement, on the installments of a *)
(* booking.  Reads take no lock.  An UPDATE of an installment or of a      *)
(* receipt, and the upsert on the receipt counter, keep their row until    *)
(* the transaction ends; an INSERT waits for nothing.  A transaction may   *)
(* fail at any statement.                                                  *)
(*                                                                         *)
(* A receipt here is a cheque allocated to one installment and not yet     *)
(* cleared.  BookingAccount has the same handlers without the              *)
(* interleaving, and with all they post.                                   *)
(***************************************************************************)
EXTENDS Integers, Functions

CONSTANTS Installments, Receipts, FYs, Txs, Ops,
          Amount,    \* every installment's amountPaise
          NULL

VARIABLES
    allocated,   \* committed installments.allocated_paise
    receipt,     \* committed receipts rows, NULL where there is none
    reversals,   \* committed ledger entries that reverse the receipt's credit
    pc, req,     \* next statement and request of each transaction
    counter,     \* the financial year whose counter it holds, NULL if none
    seen,        \* the allocated_paise that bumpInstallment read
    wAllocated,  \* its uncommitted installment updates, NULL where none
    wReceipt,    \* its uncommitted receipt rows, NULL where none
    posted       \* it has inserted an uncommitted reversal entry

local == <<pc, req, counter, seen, wAllocated, wReceipt, posted>>
vars == <<allocated, receipt, reversals, local>>

NoRequest == [op |-> NULL, receipt |-> NULL, inst |-> NULL, delta |-> 0, fy |-> NULL]

TypeOK ==
    /\ allocated \in [Installments -> Int]
    /\ \A r \in Receipts : receipt[r] = NULL \/
          /\ receipt[r].inst \in Installments /\ receipt[r].amount \in Nat
          /\ receipt[r].bounced \in BOOLEAN /\ receipt[r].isReversed \in BOOLEAN
    /\ reversals \in [Receipts -> Nat]
    /\ pc \in [Txs -> {"idle", "allocate", "flag", "readEntries", "bumpRead",
                       "bumpWrite", "commit"}]
    /\ counter \in [Txs -> FYs \cup {NULL}]
    /\ seen \in [Txs -> Int]
    /\ wAllocated \in [Txs -> [Installments -> Int \cup {NULL}]]
    /\ posted \in [Txs -> BOOLEAN]
    /\ \A t \in Txs : pc[t] = "idle" =>
          /\ req[t] = NoRequest /\ counter[t] = NULL
          /\ \A i \in Installments : wAllocated[t][i] = NULL
          /\ \A r \in Receipts : wReceipt[t][r] = NULL

Init ==
    /\ allocated = [i \in Installments |-> 0]
    /\ receipt = [r \in Receipts |-> NULL]
    /\ reversals = [r \in Receipts |-> 0]
    /\ pc = [t \in Txs |-> "idle"]
    /\ req = [t \in Txs |-> NoRequest]
    /\ counter = [t \in Txs |-> NULL]
    /\ seen = [t \in Txs |-> 0]
    /\ wAllocated = [t \in Txs |-> [i \in Installments |-> NULL]]
    /\ wReceipt = [t \in Txs |-> [r \in Receipts |-> NULL]]
    /\ posted = [t \in Txs |-> FALSE]

-----------------------------------------------------------------------------

InstallmentRowFree(t, i) == \A o \in Txs \ {t} : wAllocated[o][i] = NULL
ReceiptRowFree(t, r)     == \A o \in Txs \ {t} : wReceipt[o][r] = NULL

\* Fault: the counter does not hold its row until the transaction ends.
CounterUnlocked(t, f) == TRUE

CounterFree(t, f) == \A o \in Txs \ {t} : counter[o] # f

Goto(t, label) == pc' = [pc EXCEPT ![t] = label]

Begin(t, r, label) ==
    /\ pc[t] = "idle"
    /\ r.op \in Ops
    /\ req' = [req EXCEPT ![t] = r]
    /\ Goto(t, label)
    /\ UNCHANGED <<allocated, receipt, reversals, counter, seen, wAllocated, wReceipt, posted>>

End(t) ==
    /\ Goto(t, "idle")
    /\ req' = [req EXCEPT ![t] = NoRequest]
    /\ counter' = [counter EXCEPT ![t] = NULL]
    /\ seen' = [seen EXCEPT ![t] = 0]
    /\ wAllocated' = [wAllocated EXCEPT ![t] = [i \in Installments |-> NULL]]
    /\ wReceipt' = [wReceipt EXCEPT ![t] = [r \in Receipts |-> NULL]]
    /\ posted' = [posted EXCEPT ![t] = FALSE]

-----------------------------------------------------------------------------
(* First statements.                                                       *)

\* createReceipt reads its installment and refuses an over-allocation; the
\* counter is not held yet.
createReceipt(t, i, amount, f) ==
    /\ allocated[i] + amount <= Amount
    /\ Begin(t, [op |-> "create", receipt |-> NULL, inst |-> i, delta |-> amount, fy |-> f],
             "allocate")

\* reverseReceipt reverses the entries first and flags the receipt last.
reverseReceipt(t, r) ==
    /\ receipt[r] # NULL
    /\ ~receipt[r].isReversed
    /\ ~receipt[r].bounced
    /\ Begin(t, [op |-> "reverse", receipt |-> r, inst |-> receipt[r].inst,
                 delta |-> -receipt[r].amount, fy |-> NULL], "readEntries")

\* recordChequeEvent with BOUNCED flags the receipt first.
bounceCheque(t, r) ==
    /\ receipt[r] # NULL
    /\ ~receipt[r].bounced
    /\ Begin(t, [op |-> "bounce", receipt |-> r, inst |-> receipt[r].inst,
                 delta |-> -receipt[r].amount, fy |-> NULL], "flag")

-----------------------------------------------------------------------------
(* The statements that follow.                                             *)

\* allocateForFy, then the receipt and its allocation are inserted.
Allocate(t) ==
    /\ pc[t] = "allocate"
    /\ CounterFree(t, req[t].fy)
    /\ counter' = [counter EXCEPT ![t] = req[t].fy]
    /\ \E r \in Receipts :
          /\ receipt[r] = NULL /\ ReceiptRowFree(t, r)
          /\ wReceipt' = [wReceipt EXCEPT ![t][r] =
                [inst |-> req[t].inst, amount |-> req[t].delta, fy |-> req[t].fy,
                 bounced |-> FALSE, isReversed |-> FALSE]]
    /\ Goto(t, "bumpRead")
    /\ UNCHANGED <<allocated, receipt, reversals, req, seen, wAllocated, posted>>

\* receipt.update by id: isReversed, and the clearance status of a bounce.
Flag(t) ==
    LET r == req[t].receipt IN
    /\ pc[t] = "flag"
    /\ ReceiptRowFree(t, r)
    /\ wReceipt' = [wReceipt EXCEPT ![t][r] =
          [receipt[r] EXCEPT !.isReversed = TRUE,
                             !.bounced = @ \/ req[t].op = "bounce"]]
    /\ Goto(t, IF req[t].op = "bounce" THEN "readEntries" ELSE "commit")
    /\ UNCHANGED <<allocated, receipt, reversals, req, counter, seen, wAllocated, posted>>

AfterEntries(t) == IF req[t].op = "reverse" THEN "flag" ELSE "commit"

\* Fault: entries that were already reversed are not looked up.
ReadEntriesUnchecked(t) ==
    /\ pc[t] = "readEntries"
    /\ posted' = [posted EXCEPT ![t] = TRUE]
    /\ Goto(t, "bumpRead")
    /\ UNCHANGED <<allocated, receipt, reversals, req, counter, seen, wAllocated, wReceipt>>

\* reverseReceiptLedger: skip what a committed entry already reverses, else
\* insert the reversal.
ReadEntries(t) ==
    /\ pc[t] = "readEntries"
    /\ IF reversals[req[t].receipt] > 0
       THEN Goto(t, AfterEntries(t)) /\ UNCHANGED posted
       ELSE Goto(t, "bumpRead") /\ posted' = [posted EXCEPT ![t] = TRUE]
    /\ UNCHANGED <<allocated, receipt, reversals, req, counter, seen, wAllocated, wReceipt>>

\* bumpInstallment, first statement.
BumpRead(t) ==
    /\ pc[t] = "bumpRead"
    /\ seen' = [seen EXCEPT ![t] = allocated[req[t].inst]]
    /\ Goto(t, "bumpWrite")
    /\ UNCHANGED <<allocated, receipt, reversals, req, counter, wAllocated, wReceipt, posted>>

\* bumpInstallment, second statement: the value computed from what was read.
BumpWrite(t) ==
    LET i == req[t].inst IN
    /\ pc[t] = "bumpWrite"
    /\ InstallmentRowFree(t, i)
    /\ wAllocated' = [wAllocated EXCEPT ![t][i] = seen[t] + req[t].delta]
    /\ Goto(t, AfterEntries(t))
    /\ UNCHANGED <<allocated, receipt, reversals, req, counter, seen, wReceipt, posted>>

Commit(t) ==
    /\ pc[t] = "commit"
    /\ allocated' = [i \in Installments |->
          IF wAllocated[t][i] # NULL THEN wAllocated[t][i] ELSE allocated[i]]
    /\ receipt' = [r \in Receipts |->
          IF wReceipt[t][r] # NULL THEN wReceipt[t][r] ELSE receipt[r]]
    /\ reversals' = [r \in Receipts |->
          reversals[r] + (IF posted[t] /\ req[t].receipt = r THEN 1 ELSE 0)]
    /\ End(t)

Rollback(t) ==
    /\ pc[t] # "idle"
    /\ End(t)
    /\ UNCHANGED <<allocated, receipt, reversals>>

Next ==
    \E t \in Txs :
        \/ \E i \in Installments, n \in 1 .. Amount, f \in FYs : createReceipt(t, i, n, f)
        \/ \E r \in Receipts : reverseReceipt(t, r) \/ bounceCheque(t, r)
        \/ Allocate(t)
        \/ Flag(t)
        \/ ReadEntries(t)
        \/ BumpRead(t)
        \/ BumpWrite(t)
        \/ Commit(t)
        \/ Rollback(t)

Spec == Init /\ [][Next]_vars

-----------------------------------------------------------------------------
(* Properties.                                                             *)

\* The cached allocated_paise of an installment is the sum of its allocations,
\* less those that the ledger reverses (bumpInstallment).
CacheMatchesEntries ==
    \A i \in Installments :
        allocated[i] =
            FoldFunction(+, 0, [r \in {q \in Receipts : receipt[q] # NULL /\ receipt[q].inst = i}
                                  |-> receipt[r].amount * (1 - reversals[r])])

\* Not kept by receipts of different years at the same time (README.md, Known
\* divergences): no installment receives more than its amount.
NoOverAllocation ==
    \A i \in Installments : allocated[i] <= Amount

\* The credit of a receipt is reversed at most once, and exactly when the
\* receipt is flagged (reverseReceipt, recordChequeEvent).
ReversedOnce ==
    \A r \in Receipts : receipt[r] # NULL =>
        reversals[r] = IF receipt[r].isReversed THEN 1 ELSE 0
=============================================================================
