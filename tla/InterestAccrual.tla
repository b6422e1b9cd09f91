--------------------------- MODULE InterestAccrual ---------------------------
(***************************************************************************)
(* Delay interest on the installments of one booking.  A run reads the     *)
(* overdue installments at once, then for each one its earlier accruals,   *)
(* and inserts a ledger entry and an accrual for the days since the last   *)
(* one.  A run is one READ COMMITTED transaction that locks nothing, and   *)
(* the daily job, a repeated job and POST interest/accrue start runs       *)
(* independently.                                                          *)
(***************************************************************************)
EXTENDS Integers, Sequences, Money, Null

CONSTANTS Installments, Txs,
          Due,       \* due date of each installment, a day number
          Amount,    \* amountPaise of each installment
          Rate,      \* the rule's rate, in units of 1 / Year a day
          Year,      \* 365 * 10000 in the code
          MaxDay,    \* bound on the calendar
          Ops

ASSUME InterestAssumption ==
    /\ Due \in [Installments -> Nat] /\ Amount \in Nat \ {0}
    /\ Rate \in Nat /\ Year \in Nat \ {0} /\ MaxDay \in Nat
    /\ NULL \notin Nat

VARIABLES
    compound,   \* the booking's rule has rateType COMPOUND; never changes
    day,        \* clock.now()
    allocated,  \* committed installments.allocated_paise
    accruals,   \* committed interest_accruals of each installment, in order
    interest,   \* total of the INTEREST and INTEREST_WAIVER ledger entries
    asOf,       \* the date a run accrues up to, NULL when it is not running
    rows,       \* outstanding amounts that a run read, NULL where not overdue
    todo,       \* installments it has yet to look at
    drafts      \* its uncommitted accruals, NULL where none

vars == <<compound, day, allocated, accruals, interest, asOf, rows, todo, drafts>>

Accrual == [start : Nat, end : Nat, principal : Nat, accrued : Nat]

TypeOK ==
    /\ compound \in BOOLEAN
    /\ day \in 0 .. MaxDay
    /\ allocated \in [Installments -> 0 .. Amount]
    /\ \A i \in Installments :
          \A k \in DOMAIN accruals[i] :
             /\ accruals[i][k] \in Accrual
             /\ accruals[i][k].start < accruals[i][k].end
             /\ accruals[i][k].end <= day
             /\ accruals[i][k].accrued > 0
    /\ interest \in Int
    /\ asOf \in [Txs -> 0 .. MaxDay \cup {NULL}]
    /\ todo \in [Txs -> SUBSET Installments]

Init ==
    /\ compound \in BOOLEAN
    /\ day = 0
    /\ allocated = [i \in Installments |-> 0]
    /\ accruals = [i \in Installments |-> <<>>]
    /\ interest = 0
    /\ asOf = [t \in Txs |-> NULL]
    /\ rows = [t \in Txs |-> [i \in Installments |-> NULL]]
    /\ todo = [t \in Txs |-> {}]
    /\ drafts = [t \in Txs |-> [i \in Installments |-> NULL]]

-----------------------------------------------------------------------------

\* Fault: interest is charged from the due date each time.
CursorAtDue(i) == Due[i]

\* The end of the latest accrual, or the due date.  Committed accruals that
\* cover the same days stand in commit order; the query takes the latest end.
Cursor(i) ==
    LET ends == {accruals[i][k].end : k \in DOMAIN accruals[i]}
    IN  IF ends = {} THEN Due[i] ELSE CHOOSE e \in ends : \A f \in ends : e >= f

AccruedSoFar(i) == SumSeq([k \in DOMAIN accruals[i] |-> accruals[i][k].accrued])

Base(i, outstanding) == IF compound THEN outstanding + AccruedSoFar(i) ELSE outstanding

Delta(base, days) == roundedDiv(base * Rate * days, Year)

\* accrueInTx, up to the loop: the booking's overdue installments.  The company
\* job takes its date d before it lists the bookings, so d may be past.
accrue(t, d) ==
    /\ asOf[t] = NULL
    /\ asOf' = [asOf EXCEPT ![t] = d]
    /\ rows' = [rows EXCEPT ![t] =
          [i \in Installments |-> IF Due[i] < d THEN Amount - allocated[i] ELSE NULL]]
    /\ todo' = [todo EXCEPT ![t] = {i \in Installments : Due[i] < d}]
    /\ UNCHANGED <<compound, day, allocated, accruals, interest, drafts>>

\* One turn of the loop.  A window that earns nothing is left for a later run.
AccrueOne(t, i) ==
    LET days == asOf[t] - Cursor(i)
        base == Base(i, rows[t][i])
        delta == Delta(base, days)
    IN  /\ i \in todo[t]
        /\ todo' = [todo EXCEPT ![t] = @ \ {i}]
        /\ drafts' = IF rows[t][i] > 0 /\ days > 0 /\ delta > 0
                     THEN [drafts EXCEPT ![t][i] =
                             [start |-> Cursor(i), end |-> asOf[t],
                              principal |-> base, accrued |-> delta]]
                     ELSE drafts
        /\ UNCHANGED <<compound, day, allocated, accruals, interest, asOf, rows>>

Finish(t) ==
    /\ asOf' = [asOf EXCEPT ![t] = NULL]
    /\ rows' = [rows EXCEPT ![t] = [i \in Installments |-> NULL]]
    /\ todo' = [todo EXCEPT ![t] = {}]
    /\ drafts' = [drafts EXCEPT ![t] = [i \in Installments |-> NULL]]

Commit(t) ==
    LET posted == {i \in Installments : drafts[t][i] # NULL} IN
    /\ asOf[t] # NULL
    /\ todo[t] = {}
    /\ accruals' = [i \in Installments |->
          IF i \in posted THEN Append(accruals[i], drafts[t][i]) ELSE accruals[i]]
    /\ interest' = interest + FoldFunction(+, 0, [i \in posted |-> drafts[t][i].accrued])
    /\ Finish(t)
    /\ UNCHANGED <<compound, day, allocated>>

Rollback(t) ==
    /\ asOf[t] # NULL
    /\ Finish(t)
    /\ UNCHANGED <<compound, day, allocated, accruals, interest>>

-----------------------------------------------------------------------------

NextDay ==
    /\ day < MaxDay
    /\ day' = day + 1
    /\ UNCHANGED <<compound, allocated, accruals, interest, asOf, rows, todo, drafts>>

\* createReceipt and the reversals move allocated_paise between 0 and the amount.
allocateTo(i, n) ==
    /\ "receipt" \in Ops
    /\ n # allocated[i]
    /\ allocated' = [allocated EXCEPT ![i] = n]
    /\ UNCHANGED <<compound, day, accruals, interest, asOf, rows, todo, drafts>>

\* waiveInterest credits any amount.  Bound: only while interest is owed.
waiveInterest(n) ==
    /\ "waive" \in Ops
    /\ interest > 0
    /\ interest' = interest - n
    /\ UNCHANGED <<compound, day, allocated, accruals, asOf, rows, todo, drafts>>

Next ==
    \/ NextDay
    \/ \E i \in Installments, n \in 0 .. Amount : allocateTo(i, n)
    \/ \E n \in 1 .. Amount : waiveInterest(n)
    \/ \E t \in Txs :
          \/ \E d \in 0 .. day : accrue(t, d)
          \/ \E i \in Installments : AccrueOne(t, i)
          \/ Commit(t)
          \/ Rollback(t)

Spec == Init /\ [][Next]_vars

-----------------------------------------------------------------------------
(* Properties.                                                             *)

\* At most one run is under way.  Two at once may both charge the same days
\* (README.md, Known divergences).
RunsAlone == \A s, t \in Txs : asOf[s] # NULL /\ asOf[t] # NULL => s = t

\* The windows of an installment follow each other from its due date without a
\* gap or an overlap, whichever runs failed, found nothing to charge or came a day
\* late: every day is charged once (accrueInTx).
WindowsAreContiguous ==
    \A i \in Installments : \A k \in DOMAIN accruals[i] :
        accruals[i][k].start = IF k = 1 THEN Due[i] ELSE accruals[i][k - 1].end

\* Charging an unpaid installment in many runs instead of one costs the customer
\* at most half a paisa a run (roundedDiv, and the windows that earn nothing).
RoundingStaysSmall ==
    \A i \in Installments :
        LET n == Len(accruals[i])
            exact == Amount * Rate * (Cursor(i) - Due[i])
            error == AccruedSoFar(i) * Year - exact
        IN  (~compound /\ \A k \in 1 .. n : accruals[i][k].principal = Amount)
            => 2 * error <= Year * n /\ -2 * error <= Year * n
=============================================================================
