------------------------------ MODULE Commission ------------------------------
(***************************************************************************)
(* A broker's commission: accrual on booking or on collection milestones,  *)
(* payment requests, their approval and payment with TDS, the broker's     *)
(* NOC, and the clawback when a booking is cancelled.  A handler reads in  *)
(* one step and commits in another, because nothing it reads is locked:    *)
(* READ COMMITTED, inserts without a unique index, updates by id.  Every   *)
(* milestone accrual is a transaction of its own.                          *)
(***************************************************************************)
EXTENDS Integers, Sequences, Money

CONSTANTS Bookings, Payments, Nocs, Txs, Ops,
          Total,           \* commission the rule computes for a booking
          MilestoneLists,  \* milestonesJson the rule may hold
          Amounts,         \* amounts of payment requests
          TdsRate,         \* of section 194-H, in basis points
          NULL

PaymentRow == [amount : Amounts, status : {"REQUESTED", "APPROVED", "REJECTED", "PAID"}]

\* commissionMilestonesSchema: a rule's milestones ascend.
ASSUME CommissionAssumption ==
    /\ Total \in Nat \ {0} /\ TdsRate \in 0 .. 10000 /\ Amounts \subseteq Nat \ {0}
    /\ \A list \in MilestoneLists :
          list \in Seq(1 .. 100) /\ \A i \in 2 .. Len(list) : list[i - 1] < list[i]
    /\ IsFiniteSet(Bookings) /\ IsFiniteSet(Payments)
    /\ NULL \notin Nat \cup PaymentRow

EntryType == {"ACCRUAL", "PAYMENT", "TDS_WITHHELD", "CLAWBACK_REVERSAL",
              "CLAWBACK_RECOVERY"}

VARIABLES
    trigger, policy,  \* company_configs: accrual trigger, clawback policy
    milestones,       \* the rule's milestones_json
    brokerActive,
    collected,        \* percent of the price collected, per booking
    cancelled,
    snapshot,         \* total_commission_paise, NULL before the first accrual
    accrued,          \* number of ACCRUAL entries per booking and milestone
    ledger,           \* running total of every entry type per booking
    seen,             \* bookings in the order of their first entry
    payment, noc,
    pc, args          \* step and arguments of each handler under way

config == <<trigger, policy>>
books == <<accrued, ledger, seen>>
vars == <<config, milestones, brokerActive, collected, cancelled, snapshot, books,
          payment, noc, pc, args>>

\* milestone_percent is null for an accrual on booking.
OnBooking == 0

Percents == {OnBooking} \cup UNION {ToSet(list) : list \in MilestoneLists}

Balance(b) ==
    FoldFunction(+, 0, ledger[b])

Outstanding == FoldFunction(+, 0, [b \in Bookings |-> Balance(b)])

TypeOK ==
    /\ milestones \in MilestoneLists
    /\ collected \in [Bookings -> 0 .. 100]
    /\ snapshot \in [Bookings -> {NULL, Total}]
    /\ ledger \in [Bookings -> [EntryType -> Int]]
    /\ accrued \in [Bookings -> [Percents -> Nat]]
    /\ \A b \in Bookings :
          /\ ledger[b]["PAYMENT"] <= 0 /\ ledger[b]["TDS_WITHHELD"] <= 0
          /\ Balance(b) # 0 => \E k \in DOMAIN seen : seen[k] = b
    /\ \A p \in Payments : payment[p] \in PaymentRow \cup {NULL}
    /\ \A n \in Nocs : noc[n] = NULL \/
          noc[n] \in [booking : Bookings, status : {"REQUESTED", "APPROVED", "REJECTED"}]

Init ==
    /\ trigger \in {"ON_BOOKING", "ON_COLLECTION_MILESTONE"}
    /\ policy \in {"RECOVER", "WRITE_OFF"}
    /\ milestones \in MilestoneLists
    /\ brokerActive = TRUE
    /\ collected = [b \in Bookings |-> 0]
    /\ cancelled = [b \in Bookings |-> FALSE]
    /\ snapshot = [b \in Bookings |-> NULL]
    /\ accrued = [b \in Bookings |-> [m \in Percents |-> 0]]
    /\ ledger = [b \in Bookings |-> [e \in EntryType |-> 0]]
    /\ seen = <<>>
    /\ payment = [p \in Payments |-> NULL]
    /\ noc = [n \in Nocs |-> NULL]
    /\ pc = [t \in Txs |-> "idle"]
    /\ args = [t \in Txs |-> NULL]

Start(t, label, a) ==
    /\ pc[t] = "idle"
    /\ pc' = [pc EXCEPT ![t] = label]
    /\ args' = [args EXCEPT ![t] = a]

Finish(t) ==
    /\ pc' = [pc EXCEPT ![t] = "idle"]
    /\ args' = [args EXCEPT ![t] = NULL]

\* Entries e of booking b on top of ledger l.
Post(l, b, e) ==
    [l EXCEPT ![b] = [ty \in EntryType |-> @[ty] + (IF ty \in DOMAIN e THEN e[ty] ELSE 0)]]

Seen(b) == IF \E k \in DOMAIN seen : seen[k] = b THEN seen ELSE Append(seen, b)

-----------------------------------------------------------------------------
(* Accrual.                                                                *)

\* Fault: each milestone is worth its cumulative percent.
ShareCumulative(list, i, total) == percentOf(total, list[i] * 100)

\* Weights are the marginal percents, so the shares partition the snapshot.
Share(list, i, total) ==
    allocate(total, [k \in DOMAIN list |-> list[k] - (IF k = 1 THEN 0 ELSE list[k - 1])])[i]

\* What this call may have to post, in the order of the rule's milestones.
Pending(total) ==
    IF trigger = "ON_BOOKING" THEN <<[m |-> OnBooking, share |-> total]>>
    ELSE [i \in DOMAIN milestones |->
             [m |-> milestones[i], share |-> Share(milestones, i, total)]]

\* accrueForBooking up to the ledger: ensureSnapshot commits on its own (its row
\* is unique per booking); the milestones and the collection are read once.
accrueForBooking(t, b) ==
    /\ "accrue" \in Ops
    /\ snapshot' = [snapshot EXCEPT ![b] = IF @ = NULL THEN Total ELSE @]
    /\ Start(t, "check", [booking |-> b, collected |-> collected[b],
                          todo |-> Pending(snapshot'[b])])
    /\ UNCHANGED <<config, milestones, brokerActive, collected, cancelled, books, payment, noc>>

Todo(t) == Head(args[t].todo)

Advance(t) ==
    /\ pc' = [pc EXCEPT ![t] = "check"]
    /\ args' = [args EXCEPT ![t].todo = Tail(@)]

\* A milestone that the collection has not reached is passed over; for another
\* one's transaction looks for its accrual ...
AccrueCheck(t) ==
    /\ pc[t] = "check"
    /\ IF args[t].todo = <<>> THEN Finish(t)
       ELSE IF \/ Todo(t).m > args[t].collected
               \/ accrued[args[t].booking][Todo(t).m] > 0
            THEN Advance(t)
       ELSE pc' = [pc EXCEPT ![t] = "insert"] /\ UNCHANGED args
    /\ UNCHANGED <<config, milestones, brokerActive, collected, cancelled, snapshot, books,
                   payment, noc>>

\* ... and insert it if there was none.
AccrueInsert(t) ==
    LET b == args[t].booking IN
    /\ pc[t] = "insert"
    /\ accrued' = [accrued EXCEPT ![b][Todo(t).m] = @ + 1]
    /\ ledger' = Post(ledger, b, [ACCRUAL |-> Todo(t).share])
    /\ seen' = Seen(b)
    /\ Advance(t)
    /\ UNCHANGED <<config, milestones, brokerActive, collected, cancelled, snapshot, payment, noc>>

-----------------------------------------------------------------------------
(* Payments.                                                               *)

\* request: at most what the broker is owed over all bookings.
requestPayment(p, n) ==
    /\ "pay" \in Ops
    /\ payment[p] = NULL
    /\ n <= Outstanding
    /\ payment' = [payment EXCEPT ![p] = [amount |-> n, status |-> "REQUESTED"]]
    /\ UNCHANGED <<config, milestones, brokerActive, collected, cancelled, snapshot, books, noc,
                   pc, args>>

\* approve and reject read the status, then update by id.
decidePayment(t, p, s) ==
    /\ payment[p] # NULL /\ payment[p].status = "REQUESTED"
    /\ Start(t, "decide", [payment |-> p, status |-> s])
    /\ UNCHANGED <<config, milestones, brokerActive, collected, cancelled, snapshot, books,
                   payment, noc>>

CommitDecision(t) ==
    /\ pc[t] = "decide"
    /\ payment' = [payment EXCEPT ![args[t].payment].status = args[t].status]
    /\ Finish(t)
    /\ UNCHANGED <<config, milestones, brokerActive, collected, cancelled, snapshot, books, noc>>

Least(a, b) == IF a < b THEN a ELSE b

\* What the k-th booking seen is owed, as far as a payment is concerned.
Owed(k) == IF Balance(seen[k]) > 0 THEN Balance(seen[k]) ELSE 0

\* Fault: a payment beyond what is owed is put on the bookings all the same.
GrossTakesOverdrawn(n) == [k \in DOMAIN seen |-> IF k = 1 THEN n ELSE 0]

\* What a payment of n takes from each booking, oldest first.  The code leaves out
\* those it takes nothing from; they weigh nothing when the TDS is shared out.
GrossTakes(n) ==
    [k \in DOMAIN seen |->
        LET before == SumSeq([j \in 1 .. k - 1 |-> Owed(j)])
        IN  IF before >= n THEN 0 ELSE Least(Owed(k), n - before)]

StartPay(t, p, gross) ==
    Start(t, "pay", [payment |-> p, from |-> seen, gross |-> gross,
                     tds |-> allocate(percentOf(payment[p].amount, TdsRate), gross)])

\* Fault: what the bookings cannot cover is dropped.
payPartly(t, p) ==
    /\ payment[p] # NULL /\ payment[p].status = "APPROVED"
    /\ SumSeq(GrossTakes(payment[p].amount)) > 0
    /\ StartPay(t, p, GrossTakes(payment[p].amount))
    /\ UNCHANGED <<config, milestones, brokerActive, collected, cancelled, snapshot, books,
                   payment, noc>>

\* pay: the takes must cover the amount; the TDS is shared out over them.
pay(t, p) ==
    /\ payment[p] # NULL /\ payment[p].status = "APPROVED"
    /\ SumSeq(GrossTakes(payment[p].amount)) = payment[p].amount
    /\ StartPay(t, p, GrossTakes(payment[p].amount))
    /\ UNCHANGED <<config, milestones, brokerActive, collected, cancelled, snapshot, books,
                   payment, noc>>

PayEntries(gross, tds) == [PAYMENT |-> tds - gross, TDS_WITHHELD |-> -tds]

CommitPay(t) ==
    LET a == args[t]
        at(b) == CHOOSE k \in DOMAIN a.from : a.from[k] = b
    IN  /\ pc[t] = "pay"
        /\ ledger' = [b \in Bookings |->
              IF b \in ToSet(a.from)
              THEN Post(ledger, b, PayEntries(a.gross[at(b)], a.tds[at(b)]))[b]
              ELSE ledger[b]]
        /\ payment' = [payment EXCEPT ![a.payment].status = "PAID"]
        /\ Finish(t)
        /\ UNCHANGED <<config, milestones, brokerActive, collected, cancelled, snapshot,
                       accrued, seen, noc>>

-----------------------------------------------------------------------------
(* NOC and cancellation.                                                   *)

ApprovedNoc(b) == \E n \in Nocs : noc[n] # NULL /\ noc[n] = [booking |-> b, status |-> "APPROVED"]

requestNoc(n, b) ==
    /\ "cancel" \in Ops
    /\ noc[n] = NULL
    /\ noc' = [noc EXCEPT ![n] = [booking |-> b, status |-> "REQUESTED"]]
    /\ UNCHANGED <<config, milestones, brokerActive, collected, cancelled, snapshot, books,
                   payment, pc, args>>

decideNoc(n, s) ==
    /\ noc[n] # NULL /\ noc[n].status = "REQUESTED"
    /\ noc' = [noc EXCEPT ![n].status = s]
    /\ UNCHANGED <<config, milestones, brokerActive, collected, cancelled, snapshot, books,
                   payment, pc, args>>

\* assertApprovedOrAutoApprove: an inactive broker's NOC is made up.
NocGate(b) ==
    \/ ApprovedNoc(b) /\ UNCHANGED noc
    \/ /\ ~ApprovedNoc(b) /\ ~brokerActive
       /\ \E n \in Nocs :
             /\ noc[n] = NULL
             /\ noc' = [noc EXCEPT ![n] = [booking |-> b, status |-> "APPROVED"]]

\* BookingController.cancel up to the clawback, with the bookings row held by its
\* update.  The NOC it may insert is visible only at commit; it is shown at once,
\* because nothing else of that booking reads it meanwhile.
cancelBooking(t, b) ==
    /\ "cancel" \in Ops
    /\ ~cancelled[b]
    /\ \A o \in Txs : pc[o] \in {"cancel", "clawback"} => args[o].booking # b
    /\ NocGate(b)
    /\ Start(t, "cancel", [booking |-> b])
    /\ UNCHANGED <<config, milestones, brokerActive, collected, cancelled, snapshot, books,
                   payment>>

NetPaid(b) == -ledger[b]["PAYMENT"]

\* Fault: only what is still unpaid is reversed.
HandleCancelledUnpaid(b) == [CLAWBACK_REVERSAL |-> -Balance(b)]

\* handleBookingCancelled: reverse what is outstanding and, under RECOVER, claim
\* back what was disbursed.  A write-off posts an entry of zero.
HandleCancelled(b) ==
    [CLAWBACK_REVERSAL |-> -Balance(b),
     CLAWBACK_RECOVERY |-> IF policy = "RECOVER" THEN -NetPaid(b) ELSE 0]

Clawback(t) ==
    /\ pc[t] = "cancel"
    /\ pc' = [pc EXCEPT ![t] = "clawback"]
    /\ args' = [args EXCEPT ![t] = [booking |-> @.booking,
                                    entries |-> HandleCancelled(@.booking)]]
    /\ UNCHANGED <<config, milestones, brokerActive, collected, cancelled, snapshot, books,
                   payment, noc>>

CommitCancel(t) ==
    LET b == args[t].booking IN
    /\ pc[t] = "clawback"
    /\ cancelled' = [cancelled EXCEPT ![b] = TRUE]
    /\ ledger' = Post(ledger, b, args[t].entries)
    /\ Finish(t)
    /\ UNCHANGED <<config, milestones, brokerActive, collected, snapshot, accrued, seen, payment,
                   noc>>

-----------------------------------------------------------------------------
(* The rest of the system.                                                 *)

\* BrokerCommissionRuleService.update: the milestones of a rule in use.
updateRule(list) ==
    /\ "updateRule" \in Ops
    /\ milestones' = list
    /\ UNCHANGED <<config, brokerActive, collected, cancelled, snapshot, books, payment, noc,
                   pc, args>>

\* deactivate and reactivate.
setBrokerActive(active) ==
    /\ "cancel" \in Ops
    /\ brokerActive # active
    /\ brokerActive' = active
    /\ UNCHANGED <<config, milestones, collected, cancelled, snapshot, books, payment, noc,
                   pc, args>>

\* Receipts clear and are reversed.
collect(b, percent) ==
    /\ "collect" \in Ops
    /\ percent # collected[b]
    /\ collected' = [collected EXCEPT ![b] = percent]
    /\ UNCHANGED <<config, milestones, brokerActive, cancelled, snapshot, books, payment, noc,
                   pc, args>>

Next ==
    \/ \E list \in MilestoneLists : updateRule(list)
    \/ \E active \in BOOLEAN : setBrokerActive(active)
    \/ \E b \in Bookings, n \in {0, 50, 100} : collect(b, n)
    \/ \E p \in Payments, n \in Amounts : requestPayment(p, n)
    \/ \E n \in Nocs : (\E b \in Bookings : requestNoc(n, b))
                       \/ (\E s \in {"APPROVED", "REJECTED"} : decideNoc(n, s))
    \/ \E t \in Txs :
          \/ \E b \in Bookings : accrueForBooking(t, b) \/ cancelBooking(t, b)
          \/ AccrueCheck(t)
          \/ AccrueInsert(t)
          \/ \E p \in Payments : \/ pay(t, p)
                                 \/ \E s \in {"APPROVED", "REJECTED"} : decidePayment(t, p, s)
          \/ CommitDecision(t)
          \/ CommitPay(t)
          \/ Clawback(t)
          \/ CommitCancel(t)

Spec == Init /\ [][Next]_vars

-----------------------------------------------------------------------------
(* What may overlap.  Nothing a handler reads is locked, so each property  *)
(* holds as long as certain overlaps do not occur; all others may.         *)

\* At most one of the handlers of a payment (approve, reject, pay) is under way.
OneHandlerPerPayment ==
    \A s, t \in Txs :
        s # t /\ {pc[s], pc[t]} \subseteq {"decide", "pay"} => args[s].payment # args[t].payment

\* The payment under way in t takes something from b.
Takes(t, b) ==
    pc[t] = "pay" /\ \E k \in DOMAIN args[t].from : args[t].from[k] = b /\ args[t].gross[k] > 0

\* No two payments under way take from one booking.
TakesApart == \A s, t \in Txs, b \in Bookings : Takes(s, b) /\ Takes(t, b) => s = t

\* Nothing is about to be posted to a booking whose clawback was computed.
ClawbackUndisturbed ==
    \A s, t \in Txs :
        pc[s] = "clawback" => /\ ~Takes(t, args[s].booking)
                              /\ pc[t] = "insert" => args[t].booking # args[s].booking

\* No two accruals are about to insert one milestone of one booking.
InsertsApart ==
    \A s, t \in Txs :
        s # t /\ pc[s] = "insert" /\ pc[t] = "insert" =>
            <<args[s].booking, Todo(s).m>> # <<args[t].booking, Todo(t).m>>

-----------------------------------------------------------------------------
(* Properties.                                                             *)

\* Repeating accrueForBooking posts a milestone at most once, and all accruals
\* of a booking together stay within the commission that was snapshotted for
\* it: a milestone list partitions the snapshot.
AccruedWithinSnapshot ==
    \A b \in Bookings :
        /\ \A m \in Percents : accrued[b][m] <= 1
        /\ ledger[b]["ACCRUAL"] <= (IF snapshot[b] = NULL THEN 0 ELSE snapshot[b])

\* What the ledger shows as paid or withheld is what the PAID payments amount
\* to: each of them left its cash once (pay).
LedgerMatchesPayments ==
    FoldFunction(+, 0, [b \in Bookings |-> -ledger[b]["PAYMENT"] - ledger[b]["TDS_WITHHELD"]])
    = FoldFunction(+, 0, [p \in {q \in Payments : payment[q] # NULL /\ payment[q].status = "PAID"}
                            |-> payment[p].amount])

\* A payment never takes more from a booking than it is owed, however many
\* requests were approved against the same balance.
NothingOverdrawn ==
    \A b \in Bookings : ~cancelled[b] => Balance(b) >= 0

\* A cancellation leaves the broker owing what was disbursed for that booking,
\* or nothing under WRITE_OFF, whatever was accrued, paid and withheld before.
CancelSettlesCommission ==
    [][\A b \in Bookings : ~cancelled[b] /\ cancelled'[b] =>
          Balance(b)' = (IF policy = "RECOVER" THEN -NetPaid(b) ELSE 0)]_vars

\* Not kept by the code (README.md, Known divergences): commission is never owed
\* for a booking that was cancelled.
NothingOwedAfterCancel ==
    \A b \in Bookings : cancelled[b] => Balance(b) <= 0
=============================================================================
