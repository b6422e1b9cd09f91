------------------------------ MODULE BookingTx ------------------------------
(***************************************************************************)
(* The booking lifecycle of one company as PostgreSQL runs it: every       *)
(* handler is one READ COMMITTED transaction (withTenantTx), executed      *)
(* statement by statement, interleaved with every other.                   *)
(*                                                                         *)
(* A statement that reads sees the committed row or this transaction's own *)
(* write.  A statement that writes a row waits until no other transaction  *)
(* has an uncommitted write on it, then overwrites it (every UPDATE here   *)
(* is "where id = ...": it does not test the status again).  The upsert on *)
(* number_sequences locks the counter of its financial year until the      *)
(* transaction ends.  A transaction may fail at any statement: a timeout,  *)
(* a deadlock victim, a lost connection, a later exception; nothing it     *)
(* wrote survives.                                                         *)
(***************************************************************************)
EXTENDS Naturals, Sequences, UnitStateMachine

CONSTANTS Units,      \* units of the company
          Bookings,   \* identifiers for booking rows (bounds how many are made)
          FYs,        \* financial years a booking date may fall in
          Txs,        \* database connections: transactions open at one time
          Ops,        \* the operations the environment requests
          NULL        \* SQL NULL

Row == [status : BOOKING_STATUS, unit : Units, fy : FYs, seq : Nat]

ASSUME TxAssumption ==
    /\ NULL \notin Units \cup Bookings \cup FYs \cup Txs \cup UnitStatus
    /\ NULL \notin Row
    /\ Ops \subseteq {"create", "advance", "cancel", "transferUnit",
                      "transferApplicant", "manual"}

VARIABLES
    unit,       \* committed units.status
    booking,    \* committed bookings rows, NULL where there is none
    nextValue,  \* committed number_sequences.next_value of kind BOOKING
    pc,         \* the statement each transaction executes next
    req,        \* the request it serves
    num,        \* the number it has allocated, 0 before
    moves,      \* the unit transitions it still has to make
    wUnit,      \* its uncommitted unit statuses, NULL where it wrote none
    wBooking    \* its uncommitted booking rows, NULL where it wrote none

vars == <<unit, booking, nextValue, pc, req, num, moves, wUnit, wBooking>>

Request(op, u, b, to, f) == [op |-> op, unit |-> u, booking |-> b, to |-> to, fy |-> f]

NoRequest == Request(NULL, NULL, NULL, NULL, NULL)

TypeOK ==
    /\ unit \in [Units -> UnitStatus]
    /\ booking \in [Bookings -> Row \cup {NULL}]
    /\ nextValue \in [FYs -> Nat \ {0}]
    /\ pc \in [Txs -> {"idle", "checkUnit", "writeBooking", "cancelUnit",
                       "allocate", "readUnit", "writeUnit", "commit"}]
    /\ req \in [Txs -> [op : Ops \cup {NULL}, unit : Units \cup {NULL},
                        booking : Bookings \cup {NULL},
                        to : UnitStatus \cup BOOKING_STATUS \cup {NULL},
                        fy : FYs \cup {NULL}]]
    /\ num \in [Txs -> Nat]
    /\ moves \in [Txs -> Seq(Units \X UnitStatus)]
    /\ wUnit \in [Txs -> [Units -> UnitStatus \cup {NULL}]]
    /\ wBooking \in [Txs -> [Bookings -> Row \cup {NULL}]]

Init ==
    /\ unit = [u \in Units |-> "AVAILABLE"]
    /\ booking = [b \in Bookings |-> NULL]
    /\ nextValue = [f \in FYs |-> 1]
    /\ pc = [t \in Txs |-> "idle"]
    /\ req = [t \in Txs |-> NoRequest]
    /\ num = [t \in Txs |-> 0]
    /\ moves = [t \in Txs |-> <<>>]
    /\ wUnit = [t \in Txs |-> [u \in Units |-> NULL]]
    /\ wBooking = [t \in Txs |-> [b \in Bookings |-> NULL]]

-----------------------------------------------------------------------------
(* What a statement of transaction t sees and what it must wait for.       *)

UnitSeen(t, u) == IF wUnit[t][u] # NULL THEN wUnit[t][u] ELSE unit[u]

UnitRowFree(t, u)    == \A o \in Txs \ {t} : wUnit[o][u] = NULL
BookingRowFree(t, b) == \A o \in Txs \ {t} : wBooking[o][b] = NULL
\* Fault: the counter is read and written without holding its row lock.
CounterUnlocked(t, f) == TRUE

CounterFree(t, f) == \A o \in Txs \ {t} : num[o] = 0 \/ req[o].fy # f

Goto(t, label) == pc' = [pc EXCEPT ![t] = label]

\* Open a transaction for request r whose unit transitions will be m.
Begin(t, r, m, label) ==
    /\ pc[t] = "idle"
    /\ r.op \in Ops
    /\ req' = [req EXCEPT ![t] = r]
    /\ moves' = [moves EXCEPT ![t] = m]
    /\ Goto(t, label)
    /\ UNCHANGED <<unit, booking, nextValue, num, wUnit, wBooking>>

\* The transaction ends; its connection is idle and its locks are released.
End(t) ==
    /\ Goto(t, "idle")
    /\ req' = [req EXCEPT ![t] = NoRequest]
    /\ num' = [num EXCEPT ![t] = 0]
    /\ moves' = [moves EXCEPT ![t] = <<>>]
    /\ wUnit' = [wUnit EXCEPT ![t] = [u \in Units |-> NULL]]
    /\ wBooking' = [wBooking EXCEPT ![t] = [b \in Bookings |-> NULL]]

-----------------------------------------------------------------------------
(* First statements: the reads on which each handler decides.              *)

\* createBooking: the unit must be AVAILABLE or HELD.
createBooking(t, u, f) ==
    /\ unit[u] \in BOOKABLE_FROM
    /\ Begin(t, Request("create", u, NULL, NULL, f),
             << <<u, "BOOKED">> >>, "allocate")

\* allot / register.
advance(t, b, to) ==
    /\ booking[b] # NULL
    /\ booking[b].status = ExpectedFrom[to]
    /\ Begin(t, Request("advance", NULL, b, to, NULL),
             << <<booking[b].unit, to>> >>, "writeBooking")

\* cancel, as CANCELLATION or SURRENDER.
cancel(t, b, to) ==
    /\ booking[b] # NULL
    /\ booking[b].status \in CANCELLABLE_FROM
    /\ Begin(t, Request("cancel", NULL, b, to, NULL),
             <<>>, "writeBooking")

\* transfer of type UNIT: the destination unit is read by the next statement.
transferUnit(t, b, u, f) ==
    /\ booking[b] # NULL
    /\ booking[b].status \in TRANSFERABLE_FROM
    /\ Begin(t, Request("transferUnit", u, b, "TRANSFERRED_OUT", f),
             << <<booking[b].unit, "CANCELLED">>,
                <<booking[b].unit, "AVAILABLE">>,
                <<u, "BOOKED">> >>, "checkUnit")

\* Fault: the source booking is not marked TRANSFERRED_OUT.
transferApplicantLeavesSource(t, b, f) ==
    /\ booking[b] # NULL
    /\ booking[b].status \in TRANSFERABLE_FROM
    /\ Begin(t, Request("transferApplicant", booking[b].unit, b, "TRANSFERRED_OUT", f),
             <<>>, "allocate")

\* transfer of type APPLICANT keeps the unit as it is.
transferApplicant(t, b, f) ==
    /\ booking[b] # NULL
    /\ booking[b].status \in TRANSFERABLE_FROM
    /\ Begin(t, Request("transferApplicant", booking[b].unit, b, "TRANSFERRED_OUT", f),
             <<>>, "writeBooking")

\* The manual transition endpoint: a hold, a block or a release.
manualTransition(t, u, to) ==
    /\ to \notin SYSTEM_ONLY_TARGET_STATUSES
    /\ Begin(t, Request("manual", u, NULL, to, NULL),
             << <<u, to>> >>, "readUnit")

-----------------------------------------------------------------------------
(* The statements that follow.                                             *)

\* transfer: the destination must be AVAILABLE or HELD.
CheckUnit(t) ==
    /\ pc[t] = "checkUnit"
    /\ UnitSeen(t, req[t].unit) \in BOOKABLE_FROM
    /\ Goto(t, "writeBooking")
    /\ UNCHANGED <<unit, booking, nextValue, req, num, moves, wUnit, wBooking>>

\* booking.update({ where: { id }, data: { status } }).
WriteBooking(t) ==
    LET b == req[t].booking IN
    /\ pc[t] = "writeBooking"
    /\ BookingRowFree(t, b)
    /\ wBooking' = [wBooking EXCEPT ![t][b] =
           [status |-> req[t].to, unit |-> booking[b].unit,
            fy |-> booking[b].fy, seq |-> booking[b].seq]]
    /\ Goto(t, IF req[t].op = "advance" THEN "readUnit"
               ELSE IF req[t].op = "cancel" THEN "cancelUnit"
               ELSE "allocate")
    /\ UNCHANGED <<unit, booking, nextValue, req, num, moves, wUnit>>

\* cancel reads the unit and walks it back to AVAILABLE unless it is there.
CancelUnit(t) ==
    LET u == booking[req[t].booking].unit
        s == UnitSeen(t, u)
    IN  /\ pc[t] = "cancelUnit"
        /\ moves' = [moves EXCEPT ![t] =
                        IF s = "AVAILABLE" THEN <<>>
                        ELSE IF s = "CANCELLED" THEN << <<u, "AVAILABLE">> >>
                        ELSE << <<u, "CANCELLED">>, <<u, "AVAILABLE">> >>]
        /\ Goto(t, IF s = "AVAILABLE" THEN "commit" ELSE "readUnit")
        /\ UNCHANGED <<unit, booking, nextValue, req, num, wUnit, wBooking>>

\* NumberSequenceService.allocateForFy: one upsert, which waits for the row
\* lock and then sees the latest committed counter; the booking row carrying
\* the number is inserted next, under an identifier nobody uses.
Allocate(t) ==
    LET f == req[t].fy IN
    /\ pc[t] = "allocate"
    /\ CounterFree(t, f)
    /\ num' = [num EXCEPT ![t] = nextValue[f]]
    /\ \E b \in Bookings :
          /\ booking[b] = NULL
          /\ BookingRowFree(t, b)
          /\ wBooking' = [wBooking EXCEPT ![t][b] =
                [status |-> "BOOKED", unit |-> req[t].unit, fy |-> f, seq |-> nextValue[f]]]
    /\ Goto(t, IF moves[t] = <<>> THEN "commit" ELSE "readUnit")
    /\ UNCHANGED <<unit, booking, nextValue, req, moves, wUnit>>

\* UnitStateMachineService.transition, first statement: the unit's status now,
\* and the table's verdict on it.
ReadUnit(t) ==
    /\ pc[t] = "readUnit"
    /\ isValidTransition(UnitSeen(t, Head(moves[t])[1]), Head(moves[t])[2])
    /\ Goto(t, "writeUnit")
    /\ UNCHANGED <<unit, booking, nextValue, req, num, moves, wUnit, wBooking>>

\* transition, second statement: overwrite the status.
WriteUnit(t) ==
    LET u == Head(moves[t])[1]
        s == Head(moves[t])[2]
    IN  /\ pc[t] = "writeUnit"
        /\ UnitRowFree(t, u)
        /\ wUnit' = [wUnit EXCEPT ![t][u] = s]
        /\ moves' = [moves EXCEPT ![t] = Tail(moves[t])]
        /\ Goto(t, IF Len(moves[t]) = 1 THEN "commit" ELSE "readUnit")
        /\ UNCHANGED <<unit, booking, nextValue, req, num, wBooking>>

Commit(t) ==
    /\ pc[t] = "commit"
    /\ unit' = [u \in Units |-> UnitSeen(t, u)]
    /\ booking' = [b \in Bookings |->
                     IF wBooking[t][b] # NULL THEN wBooking[t][b] ELSE booking[b]]
    /\ nextValue' = [f \in FYs |-> IF num[t] # 0 /\ req[t].fy = f
                                   THEN nextValue[f] + 1 ELSE nextValue[f]]
    /\ End(t)

\* Fault: the counter is advanced in a transaction of its own, so a caller that
\* rolls back has used its number up.
RollbackKeepsNumber(t) ==
    /\ pc[t] # "idle"
    /\ End(t)
    /\ nextValue' = [f \in FYs |-> IF num[t] # 0 /\ req[t].fy = f
                                   THEN nextValue[f] + 1 ELSE nextValue[f]]
    /\ UNCHANGED <<unit, booking>>

\* An exception or a failure at any statement rolls the transaction back.
Rollback(t) ==
    /\ pc[t] # "idle"
    /\ End(t)
    /\ UNCHANGED <<unit, booking, nextValue>>

Next ==
    \E t \in Txs :
        \/ \E u \in Units, f \in FYs : createBooking(t, u, f)
        \/ \E b \in Bookings, to \in {"ALLOTTED", "REGISTERED"} : advance(t, b, to)
        \/ \E b \in Bookings, to \in {"CANCELLED", "SURRENDERED"} : cancel(t, b, to)
        \/ \E b \in Bookings, u \in Units, f \in FYs : transferUnit(t, b, u, f)
        \/ \E b \in Bookings, f \in FYs : transferApplicant(t, b, f)
        \/ \E u \in Units, to \in UnitStatus : manualTransition(t, u, to)
        \/ CheckUnit(t)
        \/ WriteBooking(t)
        \/ CancelUnit(t)
        \/ Allocate(t)
        \/ ReadUnit(t)
        \/ WriteUnit(t)
        \/ Commit(t)
        \/ Rollback(t)

Spec == Init /\ [][Next]_vars

-----------------------------------------------------------------------------
(* What may overlap.                                                       *)

\* The units that the request of t is about: the one it names and that of its booking.
Concerns(t) == {u \in Units : \/ req[t].unit = u
                              \/ req[t].booking # NULL /\ booking[req[t].booking].unit = u}

\* No two open transactions are about one unit.
UnitsApart == \A s, t \in Txs : s # t => Concerns(s) \cap Concerns(t) = {}

-----------------------------------------------------------------------------
(* Properties.                                                             *)

Committed(f) == {b \in Bookings : booking[b] # NULL /\ booking[b].fy = f}

LiveOn(u) == {b \in Bookings : /\ booking[b] # NULL
                               /\ booking[b].unit = u
                               /\ booking[b].status \in LiveStatus}

\* Booking numbers of a financial year are exactly 1, 2, ..., n with none
\* missing, whatever transactions interleave and wherever they roll back: the
\* counter shares the transaction of the row it numbers
\* (NumberSequenceService.allocate).
GapFreeNumbers ==
    \A f \in FYs : {booking[b].seq : b \in Committed(f)} = 1 .. (nextValue[f] - 1)

\* No two committed bookings carry one number, and a number that an open
\* transaction has taken is carried by no committed booking: the unique index
\* on (company, booking_number) never has to refuse an insert.
UniqueNumbers ==
    \A f \in FYs :
        /\ \A b, c \in Committed(f) : booking[b].seq = booking[c].seq => b = c
        /\ \A t \in Txs : req[t].fy = f /\ num[t] # 0 =>
              /\ \A b \in Committed(f) : booking[b].seq # num[t]
              /\ \A o \in Txs \ {t} : req[o].fy = f => num[o] # num[t]

\* At most one live booking occupies a unit, and the unit is in a
\* booking-lifecycle status exactly when one does: it is on sale, held or
\* blocked exactly when none does (createBooking, transfer, cancel and the
\* manual endpoint between them).
UnitOccupiedByBooking ==
    \A u \in Units :
        /\ \A b, c \in LiveOn(u) : b = c
        /\ (LiveOn(u) # {}) <=> (unit[u] \in LiveStatus)

\* Not kept by transferApplicant (README.md, Known divergences): a unit's status
\* is that of the live booking that occupies it.
UnitMirrorsBooking ==
    \A u \in Units : \A b \in LiveOn(u) : unit[u] = booking[b].status

\* A booking that takes a unit finds it AVAILABLE or HELD when it commits
\* (createBooking and transfer refuse any other unit).
OnlyBookableUnitsAreBooked ==
    [][\A t \in Txs : Commit(t) /\ req[t].op \in {"create", "transferUnit"}
          => unit[req[t].unit] \in BOOKABLE_FROM]_vars

\* What the register shows of a booking row.
Entered(b) ==
    IF booking[b] = NULL THEN NULL ELSE [series |-> booking[b].fy, seq |-> booking[b].seq]

Register ==
    INSTANCE NumberRegister
    WITH Items <- Bookings, Series <- FYs, NoEntry <- NULL,
         entry <- [b \in Bookings |-> Entered(b)], next <- nextValue

\* Read committed, the bookings are a gap-free number register: every interleaving
\* of statements, row locks and rollbacks shows as one entry at a time with the
\* next number of its year, and no later operation renumbers, redates or removes
\* one (NumberSequenceService.allocate inside the caller's transaction).
ImplementsRegister == Register!RegisterSpec

\* Not kept by the code (README.md, Known divergences): a cancellation that passed
\* CANCELLABLE_FROM is not refused by the unit state machine afterwards.
CancellableIsCancelled ==
    \A t \in Txs : pc[t] = "readUnit" /\ req[t].op = "cancel" =>
        isValidTransition(UnitSeen(t, Head(moves[t])[1]), Head(moves[t])[2])
=============================================================================
