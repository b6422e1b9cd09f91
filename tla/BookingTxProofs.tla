--------------------------- MODULE BookingTxProofs ---------------------------
(***************************************************************************)
(* Bookings, for every set of units, years and concurrent transactions.    *)
(* Booking numbers are unique and contiguous: the transactions implement   *)
(* NumberRegister.  A unit is occupied by at most one live booking, and by *)
(* the one its status tells of, when bookings are made within one financial*)
(* year, or when no two transactions that are open are about one unit.     *)
(***************************************************************************)
EXTENDS BookingTx, SequenceTheorems, TLAPS

\* Transaction t has written no booking row.
Clean(t) == num[t] = 0 /\ \A b \in Bookings : wBooking[t][b] = NULL

\* What each label says of the transaction that stands at it.
LabelInv ==
    \A t \in Txs :
        /\ pc[t] = "idle" => Clean(t)
        /\ pc[t] \in {"checkUnit", "writeBooking"} =>
              /\ Clean(t)
              /\ req[t].booking \in Bookings /\ booking[req[t].booking] # NULL
              /\ req[t].to \in BOOKING_STATUS
              /\ req[t].op \in {"advance", "cancel"} \/ (req[t].unit \in Units /\ req[t].fy \in FYs)
              /\ req[t].op = "advance" => moves[t] # <<>>
        /\ pc[t] = "checkUnit" => req[t].op = "transferUnit"
        /\ pc[t] = "cancelUnit" =>
              req[t].booking \in Bookings /\ booking[req[t].booking] # NULL
        /\ pc[t] = "allocate" =>
              /\ num[t] = 0
              /\ req[t].unit \in Units /\ req[t].fy \in FYs
              /\ \A b \in Bookings : wBooking[t][b] # NULL => booking[b] # NULL
        /\ pc[t] \in {"readUnit", "writeUnit"} => moves[t] # <<>>

\* An open transaction that took a number holds its year's counter alone and
\* took the counter's committed value.
CounterInv ==
    \A t \in Txs : num[t] # 0 =>
        /\ req[t].fy \in FYs
        /\ num[t] = nextValue[req[t].fy]
        /\ \A o \in Txs \ {t} : num[o] # 0 => req[o].fy # req[t].fy

\* An uncommitted row either updates a committed one and keeps its number, or
\* is the one new row that carries the number its transaction took.
OverlayInv ==
    /\ \A t \in Txs, b \in Bookings : wBooking[t][b] # NULL =>
          /\ \A o \in Txs \ {t} : wBooking[o][b] = NULL
          /\ booking[b] # NULL => /\ wBooking[t][b].fy = booking[b].fy
                                  /\ wBooking[t][b].seq = booking[b].seq
          /\ booking[b] = NULL => /\ num[t] # 0
                                  /\ wBooking[t][b].fy = req[t].fy
                                  /\ wBooking[t][b].seq = num[t]
    /\ \A t \in Txs : num[t] # 0 =>
          \E b \in Bookings : wBooking[t][b] # NULL /\ booking[b] = NULL
    /\ \A t \in Txs, b, c \in Bookings :
          /\ wBooking[t][b] # NULL /\ booking[b] = NULL
          /\ wBooking[t][c] # NULL /\ booking[c] = NULL
          => b = c

\* The committed numbers of a year fill 1 .. next-1, each used once.
NumbersInv ==
    /\ \A b \in Bookings : booking[b] # NULL =>
          booking[b].seq \in 1 .. (nextValue[booking[b].fy] - 1)
    /\ \A f \in FYs : \A n \in 1 .. (nextValue[f] - 1) :
          \E b \in Bookings : booking[b] # NULL /\ booking[b].fy = f /\ booking[b].seq = n
    /\ \A b, c \in Bookings :
          /\ booking[b] # NULL /\ booking[c] # NULL
          /\ booking[b].fy = booking[c].fy /\ booking[b].seq = booking[c].seq
          => b = c

IInv == TypeOK /\ LabelInv /\ CounterInv /\ OverlayInv /\ NumbersInv

-----------------------------------------------------------------------------
(* The initial state.                                                      *)

\* No transaction is open, no row exists and every counter stands at 1.
LEMMA InitIInv == Init => IInv
  <1> SUFFICES ASSUME Init PROVE IInv
    OBVIOUS
  <1>1. TypeOK
    BY DEF Init, TypeOK, NoRequest, Request, UnitStatus
  <1>2. LabelInv
    BY DEF Init, LabelInv, Clean
  <1>3. CounterInv
    BY DEF Init, CounterInv
  <1>4. OverlayInv
    BY DEF Init, OverlayInv
  <1>5. NumbersInv
    BY DEF Init, NumbersInv
  <1> QED
    BY <1>1, <1>2, <1>3, <1>4, <1>5 DEF IInv

-----------------------------------------------------------------------------
(* Type correctness, one step per action.                                  *)

\* A transaction that opens for a well-formed request keeps the types.
LEMMA BeginType ==
    ASSUME TypeOK, NEW t \in Txs, NEW r, NEW m, NEW label,
           Begin(t, r, m, label),
           r \in [op : Ops \cup {NULL}, unit : Units \cup {NULL},
                  booking : Bookings \cup {NULL},
                  to : UnitStatus \cup BOOKING_STATUS \cup {NULL},
                  fy : FYs \cup {NULL}],
           m \in Seq(Units \X UnitStatus),
           label \in {"checkUnit", "writeBooking", "allocate", "readUnit"}
    PROVE  TypeOK'
  BY DEF TypeOK, Begin, Goto

\* A transaction that ends keeps the types of what belongs to it.
LEMMA EndType ==
    ASSUME TypeOK, NEW t \in Txs, End(t)
    PROVE  /\ pc' \in [Txs -> {"idle", "checkUnit", "writeBooking", "cancelUnit",
                               "allocate", "readUnit", "writeUnit", "commit"}]
           /\ req' \in [Txs -> [op : Ops \cup {NULL}, unit : Units \cup {NULL},
                                booking : Bookings \cup {NULL},
                                to : UnitStatus \cup BOOKING_STATUS \cup {NULL},
                                fy : FYs \cup {NULL}]]
           /\ num' \in [Txs -> Nat]
           /\ moves' \in [Txs -> Seq(Units \X UnitStatus)]
           /\ wUnit' \in [Txs -> [Units -> UnitStatus \cup {NULL}]]
           /\ wBooking' \in [Txs -> [Bookings -> Row \cup {NULL}]]
  <1>1. NoRequest \in [op : Ops \cup {NULL}, unit : Units \cup {NULL},
                       booking : Bookings \cup {NULL},
                       to : UnitStatus \cup BOOKING_STATUS \cup {NULL},
                       fy : FYs \cup {NULL}]
    BY DEF NoRequest, Request
  <1> QED
    BY <1>1 DEF TypeOK, End, Goto

LEMMA NextType == IInv /\ [Next]_vars => TypeOK'
  <1> SUFFICES ASSUME IInv, [Next]_vars PROVE TypeOK'
    OBVIOUS
  <1>0. TypeOK /\ LabelInv
    BY DEF IInv
  <1>t. ASSUME NEW b \in Bookings, booking[b] # NULL
        PROVE  /\ booking[b] \in Row /\ booking[b].unit \in Units
               /\ booking[b].fy \in FYs /\ booking[b].seq \in Nat
    BY <1>0, <1>t DEF TypeOK, Row
  <1>1. ASSUME NEW t \in Txs, NEW u \in Units, NEW f \in FYs, createBooking(t, u, f)
        PROVE  TypeOK'
    <2> DEFINE r == Request("create", u, NULL, NULL, f)
    <2>1. r.op \in Ops /\ r.op = "create"
      BY <1>1 DEF createBooking, Begin, Request
    <2>2. r \in [op : Ops \cup {NULL}, unit : Units \cup {NULL},
                  booking : Bookings \cup {NULL},
                  to : UnitStatus \cup BOOKING_STATUS \cup {NULL},
                  fy : FYs \cup {NULL}]
      BY <2>1 DEF Request
    <2>3. << <<u, "BOOKED">> >> \in Seq(Units \X UnitStatus)
      BY DEF UnitStatus
    <2> QED
      BY <1>0, <1>1, <2>2, <2>3, BeginType DEF createBooking
  <1>2. ASSUME NEW t \in Txs, NEW b \in Bookings, NEW to \in {"ALLOTTED", "REGISTERED"},
               advance(t, b, to)
        PROVE  TypeOK'
    <2> DEFINE r == Request("advance", NULL, b, to, NULL)
    <2>1. r.op \in Ops /\ r.op = "advance"
      BY <1>2 DEF advance, Begin, Request
    <2>2. r \in [op : Ops \cup {NULL}, unit : Units \cup {NULL},
                  booking : Bookings \cup {NULL},
                  to : UnitStatus \cup BOOKING_STATUS \cup {NULL},
                  fy : FYs \cup {NULL}]
      BY <2>1 DEF Request, UnitStatus
    <2>3. << <<booking[b].unit, to>> >> \in Seq(Units \X UnitStatus)
      BY <1>2, <1>t DEF UnitStatus, advance
    <2> QED
      BY <1>0, <1>2, <2>2, <2>3, BeginType DEF advance
  <1>3. ASSUME NEW t \in Txs, NEW b \in Bookings, NEW to \in {"CANCELLED", "SURRENDERED"},
               cancel(t, b, to)
        PROVE  TypeOK'
    <2> DEFINE r == Request("cancel", NULL, b, to, NULL)
    <2>1. r.op \in Ops /\ r.op = "cancel"
      BY <1>3 DEF cancel, Begin, Request
    <2>2. r \in [op : Ops \cup {NULL}, unit : Units \cup {NULL},
                  booking : Bookings \cup {NULL},
                  to : UnitStatus \cup BOOKING_STATUS \cup {NULL},
                  fy : FYs \cup {NULL}]
      BY <2>1 DEF Request, BOOKING_STATUS
    <2>3. <<>> \in Seq(Units \X UnitStatus)
      OBVIOUS
    <2> QED
      BY <1>0, <1>3, <2>2, <2>3, BeginType DEF cancel
  <1>4. ASSUME NEW t \in Txs, NEW b \in Bookings, NEW u \in Units, NEW f \in FYs,
               transferUnit(t, b, u, f)
        PROVE  TypeOK'
    <2> DEFINE r == Request("transferUnit", u, b, "TRANSFERRED_OUT", f)
    <2>1. r.op \in Ops /\ r.op = "transferUnit"
      BY <1>4 DEF transferUnit, Begin, Request
    <2>2. r \in [op : Ops \cup {NULL}, unit : Units \cup {NULL},
                  booking : Bookings \cup {NULL},
                  to : UnitStatus \cup BOOKING_STATUS \cup {NULL},
                  fy : FYs \cup {NULL}]
      BY <2>1 DEF Request, BOOKING_STATUS
    <2>3. << <<booking[b].unit, "CANCELLED">>, <<booking[b].unit, "AVAILABLE">>,
             <<u, "BOOKED">> >> \in Seq(Units \X UnitStatus)
      BY <1>4, <1>t DEF UnitStatus, transferUnit
    <2> QED
      BY <1>0, <1>4, <2>2, <2>3, BeginType DEF transferUnit
  <1>5. ASSUME NEW t \in Txs, NEW b \in Bookings, NEW f \in FYs, transferApplicant(t, b, f)
        PROVE  TypeOK'
    <2> DEFINE r == Request("transferApplicant", booking[b].unit, b, "TRANSFERRED_OUT", f)
    <2>1. r.op \in Ops /\ r.op = "transferApplicant"
      BY <1>5 DEF transferApplicant, Begin, Request
    <2>2. r \in [op : Ops \cup {NULL}, unit : Units \cup {NULL},
                  booking : Bookings \cup {NULL},
                  to : UnitStatus \cup BOOKING_STATUS \cup {NULL},
                  fy : FYs \cup {NULL}]
      BY <2>1, <1>5, <1>t DEF Request, BOOKING_STATUS, transferApplicant
    <2>3. <<>> \in Seq(Units \X UnitStatus)
      OBVIOUS
    <2> QED
      BY <1>0, <1>5, <2>2, <2>3, BeginType DEF transferApplicant
  <1>6. ASSUME NEW t \in Txs, NEW u \in Units, NEW to \in UnitStatus, manualTransition(t, u, to)
        PROVE  TypeOK'
    <2> DEFINE r == Request("manual", u, NULL, to, NULL)
    <2>1. r.op \in Ops /\ r.op = "manual"
      BY <1>6 DEF manualTransition, Begin, Request
    <2>2. r \in [op : Ops \cup {NULL}, unit : Units \cup {NULL},
                  booking : Bookings \cup {NULL},
                  to : UnitStatus \cup BOOKING_STATUS \cup {NULL},
                  fy : FYs \cup {NULL}]
      BY <2>1 DEF Request
    <2>3. << <<u, to>> >> \in Seq(Units \X UnitStatus)
      OBVIOUS
    <2> QED
      BY <1>0, <1>6, <2>2, <2>3, BeginType DEF manualTransition
  <1>7. ASSUME NEW t \in Txs, CheckUnit(t) PROVE TypeOK'
    BY <1>0, <1>7 DEF TypeOK, CheckUnit, Goto
  <1>8. ASSUME NEW t \in Txs, WriteBooking(t) PROVE TypeOK'
    <2> DEFINE b == req[t].booking
               row == [status |-> req[t].to, unit |-> booking[b].unit,
                       fy |-> booking[b].fy, seq |-> booking[b].seq]
    <2>1. b \in Bookings /\ booking[b] # NULL /\ req[t].to \in BOOKING_STATUS
      BY <1>0, <1>8 DEF LabelInv, WriteBooking
    <2>2. row \in Row
      BY <2>1, <1>t DEF Row
    <2>3. wBooking' \in [Txs -> [Bookings -> Row \cup {NULL}]]
      BY <1>0, <1>8, <2>2 DEF TypeOK, WriteBooking
    <2> QED
      BY <1>0, <1>8, <2>3 DEF TypeOK, WriteBooking, Goto
  <1>9. ASSUME NEW t \in Txs, CancelUnit(t) PROVE TypeOK'
    <2> DEFINE u == booking[req[t].booking].unit
    <2>1. u \in Units
      BY <1>0, <1>9, <1>t DEF LabelInv, CancelUnit
    <2>2. /\ <<>> \in Seq(Units \X UnitStatus)
          /\ << <<u, "AVAILABLE">> >> \in Seq(Units \X UnitStatus)
          /\ << <<u, "CANCELLED">>, <<u, "AVAILABLE">> >> \in Seq(Units \X UnitStatus)
      BY <2>1 DEF UnitStatus
    <2> QED
      BY <1>0, <1>9, <2>2 DEF TypeOK, CancelUnit, Goto
  <1>10. ASSUME NEW t \in Txs, Allocate(t) PROVE TypeOK'
    <2> DEFINE f == req[t].fy
    <2>1. f \in FYs /\ req[t].unit \in Units
      BY <1>0, <1>10 DEF LabelInv, Allocate
    <2>2. nextValue[f] \in Nat
      BY <1>0, <2>1 DEF TypeOK
    <2>3. [status |-> "BOOKED", unit |-> req[t].unit, fy |-> f, seq |-> nextValue[f]] \in Row
      BY <2>1, <2>2 DEF Row, BOOKING_STATUS
    <2>4. wBooking' \in [Txs -> [Bookings -> Row \cup {NULL}]]
      BY <1>0, <1>10, <2>3 DEF TypeOK, Allocate
    <2> QED
      BY <1>0, <1>10, <2>2, <2>4 DEF TypeOK, Allocate, Goto
  <1>11. ASSUME NEW t \in Txs, ReadUnit(t) PROVE TypeOK'
    BY <1>0, <1>11 DEF TypeOK, ReadUnit, Goto
  <1>12. ASSUME NEW t \in Txs, WriteUnit(t) PROVE TypeOK'
    <2>1. moves[t] # <<>> /\ moves[t] \in Seq(Units \X UnitStatus)
      BY <1>0, <1>12 DEF LabelInv, WriteUnit, TypeOK
    <2>2. Head(moves[t]) \in Units \X UnitStatus /\ Tail(moves[t]) \in Seq(Units \X UnitStatus)
      BY <2>1
    <2> QED
      BY <1>0, <1>12, <2>2 DEF TypeOK, WriteUnit, Goto
  <1>13. ASSUME NEW t \in Txs, Commit(t) PROVE TypeOK'
    <2>1. unit' \in [Units -> UnitStatus]
      BY <1>0, <1>13 DEF TypeOK, Commit, UnitSeen
    <2>2. booking' \in [Bookings -> Row \cup {NULL}]
      BY <1>0, <1>13 DEF TypeOK, Commit
    <2>3. nextValue' \in [FYs -> Nat \ {0}]
      BY <1>0, <1>13 DEF TypeOK, Commit
    <2> QED
      BY <1>0, <1>13, <2>1, <2>2, <2>3, EndType DEF TypeOK, Commit
  <1>14. ASSUME NEW t \in Txs, Rollback(t) PROVE TypeOK'
    BY <1>0, <1>14, EndType DEF TypeOK, Rollback
  <1>15. CASE UNCHANGED vars
    BY <1>0, <1>15 DEF TypeOK, vars
  <1> QED
    BY <1>1, <1>2, <1>3, <1>4, <1>5, <1>6, <1>7, <1>8, <1>9, <1>10, <1>11, <1>12,
       <1>13, <1>14, <1>15 DEF Next

-----------------------------------------------------------------------------
(* Opening a transaction disturbs no number.                               *)

\* The one disjunct of Next that a request starts with.
Opens(t) ==
    \/ \E u \in Units, f \in FYs : createBooking(t, u, f)
    \/ \E b \in Bookings, to \in {"ALLOTTED", "REGISTERED"} : advance(t, b, to)
    \/ \E b \in Bookings, to \in {"CANCELLED", "SURRENDERED"} : cancel(t, b, to)
    \/ \E b \in Bookings, u \in Units, f \in FYs : transferUnit(t, b, u, f)
    \/ \E b \in Bookings, f \in FYs : transferApplicant(t, b, f)
    \/ \E u \in Units, to \in UnitStatus : manualTransition(t, u, to)

\* What opening a transaction for t does, whichever handler it is for.
Opened(t) ==
    /\ UNCHANGED <<unit, booking, nextValue, num, wUnit, wBooking>>
    /\ pc[t] = "idle"
    /\ \A o \in Txs \ {t} : /\ pc'[o] = pc[o] /\ req'[o] = req[o]
                            /\ moves'[o] = moves[o]
    /\ pc'[t] \in {"allocate", "checkUnit", "writeBooking", "readUnit"}
    /\ pc'[t] = "allocate" => req'[t].unit \in Units /\ req'[t].fy \in FYs
    /\ pc'[t] = "readUnit" => moves'[t] # <<>>
    /\ pc'[t] \in {"checkUnit", "writeBooking"} =>
          /\ req'[t].booking \in Bookings /\ booking[req'[t].booking] # NULL
          /\ req'[t].to \in BOOKING_STATUS
          /\ \/ req'[t].op \in {"advance", "cancel"}
             \/ req'[t].unit \in Units /\ req'[t].fy \in FYs
          /\ req'[t].op = "advance" => moves'[t] # <<>>
    /\ pc'[t] = "checkUnit" => req'[t].op = "transferUnit"

\* Whatever handler opens, only t's request, plan of moves and label change,
\* and the label's promise holds of them.
LEMMA OpensEffect ==
    ASSUME IInv, NEW t \in Txs, Opens(t)
    PROVE  Opened(t)
  <1> USE DEF IInv, TypeOK, Begin, Goto, Request, Opened
  <1>1. ASSUME NEW u \in Units, NEW f \in FYs, createBooking(t, u, f)
        PROVE  Opened(t)
    BY <1>1 DEF createBooking
  <1>2. ASSUME NEW b \in Bookings, NEW to \in {"ALLOTTED", "REGISTERED"}, advance(t, b, to)
        PROVE  Opened(t)
    BY <1>2 DEF advance, BOOKING_STATUS
  <1>3. ASSUME NEW b \in Bookings, NEW to \in {"CANCELLED", "SURRENDERED"}, cancel(t, b, to)
        PROVE  Opened(t)
    BY <1>3 DEF cancel, BOOKING_STATUS
  <1>4. ASSUME NEW b \in Bookings, NEW u \in Units, NEW f \in FYs, transferUnit(t, b, u, f)
        PROVE  Opened(t)
    BY <1>4 DEF transferUnit, BOOKING_STATUS
  <1>5. ASSUME NEW b \in Bookings, NEW f \in FYs, transferApplicant(t, b, f)
        PROVE  Opened(t)
    BY <1>5 DEF transferApplicant, BOOKING_STATUS, Row
  <1>6. ASSUME NEW u \in Units, NEW to \in UnitStatus, manualTransition(t, u, to)
        PROVE  Opened(t)
    BY <1>6 DEF manualTransition
  <1> QED
    BY <1>1, <1>2, <1>3, <1>4, <1>5, <1>6 DEF Opens

\* A step is one of nine: a transaction opens, or the open one takes its next
\* statement, commits or rolls back.
LEMMA NextCases ==
    ASSUME Next
    PROVE  \E t \in Txs : \/ Opens(t) \/ CheckUnit(t) \/ WriteBooking(t) \/ CancelUnit(t)
                          \/ Allocate(t) \/ ReadUnit(t) \/ WriteUnit(t)
                          \/ Commit(t) \/ Rollback(t)
  BY DEF Next, Opens

-----------------------------------------------------------------------------
(* Each label's promise survives every step.                               *)

LEMMA NextLabel == IInv /\ [Next]_vars => LabelInv'
  <1> SUFFICES ASSUME IInv, [Next]_vars PROVE LabelInv'
    OBVIOUS
  <1>0. TypeOK /\ LabelInv /\ TypeOK'
    BY NextType DEF IInv
  <1>1. ASSUME NEW t \in Txs, Opens(t) PROVE LabelInv'
    BY <1>0, <1>1, OpensEffect DEF Opened, LabelInv, Clean
  <1>2. ASSUME NEW t \in Txs, CheckUnit(t) PROVE LabelInv'
    BY <1>0, <1>2 DEF CheckUnit, Goto, LabelInv, Clean, TypeOK
  <1>3. ASSUME NEW t \in Txs, WriteBooking(t) PROVE LabelInv'
    BY <1>0, <1>3 DEF WriteBooking, Goto, LabelInv, Clean, TypeOK
  <1>4. ASSUME NEW t \in Txs, CancelUnit(t) PROVE LabelInv'
    BY <1>0, <1>4 DEF CancelUnit, Goto, LabelInv, Clean, TypeOK
  <1>5. ASSUME NEW t \in Txs, Allocate(t) PROVE LabelInv'
    BY <1>0, <1>5 DEF Allocate, Goto, LabelInv, Clean, TypeOK
  <1>6. ASSUME NEW t \in Txs, ReadUnit(t) PROVE LabelInv'
    BY <1>0, <1>6 DEF ReadUnit, Goto, LabelInv, Clean, TypeOK
  <1>7. ASSUME NEW t \in Txs, WriteUnit(t) PROVE LabelInv'
    <2>1. moves[t] \in Seq(Units \X UnitStatus) /\ moves[t] # <<>>
      BY <1>0, <1>7 DEF WriteUnit, LabelInv, TypeOK
    <2>2. Len(moves[t]) # 1 => Tail(moves[t]) # <<>>
      <3>1. Len(moves[t]) \in Nat
        BY <2>1, LenProperties
      <3>2. Len(Tail(moves[t])) = Len(moves[t]) - 1
        BY <2>1, HeadTailProperties
      <3>3. Tail(moves[t]) = <<>> => Len(Tail(moves[t])) = 0
        BY EmptySeq, Zenon
      <3> QED
        BY <3>1, <3>2, <3>3, SMT
    <2>3. /\ \A o \in Txs \ {t} : pc'[o] = pc[o] /\ moves'[o] = moves[o]
          /\ pc'[t] \in {"commit", "readUnit"}
          /\ pc'[t] = "readUnit" => moves'[t] # <<>>
      BY <1>0, <1>7, <2>2 DEF WriteUnit, Goto, TypeOK
    <2> QED
      BY <1>0, <1>7, <2>3 DEF WriteUnit, LabelInv, Clean
  <1>8. ASSUME NEW t \in Txs, Commit(t) PROVE LabelInv'
    BY <1>0, <1>8 DEF Commit, End, Goto, LabelInv, Clean, TypeOK
  <1>9. ASSUME NEW t \in Txs, Rollback(t) PROVE LabelInv'
    BY <1>0, <1>9 DEF Rollback, End, Goto, LabelInv, Clean, TypeOK
  <1>10. CASE UNCHANGED vars
    BY <1>0, <1>10 DEF LabelInv, Clean, vars
  <1> QED
    BY <1>1, <1>2, <1>3, <1>4, <1>5, <1>6, <1>7, <1>8, <1>9, <1>10, NextCases

-----------------------------------------------------------------------------
(* The counter's lock: who holds a number holds the year alone.            *)

LEMMA NextCounter == IInv /\ [Next]_vars => CounterInv'
  <1> SUFFICES ASSUME IInv, [Next]_vars PROVE CounterInv'
    OBVIOUS
  <1>0. TypeOK /\ LabelInv /\ CounterInv /\ TypeOK'
    BY NextType DEF IInv
  <1>1. ASSUME NEW t \in Txs, Opens(t) PROVE CounterInv'
    BY <1>0, <1>1, OpensEffect DEF Opened, LabelInv, Clean, CounterInv
  <1>2. ASSUME NEW t \in Txs, CheckUnit(t) \/ CancelUnit(t) \/ ReadUnit(t) \/ WriteUnit(t)
        PROVE  CounterInv'
    <2>1. UNCHANGED <<nextValue, num, req>>
      BY <1>2 DEF CheckUnit, CancelUnit, ReadUnit, WriteUnit
    <2> QED
      BY <1>0, <2>1 DEF CounterInv
  <1>3. ASSUME NEW t \in Txs, WriteBooking(t) PROVE CounterInv'
    BY <1>0, <1>3 DEF WriteBooking, CounterInv
  <1>5. ASSUME NEW t \in Txs, Allocate(t) PROVE CounterInv'
    BY <1>0, <1>5 DEF Allocate, CounterFree, LabelInv, CounterInv, TypeOK
  <1>8. ASSUME NEW t \in Txs, Commit(t) PROVE CounterInv'
    BY <1>0, <1>8 DEF Commit, End, CounterInv, TypeOK
  <1>9. ASSUME NEW t \in Txs, Rollback(t) PROVE CounterInv'
    BY <1>0, <1>9 DEF Rollback, End, CounterInv, TypeOK
  <1>10. CASE UNCHANGED vars
    BY <1>0, <1>10 DEF CounterInv, vars
  <1> QED
    BY <1>1, <1>2, <1>3, <1>5, <1>8, <1>9, <1>10, NextCases

-----------------------------------------------------------------------------
(* Uncommitted rows.                                                       *)

LEMMA NextOverlay == IInv /\ [Next]_vars => OverlayInv'
  <1> SUFFICES ASSUME IInv, [Next]_vars PROVE OverlayInv'
    OBVIOUS
  <1>0. TypeOK /\ LabelInv /\ CounterInv /\ OverlayInv /\ TypeOK'
    BY NextType DEF IInv
  <1>1. ASSUME NEW t \in Txs, Opens(t) PROVE OverlayInv'
    BY <1>0, <1>1, OpensEffect DEF Opened, LabelInv, Clean, OverlayInv
  <1>2. ASSUME NEW t \in Txs, CheckUnit(t) \/ CancelUnit(t) \/ ReadUnit(t) \/ WriteUnit(t)
        PROVE  OverlayInv'
    <2>1. UNCHANGED <<booking, num, req, wBooking>>
      BY <1>2 DEF CheckUnit, CancelUnit, ReadUnit, WriteUnit
    <2> QED
      BY <1>0, <2>1 DEF OverlayInv
  <1>3. ASSUME NEW t \in Txs, WriteBooking(t) PROVE OverlayInv'
    <2> DEFINE b == req[t].booking
               row == [status |-> req[t].to, unit |-> booking[b].unit,
                       fy |-> booking[b].fy, seq |-> booking[b].seq]
    <2>1. b \in Bookings /\ booking[b] # NULL /\ Clean(t) /\ BookingRowFree(t, b)
      BY <1>0, <1>3 DEF WriteBooking, LabelInv
    <2>2. row.fy = booking[b].fy /\ row.seq = booking[b].seq
      OBVIOUS
    <2> HIDE DEF row
    <2>3. /\ wBooking'[t][b] = row
          /\ \A o \in Txs, c \in Bookings :
                o # t \/ c # b => wBooking'[o][c] = wBooking[o][c]
      BY <1>0, <1>3, <2>1 DEF WriteBooking, TypeOK, row
    <2>4. UNCHANGED <<booking, num, req>>
      BY <1>3 DEF WriteBooking
    <2> QED
      BY <1>0, <2>1, <2>2, <2>3, <2>4 DEF OverlayInv, BookingRowFree, Clean
  <1>5. ASSUME NEW t \in Txs, Allocate(t) PROVE OverlayInv'
    <2> DEFINE f == req[t].fy
               row == [status |-> "BOOKED", unit |-> req[t].unit, fy |-> f, seq |-> nextValue[f]]
    <2>1. PICK b \in Bookings :
             /\ booking[b] = NULL
             /\ BookingRowFree(t, b)
             /\ wBooking' = [wBooking EXCEPT ![t][b] = row]
      BY <1>5 DEF Allocate
    <2>2. /\ f \in FYs /\ req[t].unit \in Units
          /\ nextValue[f] \in Nat \ {0}
          /\ \A c \in Bookings : wBooking[t][c] # NULL => booking[c] # NULL
      BY <1>0, <1>5 DEF Allocate, LabelInv, TypeOK
    <2>3. row \in Row /\ row # NULL /\ row.fy = f /\ row.seq = nextValue[f]
      BY <2>2, TxAssumption DEF Row, BOOKING_STATUS
    <2> HIDE DEF row
    <2>4. /\ wBooking'[t][b] = row
          /\ \A o \in Txs, c \in Bookings :
                o # t \/ c # b => wBooking'[o][c] = wBooking[o][c]
      BY <1>0, <2>1 DEF TypeOK
    <2>5. /\ num'[t] = nextValue[f]
          /\ \A o \in Txs \ {t} : num'[o] = num[o]
          /\ num[t] = 0
          /\ req' = req /\ booking' = booking
      BY <1>0, <1>5 DEF Allocate, TypeOK, LabelInv
    <2> QED
      BY <1>0, <2>1, <2>2, <2>3, <2>4, <2>5 DEF OverlayInv, BookingRowFree
  <1>8. ASSUME NEW t \in Txs, Commit(t) PROVE OverlayInv'
    BY <1>0, <1>8 DEF Commit, End, OverlayInv, TypeOK
  <1>9. ASSUME NEW t \in Txs, Rollback(t) PROVE OverlayInv'
    BY <1>0, <1>9 DEF Rollback, End, OverlayInv, TypeOK
  <1>10. CASE UNCHANGED vars
    BY <1>0, <1>10 DEF OverlayInv, vars
  <1> QED
    BY <1>1, <1>2, <1>3, <1>5, <1>8, <1>9, <1>10, NextCases

-----------------------------------------------------------------------------
(* Committed numbers: only a commit changes them.                          *)

LEMMA NextNumbers == IInv /\ [Next]_vars => NumbersInv'
  <1> SUFFICES ASSUME IInv, [Next]_vars PROVE NumbersInv'
    OBVIOUS
  <1>0. TypeOK /\ CounterInv /\ OverlayInv /\ NumbersInv /\ TypeOK'
    BY NextType DEF IInv
  <1>1. ASSUME UNCHANGED <<booking, nextValue>> PROVE NumbersInv'
    BY <1>0, <1>1 DEF NumbersInv
  <1>2. ASSUME NEW t \in Txs, Commit(t) PROVE NumbersInv'
    <2>1. \A b \in Bookings :
             booking'[b] = IF wBooking[t][b] # NULL THEN wBooking[t][b] ELSE booking[b]
      BY <1>2 DEF Commit
    <2>2. \A f \in FYs :
             nextValue'[f] = IF num[t] # 0 /\ req[t].fy = f THEN nextValue[f] + 1
                                                           ELSE nextValue[f]
      BY <1>2 DEF Commit
    <2>3. \A f \in FYs : nextValue[f] \in Nat \ {0}
      BY <1>0 DEF TypeOK
    <2>4. \A b \in Bookings : booking[b] # NULL => booking[b].fy \in FYs /\ booking[b].seq \in Nat
      BY <1>0 DEF TypeOK, Row
    \* A row that existed keeps its year and number.
    <2>5. \A b \in Bookings : booking[b] # NULL =>
             booking'[b] # NULL /\ booking'[b].fy = booking[b].fy /\ booking'[b].seq = booking[b].seq
      BY <1>0, <2>1 DEF OverlayInv
    \* A row that is new carries the counter's value, in the year it advances.
    <2>6. \A b \in Bookings : booking[b] = NULL /\ booking'[b] # NULL =>
             /\ num[t] # 0 /\ req[t].fy \in FYs /\ wBooking[t][b] # NULL
             /\ booking'[b].fy = req[t].fy /\ booking'[b].seq = nextValue[req[t].fy]
      BY <1>0, <2>1 DEF OverlayInv, CounterInv
    <2>7. \A b \in Bookings : booking'[b] # NULL =>
             booking'[b].seq \in 1 .. (nextValue'[booking'[b].fy] - 1)
      <3> SUFFICES ASSUME NEW b \in Bookings, booking'[b] # NULL
                   PROVE  booking'[b].seq \in 1 .. (nextValue'[booking'[b].fy] - 1)
        OBVIOUS
      <3>1. CASE booking[b] # NULL
        <4>1. booking[b].seq \in 1 .. (nextValue[booking[b].fy] - 1)
          BY <1>0, <3>1 DEF NumbersInv
        <4> QED
          BY <3>1, <4>1, <2>2, <2>3, <2>4, <2>5
      <3>2. CASE booking[b] = NULL
        BY <3>2, <2>2, <2>3, <2>6
      <3> QED
        BY <3>1, <3>2
    <2>8. ASSUME NEW f \in FYs, NEW n \in 1 .. (nextValue'[f] - 1)
          PROVE  \E b \in Bookings :
                    booking'[b] # NULL /\ booking'[b].fy = f /\ booking'[b].seq = n
      <3>1. CASE n \in 1 .. (nextValue[f] - 1)
        BY <1>0, <3>1, <2>5 DEF NumbersInv
      <3>2. CASE n \notin 1 .. (nextValue[f] - 1)
        <4>1. num[t] # 0 /\ req[t].fy = f /\ n = nextValue[f]
          BY <3>2, <2>2, <2>3
        <4>2. PICK b \in Bookings : wBooking[t][b] # NULL /\ booking[b] = NULL
          BY <1>0, <4>1 DEF OverlayInv
        <4> QED
          BY <4>1, <4>2, <2>1, <2>6
      <3> QED
        BY <3>1, <3>2
    <2>9. ASSUME NEW b \in Bookings, NEW c \in Bookings,
                 booking'[b] # NULL, booking'[c] # NULL,
                 booking'[b].fy = booking'[c].fy, booking'[b].seq = booking'[c].seq
          PROVE  b = c
      <3>1. CASE booking[b] # NULL /\ booking[c] # NULL
        BY <1>0, <3>1, <2>5, <2>9 DEF NumbersInv
      <3>2. CASE booking[b] = NULL /\ booking[c] = NULL
        BY <1>0, <3>2, <2>6, <2>9 DEF OverlayInv
      <3>3. CASE booking[b] # NULL /\ booking[c] = NULL
        <4>1. booking[b].seq \in 1 .. (nextValue[booking[b].fy] - 1)
          BY <1>0, <3>3 DEF NumbersInv
        <4> QED
          BY <3>3, <4>1, <2>3, <2>4, <2>5, <2>6, <2>9
      <3>4. CASE booking[b] = NULL /\ booking[c] # NULL
        <4>1. booking[c].seq \in 1 .. (nextValue[booking[c].fy] - 1)
          BY <1>0, <3>4 DEF NumbersInv
        <4> QED
          BY <3>4, <4>1, <2>3, <2>4, <2>5, <2>6, <2>9
      <3> QED
        BY <3>1, <3>2, <3>3, <3>4
    <2> QED
      BY <2>7, <2>8, <2>9 DEF NumbersInv
  <1>3. ASSUME NEW t \in Txs, \/ CheckUnit(t) \/ WriteBooking(t) \/ CancelUnit(t) \/ Allocate(t)
                              \/ ReadUnit(t) \/ WriteUnit(t) \/ Rollback(t)
        PROVE UNCHANGED <<booking, nextValue>>
    BY <1>3 DEF CheckUnit, WriteBooking, CancelUnit, Allocate, ReadUnit, WriteUnit, Rollback
  <1>4. ASSUME NEW t \in Txs, Opens(t) PROVE UNCHANGED <<booking, nextValue>>
    BY <1>4, OpensEffect DEF Opened
  <1>5. CASE UNCHANGED vars
    BY <1>1, <1>5 DEF vars
  <1> QED
    BY <1>1, <1>2, <1>3, <1>4, <1>5, NextCases

-----------------------------------------------------------------------------
(* The theorems.                                                           *)

LEMMA InvariantHolds == Spec => []IInv
  <1>1. IInv /\ [Next]_vars => IInv'
    BY NextType, NextLabel, NextCounter, NextOverlay, NextNumbers DEF IInv
  <1> QED
    BY InitIInv, <1>1, PTL DEF Spec

\* Every reachable state is well typed: no handler writes a status outside the
\* enums, a row without a unit or a year, or a unit move that is not one.
THEOREM TypeCorrect == Spec => []TypeOK
  <1>1. IInv => TypeOK
    BY DEF IInv
  <1> QED
    BY <1>1, InvariantHolds, PTL

\* Booking numbers of a year are 1 .. next_value-1 with none missing, for every
\* number of units, years and concurrent transactions, wherever they roll back
\* (NumberSequenceService.allocate inside the caller's transaction).
THEOREM NumbersAreGapFree == Spec => []GapFreeNumbers
  <1>1. ASSUME IInv, NEW f \in FYs
        PROVE  {booking[b].seq : b \in Committed(f)} = 1 .. (nextValue[f] - 1)
    <2>1. ASSUME NEW b \in Committed(f) PROVE booking[b].seq \in 1 .. (nextValue[f] - 1)
      BY <1>1, <2>1 DEF IInv, NumbersInv, Committed
    <2>2. ASSUME NEW n \in 1 .. (nextValue[f] - 1)
          PROVE  \E b \in Committed(f) : booking[b].seq = n
      BY <1>1, <2>2 DEF IInv, NumbersInv, Committed
    <2> QED
      BY <2>1, <2>2
  <1>2. IInv => GapFreeNumbers
    BY <1>1 DEF GapFreeNumbers
  <1> QED
    BY <1>2, InvariantHolds, PTL

\* A number is used once, and a number taken by an open transaction is used by
\* nobody else: the unique index on booking_number never refuses an insert.
THEOREM NumbersAreUnique == Spec => []UniqueNumbers
  <1>1. ASSUME IInv, NEW f \in FYs, NEW b \in Committed(f), NEW c \in Committed(f),
               booking[b].seq = booking[c].seq
        PROVE  b = c
    BY <1>1 DEF IInv, NumbersInv, Committed
  <1>2. ASSUME IInv, NEW f \in FYs, NEW t \in Txs, req[t].fy = f, num[t] # 0
        PROVE  /\ \A b \in Committed(f) : booking[b].seq # num[t]
               /\ \A o \in Txs \ {t} : req[o].fy = f => num[o] # num[t]
    <2>1. num[t] = nextValue[f] /\ nextValue[f] \in Nat \ {0}
      BY <1>2 DEF IInv, CounterInv, TypeOK
    <2>2. ASSUME NEW b \in Committed(f) PROVE booking[b].seq # num[t]
      BY <1>2, <2>1, <2>2 DEF IInv, NumbersInv, Committed
    <2>3. ASSUME NEW o \in Txs \ {t}, req[o].fy = f PROVE num[o] # num[t]
      BY <1>2, <2>3 DEF IInv, CounterInv
    <2> QED
      BY <2>2, <2>3
  <1>3. IInv => UniqueNumbers
    BY <1>1, <1>2 DEF UniqueNumbers
  <1> QED
    BY <1>3, InvariantHolds, PTL

-----------------------------------------------------------------------------
(* The refinement.                                                         *)

\* Only a commit shows in the register.
LEMMA OnlyCommitShows ==
    ASSUME IInv, [Next]_vars, ~ \E t \in Txs : Commit(t)
    PROVE  UNCHANGED <<booking, nextValue>>
  <1>1. ASSUME NEW t \in Txs, \/ CheckUnit(t) \/ WriteBooking(t) \/ CancelUnit(t) \/ Allocate(t)
                              \/ ReadUnit(t) \/ WriteUnit(t) \/ Rollback(t)
        PROVE UNCHANGED <<booking, nextValue>>
    BY <1>1 DEF CheckUnit, WriteBooking, CancelUnit, Allocate, ReadUnit, WriteUnit, Rollback
  <1>2. ASSUME NEW t \in Txs, Opens(t) PROVE UNCHANGED <<booking, nextValue>>
    BY <1>2, OpensEffect DEF Opened
  <1>3. CASE UNCHANGED vars
    BY <1>3 DEF vars
  <1> QED
    BY <1>1, <1>2, <1>3, NextCases

\* A commit that took no number leaves every entry as it was.
LEMMA CommitOfUpdates ==
    ASSUME IInv, NEW t \in Txs, Commit(t), num[t] = 0
    PROVE  /\ [b \in Bookings |-> Entered(b)]' = [b \in Bookings |-> Entered(b)]
           /\ nextValue' = nextValue
  <1>0. TypeOK /\ OverlayInv
    BY DEF IInv
  <1>1. nextValue' = nextValue
    BY <1>0 DEF Commit, TypeOK
  <1>2. ASSUME NEW b \in Bookings PROVE Entered(b)' = Entered(b)
    <2>1. booking'[b] = IF wBooking[t][b] # NULL THEN wBooking[t][b] ELSE booking[b]
      BY DEF Commit
    <2>2. wBooking[t][b] # NULL => /\ booking[b] # NULL
                                   /\ wBooking[t][b].fy = booking[b].fy
                                   /\ wBooking[t][b].seq = booking[b].seq
      BY <1>0 DEF OverlayInv
    <2> QED
      BY <2>1, <2>2 DEF Entered
  <1> QED
    BY <1>1, <1>2

\* A commit that took a number enters one booking, with that number.
LEMMA CommitOfNumber ==
    ASSUME IInv, NEW t \in Txs, Commit(t), num[t] # 0
    PROVE  Register!RegisterNext
  <1>0. TypeOK /\ OverlayInv /\ CounterInv
    BY DEF IInv
  <1> DEFINE f == req[t].fy
  <1>1. f \in FYs /\ num[t] = nextValue[f]
    BY <1>0 DEF CounterInv
  <1>2. PICK c \in Bookings : wBooking[t][c] # NULL /\ booking[c] = NULL
    BY <1>0 DEF OverlayInv
  <1>3. nextValue' = [nextValue EXCEPT ![f] = nextValue[f] + 1]
    BY <1>0, <1>1 DEF Commit, TypeOK
  <1>4. Entered(c) = NULL /\ Entered(c)' = [series |-> f, seq |-> nextValue[f]]
    <2>1. booking'[c] = wBooking[t][c]
      BY <1>2 DEF Commit
    <2>2. wBooking[t][c].fy = f /\ wBooking[t][c].seq = nextValue[f]
      BY <1>0, <1>1, <1>2 DEF OverlayInv
    <2> QED
      BY <1>2, <2>1, <2>2 DEF Entered
  <1>5. ASSUME NEW b \in Bookings, b # c PROVE Entered(b)' = Entered(b)
    <2>1. booking'[b] = IF wBooking[t][b] # NULL THEN wBooking[t][b] ELSE booking[b]
      BY DEF Commit
    <2>2. wBooking[t][b] # NULL => /\ booking[b] # NULL
                                   /\ wBooking[t][b].fy = booking[b].fy
                                   /\ wBooking[t][b].seq = booking[b].seq
      BY <1>0, <1>2, <1>5 DEF OverlayInv
    <2> QED
      BY <2>1, <2>2 DEF Entered
  <1>6. [b \in Bookings |-> Entered(b)]' =
            [[b \in Bookings |-> Entered(b)] EXCEPT ![c] = [series |-> f, seq |-> nextValue[f]]]
    BY <1>4, <1>5
  <1>7. Register!Enter(c, f)
    BY <1>3, <1>4, <1>6 DEF Register!Enter
  <1> QED
    BY <1>1, <1>7 DEF Register!RegisterNext

\* The committed bookings implement the number register for every number of
\* units, years and concurrent transactions: NumberSequenceService.allocate, its
\* row lock and the rollbacks around it are invisible to a reader.
THEOREM BookingsImplementRegister == Spec => ImplementsRegister
  <1>1. Init => Register!RegisterInit
    BY DEF Init, Register!RegisterInit, Entered
  <1>2. IInv /\ [Next]_vars =>
           [Register!RegisterNext]_<<[b \in Bookings |-> Entered(b)], nextValue>>
    <2> SUFFICES ASSUME IInv, [Next]_vars
                 PROVE  [Register!RegisterNext]_<<[b \in Bookings |-> Entered(b)], nextValue>>
      OBVIOUS
    <2>1. CASE ~ \E t \in Txs : Commit(t)
      BY <2>1, OnlyCommitShows DEF Entered
    <2>2. ASSUME NEW t \in Txs, Commit(t)
          PROVE  [Register!RegisterNext]_<<[b \in Bookings |-> Entered(b)], nextValue>>
      BY <2>2, CommitOfUpdates, CommitOfNumber
    <2> QED
      BY <2>1, <2>2
  <1> QED
    BY <1>1, <1>2, InvariantHolds, PTL DEF Spec, ImplementsRegister, Register!RegisterSpec

-----------------------------------------------------------------------------
(* A unit and the booking that occupies it.                                *)

\* Transaction t has written no unit row.
Untouched(t) == \A u \in Units : wUnit[t][u] = NULL

Occupies(b) == booking[b] # NULL /\ booking[b].status \in LiveStatus

\* UnitOccupiedByBooking, row by row.
Occupancy ==
    /\ \A b, c \in Bookings :
          Occupies(b) /\ Occupies(c) /\ booking[b].unit = booking[c].unit => b = c
    /\ \A b \in Bookings : Occupies(b) => unit[booking[b].unit] \in LiveStatus
    /\ \A u \in Units : unit[u] \in LiveStatus =>
          \E b \in Bookings : Occupies(b) /\ booking[b].unit = u

LEMMA OccupancyIsProperty == TypeOK /\ Occupancy => UnitOccupiedByBooking
  <1> SUFFICES ASSUME TypeOK, Occupancy, NEW u \in Units
               PROVE  /\ \A b, c \in LiveOn(u) : b = c
                      /\ (LiveOn(u) # {}) <=> (unit[u] \in LiveStatus)
    BY DEF UnitOccupiedByBooking
  <1>1. \A b \in Bookings : b \in LiveOn(u) <=> Occupies(b) /\ booking[b].unit = u
    BY DEF LiveOn, Occupies
  <1>2. LiveOn(u) \subseteq Bookings
    BY DEF LiveOn
  <1>3. \A b, c \in LiveOn(u) : b = c
    BY <1>1, <1>2 DEF Occupancy
  <1>4. (LiveOn(u) # {}) <=> (unit[u] \in LiveStatus)
    BY <1>1, <1>2 DEF Occupancy
  <1> QED
    BY <1>3, <1>4

-----------------------------------------------------------------------------
(* Bookings created and advanced at the same time, all dated in one        *)
(* financial year.                                                         *)

OneYear == /\ Ops \subseteq {"create", "advance"}
           /\ \A f, g \in FYs : f = g

\* Transaction t has written one booking row, b.
WroteOnly(t, b) == wBooking[t][b] # NULL /\ \A c \in Bookings \ {b} : wBooking[t][c] = NULL

\* From its first write on, a creation holds the year's counter; from its reading
\* of the unit on, nobody else can take that unit.
Creating(t) ==
    /\ pc[t] \in {"allocate", "readUnit", "writeUnit", "commit"}
    /\ req[t].unit \in Units
    /\ pc[t] # "commit" => moves[t] = << <<req[t].unit, "BOOKED">> >> /\ Untouched(t)
    /\ pc[t] = "allocate" => Clean(t)
    /\ pc[t] # "allocate" =>
          /\ num[t] # 0
          /\ \E b \in Bookings :
                /\ booking[b] = NULL /\ WroteOnly(t, b)
                /\ wBooking[t][b].unit = req[t].unit /\ wBooking[t][b].status = "BOOKED"
    /\ pc[t] \in {"writeUnit", "commit"} => unit[req[t].unit] \in BOOKABLE_FROM
    /\ pc[t] = "commit" =>
          \A u \in Units : wUnit[t][u] = IF u = req[t].unit THEN "BOOKED" ELSE NULL

\* An allotment or a registration stays on one live booking and its unit.
Advancing(t) ==
    /\ pc[t] \in {"writeBooking", "readUnit", "writeUnit", "commit"}
    /\ req[t].booking \in Bookings /\ Occupies(req[t].booking)
    /\ req[t].to \in {"ALLOTTED", "REGISTERED"}
    /\ num[t] = 0
    /\ pc[t] # "commit" =>
          moves[t] = << <<booking[req[t].booking].unit, req[t].to>> >> /\ Untouched(t)
    /\ pc[t] = "writeBooking" => Clean(t)
    /\ pc[t] # "writeBooking" =>
          /\ WroteOnly(t, req[t].booking)
          /\ wBooking[t][req[t].booking].unit = booking[req[t].booking].unit
          /\ wBooking[t][req[t].booking].status = req[t].to
    /\ pc[t] = "commit" =>
          \A u \in Units : wUnit[t][u] = IF u = booking[req[t].booking].unit THEN req[t].to ELSE NULL

Working(t) ==
    \/ pc[t] = "idle" /\ Untouched(t)
    \/ pc[t] # "idle" /\ req[t].op = "create" /\ Creating(t)
    \/ pc[t] # "idle" /\ req[t].op = "advance" /\ Advancing(t)

OneYearInv == Occupancy /\ \A t \in Txs : Working(t)

LEMMA OneYearInit == Init => OneYearInv
  BY DEF Init, OneYearInv, Occupancy, Occupies, Working, Untouched, LiveStatus

\* A transaction's own state and the committed rows decide whether Working holds of it.
LEMMA WorkingStays ==
    ASSUME NEW t \in Txs, Working(t), UNCHANGED <<unit, booking>>,
           pc'[t] = pc[t], req'[t] = req[t], num'[t] = num[t], moves'[t] = moves[t],
           wUnit'[t] = wUnit[t], wBooking'[t] = wBooking[t]
    PROVE  Working(t)'
  <1>1. Untouched(t)' <=> Untouched(t)
    BY DEF Untouched
  <1>2. Clean(t)' <=> Clean(t)
    BY DEF Clean
  <1>3. \A b : (WroteOnly(t, b)' <=> WroteOnly(t, b)) /\ (Occupies(b)' <=> Occupies(b))
    BY DEF WroteOnly, Occupies
  <1>4. CASE pc[t] = "idle" /\ Untouched(t)
    BY <1>1, <1>4 DEF Working
  <1>5. CASE pc[t] # "idle" /\ req[t].op = "create" /\ Creating(t)
    <2>1. Creating(t)'
      BY <1>1, <1>2, <1>3, <1>5 DEF Creating
    <2> QED
      BY <1>5, <2>1 DEF Working
  <1>6. CASE pc[t] # "idle" /\ req[t].op = "advance" /\ Advancing(t)
    <2>1. Advancing(t)'
      BY <1>1, <1>2, <1>3, <1>6 DEF Advancing
    <2> QED
      BY <1>6, <2>1 DEF Working
  <1> QED
    BY <1>4, <1>5, <1>6 DEF Working

\* A step that leaves the committed rows alone and moves t only.
LEMMA OneYearLocal ==
    ASSUME OneYearInv, NEW t \in Txs, UNCHANGED <<unit, booking>>, Working(t)',
           \A o \in Txs \ {t} :
              /\ pc'[o] = pc[o] /\ req'[o] = req[o] /\ num'[o] = num[o] /\ moves'[o] = moves[o]
              /\ wUnit'[o] = wUnit[o] /\ wBooking'[o] = wBooking[o]
    PROVE  OneYearInv'
  <1>1. Occupancy'
    BY DEF OneYearInv, Occupancy, Occupies
  <1>2. ASSUME NEW o \in Txs, o # t PROVE Working(o)'
    BY <1>2, WorkingStays DEF OneYearInv
  <1> QED
    BY <1>1, <1>2 DEF OneYearInv

\* Opening: create and advance are all there is.
LEMMA OneYearOpens ==
    ASSUME OneYear, IInv, OneYearInv, NEW t \in Txs, Opens(t)
    PROVE  OneYearInv'
  <1>0. TypeOK /\ Clean(t) /\ Untouched(t) /\ pc[t] = "idle"
    BY OpensEffect DEF Opened, IInv, LabelInv, OneYearInv, Working, Creating, Advancing
  <1>1. Opened(t)
    BY OpensEffect
  <1>2. Clean(t)' /\ Untouched(t)'
    BY <1>0, <1>1 DEF Opened, Clean, Untouched
  <1>3. ASSUME NEW u \in Units, NEW f \in FYs, createBooking(t, u, f)
        PROVE  Working(t)'
    <2>1. /\ pc'[t] = "allocate" /\ req'[t].op = "create" /\ req'[t].unit = u
          /\ moves'[t] = << <<u, "BOOKED">> >>
      BY <1>0, <1>3 DEF createBooking, Begin, Goto, Request, TypeOK
    <2> QED
      BY <1>2, <2>1 DEF Working, Creating
  <1>4. ASSUME NEW b \in Bookings, NEW to \in {"ALLOTTED", "REGISTERED"}, advance(t, b, to)
        PROVE  Working(t)'
    <2>1. /\ pc'[t] = "writeBooking" /\ req'[t].op = "advance"
          /\ req'[t].booking = b /\ req'[t].to = to
          /\ moves'[t] = << <<booking[b].unit, to>> >>
      BY <1>0, <1>4 DEF advance, Begin, Goto, Request, TypeOK
    <2>2. Occupies(b)'
      BY <1>1, <1>4 DEF advance, Opened, Occupies, ExpectedFrom, LiveStatus
    <2>3. booking' = booking /\ num'[t] = 0
      BY <1>0, <1>1 DEF Opened, Clean
    <2> QED
      BY <1>2, <2>1, <2>2, <2>3 DEF Working, Advancing
  <1>5. Working(t)'
    <2>1. req'[t].op \in Ops
      BY <1>0 DEF Opens, createBooking, advance, cancel, transferUnit, transferApplicant,
                  manualTransition, Begin, TypeOK
    <2>2. ASSUME NEW b \in Bookings, NEW to, cancel(t, b, to) PROVE FALSE
      BY <1>0, <2>2 DEF cancel, Begin, Request, OneYear
    <2>3. ASSUME NEW b \in Bookings, NEW u \in Units, NEW f \in FYs, transferUnit(t, b, u, f)
          PROVE FALSE
      BY <1>0, <2>3 DEF transferUnit, Begin, Request, OneYear
    <2>4. ASSUME NEW b \in Bookings, NEW f \in FYs, transferApplicant(t, b, f) PROVE FALSE
      BY <1>0, <2>4 DEF transferApplicant, Begin, Request, OneYear
    <2>5. ASSUME NEW u \in Units, NEW to \in UnitStatus, manualTransition(t, u, to) PROVE FALSE
      BY <1>0, <2>5 DEF manualTransition, Begin, Request, OneYear
    <2> QED
      BY <1>3, <1>4, <2>2, <2>3, <2>4, <2>5 DEF Opens
  <1> QED
    BY <1>0, <1>1, <1>5, OneYearLocal DEF Opened

\* The statements between the first and the commit write t's own rows only.
LEMMA OneYearStatement ==
    ASSUME OneYear, IInv, OneYearInv, NEW t \in Txs,
           CheckUnit(t) \/ WriteBooking(t) \/ CancelUnit(t) \/ Allocate(t) \/ ReadUnit(t) \/ WriteUnit(t)
    PROVE  OneYearInv'
  <1>0. TypeOK /\ Working(t)
    BY DEF IInv, OneYearInv
  <1>1. CASE CheckUnit(t)
    BY <1>0, <1>1 DEF CheckUnit, Working, Creating, Advancing
  <1>2. CASE CancelUnit(t)
    BY <1>0, <1>2 DEF CancelUnit, Working, Creating, Advancing
  <1>3. CASE WriteBooking(t)
    <2> DEFINE b == req[t].booking
    <2>1. pc[t] = "writeBooking" /\ req[t].op = "advance" /\ Advancing(t)
      BY <1>0, <1>3 DEF WriteBooking, Working, Creating
    <2>2. b \in Bookings /\ Occupies(b) /\ booking[b] # NULL
      BY <2>1 DEF Advancing, Occupies
    <2>3. pc'[t] = "readUnit"
      BY <1>0, <1>3, <2>1 DEF WriteBooking, Goto, TypeOK
    <2>4. /\ wBooking'[t][b] # NULL
          /\ wBooking'[t][b].unit = booking[b].unit /\ wBooking'[t][b].status = req[t].to
          /\ \A c \in Bookings \ {b} : wBooking'[t][c] = wBooking[t][c]
      <3> DEFINE row == [status |-> req[t].to, unit |-> booking[b].unit,
                         fy |-> booking[b].fy, seq |-> booking[b].seq]
      <3>1. row \in Row
        BY <1>0, <2>1, <2>2 DEF Row, TypeOK, Advancing, BOOKING_STATUS
      <3>2. wBooking' = [wBooking EXCEPT ![t][b] = row]
        BY <1>3 DEF WriteBooking
      <3>3. wBooking'[t][b] = row
        BY <1>0, <2>2, <3>2 DEF TypeOK
      <3>4. \A c \in Bookings \ {b} : wBooking'[t][c] = wBooking[t][c]
        BY <1>0, <2>2, <3>2 DEF TypeOK
      <3> QED
        BY <3>1, <3>3, <3>4, TxAssumption
    <2>5. WroteOnly(t, b)'
      BY <1>3, <2>1, <2>4 DEF WroteOnly, Advancing, Clean, WriteBooking
    <2>6. Occupies(b)' /\ Untouched(t)'
      BY <1>3, <2>1, <2>2 DEF WriteBooking, Occupies, Untouched, Advancing
    <2>7. Working(t)'
      BY <1>3, <2>1, <2>2, <2>3, <2>4, <2>5, <2>6 DEF WriteBooking, Working, Advancing
    <2>8. \A o \in Txs \ {t} : pc'[o] = pc[o] /\ wBooking'[o] = wBooking[o]
      BY <1>0, <1>3 DEF WriteBooking, Goto, TypeOK
    <2> QED
      BY <1>3, <2>7, <2>8, OneYearLocal DEF WriteBooking
  <1>4. CASE Allocate(t)
    <2>1. pc[t] = "allocate" /\ req[t].op = "create" /\ Creating(t) /\ req[t].fy \in FYs
      BY <1>0, <1>4 DEF Allocate, Working, Advancing, IInv, LabelInv
    <2> DEFINE f == req[t].fy
    <2>2. PICK b \in Bookings :
             /\ booking[b] = NULL
             /\ wBooking' = [wBooking EXCEPT ![t][b] =
                   [status |-> "BOOKED", unit |-> req[t].unit, fy |-> f, seq |-> nextValue[f]]]
      BY <1>4 DEF Allocate
    <2> DEFINE row == [status |-> "BOOKED", unit |-> req[t].unit, fy |-> f, seq |-> nextValue[f]]
    <2>3. row \in Row
      BY <1>0, <2>1 DEF Row, TypeOK, Creating, BOOKING_STATUS
    <2>4. wBooking'[t][b] = row /\ \A c \in Bookings \ {b} : wBooking'[t][c] = wBooking[t][c]
      BY <1>0, <2>2 DEF TypeOK
    <2>5. moves[t] # <<>>
      <3>1. moves[t] = << <<req[t].unit, "BOOKED">> >>
        BY <2>1 DEF Creating
      <3> QED
        BY ONLY <3>1, SMT
    <2>6. pc'[t] = "readUnit" /\ num'[t] # 0
      BY <1>0, <1>4, <2>1, <2>5 DEF Allocate, Goto, TypeOK
    <2>7. /\ WroteOnly(t, b)' /\ wBooking'[t][b].unit = req[t].unit
          /\ wBooking'[t][b].status = "BOOKED"
      BY <2>1, <2>3, <2>4, TxAssumption DEF WroteOnly, Creating, Clean
    <2>8. Untouched(t)' /\ booking'[b] = NULL /\ UNCHANGED <<unit, booking, req, moves, wUnit>>
      BY <1>4, <2>1, <2>2 DEF Allocate, Creating, Untouched
    <2>9. Working(t)'
      BY <2>1, <2>6, <2>7, <2>8 DEF Working, Creating
    <2>10. \A o \in Txs \ {t} : pc'[o] = pc[o] /\ wBooking'[o] = wBooking[o] /\ num'[o] = num[o]
      BY <1>0, <1>4, <2>2 DEF Allocate, Goto, TypeOK
    <2> QED
      BY <2>8, <2>9, <2>10, OneYearLocal
  <1>5. CASE ReadUnit(t)
    <2>1. /\ pc[t] = "readUnit" /\ pc'[t] = "writeUnit"
          /\ UNCHANGED <<unit, booking, req, num, moves, wUnit, wBooking>>
          /\ \A o \in Txs \ {t} : pc'[o] = pc[o]
      BY <1>0, <1>5 DEF ReadUnit, Goto, TypeOK
    <2>2. (Untouched(t)' <=> Untouched(t)) /\ (Clean(t)' <=> Clean(t))
          /\ \A b : (WroteOnly(t, b)' <=> WroteOnly(t, b)) /\ (Occupies(b)' <=> Occupies(b))
      BY <2>1 DEF Untouched, Clean, WroteOnly, Occupies
    <2>3. ASSUME req[t].op = "create", Creating(t) PROVE Working(t)'
      <3>1. Head(moves[t])[1] = req[t].unit /\ Head(moves[t])[2] = "BOOKED"
        <4>1. moves[t] = << <<req[t].unit, "BOOKED">> >>
          BY <2>1, <2>3 DEF Creating
        <4> QED
          BY ONLY <4>1, SMT
      <3>2. UnitSeen(t, req[t].unit) = unit[req[t].unit]
        BY <2>1, <2>3 DEF UnitSeen, Creating, Untouched
      <3>3. unit[req[t].unit] \in UnitStatus
        BY <1>0, <2>3 DEF TypeOK, Creating
      <3>4. unit[req[t].unit] \in BOOKABLE_FROM
        BY <1>5, <3>1, <3>2, <3>3 DEF ReadUnit, isValidTransition, UNIT_TRANSITIONS, UnitStatus, BOOKABLE_FROM
      <3> QED
        BY <2>1, <2>2, <2>3, <3>4 DEF Working, Creating
    <2>4. ASSUME req[t].op = "advance", Advancing(t) PROVE Working(t)'
      BY <2>1, <2>2, <2>4 DEF Working, Advancing
    <2> QED
      BY <1>0, <2>1, <2>3, <2>4, OneYearLocal DEF Working
  <1>6. CASE WriteUnit(t)
    <2>1. /\ pc[t] = "writeUnit"
          /\ wUnit' = [wUnit EXCEPT ![t][Head(moves[t])[1]] = Head(moves[t])[2]]
          /\ UNCHANGED <<unit, booking, req, num, wBooking>>
          /\ pc' = [pc EXCEPT ![t] = IF Len(moves[t]) = 1 THEN "commit" ELSE "readUnit"]
          /\ moves' = [moves EXCEPT ![t] = Tail(moves[t])]
      BY <1>6 DEF WriteUnit, Goto
    <2>2. /\ \A b : (WroteOnly(t, b)' <=> WroteOnly(t, b)) /\ (Occupies(b)' <=> Occupies(b))
      BY <2>1 DEF WroteOnly, Occupies
    <2>3. ASSUME req[t].op = "create", Creating(t) PROVE Working(t)'
      <3>1. Head(moves[t])[1] = req[t].unit /\ Head(moves[t])[2] = "BOOKED" /\ Len(moves[t]) = 1
        <4>1. moves[t] = << <<req[t].unit, "BOOKED">> >>
          BY <2>1, <2>3 DEF Creating
        <4> QED
          BY ONLY <4>1, SMT
      <3>2. pc'[t] = "commit"
        BY <1>0, <2>1, <3>1 DEF TypeOK
      <3>3. \A u \in Units : wUnit'[t][u] = IF u = req[t].unit THEN "BOOKED" ELSE NULL
        BY <1>0, <2>1, <2>3, <3>1 DEF TypeOK, Creating, Untouched
      <3> QED
        BY <2>1, <2>2, <2>3, <3>2, <3>3 DEF Working, Creating
    <2>4. ASSUME req[t].op = "advance", Advancing(t) PROVE Working(t)'
      <3>1. /\ Head(moves[t])[1] = booking[req[t].booking].unit
            /\ Head(moves[t])[2] = req[t].to /\ Len(moves[t]) = 1
        <4>1. moves[t] = << <<booking[req[t].booking].unit, req[t].to>> >>
          BY <2>1, <2>4 DEF Advancing
        <4> QED
          BY ONLY <4>1, SMT
      <3>2. pc'[t] = "commit"
        BY <1>0, <2>1, <3>1 DEF TypeOK
      <3>3. booking[req[t].booking].unit \in Units
        BY <1>0, <2>4 DEF TypeOK, Row, Advancing, Occupies
      <3>4. \A u \in Units : wUnit'[t][u] = IF u = booking[req[t].booking].unit THEN req[t].to ELSE NULL
        BY <1>0, <2>1, <2>4, <3>1, <3>3 DEF TypeOK, Advancing, Untouched
      <3> QED
        BY <2>1, <2>2, <2>4, <3>2, <3>4 DEF Working, Advancing
    <2>5. \A o \in Txs \ {t} : pc'[o] = pc[o] /\ moves'[o] = moves[o] /\ wUnit'[o] = wUnit[o]
      BY <1>0, <2>1 DEF TypeOK
    <2> QED
      BY <1>0, <2>1, <2>3, <2>4, <2>5, OneYearLocal DEF Working
  <1> QED
    BY <1>1, <1>2, <1>3, <1>4, <1>5, <1>6

\* A transaction that ends has nothing of its own left.
LEMMA EndEffect ==
    ASSUME TypeOK, NEW t \in Txs, End(t)
    PROVE  /\ pc'[t] = "idle" /\ Untouched(t)'
           /\ \A o \in Txs \ {t} :
                 /\ pc'[o] = pc[o] /\ req'[o] = req[o] /\ num'[o] = num[o] /\ moves'[o] = moves[o]
                 /\ wUnit'[o] = wUnit[o] /\ wBooking'[o] = wBooking[o]
  <1>1. pc'[t] = "idle" /\ wUnit'[t] = [u \in Units |-> NULL]
    BY DEF End, Goto, TypeOK
  <1>2. \A o \in Txs \ {t} :
           /\ pc'[o] = pc[o] /\ req'[o] = req[o] /\ num'[o] = num[o] /\ moves'[o] = moves[o]
           /\ wUnit'[o] = wUnit[o] /\ wBooking'[o] = wBooking[o]
    BY DEF End, Goto, TypeOK
  <1> QED
    BY <1>1, <1>2 DEF Untouched

\* The commit of a creation: its unit was bookable and unoccupied, and no other
\* creation is past its first write.
LEMMA OneYearCommitCreate ==
    ASSUME OneYear, IInv, OneYearInv, NEW t \in Txs, Commit(t), req[t].op = "create", Creating(t)
    PROVE  OneYearInv'
  <1>0. TypeOK /\ CounterInv /\ pc[t] = "commit" /\ End(t) /\ num[t] # 0
    BY DEF IInv, Commit, Creating
  <1> DEFINE u == req[t].unit
  <1>1. u \in Units /\ unit[u] \in BOOKABLE_FROM
    BY <1>0 DEF Creating
  <1>2. PICK b \in Bookings :
           /\ booking[b] = NULL /\ WroteOnly(t, b)
           /\ wBooking[t][b].unit = u /\ wBooking[t][b].status = "BOOKED"
    BY <1>0 DEF Creating
  <1>3. /\ booking'[b] # NULL /\ booking'[b].unit = u /\ booking'[b].status = "BOOKED"
        /\ \A c \in Bookings \ {b} : booking'[c] = booking[c]
    BY <1>2 DEF Commit, WroteOnly
  <1>4. unit'[u] = "BOOKED" /\ \A v \in Units \ {u} : unit'[v] = unit[v]
    <2>1. \A v \in Units : wUnit[t][v] = IF v = u THEN "BOOKED" ELSE NULL
      BY <1>0 DEF Creating
    <2>2. "BOOKED" # NULL
      BY TxAssumption DEF UnitStatus
    <2> QED
      BY <1>1, <2>1, <2>2 DEF Commit, UnitSeen
  <1>5. \A c \in Bookings : Occupies(c) => booking[c].unit \in Units \ {u} /\ c # b
    <2> SUFFICES ASSUME NEW c \in Bookings, Occupies(c)
                 PROVE  booking[c].unit \in Units \ {u} /\ c # b
      OBVIOUS
    <2>1. booking[c].unit \in Units /\ c # b
      BY <1>0, <1>2 DEF Occupies, TypeOK, Row
    <2>2. unit[booking[c].unit] \in LiveStatus
      BY DEF OneYearInv, Occupancy
    <2> QED
      BY <1>1, <2>1, <2>2 DEF BOOKABLE_FROM, LiveStatus
  <1>6. \A c \in Bookings : Occupies(c)' <=> (Occupies(c) \/ c = b)
    BY <1>3, <1>5 DEF Occupies, LiveStatus
  <1>7. Occupancy'
    <2>1. ASSUME NEW c \in Bookings, NEW d \in Bookings, Occupies(c)', Occupies(d)',
                 booking'[c].unit = booking'[d].unit
          PROVE  c = d
      BY <1>3, <1>5, <1>6, <2>1 DEF OneYearInv, Occupancy
    <2>2. ASSUME NEW c \in Bookings, Occupies(c)' PROVE unit'[booking'[c].unit] \in LiveStatus
      BY <1>3, <1>4, <1>5, <1>6, <2>2 DEF OneYearInv, Occupancy, LiveStatus
    <2>3. ASSUME NEW v \in Units, unit'[v] \in LiveStatus
          PROVE  \E c \in Bookings : Occupies(c)' /\ booking'[c].unit = v
      BY <1>3, <1>4, <1>5, <1>6, <2>3 DEF OneYearInv, Occupancy
    <2> QED
      BY <2>1, <2>2, <2>3 DEF Occupancy
  <1>8. ASSUME NEW o \in Txs, o # t PROVE Working(o)'
    <2>0. Working(o)
      BY DEF OneYearInv
    <2>1. /\ pc'[o] = pc[o] /\ req'[o] = req[o] /\ num'[o] = num[o] /\ moves'[o] = moves[o]
          /\ wUnit'[o] = wUnit[o] /\ wBooking'[o] = wBooking[o]
      BY <1>0, <1>8, EndEffect
    <2>2. /\ Untouched(o)' <=> Untouched(o)
          /\ Clean(o)' <=> Clean(o)
          /\ \A c : WroteOnly(o, c)' <=> WroteOnly(o, c)
      BY <2>1 DEF Untouched, Clean, WroteOnly
    <2>3. CASE pc[o] = "idle" /\ Untouched(o)
      BY <2>1, <2>2, <2>3 DEF Working
    <2>4. CASE pc[o] # "idle" /\ req[o].op = "create" /\ Creating(o)
      <3>1. num[o] = 0
        BY <1>0, <1>8 DEF CounterInv, OneYear
      <3>2. pc[o] = "allocate"
        BY <2>4, <3>1 DEF Creating
      <3> QED
        BY <2>1, <2>2, <2>4, <3>2 DEF Working, Creating
    <2>5. CASE pc[o] # "idle" /\ req[o].op = "advance" /\ Advancing(o)
      <3>1. Occupies(req[o].booking)' /\ booking'[req[o].booking] = booking[req[o].booking]
        BY <1>3, <1>5, <1>6, <2>1, <2>5 DEF Advancing
      <3> QED
        BY <2>1, <2>2, <2>5, <3>1 DEF Working, Advancing
    <2> QED
      BY <2>0, <2>3, <2>4, <2>5 DEF Working
  <1>9. Working(t)'
    BY <1>0, EndEffect DEF Working
  <1> QED
    BY <1>7, <1>8, <1>9 DEF OneYearInv

\* The commit of an allotment or a registration: booking and unit stay live.
LEMMA OneYearCommitAdvance ==
    ASSUME OneYear, IInv, OneYearInv, NEW t \in Txs, Commit(t), req[t].op = "advance", Advancing(t)
    PROVE  OneYearInv'
  <1>0. TypeOK /\ pc[t] = "commit" /\ End(t)
    BY DEF IInv, Commit
  <1> DEFINE b == req[t].booking
             u == booking[b].unit
  <1>1. /\ b \in Bookings /\ Occupies(b) /\ u \in Units
        /\ req[t].to \in LiveStatus
        /\ unit[u] \in LiveStatus
    BY <1>0 DEF Advancing, OneYearInv, Occupancy, Occupies, TypeOK, Row, LiveStatus
  <1>3. /\ booking'[b] # NULL /\ booking'[b].unit = u /\ booking'[b].status \in LiveStatus
        /\ \A c \in Bookings \ {b} : booking'[c] = booking[c]
    BY <1>0, <1>1 DEF Commit, WroteOnly, Advancing
  <1>4. unit'[u] \in LiveStatus /\ \A v \in Units \ {u} : unit'[v] = unit[v]
    <2>1. \A v \in Units : wUnit[t][v] = IF v = u THEN req[t].to ELSE NULL
      BY <1>0 DEF Advancing
    <2>2. req[t].to # NULL
      BY <1>1, TxAssumption DEF UnitStatus, LiveStatus
    <2> QED
      BY <1>1, <2>1, <2>2 DEF Commit, UnitSeen
  <1>5. \A c \in Bookings : booking[c] # NULL =>
           booking'[c] # NULL /\ booking'[c].unit = booking[c].unit
    BY <1>1, <1>3
  <1>6. \A c \in Bookings : Occupies(c)' <=> Occupies(c)
    BY <1>1, <1>3 DEF Occupies
  <1>7. Occupancy'
    <2>0. \A c \in Bookings : Occupies(c) => booking'[c].unit = booking[c].unit /\ booking[c].unit \in Units
      BY <1>0, <1>5 DEF Occupies, TypeOK, Row
    <2>1. ASSUME NEW c \in Bookings, NEW d \in Bookings, Occupies(c)', Occupies(d)',
                 booking'[c].unit = booking'[d].unit
          PROVE  c = d
      BY <1>6, <2>0, <2>1 DEF OneYearInv, Occupancy
    <2>2. ASSUME NEW c \in Bookings, Occupies(c)' PROVE unit'[booking'[c].unit] \in LiveStatus
      BY <1>4, <1>6, <2>0, <2>2 DEF OneYearInv, Occupancy
    <2>3. ASSUME NEW v \in Units, unit'[v] \in LiveStatus
          PROVE  \E c \in Bookings : Occupies(c)' /\ booking'[c].unit = v
      BY <1>1, <1>4, <1>6, <2>0, <2>3 DEF OneYearInv, Occupancy
    <2> QED
      BY <2>1, <2>2, <2>3 DEF Occupancy
  <1>8. ASSUME NEW o \in Txs, o # t PROVE Working(o)'
    <2>0. Working(o)
      BY DEF OneYearInv
    <2>1. /\ pc'[o] = pc[o] /\ req'[o] = req[o] /\ num'[o] = num[o] /\ moves'[o] = moves[o]
          /\ wUnit'[o] = wUnit[o] /\ wBooking'[o] = wBooking[o]
      BY <1>0, <1>8, EndEffect
    <2>2. /\ Untouched(o)' <=> Untouched(o)
          /\ Clean(o)' <=> Clean(o)
          /\ \A c : WroteOnly(o, c)' <=> WroteOnly(o, c)
      BY <2>1 DEF Untouched, Clean, WroteOnly
    <2>3. CASE pc[o] = "idle" /\ Untouched(o)
      BY <2>1, <2>2, <2>3 DEF Working
    <2>4. CASE pc[o] # "idle" /\ req[o].op = "create" /\ Creating(o)
      <3>1. \A c \in Bookings : booking[c] = NULL => booking'[c] = NULL
        BY <1>1, <1>3 DEF Occupies
      <3>2. unit[req[o].unit] \in BOOKABLE_FROM => unit'[req[o].unit] = unit[req[o].unit]
        BY <1>1, <1>4, <2>4 DEF Creating, BOOKABLE_FROM, LiveStatus
      <3> QED
        BY <2>1, <2>2, <2>4, <3>1, <3>2 DEF Working, Creating
    <2>5. CASE pc[o] # "idle" /\ req[o].op = "advance" /\ Advancing(o)
      <3>1. Occupies(req[o].booking)' /\ booking'[req[o].booking].unit = booking[req[o].booking].unit
        BY <1>5, <1>6, <2>1, <2>5 DEF Advancing, Occupies
      <3> QED
        BY <2>1, <2>2, <2>5, <3>1 DEF Working, Advancing
    <2> QED
      BY <2>0, <2>3, <2>4, <2>5 DEF Working
  <1>9. Working(t)'
    BY <1>0, EndEffect DEF Working
  <1> QED
    BY <1>7, <1>8, <1>9 DEF OneYearInv

LEMMA OneYearStep == OneYear /\ IInv /\ OneYearInv /\ [Next]_vars => OneYearInv'
  <1> SUFFICES ASSUME OneYear, IInv, OneYearInv, [Next]_vars PROVE OneYearInv'
    OBVIOUS
  <1>1. ASSUME NEW t \in Txs, Commit(t) PROVE OneYearInv'
    <2>1. (req[t].op = "create" /\ Creating(t)) \/ (req[t].op = "advance" /\ Advancing(t))
      BY <1>1 DEF Commit, OneYearInv, Working
    <2> QED
      BY <1>1, <2>1, OneYearCommitCreate, OneYearCommitAdvance
  <1>2. ASSUME NEW t \in Txs, Rollback(t) PROVE OneYearInv'
    BY <1>2, EndEffect, OneYearLocal DEF IInv, Rollback, Working
  <1>3. CASE UNCHANGED vars
    <2>1. ASSUME NEW t \in Txs PROVE Working(t)'
      BY <1>3, WorkingStays DEF OneYearInv, vars
    <2> QED
      BY <1>3, <2>1 DEF OneYearInv, Occupancy, Occupies, vars
  <1> QED
    BY <1>1, <1>2, <1>3, OneYearOpens, OneYearStatement, NextCases

\* Bookings created and advanced at the same time never put two live bookings on
\* one unit, nor a unit and its booking out of step, whatever their number and
\* wherever they roll back, as long as they are dated in one financial year: the
\* counter of the year, which createBooking holds to its commit, orders the
\* creations (allocateForFy before UnitStateMachineService.transition).
THEOREM UnitOccupiedWithinOneYear ==
    ASSUME OneYear
    PROVE  Spec => []UnitOccupiedByBooking
  <1>1. IInv /\ OneYearInv => UnitOccupiedByBooking
    BY OccupancyIsProperty DEF IInv, OneYearInv
  <1>2. IInv /\ OneYearInv /\ [Next]_vars => OneYearInv'
    BY OneYearStep
  <1> QED
    BY <1>1, <1>2, OneYearInit, InvariantHolds, PTL DEF Spec

\* Within one financial year a creation commits on a unit that is still
\* AVAILABLE or HELD.  BookingTwoYears shows that two years are enough to lose
\* this: creations of different years hold different counters.
THEOREM BookableWithinOneYear ==
    ASSUME OneYear
    PROVE  Spec => OnlyBookableUnitsAreBooked
  <1>1. IInv /\ OneYearInv =>
           \A t \in Txs : Commit(t) /\ req[t].op \in {"create", "transferUnit"}
              => unit[req[t].unit] \in BOOKABLE_FROM
    BY DEF OneYearInv, Working, Creating, Commit
  <1>2. IInv /\ OneYearInv /\ [Next]_vars =>
           [\A t \in Txs : Commit(t) /\ req[t].op \in {"create", "transferUnit"}
              => unit[req[t].unit] \in BOOKABLE_FROM]_vars
    BY <1>1
  <1>3. IInv /\ OneYearInv /\ [Next]_vars => OneYearInv'
    BY OneYearStep
  <1> QED
    BY <1>2, <1>3, OneYearInit, InvariantHolds, PTL DEF Spec, OnlyBookableUnitsAreBooked

-----------------------------------------------------------------------------
(* Any operations, as long as those at the same time are about other units. *)

\* Plan m takes unit u into, or out of, the booking lifecycle.
Takes(m, u) == \E i \in 1 .. Len(m) : m[i][1] = u /\ m[i][2] \in LiveStatus
Frees(m, u) == \E i \in 1 .. Len(m) : m[i][1] = u /\ m[i][2] \notin LiveStatus

\* What t will commit if it makes the moves it still has to make.
RowSeen(t, b) == IF wBooking[t][b] # NULL THEN wBooking[t][b] ELSE booking[b]
WillOccupy(t, b) == RowSeen(t, b) # NULL /\ RowSeen(t, b).status \in LiveStatus
WillBeLive(t, u) ==
    Takes(moves[t], u) \/ (~Frees(moves[t], u) /\ UnitSeen(t, u) \in LiveStatus)

\* The plan is single-minded, and units and bookings will agree at its end.
Settled(t) ==
    /\ \A u \in Units : ~(Takes(moves[t], u) /\ Frees(moves[t], u))
    /\ \A b, c \in Bookings :
          WillOccupy(t, b) /\ WillOccupy(t, c) /\ RowSeen(t, b).unit = RowSeen(t, c).unit => b = c
    /\ \A b \in Bookings : WillOccupy(t, b) => WillBeLive(t, RowSeen(t, b).unit)
    /\ \A u \in Units : WillBeLive(t, u) =>
          \E b \in Bookings : WillOccupy(t, b) /\ RowSeen(t, b).unit = u

\* The booking of t's request occupies its unit; no unit is written yet.
Serving(t) ==
    /\ req[t].booking \in Bookings /\ Occupies(req[t].booking)
    /\ Untouched(t)

\* t has written that booking out of the live ones, and nothing else.
Leaving(t) ==
    /\ WroteOnly(t, req[t].booking)
    /\ wBooking[t][req[t].booking].status \notin LiveStatus

\* A transfer's plan: the old unit is cancelled and freed, the new one booked.
TransferPlan(t) ==
    moves[t] = << <<booking[req[t].booking].unit, "CANCELLED">>,
                  <<booking[req[t].booking].unit, "AVAILABLE">>,
                  <<req[t].unit, "BOOKED">> >>

MayTake(t) == req[t].unit \in Units /\ unit[req[t].unit] \in BOOKABLE_FROM

\* What is planned at each statement of each handler.
WritesBooking(t) ==
    /\ Serving(t) /\ Clean(t)
    /\ \/ /\ req[t].op = "advance" /\ req[t].to \in {"ALLOTTED", "REGISTERED"}
          /\ moves[t] = << <<booking[req[t].booking].unit, req[t].to>> >>
       \/ req[t].op = "cancel" /\ req[t].to \in {"CANCELLED", "SURRENDERED"}
       \/ req[t].op = "transferUnit" /\ req[t].to = "TRANSFERRED_OUT" /\ TransferPlan(t) /\ MayTake(t)
       \/ /\ req[t].op = "transferApplicant" /\ req[t].to = "TRANSFERRED_OUT"
          /\ req[t].unit = booking[req[t].booking].unit /\ moves[t] = <<>>

Allocates(t) ==
    \/ /\ req[t].op = "create" /\ Untouched(t) /\ Clean(t) /\ MayTake(t)
       /\ moves[t] = << <<req[t].unit, "BOOKED">> >>
    \/ req[t].op = "transferUnit" /\ Serving(t) /\ Leaving(t) /\ TransferPlan(t) /\ MayTake(t)
    \/ /\ req[t].op = "transferApplicant" /\ Serving(t) /\ Leaving(t)
       /\ req[t].unit = booking[req[t].booking].unit /\ moves[t] = <<>>

Manual(t) ==
    /\ req[t].op = "manual" /\ Clean(t) /\ Untouched(t)
    /\ req[t].unit \in Units /\ req[t].to \in UnitStatus \ SYSTEM_ONLY_TARGET_STATUSES
    /\ moves[t] = << <<req[t].unit, req[t].to>> >>

ApartAt(t) ==
    /\ pc[t] = "idle" => Untouched(t)
    /\ pc[t] = "checkUnit" =>
          /\ Serving(t) /\ Clean(t) /\ req[t].op = "transferUnit"
          /\ req[t].to = "TRANSFERRED_OUT" /\ req[t].unit \in Units /\ TransferPlan(t)
    /\ pc[t] = "writeBooking" => WritesBooking(t)
    /\ pc[t] = "cancelUnit" => Serving(t) /\ Leaving(t) /\ req[t].op = "cancel"
    /\ pc[t] = "allocate" => Allocates(t)
    /\ pc[t] = "readUnit" => Manual(t) \/ Settled(t)
    /\ pc[t] \in {"writeUnit", "commit"} => Settled(t)
    /\ pc[t] \in {"readUnit", "writeUnit", "commit"} /\ req[t].op \in {"create", "transferUnit"} =>
          MayTake(t)
    /\ pc[t] = "commit" => moves[t] = <<>>

\* What t writes and plans to write is about the units its request is about.
Footprint(t) ==
    /\ req[t].booking # NULL => req[t].booking \in Bookings /\ booking[req[t].booking] # NULL
    /\ \A u \in Units : wUnit[t][u] # NULL \/ Takes(moves[t], u) \/ Frees(moves[t], u) =>
          u \in Concerns(t)
    /\ \A b \in Bookings : wBooking[t][b] # NULL =>
          /\ wBooking[t][b].unit \in Concerns(t)
          /\ booking[b] # NULL => booking[b].unit = wBooking[t][b].unit

ApartInv == Occupancy /\ \A t \in Txs : ApartAt(t) /\ Footprint(t)

LEMMA ApartInit == Init => ApartInv
  <1> SUFFICES ASSUME Init PROVE ApartInv
    OBVIOUS
  <1>1. Occupancy
    BY DEF Init, Occupancy, Occupies, LiveStatus
  <1>2. ASSUME NEW t \in Txs PROVE ApartAt(t) /\ Footprint(t)
    <2>1. /\ pc[t] = "idle" /\ moves[t] = <<>> /\ req[t].booking = NULL
          /\ \A u \in Units : wUnit[t][u] = NULL
          /\ \A b \in Bookings : wBooking[t][b] = NULL
      BY DEF Init, NoRequest, Request
    <2>2. \A u \in Units : ~Takes(<<>>, u) /\ ~Frees(<<>>, u)
      BY DEF Takes, Frees
    <2>3. Footprint(t)
      BY <2>1, <2>2 DEF Footprint
    <2>4. ApartAt(t)
      BY <2>1 DEF ApartAt, Untouched
    <2> QED
      BY <2>3, <2>4
  <1> QED
    BY <1>1, <1>2 DEF ApartInv

\* The first move of a plan, and the rest.
LEMMA FirstMove ==
    ASSUME NEW m \in Seq(Units \X UnitStatus), m # <<>>, NEW u
    PROVE  /\ Takes(m, u) <=> (Head(m)[1] = u /\ Head(m)[2] \in LiveStatus) \/ Takes(Tail(m), u)
           /\ Frees(m, u) <=> (Head(m)[1] = u /\ Head(m)[2] \notin LiveStatus) \/ Frees(Tail(m), u)
  <1>1. Len(m) \in Nat /\ Len(m) >= 1
    BY EmptySeq, LenProperties
  <1>2. /\ Head(m) = m[1] /\ Len(Tail(m)) = Len(m) - 1
        /\ \A i \in 1 .. Len(Tail(m)) : Tail(m)[i] = m[i + 1]
    BY HeadTailProperties
  <1>3. \A i \in 1 .. Len(m) : i = 1 \/ (i - 1 \in 1 .. Len(Tail(m)) /\ Tail(m)[i - 1] = m[i])
    <2> SUFFICES ASSUME NEW i \in 1 .. Len(m), i # 1
                 PROVE  i - 1 \in 1 .. Len(Tail(m)) /\ Tail(m)[i - 1] = m[i]
      OBVIOUS
    <2>1. i - 1 \in 1 .. Len(Tail(m)) /\ (i - 1) + 1 = i
      BY <1>1, <1>2
    <2> QED
      BY <1>2, <2>1
  <1>4. \A i \in 1 .. Len(Tail(m)) : i + 1 \in 1 .. Len(m)
    BY <1>1, <1>2
  <1>5. 1 \in 1 .. Len(m)
    BY <1>1
  <1>6. Takes(m, u) <=> (Head(m)[1] = u /\ Head(m)[2] \in LiveStatus) \/ Takes(Tail(m), u)
    BY ONLY <1>2, <1>3, <1>4, <1>5 DEF Takes
  <1>7. Frees(m, u) <=> (Head(m)[1] = u /\ Head(m)[2] \notin LiveStatus) \/ Frees(Tail(m), u)
    <2>1. ASSUME Frees(m, u)
          PROVE  (Head(m)[1] = u /\ Head(m)[2] \notin LiveStatus) \/ Frees(Tail(m), u)
      <3>1. PICK i \in 1 .. Len(m) : m[i][1] = u /\ m[i][2] \notin LiveStatus
        BY <2>1 DEF Frees
      <3> QED
        BY ONLY <1>2, <1>3, <3>1 DEF Frees
    <2>2. ASSUME Frees(Tail(m), u) PROVE Frees(m, u)
      <3>1. PICK i \in 1 .. Len(Tail(m)) : Tail(m)[i][1] = u /\ Tail(m)[i][2] \notin LiveStatus
        BY <2>2 DEF Frees
      <3> QED
        BY ONLY <1>2, <1>4, <3>1 DEF Frees
    <2>3. ASSUME Head(m)[1] = u, Head(m)[2] \notin LiveStatus PROVE Frees(m, u)
      BY ONLY <1>2, <1>5, <2>3 DEF Frees
    <2> QED
      BY <2>1, <2>2, <2>3
  <1> QED
    BY <1>6, <1>7

LEMMA NoMoves ==
    ASSUME NEW u
    PROVE  ~Takes(<<>>, u) /\ ~Frees(<<>>, u)
  BY DEF Takes, Frees

LEMMA OneMove ==
    ASSUME NEW v, NEW s, NEW u
    PROVE  /\ Takes(<< <<v, s>> >>, u) <=> v = u /\ s \in LiveStatus
           /\ Frees(<< <<v, s>> >>, u) <=> v = u /\ s \notin LiveStatus
  BY DEF Takes, Frees

LEMMA TwoMoves ==
    ASSUME NEW v, NEW u
    PROVE  /\ ~Takes(<< <<v, "CANCELLED">>, <<v, "AVAILABLE">> >>, u)
           /\ Frees(<< <<v, "CANCELLED">>, <<v, "AVAILABLE">> >>, u) <=> v = u
  BY DEF Takes, Frees, LiveStatus

LEMMA ThreeMoves ==
    ASSUME NEW v, NEW w, NEW u
    PROVE  /\ Takes(<< <<v, "CANCELLED">>, <<v, "AVAILABLE">>, <<w, "BOOKED">> >>, u) <=> w = u
           /\ Frees(<< <<v, "CANCELLED">>, <<v, "AVAILABLE">>, <<w, "BOOKED">> >>, u) <=> v = u
  BY DEF Takes, Frees, LiveStatus

LEMMA OccupancyStays ==
    ASSUME Occupancy, UNCHANGED <<unit, booking>>
    PROVE  Occupancy'
  BY DEF Occupancy, Occupies

\* The booking of a request keeps the units of its request in view.
LEMMA ConcernsIs ==
    ASSUME TypeOK, NEW t \in Txs
    PROVE  /\ Concerns(t) \subseteq Units
           /\ req[t].unit \in Units => req[t].unit \in Concerns(t)
           /\ \A b \in Bookings : req[t].booking = b /\ booking[b] # NULL =>
                 booking[b].unit \in Concerns(t)
  BY TxAssumption DEF Concerns, TypeOK, Row

\* Nothing of o changes, nor anything about the units its request is about.
OwnStays(o) ==
    /\ pc'[o] = pc[o] /\ req'[o] = req[o] /\ num'[o] = num[o] /\ moves'[o] = moves[o]
    /\ wUnit'[o] = wUnit[o] /\ wBooking'[o] = wBooking[o]

Beside(o) ==
    /\ OwnStays(o)
    /\ \A u \in Concerns(o) : unit'[u] = unit[u]
    /\ \A b \in Bookings :
          \/ booking[b] # NULL /\ booking[b].unit \in Concerns(o)
          \/ booking'[b] # NULL /\ booking'[b].unit \in Concerns(o)
          \/ wBooking[o][b] # NULL
          => booking'[b] = booking[b]

LEMMA BesideConcerns ==
    ASSUME TypeOK, NEW o \in Txs, Footprint(o), Beside(o)
    PROVE  /\ Concerns(o)' = Concerns(o)
           /\ req[o].booking # NULL => booking'[req[o].booking] = booking[req[o].booking]
  <1>1. req'[o] = req[o]
    BY DEF Beside, OwnStays
  <1>2. ASSUME req[o].booking # NULL
        PROVE  booking'[req[o].booking] = booking[req[o].booking]
    BY <1>2, ConcernsIs DEF Footprint, Beside
  <1> QED
    BY <1>1, <1>2 DEF Concerns

\* b is a booking that will occupy unit u once o has committed.
WillBeOn(o, b, u) == WillOccupy(o, b) /\ RowSeen(o, b).unit = u

\* Settled, unit by unit.
SettledOn(o, u) ==
    /\ ~(Takes(moves[o], u) /\ Frees(moves[o], u))
    /\ \A b, c \in Bookings : WillBeOn(o, b, u) /\ WillBeOn(o, c, u) => b = c
    /\ WillBeLive(o, u) <=> \E b \in Bookings : WillBeOn(o, b, u)

SettlesByUnit == \A o \in Txs : TypeOK => (Settled(o) <=> \A u \in Units : SettledOn(o, u))

LEMMA SettledByUnit == SettlesByUnit
  <1> SUFFICES ASSUME TypeOK, NEW o \in Txs
               PROVE  Settled(o) <=> \A u \in Units : SettledOn(o, u)
    BY DEF SettlesByUnit
  <1>1. \A b \in Bookings : WillOccupy(o, b) => RowSeen(o, b).unit \in Units
    BY DEF WillOccupy, RowSeen, TypeOK, Row
  <1>2. ASSUME Settled(o), NEW u \in Units PROVE SettledOn(o, u)
    BY <1>2 DEF Settled, WillBeOn, SettledOn
  <1>3. ASSUME \A u \in Units : SettledOn(o, u) PROVE Settled(o)
    <2>1. \A b, c \in Bookings :
             WillOccupy(o, b) /\ WillOccupy(o, c) /\ RowSeen(o, b).unit = RowSeen(o, c).unit => b = c
      BY <1>1, <1>3 DEF WillBeOn, SettledOn
    <2>2. \A b \in Bookings : WillOccupy(o, b) => WillBeLive(o, RowSeen(o, b).unit)
      BY <1>1, <1>3 DEF WillBeOn, SettledOn
    <2>3. \A u \in Units : WillBeLive(o, u) =>
             \E b \in Bookings : WillOccupy(o, b) /\ RowSeen(o, b).unit = u
      BY <1>3 DEF WillBeOn, SettledOn
    <2> QED
      BY <1>3, <2>1, <2>2, <2>3 DEF Settled, SettledOn
  <1> QED
    BY <1>2, <1>3

LEMMA SettledByUnitNext == SettlesByUnit'
  BY SettledByUnit, PTL

\* A plan settles as long as the rows it is about stay: those of other units agree
\* among themselves.
LEMMA BesideSettled ==
    ASSUME TypeOK, TypeOK', Occupancy', NEW o \in Txs, Footprint(o), Beside(o), Settled(o)
    PROVE  Settled(o)'
  <1>1. moves'[o] = moves[o] /\ wUnit'[o] = wUnit[o] /\ wBooking'[o] = wBooking[o]
    BY DEF Beside, OwnStays
  <1>2. ASSUME NEW u \in Units, u \in Concerns(o) PROVE SettledOn(o, u)'
    <2>1. WillBeLive(o, u)' <=> WillBeLive(o, u)
      BY <1>1, <1>2 DEF Beside, WillBeLive, UnitSeen
    <2>2. ASSUME NEW b \in Bookings PROVE WillBeOn(o, b, u)' <=> WillBeOn(o, b, u)
      <3>1. CASE wBooking[o][b] # NULL
        BY <1>1, <3>1 DEF WillBeOn, WillOccupy, RowSeen
      <3>2. CASE wBooking[o][b] = NULL
        <4>1. RowSeen(o, b)' = booking'[b] /\ RowSeen(o, b) = booking[b]
          BY <1>1, <3>2 DEF RowSeen
        <4>2. (WillBeOn(o, b, u)' \/ WillBeOn(o, b, u)) => booking'[b] = booking[b]
          BY <1>2, <4>1 DEF WillBeOn, WillOccupy, Beside
        <4> QED
          BY <4>1, <4>2 DEF WillBeOn, WillOccupy
      <3> QED
        BY <3>1, <3>2
    <2>3. SettledOn(o, u)
      BY SettledByUnit DEF SettlesByUnit
    <2> QED
      BY <1>1, <2>1, <2>2, <2>3 DEF SettledOn
  <1>3. ASSUME NEW u \in Units, u \notin Concerns(o) PROVE SettledOn(o, u)'
    <2>1. ~Takes(moves[o], u) /\ ~Frees(moves[o], u) /\ wUnit[o][u] = NULL
      BY <1>3 DEF Footprint
    <2>2. WillBeLive(o, u)' <=> unit'[u] \in LiveStatus
      BY <1>1, <2>1 DEF WillBeLive, UnitSeen
    <2>3. ASSUME NEW b \in Bookings
          PROVE  WillBeOn(o, b, u)' <=> (Occupies(b) /\ booking[b].unit = u)'
      <3>1. CASE wBooking[o][b] # NULL
        <4>1. wBooking[o][b].unit \in Concerns(o) /\ booking'[b] = booking[b]
              /\ (booking[b] # NULL => booking[b].unit = wBooking[o][b].unit)
          BY <3>1 DEF Footprint, Beside
        <4>2. ~WillBeOn(o, b, u)'
          BY <1>1, <1>3, <3>1, <4>1 DEF WillBeOn, RowSeen
        <4>3. ~(Occupies(b) /\ booking[b].unit = u)'
          BY <1>3, <4>1 DEF Occupies
        <4> QED
          BY <4>2, <4>3
      <3>2. CASE wBooking[o][b] = NULL
        BY <1>1, <3>2 DEF WillBeOn, WillOccupy, RowSeen, Occupies
      <3> QED
        BY <3>1, <3>2
    <2>4. /\ \A b, c \in Bookings :
                 (Occupies(b) /\ booking[b].unit = u)' /\ (Occupies(c) /\ booking[c].unit = u)' => b = c
          /\ unit'[u] \in LiveStatus <=> \E b \in Bookings : (Occupies(b) /\ booking[b].unit = u)'
      BY DEF Occupancy
    <2> QED
      BY <1>1, <2>1, <2>2, <2>3, <2>4 DEF SettledOn
  <1>4. (\A u \in Units : SettledOn(o, u))'
    BY <1>2, <1>3
  <1>5. Settled(o)' <=> (\A u \in Units : SettledOn(o, u))'
    BY SettledByUnitNext DEF SettlesByUnit
  <1> QED
    BY <1>4, <1>5

\* Beside another transaction's step, o stands where it stood.
LEMMA BesideStays ==
    ASSUME TypeOK, TypeOK', Occupancy', NEW o \in Txs, Footprint(o), ApartAt(o), Beside(o)
    PROVE  ApartAt(o)' /\ Footprint(o)'
  <1>1. OwnStays(o) /\ Concerns(o)' = Concerns(o)
        /\ (req[o].booking # NULL => booking'[req[o].booking] = booking[req[o].booking])
    BY BesideConcerns DEF Beside
  <1>2. Footprint(o)'
    <2>1. \A b \in Bookings : wBooking[o][b] # NULL => booking'[b] = booking[b]
      BY DEF Beside
    <2> QED
      BY <1>1, <2>1 DEF Footprint, OwnStays
  <1>3. /\ Untouched(o)' <=> Untouched(o)
        /\ Clean(o)' <=> Clean(o)
        /\ Leaving(o)' <=> Leaving(o)
    BY <1>1 DEF OwnStays, Untouched, Clean, Leaving, WroteOnly
  <1>4. MayTake(o) => MayTake(o)'
    BY <1>1, ConcernsIs DEF OwnStays, MayTake, Beside
  <1>5. Serving(o) => /\ req[o].booking # NULL /\ Serving(o)'
                      /\ booking'[req[o].booking] = booking[req[o].booking]
    BY <1>1, <1>3, TxAssumption DEF OwnStays, Serving, Occupies
  <1>6. Serving(o) /\ TransferPlan(o) => TransferPlan(o)'
    BY <1>1, <1>5 DEF OwnStays, TransferPlan
  <1>7. WritesBooking(o) => WritesBooking(o)'
    BY <1>1, <1>3, <1>4, <1>5, <1>6 DEF OwnStays, WritesBooking
  <1>8. Allocates(o) => Allocates(o)'
    BY <1>1, <1>3, <1>4, <1>5, <1>6 DEF OwnStays, Allocates
  <1>9. Manual(o) => Manual(o)'
    BY <1>1, <1>3 DEF OwnStays, Manual
  <1>10. Settled(o) => Settled(o)'
    BY BesideSettled
  <1>11. ApartAt(o)'
    BY <1>1, <1>3, <1>4, <1>5, <1>6, <1>7, <1>8, <1>9, <1>10 DEF OwnStays, ApartAt
  <1> QED
    BY <1>2, <1>11

\* A statement that commits nothing concerns its own transaction only.
LEMMA ApartLocal ==
    ASSUME ApartInv, TypeOK, TypeOK', NEW t \in Txs, UNCHANGED <<unit, booking>>,
           \A o \in Txs \ {t} : OwnStays(o), ApartAt(t)', Footprint(t)'
    PROVE  ApartInv'
  <1>1. Occupancy'
    BY OccupancyStays DEF ApartInv
  <1>2. ASSUME NEW o \in Txs, o # t PROVE ApartAt(o)' /\ Footprint(o)'
    <2>1. Beside(o)
      BY <1>2 DEF Beside
    <2> QED
      BY <1>1, <2>1, BesideStays DEF ApartInv
  <1> QED
    BY <1>1, <1>2 DEF ApartInv

LEMMA OpensType ==
    ASSUME IInv, NEW t \in Txs, Opens(t)
    PROVE  TypeOK'
  BY NextType DEF Opens, Next

\* Where the request stays, what it is about stays.
LEMMA ConcernsStays ==
    ASSUME NEW t \in Txs, UNCHANGED <<booking, req>>
    PROVE  Concerns(t)' = Concerns(t)
  BY DEF Concerns

\* Nothing is left of a transaction that has ended.
LEMMA EndsClean ==
    ASSUME TypeOK, NEW t \in Txs, End(t)
    PROVE  Footprint(t)'
  <1>1. /\ req'[t] = NoRequest /\ moves'[t] = <<>>
        /\ wUnit'[t] = [u \in Units |-> NULL] /\ wBooking'[t] = [b \in Bookings |-> NULL]
    BY DEF End, TypeOK
  <1>2. req'[t].booking = NULL
    BY <1>1 DEF NoRequest, Request
  <1> QED
    BY <1>1, <1>2, NoMoves DEF Footprint

\* Every handler opens on what it has read.
LEMMA ApartOpens ==
    ASSUME IInv, ApartInv, NEW t \in Txs, Opens(t)
    PROVE  ApartInv'
  <1>1. Opened(t) /\ TypeOK
    BY OpensEffect DEF IInv
  <1>2. Clean(t) /\ Untouched(t) /\ pc[t] = "idle"
    BY <1>1 DEF Opened, IInv, LabelInv, ApartInv, ApartAt
  <1>3. Clean(t)' /\ Untouched(t)' /\ unit' = unit /\ booking' = booking /\ TypeOK'
    BY <1>1, <1>2, OpensType DEF Opened, Clean, Untouched
  <1>0. ASSUME req'[t].booking # NULL => /\ req'[t].booking \in Bookings
                                         /\ booking[req'[t].booking] # NULL,
               \A u \in Units : Takes(moves'[t], u) \/ Frees(moves'[t], u) => u \in Concerns(t)'
        PROVE  Footprint(t)'
    BY <1>0, <1>3 DEF Footprint, Clean, Untouched
  <1>4. ASSUME NEW u \in Units, NEW f \in FYs, createBooking(t, u, f)
        PROVE  ApartAt(t)' /\ Footprint(t)'
    <2>1. /\ pc'[t] = "allocate" /\ req'[t].op = "create" /\ req'[t].unit = u /\ req'[t].booking = NULL
          /\ moves'[t] = << <<u, "BOOKED">> >> /\ unit[u] \in BOOKABLE_FROM
      BY <1>1, <1>4 DEF createBooking, Begin, Goto, Request, TypeOK
    <2>2. Allocates(t)'
      BY <1>3, <2>1 DEF Allocates, MayTake
    <2>3. u \in Concerns(t)'
      BY <2>1 DEF Concerns
    <2>4. Footprint(t)'
      BY <1>0, <2>1, <2>3, OneMove
    <2> QED
      BY <2>1, <2>2, <2>4 DEF ApartAt
  <1>5. ASSUME NEW b \in Bookings, NEW to \in {"ALLOTTED", "REGISTERED"}, advance(t, b, to)
        PROVE  ApartAt(t)' /\ Footprint(t)'
    <2>1. /\ pc'[t] = "writeBooking" /\ req'[t].op = "advance"
          /\ req'[t].booking = b /\ req'[t].to = to
          /\ moves'[t] = << <<booking[b].unit, to>> >>
      BY <1>1, <1>5 DEF advance, Begin, Goto, Request, TypeOK
    <2>2. Occupies(b)'
      BY <1>3, <1>5 DEF advance, Occupies, ExpectedFrom, LiveStatus
    <2>3. WritesBooking(t)'
      BY <1>3, <2>1, <2>2 DEF WritesBooking, Serving
    <2>4. booking[b] # NULL /\ b # NULL
      BY <1>5, TxAssumption DEF advance
    <2>5. booking[b].unit \in Concerns(t)'
      BY <1>1, <1>3, <2>1, <2>4 DEF Concerns, TypeOK, Row
    <2>6. Footprint(t)'
      BY <1>0, <2>1, <2>4, <2>5, OneMove
    <2> QED
      BY <2>1, <2>3, <2>6 DEF ApartAt
  <1>6. ASSUME NEW b \in Bookings, NEW to \in {"CANCELLED", "SURRENDERED"}, cancel(t, b, to)
        PROVE  ApartAt(t)' /\ Footprint(t)'
    <2>1. /\ pc'[t] = "writeBooking" /\ req'[t].op = "cancel"
          /\ req'[t].booking = b /\ req'[t].to = to /\ moves'[t] = <<>>
      BY <1>1, <1>6 DEF cancel, Begin, Goto, Request, TypeOK
    <2>2. Occupies(b)'
      BY <1>3, <1>6 DEF cancel, Occupies, CANCELLABLE_FROM, LiveStatus
    <2>3. WritesBooking(t)'
      BY <1>3, <2>1, <2>2 DEF WritesBooking, Serving
    <2>4. booking[b] # NULL /\ b # NULL
      BY <1>6, TxAssumption DEF cancel
    <2>5. Footprint(t)'
      BY <1>0, <2>1, <2>4, NoMoves
    <2> QED
      BY <2>1, <2>3, <2>5 DEF ApartAt
  <1>7. ASSUME NEW b \in Bookings, NEW u \in Units, NEW f \in FYs, transferUnit(t, b, u, f)
        PROVE  ApartAt(t)' /\ Footprint(t)'
    <2>1. /\ pc'[t] = "checkUnit" /\ req'[t].op = "transferUnit" /\ req'[t].unit = u
          /\ req'[t].booking = b /\ req'[t].to = "TRANSFERRED_OUT"
          /\ moves'[t] = << <<booking[b].unit, "CANCELLED">>, <<booking[b].unit, "AVAILABLE">>,
                            <<u, "BOOKED">> >>
      BY <1>1, <1>7 DEF transferUnit, Begin, Goto, Request, TypeOK
    <2>2. Occupies(b)'
      BY <1>3, <1>7 DEF transferUnit, Occupies, TRANSFERABLE_FROM, LiveStatus
    <2>3. booking[b] # NULL /\ b # NULL
      BY <1>7, TxAssumption DEF transferUnit
    <2>4. booking[b].unit \in Concerns(t)' /\ u \in Concerns(t)'
      BY <1>1, <1>3, <2>1, <2>3 DEF Concerns, TypeOK, Row
    <2>5. Footprint(t)'
      BY <1>0, <2>1, <2>3, <2>4, ThreeMoves
    <2> QED
      BY <1>3, <2>1, <2>2, <2>5 DEF ApartAt, Serving, TransferPlan
  <1>8. ASSUME NEW b \in Bookings, NEW f \in FYs, transferApplicant(t, b, f)
        PROVE  ApartAt(t)' /\ Footprint(t)'
    <2>1. /\ pc'[t] = "writeBooking" /\ req'[t].op = "transferApplicant"
          /\ req'[t].unit = booking[b].unit
          /\ req'[t].booking = b /\ req'[t].to = "TRANSFERRED_OUT" /\ moves'[t] = <<>>
      BY <1>1, <1>8 DEF transferApplicant, Begin, Goto, Request, TypeOK
    <2>2. Occupies(b)'
      BY <1>3, <1>8 DEF transferApplicant, Occupies, TRANSFERABLE_FROM, LiveStatus
    <2>3. WritesBooking(t)'
      BY <1>3, <2>1, <2>2 DEF WritesBooking, Serving
    <2>4. booking[b] # NULL /\ b # NULL
      BY <1>8, TxAssumption DEF transferApplicant
    <2>5. Footprint(t)'
      BY <1>0, <2>1, <2>4, NoMoves
    <2> QED
      BY <2>1, <2>3, <2>5 DEF ApartAt
  <1>9. ASSUME NEW u \in Units, NEW to \in UnitStatus, manualTransition(t, u, to)
        PROVE  ApartAt(t)' /\ Footprint(t)'
    <2>1. /\ pc'[t] = "readUnit" /\ req'[t].op = "manual" /\ req'[t].unit = u /\ req'[t].to = to
          /\ req'[t].booking = NULL
          /\ moves'[t] = << <<u, to>> >> /\ to \notin SYSTEM_ONLY_TARGET_STATUSES
      BY <1>1, <1>9 DEF manualTransition, Begin, Goto, Request, TypeOK
    <2>2. Manual(t)'
      BY <1>3, <2>1 DEF Manual
    <2>3. u \in Concerns(t)'
      BY <2>1 DEF Concerns
    <2>4. Footprint(t)'
      BY <1>0, <2>1, <2>3, OneMove
    <2> QED
      BY <2>1, <2>2, <2>4 DEF ApartAt
  <1>10. ApartAt(t)' /\ Footprint(t)'
    BY <1>4, <1>5, <1>6, <1>7, <1>8, <1>9 DEF Opens
  <1>11. \A o \in Txs \ {t} : OwnStays(o)
    BY <1>1 DEF Opened, OwnStays
  <1> QED
    BY <1>1, <1>3, <1>10, <1>11, ApartLocal

\* What t sees of units it has not written.
LEMMA SeesCommitted ==
    ASSUME NEW t \in Txs, Untouched(t), NEW u \in Units
    PROVE  UnitSeen(t, u) = unit[u]
  BY DEF Untouched, UnitSeen

\* A row that t has written is the row it sees; the others are the committed ones.
LEMMA WroteOneRow ==
    ASSUME NEW t \in Txs, NEW b \in Bookings, WroteOnly(t, b)
    PROVE  /\ RowSeen(t, b) = wBooking[t][b] /\ RowSeen(t, b) # NULL
           /\ \A c \in Bookings \ {b} : RowSeen(t, c) = booking[c]
           /\ \A c \in Bookings \ {b} : WillOccupy(t, c) <=> Occupies(c)
           /\ WillOccupy(t, b) <=> wBooking[t][b].status \in LiveStatus
  BY DEF WroteOnly, RowSeen, WillOccupy, Occupies

LEMMA OccupiedUnit ==
    ASSUME TypeOK, NEW b \in Bookings, Occupies(b)
    PROVE  booking[b].unit \in Units
  BY DEF TypeOK, Occupies, Row

\* An allotment planned: the booking and its unit go on together.
PlansAdvance(t, b, s) ==
    /\ Occupies(b) /\ WroteOnly(t, b)
    /\ wBooking[t][b].status = s /\ wBooking[t][b].unit = booking[b].unit
    /\ moves[t] = << <<booking[b].unit, s>> >>

LEMMA SettledAdvance ==
    ASSUME TypeOK, Occupancy, NEW t \in Txs, Untouched(t),
           NEW b \in Bookings, NEW s \in {"ALLOTTED", "REGISTERED"}, PlansAdvance(t, b, s)
    PROVE  Settled(t)
  <1> USE DEF PlansAdvance
  <1>1. s \in LiveStatus
    BY DEF LiveStatus
  <1>2. \A u \in Units : /\ Takes(moves[t], u) <=> booking[b].unit = u
                         /\ ~Frees(moves[t], u)
    BY <1>1, OneMove
  <1>3. \A c \in Bookings : WillOccupy(t, c) <=> Occupies(c)
    BY <1>1, WroteOneRow
  <1>4. \A c \in Bookings : Occupies(c) => RowSeen(t, c).unit = booking[c].unit /\ booking[c].unit \in Units
    BY WroteOneRow, OccupiedUnit
  <1>5. \A u \in Units : WillBeLive(t, u) <=> unit[u] \in LiveStatus
    BY <1>2, SeesCommitted DEF WillBeLive, Occupancy
  <1> QED
    BY <1>2, <1>3, <1>4, <1>5 DEF Settled, Occupancy

\* A cancellation planned: the unit goes out with its booking.
PlansCancel(t, b) ==
    /\ Occupies(b) /\ WroteOnly(t, b) /\ wBooking[t][b].status \notin LiveStatus
    /\ moves[t] = << <<booking[b].unit, "CANCELLED">>, <<booking[b].unit, "AVAILABLE">> >>

LEMMA SettledCancel ==
    ASSUME TypeOK, Occupancy, NEW t \in Txs, Untouched(t),
           NEW b \in Bookings, PlansCancel(t, b)
    PROVE  Settled(t)
  <1> USE DEF PlansCancel
  <1>2. \A u \in Units : /\ ~Takes(moves[t], u)
                         /\ Frees(moves[t], u) <=> booking[b].unit = u
    BY TwoMoves
  <1>3. \A c \in Bookings : WillOccupy(t, c) <=> Occupies(c) /\ c # b
    BY WroteOneRow
  <1>4. \A c \in Bookings : Occupies(c) /\ c # b =>
           RowSeen(t, c).unit = booking[c].unit /\ booking[c].unit \in Units
    BY WroteOneRow DEF Occupies, TypeOK, Row
  <1>5. \A u \in Units : WillBeLive(t, u) <=> unit[u] \in LiveStatus /\ u # booking[b].unit
    BY <1>2, SeesCommitted DEF WillBeLive
  <1> QED
    BY <1>2, <1>3, <1>4, <1>5 DEF Settled, Occupancy

\* A booking planned on a unit that nobody occupies.
PlansCreate(t, n, w) ==
    /\ booking[n] = NULL /\ WroteOnly(t, n) /\ unit[w] \in BOOKABLE_FROM
    /\ wBooking[t][n].status = "BOOKED" /\ wBooking[t][n].unit = w
    /\ moves[t] = << <<w, "BOOKED">> >>

LEMMA SettledCreate ==
    ASSUME TypeOK, Occupancy, NEW t \in Txs, Untouched(t),
           NEW n \in Bookings, NEW w \in Units, PlansCreate(t, n, w)
    PROVE  Settled(t)
  <1> USE DEF PlansCreate
  <1>1. "BOOKED" \in LiveStatus /\ unit[w] \notin LiveStatus
    BY DEF LiveStatus, BOOKABLE_FROM
  <1>2. \A u \in Units : /\ Takes(moves[t], u) <=> w = u
                         /\ ~Frees(moves[t], u)
    BY <1>1, OneMove
  <1>3. \A c \in Bookings : WillOccupy(t, c) <=> Occupies(c) \/ c = n
    BY <1>1, WroteOneRow DEF Occupies
  <1>4. /\ \A c \in Bookings : Occupies(c) =>
              RowSeen(t, c).unit = booking[c].unit /\ booking[c].unit \in Units /\ booking[c].unit # w
        /\ RowSeen(t, n).unit = w
    <2>1. \A c \in Bookings : Occupies(c) => c # n
      BY DEF Occupies
    <2>2. RowSeen(t, n).unit = w
      BY WroteOneRow
    <2>3. \A c \in Bookings : Occupies(c) => booking[c].unit # w
      BY <1>1 DEF Occupancy
    <2> QED
      BY <2>1, <2>2, <2>3, WroteOneRow, OccupiedUnit
  <1>5. \A u \in Units : WillBeLive(t, u) <=> unit[u] \in LiveStatus \/ u = w
    BY <1>2, SeesCommitted DEF WillBeLive
  <1> QED
    BY <1>2, <1>3, <1>4, <1>5 DEF Settled, Occupancy

\* The two rows of a transfer: the old one is out, the new one carries unit w.
TransferRows(t, b, n, w) ==
    /\ b \in Bookings /\ n \in Bookings /\ Occupies(b) /\ booking[n] = NULL
    /\ wBooking[t][b] # NULL /\ wBooking[t][b].status \notin LiveStatus
    /\ wBooking[t][n] # NULL /\ wBooking[t][n].status = "BOOKED" /\ wBooking[t][n].unit = w
    /\ \A c \in Bookings \ {b, n} : wBooking[t][c] = NULL

LEMMA TransferSees ==
    ASSUME TypeOK, NEW t \in Txs, NEW b, NEW n, NEW w, TransferRows(t, b, n, w)
    PROVE  /\ b # n
           /\ \A c \in Bookings : WillOccupy(t, c) <=> (Occupies(c) /\ c # b) \/ c = n
           /\ RowSeen(t, n).unit = w
           /\ \A c \in Bookings : Occupies(c) /\ c # b =>
                 RowSeen(t, c).unit = booking[c].unit /\ booking[c].unit \in Units
  <1>1. b # n /\ ~Occupies(n)
    BY DEF TransferRows, Occupies
  <1>2. \A c \in Bookings : WillOccupy(t, c) <=> (Occupies(c) /\ c # b) \/ c = n
    BY <1>1 DEF TransferRows, WillOccupy, RowSeen, Occupies, LiveStatus
  <1>3. RowSeen(t, n).unit = w
    BY DEF TransferRows, RowSeen
  <1>4. \A c \in Bookings : Occupies(c) /\ c # b =>
           RowSeen(t, c).unit = booking[c].unit /\ booking[c].unit \in Units
    BY <1>1 DEF TransferRows, RowSeen, Occupies, TypeOK, Row
  <1> QED
    BY <1>1, <1>2, <1>3, <1>4

\* A transfer to another unit planned.
PlansTransferUnit(t, b, n, w) ==
    /\ TransferRows(t, b, n, w) /\ unit[w] \in BOOKABLE_FROM
    /\ moves[t] = << <<booking[b].unit, "CANCELLED">>, <<booking[b].unit, "AVAILABLE">>,
                     <<w, "BOOKED">> >>

LEMMA SettledTransferUnit ==
    ASSUME TypeOK, Occupancy, NEW t \in Txs, Untouched(t),
           NEW b, NEW n, NEW w \in Units, PlansTransferUnit(t, b, n, w)
    PROVE  Settled(t)
  <1> USE DEF PlansTransferUnit
  <1>0. b \in Bookings /\ Occupies(b) /\ n \in Bookings
    BY DEF TransferRows
  <1>1. unit[w] \notin LiveStatus /\ booking[b].unit # w
    BY <1>0 DEF LiveStatus, BOOKABLE_FROM, Occupancy
  <1>2. \A u \in Units : /\ Takes(moves[t], u) <=> w = u
                         /\ Frees(moves[t], u) <=> booking[b].unit = u
    BY ThreeMoves
  <1>3. \A u \in Units : WillBeLive(t, u) <=>
           (unit[u] \in LiveStatus /\ u # booking[b].unit) \/ u = w
    BY <1>2, SeesCommitted DEF WillBeLive
  <1>4. \A c \in Bookings : Occupies(c) => booking[c].unit # w
    BY <1>1 DEF Occupancy
  <1> QED
    BY <1>0, <1>1, <1>2, <1>3, <1>4, TransferSees DEF Settled, Occupancy

\* A transfer to another applicant planned: the unit keeps its status.
PlansTransferApplicant(t, b, n) ==
    TransferRows(t, b, n, booking[b].unit) /\ moves[t] = <<>>

LEMMA SettledTransferApplicant ==
    ASSUME TypeOK, Occupancy, NEW t \in Txs, Untouched(t),
           NEW b, NEW n, PlansTransferApplicant(t, b, n)
    PROVE  Settled(t)
  <1> USE DEF PlansTransferApplicant
  <1>0. b \in Bookings /\ Occupies(b) /\ n \in Bookings /\ unit[booking[b].unit] \in LiveStatus
    BY DEF TransferRows, Occupancy
  <1>1. booking[b].unit \in Units
    BY <1>0 DEF TypeOK, Row, Occupies
  <1>2. \A u \in Units : ~Takes(moves[t], u) /\ ~Frees(moves[t], u)
    BY NoMoves
  <1>3. \A u \in Units : WillBeLive(t, u) <=> unit[u] \in LiveStatus
    BY <1>2, SeesCommitted DEF WillBeLive
  <1> QED
    BY <1>0, <1>1, <1>2, <1>3, TransferSees DEF Settled, Occupancy

Planned(t) ==
    \/ \E b \in Bookings, s \in {"ALLOTTED", "REGISTERED"} : PlansAdvance(t, b, s)
    \/ \E b \in Bookings : PlansCancel(t, b)
    \/ \E n \in Bookings, w \in Units : PlansCreate(t, n, w)
    \/ \E b, n \in Bookings, w \in Units : PlansTransferUnit(t, b, n, w)
    \/ \E b, n \in Bookings : PlansTransferApplicant(t, b, n)

PlansSettle ==
    \A t \in Txs : TypeOK /\ Occupancy /\ Untouched(t) /\ Planned(t) => Settled(t)

LEMMA PlansSettleNow == PlansSettle
  BY SettledAdvance, SettledCancel, SettledCreate, SettledTransferUnit, SettledTransferApplicant
     DEF PlansSettle, Planned

\* The same in the state that a statement leads to.
LEMMA PlansSettleNext == PlansSettle'
  BY PlansSettleNow, PTL

LEMMA ApartCheckUnit ==
    ASSUME IInv, ApartInv, NEW t \in Txs, CheckUnit(t)
    PROVE  ApartInv'
  <1>1. /\ TypeOK /\ pc[t] = "checkUnit" /\ pc'[t] = "writeBooking"
        /\ UNCHANGED <<unit, booking, req, num, moves, wUnit, wBooking>>
        /\ \A o \in Txs \ {t} : OwnStays(o)
    BY DEF IInv, CheckUnit, Goto, TypeOK, OwnStays
  <1>2. /\ Serving(t) /\ Clean(t) /\ req[t].op = "transferUnit"
        /\ req[t].to = "TRANSFERRED_OUT" /\ req[t].unit \in Units /\ TransferPlan(t)
    BY <1>1 DEF ApartInv, ApartAt
  <1>3. unit[req[t].unit] \in BOOKABLE_FROM
    BY <1>2, SeesCommitted DEF CheckUnit, Serving
  <1>4. WritesBooking(t)'
    <2>1. Serving(t)' /\ Clean(t)' /\ TransferPlan(t)'
      BY <1>1, <1>2 DEF Serving, Clean, TransferPlan, Occupies, Untouched
    <2> QED
      BY <1>1, <1>2, <1>3, <2>1 DEF WritesBooking, MayTake
  <1>5. ApartAt(t)'
    BY <1>1, <1>4 DEF ApartAt
  <1>6. Footprint(t)'
    BY <1>1, ConcernsStays DEF ApartInv, Footprint
  <1>7. TypeOK'
    BY NextType DEF Next
  <1> QED
    BY <1>1, <1>5, <1>6, <1>7, ApartLocal

LEMMA ApartWriteBooking ==
    ASSUME IInv, ApartInv, NEW t \in Txs, WriteBooking(t)
    PROVE  ApartInv'
  <1> DEFINE b == req[t].booking
             row == [status |-> req[t].to, unit |-> booking[b].unit,
                     fy |-> booking[b].fy, seq |-> booking[b].seq]
  <1>1. /\ TypeOK /\ pc[t] = "writeBooking"
        /\ UNCHANGED <<unit, booking, req, num, moves, wUnit>>
        /\ wBooking' = [wBooking EXCEPT ![t][b] = row]
        /\ pc'[t] = IF req[t].op = "advance" THEN "readUnit"
                    ELSE IF req[t].op = "cancel" THEN "cancelUnit" ELSE "allocate"
        /\ \A o \in Txs \ {t} : OwnStays(o)
    BY DEF IInv, WriteBooking, Goto, TypeOK, OwnStays
  <1>2. WritesBooking(t)
    BY <1>1 DEF ApartInv, ApartAt
  <1>3. b \in Bookings /\ Occupies(b) /\ req[t].to \in BOOKING_STATUS
    BY <1>2 DEF WritesBooking, Serving, BOOKING_STATUS
  <1>4. row \in Row
    BY <1>1, <1>3 DEF Row, TypeOK, Occupies
  <1>5. wBooking'[t][b] = row /\ \A c \in Bookings \ {b} : wBooking'[t][c] = wBooking[t][c]
    BY <1>1, <1>3 DEF TypeOK
  <1>6. /\ WroteOnly(t, b)'
        /\ wBooking'[t][b].status = req[t].to /\ wBooking'[t][b].unit = booking[b].unit
    <2>1. row # NULL
      BY <1>4, TxAssumption
    <2>2. \A c \in Bookings \ {b} : wBooking'[t][c] = NULL
      BY <1>2, <1>5 DEF WritesBooking, Clean
    <2> QED
      BY <1>1, <1>5, <2>1, <2>2 DEF WroteOnly
  <1>7. Serving(t)' /\ Untouched(t)' /\ Occupies(b)'
    BY <1>1, <1>2 DEF WritesBooking, Serving, Occupies, Untouched
  <1>8. TypeOK' /\ Occupancy'
    BY <1>1, NextType, OccupancyStays DEF ApartInv, Next
  <1>11. Footprint(t)'
    <2>1. Footprint(t) /\ Concerns(t)' = Concerns(t) /\ booking[b].unit \in Concerns(t)
      BY <1>1, <1>3, ConcernsStays, ConcernsIs DEF ApartInv, Occupies
    <2> QED
      BY <1>1, <1>5, <1>6, <2>1 DEF Footprint
  <1>9. CASE req[t].op = "advance"
    <2>1. req[t].to \in {"ALLOTTED", "REGISTERED"} /\ moves[t] = << <<booking[b].unit, req[t].to>> >>
      BY <1>2, <1>9 DEF WritesBooking
    <2>2. /\ (moves[t])' = << <<(booking[b].unit)', req[t].to>> >>
          /\ (wBooking[t][b].unit)' = (booking[b].unit)'
          /\ (wBooking[t][b].status)' = (req[t].to)'
          /\ b' = b /\ (req[t].to)' = req[t].to
      BY <1>1, <1>6, <2>1
    <2>3. PlansAdvance(t, b, req[t].to)'
      BY <1>6, <1>7, <2>2 DEF PlansAdvance
    <2>5. Planned(t)'
      BY <1>1, <1>3, <2>1, <2>3 DEF Planned
    <2>6. Settled(t)'
      BY <1>7, <1>8, <2>5, PlansSettleNext DEF PlansSettle
    <2>4. ApartAt(t)'
      BY <1>1, <1>9, <2>6 DEF ApartAt
    <2> QED
      BY <1>1, <1>8, <1>11, <2>4, ApartLocal
  <1>10. CASE req[t].op # "advance"
    <2>1. Leaving(t)'
      BY <1>1, <1>2, <1>6, <1>10 DEF Leaving, WritesBooking, LiveStatus
    <2>2. ApartAt(t)'
      BY <1>1, <1>2, <1>7, <1>10, <2>1 DEF ApartAt, WritesBooking, Allocates, TransferPlan, MayTake
    <2> QED
      BY <1>1, <1>8, <1>11, <2>2, ApartLocal
  <1> QED
    BY <1>9, <1>10

LEMMA ApartCancelUnit ==
    ASSUME IInv, ApartInv, NEW t \in Txs, CancelUnit(t)
    PROVE  ApartInv'
  <1> DEFINE b == req[t].booking
             u == booking[b].unit
  <1>1. /\ TypeOK /\ pc[t] = "cancelUnit"
        /\ UNCHANGED <<unit, booking, req, num, wUnit, wBooking>>
        /\ \A o \in Txs \ {t} : OwnStays(o)
    BY DEF IInv, CancelUnit, Goto, TypeOK, OwnStays
  <1>2. Serving(t) /\ Leaving(t) /\ req[t].op = "cancel"
    BY <1>1 DEF ApartInv, ApartAt
  <1>3. b \in Bookings /\ Occupies(b) /\ u \in Units
    BY <1>1, <1>2, OccupiedUnit DEF Serving
  <1>4. UnitSeen(t, u) \in LiveStatus
    BY <1>2, <1>3, SeesCommitted DEF Serving, ApartInv, Occupancy
  <1>5. UnitSeen(t, u) # "AVAILABLE" /\ UnitSeen(t, u) # "CANCELLED"
    BY <1>4 DEF LiveStatus
  <1>6. /\ moves'[t] = << <<u, "CANCELLED">>, <<u, "AVAILABLE">> >>
        /\ pc'[t] = "readUnit"
    BY <1>1, <1>5 DEF CancelUnit, Goto, TypeOK
  <1>7. TypeOK' /\ Occupancy'
    BY <1>1, NextType, OccupancyStays DEF ApartInv, Next
  <1>8. Untouched(t)' /\ Occupies(b)' /\ WroteOnly(t, b)'
    BY <1>1, <1>2 DEF Serving, Leaving, Untouched, Occupies, WroteOnly
  <1>9. /\ (wBooking[t][b].status)' \notin LiveStatus
        /\ (moves[t])' = << <<(booking[b].unit)', "CANCELLED">>, <<(booking[b].unit)', "AVAILABLE">> >>
    BY <1>1, <1>2, <1>6 DEF Leaving
  <1>10. Settled(t)'
    <2>1. PlansCancel(t, b)' /\ b' = b
      BY <1>1, <1>8, <1>9 DEF PlansCancel
    <2>2. Planned(t)'
      BY <1>3, <2>1 DEF Planned
    <2> QED
      BY <1>7, <1>8, <2>2, PlansSettleNext DEF PlansSettle
  <1>11. ApartAt(t)'
    BY <1>1, <1>2, <1>6, <1>10 DEF ApartAt
  <1>12. Footprint(t)'
    <2>1. Footprint(t) /\ Concerns(t)' = Concerns(t) /\ u \in Concerns(t)
      BY <1>1, <1>3, ConcernsStays, ConcernsIs DEF ApartInv, Occupies
    <2>2. \A v \in Units : Takes(moves'[t], v) \/ Frees(moves'[t], v) => v = u
      BY <1>6, TwoMoves
    <2> QED
      BY <1>1, <2>1, <2>2 DEF Footprint
  <1> QED
    BY <1>1, <1>7, <1>11, <1>12, ApartLocal

LEMMA ApartAllocate ==
    ASSUME IInv, ApartInv, NEW t \in Txs, Allocate(t)
    PROVE  ApartInv'
  <1> DEFINE f == req[t].fy
             row == [status |-> "BOOKED", unit |-> req[t].unit, fy |-> f, seq |-> nextValue[f]]
  <1>1. PICK n \in Bookings :
           /\ booking[n] = NULL
           /\ wBooking' = [wBooking EXCEPT ![t][n] = row]
    BY DEF Allocate
  <1>2. /\ TypeOK /\ pc[t] = "allocate" /\ f \in FYs /\ req[t].unit \in Units
        /\ UNCHANGED <<unit, booking, req, moves, wUnit>>
        /\ pc'[t] = IF moves[t] = <<>> THEN "commit" ELSE "readUnit"
        /\ \A o \in Txs \ {t} : OwnStays(o)
    BY DEF IInv, LabelInv, Allocate, Goto, TypeOK, OwnStays
  <1>3. row \in Row
    BY <1>2 DEF Row, TypeOK, BOOKING_STATUS
  <1>4. /\ wBooking'[t][n] # NULL /\ wBooking'[t][n].status = "BOOKED"
        /\ wBooking'[t][n].unit = req[t].unit
        /\ \A c \in Bookings \ {n} : wBooking'[t][c] = wBooking[t][c]
    <2>1. wBooking'[t][n] = row /\ \A c \in Bookings \ {n} : wBooking'[t][c] = wBooking[t][c]
      BY <1>1, <1>2 DEF TypeOK
    <2> QED
      BY <1>3, <2>1, TxAssumption
  <1>5. TypeOK' /\ Occupancy'
    BY <1>2, NextType, OccupancyStays DEF ApartInv, Next
  <1>6. Allocates(t)
    BY <1>2 DEF ApartInv, ApartAt
  <1>7. Untouched(t)'
    BY <1>2, <1>6 DEF Allocates, Serving, Untouched
  <1>8. Planned(t)'
    <2>1. CASE req[t].op = "create"
      <3>1. Clean(t) /\ MayTake(t) /\ moves[t] = << <<req[t].unit, "BOOKED">> >>
        BY <1>6, <2>1 DEF Allocates
      <3>2. WroteOnly(t, n)'
        BY <1>4, <3>1 DEF WroteOnly, Clean
      <3>3. /\ booking'[n] = NULL /\ (wBooking[t][n].status)' = "BOOKED"
            /\ (wBooking[t][n].unit)' = req[t].unit
            /\ (unit[req[t].unit])' \in BOOKABLE_FROM
            /\ (moves[t])' = << <<req[t].unit, "BOOKED">> >>
        BY <1>1, <1>2, <1>4, <3>1 DEF MayTake
      <3> QED
        BY <1>2, <3>2, <3>3 DEF Planned, PlansCreate
    <2> DEFINE b == req[t].booking
    <2>2. ASSUME req[t].op # "create"
          PROVE  /\ TransferRows(t, b, n, req[t].unit)' /\ b' = b /\ (req[t].unit)' = req[t].unit
                 /\ Serving(t) /\ Leaving(t)
      <3>1. Serving(t) /\ Leaving(t)
        BY <1>6, <2>2 DEF Allocates
      <3>2. b \in Bookings /\ Occupies(b) /\ Occupies(b)' /\ b # n
        BY <1>1, <1>2, <3>1 DEF Serving, Occupies
      <3>3. wBooking[t][b] # NULL /\ wBooking[t][b].status \notin LiveStatus
            /\ \A c \in Bookings \ {b} : wBooking[t][c] = NULL
        BY <3>1 DEF Leaving, WroteOnly
      <3> QED
        BY <1>1, <1>2, <1>4, <3>1, <3>2, <3>3 DEF TransferRows
    <2>3. CASE req[t].op = "transferUnit"
      <3>1. TransferPlan(t) /\ MayTake(t)
        BY <1>6, <2>3 DEF Allocates
      <3>2. /\ (unit[req[t].unit])' \in BOOKABLE_FROM
            /\ (moves[t])' = << <<(booking[b].unit)', "CANCELLED">>,
                                <<(booking[b].unit)', "AVAILABLE">>, <<(req[t].unit)', "BOOKED">> >>
        BY <1>2, <3>1 DEF TransferPlan, MayTake
      <3>3. (req[t].unit)' \in Units
        BY <1>2
      <3> QED
        <4>1. PlansTransferUnit(t, b, n, req[t].unit)'
          BY <2>2, <2>3, <3>2 DEF PlansTransferUnit
        <4>2. b \in Bookings
          BY <2>2, <2>3 DEF Serving
        <4> QED
          BY <2>2, <2>3, <3>3, <4>1, <4>2 DEF Planned
    <2>4. CASE req[t].op = "transferApplicant"
      <3>1. req[t].unit = booking[b].unit /\ moves[t] = <<>>
        BY <1>6, <2>4 DEF Allocates
      <3>2. TransferRows(t, b, n, booking[b].unit)'
        BY <1>2, <2>2, <2>4, <3>1
      <3>3. (moves[t])' = <<>>
        BY <1>2, <3>1
      <3> QED
        <4>1. PlansTransferApplicant(t, b, n)'
          BY <3>2, <3>3 DEF PlansTransferApplicant
        <4>2. b \in Bookings
          BY <2>2, <2>4 DEF Serving
        <4> QED
          BY <2>2, <2>4, <4>1, <4>2 DEF Planned
    <2> QED
      BY <1>6, <2>1, <2>3, <2>4 DEF Allocates
  <1>9. Settled(t)'
    BY <1>5, <1>7, <1>8, PlansSettleNext DEF PlansSettle
  <1>10. ApartAt(t)'
    <2>1. req[t].op \in {"create", "transferUnit"} => MayTake(t)
      BY <1>6 DEF Allocates
    <2> QED
      BY <1>2, <1>9, <2>1 DEF ApartAt, MayTake
  <1>11. Footprint(t)'
    <2>1. Footprint(t) /\ Concerns(t)' = Concerns(t) /\ req[t].unit \in Concerns(t)
      BY <1>2, ConcernsStays, ConcernsIs DEF ApartInv
    <2> QED
      BY <1>1, <1>2, <1>4, <2>1 DEF Footprint
  <1> QED
    BY <1>2, <1>5, <1>10, <1>11, ApartLocal

\* The manual endpoint reaches writeUnit only on a unit that nobody occupies.
LEMMA SettledManual ==
    ASSUME TypeOK, Occupancy, NEW t \in Txs, Manual(t), ReadUnit(t)
    PROVE  Settled(t)
  <1> DEFINE u == req[t].unit
             s == req[t].to
  <1>1. /\ u \in Units /\ s \in UnitStatus \ SYSTEM_ONLY_TARGET_STATUSES
        /\ moves[t] = << <<u, s>> >> /\ Untouched(t) /\ Clean(t)
    BY DEF Manual
  <1>2. Head(moves[t])[1] = u /\ Head(moves[t])[2] = s
    <2>1. moves[t] = << <<u, s>> >>
      BY <1>1
    <2> QED
      BY ONLY <2>1, SMT
  <1>3. unit[u] \in UnitStatus /\ UnitSeen(t, u) = unit[u]
    BY <1>1, SeesCommitted DEF TypeOK
  <1>4. s \in UNIT_TRANSITIONS[unit[u]]
    BY <1>2, <1>3 DEF ReadUnit, isValidTransition
  <1>5. unit[u] \notin LiveStatus /\ s \notin LiveStatus
    BY <1>1, <1>3, <1>4 DEF UNIT_TRANSITIONS, UnitStatus, LiveStatus, SYSTEM_ONLY_TARGET_STATUSES
  <1>6. \A v \in Units : ~Takes(moves[t], v) /\ (Frees(moves[t], v) <=> u = v)
    BY <1>1, <1>5, OneMove
  <1>7. \A v \in Units : WillBeLive(t, v) <=> unit[v] \in LiveStatus
    BY <1>1, <1>5, <1>6, SeesCommitted DEF WillBeLive
  <1>8. \A c \in Bookings : RowSeen(t, c) = booking[c] /\ (WillOccupy(t, c) <=> Occupies(c))
    BY <1>1 DEF Clean, RowSeen, WillOccupy, Occupies
  <1>9. \A c \in Bookings : Occupies(c) => booking[c].unit \in Units
    BY OccupiedUnit
  <1> QED
    BY <1>6, <1>7, <1>8, <1>9 DEF Settled, Occupancy

LEMMA ApartReadUnit ==
    ASSUME IInv, ApartInv, NEW t \in Txs, ReadUnit(t)
    PROVE  ApartInv'
  <1>1. /\ TypeOK /\ pc[t] = "readUnit" /\ pc'[t] = "writeUnit"
        /\ UNCHANGED <<unit, booking, req, num, moves, wUnit, wBooking>>
        /\ \A o \in Txs \ {t} : OwnStays(o)
    BY DEF IInv, ReadUnit, Goto, TypeOK, OwnStays
  <1>2. Settled(t)
    BY <1>1, SettledManual DEF ApartInv, ApartAt
  <1>3. Settled(t)'
    BY <1>1, <1>2 DEF Settled, WillOccupy, WillBeLive, RowSeen, UnitSeen
  <1>4. ApartAt(t)'
    BY <1>1, <1>3 DEF ApartInv, ApartAt, MayTake
  <1>5. Footprint(t)'
    BY <1>1, ConcernsStays DEF ApartInv, Footprint
  <1>6. TypeOK'
    BY NextType DEF Next
  <1> QED
    BY <1>1, <1>4, <1>5, <1>6, ApartLocal

\* A move made is a move no longer planned: the outcome stays what it was.
LEMMA ApartWriteUnit ==
    ASSUME IInv, ApartInv, NEW t \in Txs, WriteUnit(t)
    PROVE  ApartInv'
  <1> DEFINE m == moves[t]
             v == Head(m)[1]
             s == Head(m)[2]
  <1>1. /\ TypeOK /\ pc[t] = "writeUnit"
        /\ UNCHANGED <<unit, booking, req, num, wBooking>>
        /\ wUnit' = [wUnit EXCEPT ![t][v] = s]
        /\ moves'[t] = Tail(m)
        /\ pc'[t] = IF Len(m) = 1 THEN "commit" ELSE "readUnit"
        /\ \A o \in Txs \ {t} : OwnStays(o)
    BY DEF IInv, WriteUnit, Goto, TypeOK, OwnStays
  <1>2. m \in Seq(Units \X UnitStatus) /\ m # <<>>
    BY <1>1 DEF IInv, LabelInv, TypeOK
  <1>3. Head(m) \in Units \X UnitStatus
    BY <1>2, HeadTailProperties
  <1>4. v \in Units /\ s \in UnitStatus /\ s # NULL
    BY <1>3, TxAssumption
  <1>5. wUnit'[t][v] = s /\ \A u \in Units \ {v} : wUnit'[t][u] = wUnit[t][u]
    BY <1>1, <1>4 DEF TypeOK
  <1>6. \A u \in Units : UnitSeen(t, u)' = IF u = v THEN s ELSE UnitSeen(t, u)
    BY <1>1, <1>4, <1>5 DEF UnitSeen
  <1>7. Settled(t)
    BY <1>1 DEF ApartInv, ApartAt
  <1>8. \A u \in Units :
           /\ Takes(m, u) <=> (v = u /\ s \in LiveStatus) \/ Takes(Tail(m), u)
           /\ Frees(m, u) <=> (v = u /\ s \notin LiveStatus) \/ Frees(Tail(m), u)
    BY <1>2, FirstMove
  <1>9. \A u \in Units : ~(Takes(m, u) /\ Frees(m, u))
    BY <1>7 DEF Settled
  <1>10. ASSUME NEW u \in Units PROVE WillBeLive(t, u)' <=> WillBeLive(t, u)
    <2>1. WillBeLive(t, u)' <=> Takes(Tail(m), u) \/ (~Frees(Tail(m), u) /\ UnitSeen(t, u)' \in LiveStatus)
      BY <1>1 DEF WillBeLive
    <2>2. WillBeLive(t, u) <=> Takes(m, u) \/ (~Frees(m, u) /\ UnitSeen(t, u) \in LiveStatus)
      BY DEF WillBeLive
    <2>3. CASE u = v
      BY <1>6, <1>8, <1>9, <2>1, <2>2, <2>3
    <2>4. CASE u # v
      BY <1>6, <1>8, <1>9, <2>1, <2>2, <2>4
    <2> QED
      BY <2>3, <2>4
  <1>11. \A c \in Bookings : /\ RowSeen(t, c)' = RowSeen(t, c)
                             /\ WillOccupy(t, c)' <=> WillOccupy(t, c)
                             /\ WillOccupy(t, c) => RowSeen(t, c).unit \in Units
    BY <1>1 DEF RowSeen, WillOccupy, TypeOK, Row
  <1>12. \A u \in Units : ~(Takes(moves[t], u)' /\ Frees(moves[t], u)')
    BY <1>1, <1>8, <1>9
  <1>13. Settled(t)'
    BY <1>7, <1>10, <1>11, <1>12 DEF Settled
  <1>14. Len(m) = 1 => Tail(m) = <<>>
    <2>1. Tail(m) \in Seq(Units \X UnitStatus) /\ Len(Tail(m)) = Len(m) - 1
      BY <1>2, HeadTailProperties
    <2>2. Tail(m) # <<>> => Len(Tail(m)) \in Nat \ {0}
      BY <2>1, EmptySeq
    <2> QED
      BY <2>1, <2>2
  <1>15. ApartAt(t)'
    BY <1>1, <1>13, <1>14 DEF ApartInv, ApartAt, MayTake
  <1>16. Footprint(t)'
    <2>1. Footprint(t) /\ Concerns(t)' = Concerns(t)
      BY <1>1, ConcernsStays DEF ApartInv
    <2>2. v \in Concerns(t)
      BY <1>4, <1>8, <2>1 DEF Footprint
    <2>3. \A u \in Units : Takes(Tail(m), u) \/ Frees(Tail(m), u) => u \in Concerns(t)
      BY <1>8, <2>1 DEF Footprint
    <2>4. \A u \in Units : wUnit'[t][u] # NULL => u \in Concerns(t)
      BY <1>5, <2>1, <2>2 DEF Footprint
    <2> QED
      BY <1>1, <2>1, <2>3, <2>4 DEF Footprint
  <1>17. TypeOK'
    BY NextType DEF Next
  <1> QED
    BY <1>1, <1>15, <1>16, <1>17, ApartLocal

\* What was planned is committed.
LEMMA ApartCommit ==
    ASSUME UnitsApart, IInv, ApartInv, NEW t \in Txs, Commit(t)
    PROVE  ApartInv'
  <1>1. TypeOK /\ pc[t] = "commit" /\ End(t) /\ Settled(t) /\ moves[t] = <<>> /\ Footprint(t)
    BY DEF IInv, Commit, ApartInv, ApartAt
  <1>2. \A u \in Units : unit'[u] = UnitSeen(t, u) /\ (WillBeLive(t, u) <=> unit'[u] \in LiveStatus)
    BY <1>1, NoMoves DEF Commit, WillBeLive
  <1>3. \A c \in Bookings : /\ booking'[c] = RowSeen(t, c)
                            /\ Occupies(c)' <=> WillOccupy(t, c)
                            /\ WillOccupy(t, c) => RowSeen(t, c).unit \in Units
    BY <1>1 DEF Commit, RowSeen, WillOccupy, Occupies, TypeOK, Row
  <1>4. Occupancy' /\ TypeOK'
    <2>1. Occupancy'
      BY <1>1, <1>2, <1>3 DEF Occupancy, Settled
    <2> QED
      BY <2>1, NextType DEF Next
  <1>5. ApartAt(t)' /\ Footprint(t)'
    BY <1>1, EndsClean, EndEffect DEF ApartAt
  <1>6. ASSUME NEW o \in Txs, o # t PROVE ApartAt(o)' /\ Footprint(o)'
    <2>1. OwnStays(o)
      BY <1>1, <1>6, EndEffect DEF OwnStays
    <2>2. Concerns(o) \cap Concerns(t) = {} /\ Concerns(o) \subseteq Units
      BY <1>6 DEF UnitsApart, Concerns
    <2>3. \A u \in Concerns(o) : unit'[u] = unit[u]
      BY <1>1, <1>2, <2>2 DEF Footprint, UnitSeen
    <2>4. ASSUME NEW b \in Bookings,
                 \/ booking[b] # NULL /\ booking[b].unit \in Concerns(o)
                 \/ booking'[b] # NULL /\ booking'[b].unit \in Concerns(o)
                 \/ wBooking[o][b] # NULL
          PROVE  booking'[b] = booking[b]
      <3> SUFFICES ASSUME wBooking[t][b] # NULL PROVE FALSE
        BY <1>3 DEF RowSeen
      <3>1. booking'[b] = wBooking[t][b] /\ wBooking[o][b] = NULL
        BY <1>3, <1>6 DEF RowSeen, IInv, OverlayInv
      <3>2. /\ wBooking[t][b].unit \in Concerns(t)
            /\ booking[b] # NULL => booking[b].unit \in Concerns(t)
        BY <1>1 DEF Footprint
      <3> QED
        BY <2>2, <2>4, <3>1, <3>2
    <2>5. Beside(o)
      BY <2>1, <2>3, <2>4 DEF Beside
    <2> QED
      BY <1>1, <1>4, <2>5, BesideStays DEF ApartInv
  <1> QED
    BY <1>4, <1>5, <1>6 DEF ApartInv

LEMMA ApartStep ==
    ASSUME UnitsApart, IInv, ApartInv, [Next]_vars
    PROVE  ApartInv'
  <1>1. ASSUME NEW t \in Txs, Rollback(t) PROVE ApartInv'
    <2>1. TypeOK /\ pc[t] # "idle" /\ End(t) /\ UNCHANGED <<unit, booking>>
      BY <1>1 DEF IInv, Rollback
    <2>2. ApartAt(t)' /\ Footprint(t)'
      BY <2>1, EndsClean, EndEffect DEF ApartAt
    <2>3. (\A o \in Txs \ {t} : OwnStays(o)) /\ TypeOK'
      BY <1>1, <2>1, EndEffect, NextType DEF OwnStays, Next
    <2> QED
      BY <2>1, <2>2, <2>3, ApartLocal
  <1>2. CASE UNCHANGED vars
    <2>1. Occupancy' /\ TypeOK /\ TypeOK'
      BY <1>2, OccupancyStays, NextType DEF ApartInv, IInv, vars
    <2>2. ASSUME NEW t \in Txs PROVE ApartAt(t)' /\ Footprint(t)'
      <3>1. Beside(t)
        BY <1>2 DEF Beside, OwnStays, vars
      <3> QED
        BY <2>1, <3>1, BesideStays DEF ApartInv
    <2> QED
      BY <2>1, <2>2 DEF ApartInv
  <1> QED
    BY <1>1, <1>2, ApartOpens, ApartCheckUnit, ApartWriteBooking, ApartCancelUnit, ApartAllocate,
       ApartReadUnit, ApartWriteUnit, ApartCommit, NextCases

\* Whatever handlers overlap on different units, and wherever they fail, a unit is in
\* the booking lifecycle exactly when one live booking occupies it: the plans of
\* createBooking, allot, register, cancel, both transfers and the manual endpoint
\* fit the transition table, for every number of units, bookings and years.
THEOREM UnitOccupiedOnUnitsApart == Spec /\ []UnitsApart => []UnitOccupiedByBooking
  <1>1. IInv /\ ApartInv => UnitOccupiedByBooking
    BY OccupancyIsProperty DEF IInv, ApartInv
  <1>2. UnitsApart /\ IInv /\ ApartInv /\ [Next]_vars => ApartInv'
    BY ApartStep
  <1> QED
    BY <1>1, <1>2, ApartInit, InvariantHolds, PTL DEF Spec

\* On different units a creation or a transfer commits on a unit that is still
\* AVAILABLE or HELD, also when their bookings fall in different years.
THEOREM BookableOnUnitsApart == Spec /\ []UnitsApart => OnlyBookableUnitsAreBooked
  <1>1. IInv /\ ApartInv =>
           \A t \in Txs : Commit(t) /\ req[t].op \in {"create", "transferUnit"}
              => unit[req[t].unit] \in BOOKABLE_FROM
    BY DEF ApartInv, ApartAt, MayTake, Commit
  <1>2. IInv /\ ApartInv /\ [Next]_vars =>
           [\A t \in Txs : Commit(t) /\ req[t].op \in {"create", "transferUnit"}
              => unit[req[t].unit] \in BOOKABLE_FROM]_vars
    BY <1>1
  <1>3. UnitsApart /\ IInv /\ ApartInv /\ [Next]_vars => ApartInv'
    BY ApartStep
  <1> QED
    BY <1>2, <1>3, ApartInit, InvariantHolds, PTL DEF Spec, OnlyBookableUnitsAreBooked

=============================================================================
