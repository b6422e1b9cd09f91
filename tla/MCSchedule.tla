------------------------------ MODULE MCSchedule ------------------------------
(* Instances of InterestAccrual, StageRaise and MoneyCalls for TLC.  The      *)
(* first two touch different columns of the installments, the third the       *)
(* arithmetic under both; a behaviour moves one of them.                      *)
EXTENDS InterestAccrual, MoneyCalls, TLC

CONSTANTS Bookings, Days, MaxRaises

\* Dates and rows are neither null nor the mark of an installment without a date.
ASSUME ScheduleAssumption ==
    /\ Days \cap {"unraised", NULL} = {} /\ NULL \notin [no : Nat, on : Days]
    /\ NULL # "unraised" /\ IsFiniteSet(Txs)

VARIABLES raises, inst, pc, booking, stage, target, moves

Stage == INSTANCE StageRaise

stageVars == <<raises, inst, pc, booking, stage, target>>

\* One installment due on the first day and, if there is another, one a day later.
MCDue == [i \in Installments |-> IF i = CHOOSE j \in Installments : TRUE THEN 0 ELSE 1]

\* The call that is not moved.
NoCall == amount = 0 /\ rate = CHOOSE r \in Rates : TRUE

MCInit ==
    /\ Init /\ Stage!Init /\ CallInit
    /\ \/ moves \in {"interest", "stages"} /\ NoCall
       \/ moves = "calls" /\ compound = FALSE

MCNext ==
    \/ moves = "interest" /\ Next /\ RunsAlone' /\ UNCHANGED <<stageVars, callVars, moves>>
    \/ /\ moves = "stages" /\ Stage!Next /\ Stage!FirstRaiseAlone'
       /\ UNCHANGED <<vars, callVars, moves>>
    \/ moves = "calls" /\ CallNext /\ UNCHANGED <<vars, stageVars, moves>>

MCSpec == MCInit /\ [][MCNext]_<<vars, stageVars, callVars, moves>>

\* An overdue day is charged once, whatever runs failed, were repeated or found
\* less than half a paisa, and rounding once a run never drifts from the yearly
\* rate (accrueForBooking).
InterestIsExact == WindowsAreContiguous /\ RoundingStaysSmall

\* However plans and raises follow each other, no installment of a raised stage
\* stays unraised, and every installment of a stage falls due on one date, that
\* of its first raise (raiseStage, instantiate).
RaisedOnOneDate == Stage!NoneStuck /\ Stage!OneDatePerStage
=============================================================================
