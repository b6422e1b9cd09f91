-------------------------- MODULE UnitStateMachine --------------------------
(***************************************************************************)
(* The status tables of a unit and of a booking: packages/shared           *)
(* (inventory.ts, finance.ts) and the status sets that the booking,        *)
(* cancellation and transfer services test before they write.              *)
(***************************************************************************)

UnitStatus == {"AVAILABLE", "HELD", "BLOCKED", "BOOKED", "ALLOTTED",
               "REGISTERED", "CANCELLED"}

UNIT_TRANSITIONS ==
    [AVAILABLE  |-> {"HELD", "BLOCKED", "BOOKED"},
     HELD       |-> {"BOOKED", "AVAILABLE"},
     BLOCKED    |-> {"AVAILABLE"},
     BOOKED     |-> {"ALLOTTED", "CANCELLED"},
     ALLOTTED   |-> {"REGISTERED", "CANCELLED"},
     REGISTERED |-> {},
     CANCELLED  |-> {"AVAILABLE"}]

isValidTransition(from, to) == to \in UNIT_TRANSITIONS[from]

\* Targets that only the booking lifecycle (actor "system") may reach.
SYSTEM_ONLY_TARGET_STATUSES == {"BOOKED", "ALLOTTED", "REGISTERED", "CANCELLED"}

BOOKING_STATUS == {"APPLICATION", "BOOKED", "ALLOTTED", "REGISTERED", "CANCELLED",
                   "SURRENDERED", "TRANSFERRED_OUT"}

\* What each booking handler accepts as the current status.
BOOKABLE_FROM     == {"AVAILABLE", "HELD"}
CANCELLABLE_FROM  == {"BOOKED", "ALLOTTED", "REGISTERED"}
TRANSFERABLE_FROM == {"BOOKED", "ALLOTTED"}
ExpectedFrom      == [ALLOTTED |-> "BOOKED", REGISTERED |-> "ALLOTTED"]

\* A booking in one of these statuses occupies its unit.
LiveStatus == {"BOOKED", "ALLOTTED", "REGISTERED"}
=============================================================================
