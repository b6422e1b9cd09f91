----------------------------- MODULE MCBookingTx -----------------------------
(* Instances of BookingTx for TLC.  A behaviour is one of two schedules: any *)
(* operations while no two of them are about one unit, or operations of      *)
(* SameTime all at once.                                                     *)
EXTENDS BookingTx, TLC

CONSTANT SameTime

VARIABLE apart

\* Units, booking identifiers and connections are interchangeable.
Symmetry == Permutations(Units) \cup Permutations(Bookings) \cup Permutations(Txs)

Scheduled ==
    IF apart THEN UnitsApart'
    ELSE \A t \in Txs : req'[t].op \in SameTime \cup {NULL}

MCInit == Init /\ apart \in BOOLEAN
MCNext == Next /\ Scheduled /\ UNCHANGED apart
MCSpec == MCInit /\ [][MCNext]_<<vars, apart>>
=============================================================================
