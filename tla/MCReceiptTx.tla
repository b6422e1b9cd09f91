----------------------------- MODULE MCReceiptTx -----------------------------
(* Instances of ReceiptTx for TLC.  A behaviour is one of two schedules: any *)
(* operations one at a time, or operations of SameTime all at once.          *)
EXTENDS ReceiptTx, TLC

CONSTANT SameTime

VARIABLE alone

\* Rows and connections are interchangeable.
Symmetry == Permutations(Installments) \cup Permutations(Receipts) \cup Permutations(Txs)

Scheduled ==
    IF alone THEN \A t, o \in Txs : pc'[t] # "idle" /\ pc'[o] # "idle" => t = o
    ELSE \A t \in Txs : req'[t].op \in SameTime \cup {NULL}

MCInit == Init /\ alone \in BOOLEAN
MCNext == Next /\ Scheduled /\ UNCHANGED alone
MCSpec == MCInit /\ [][MCNext]_<<vars, alone>>
=============================================================================
