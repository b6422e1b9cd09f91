---------------------------- MODULE NumberRegister ----------------------------
(***************************************************************************)
(* What a gap-free number sequence promises to an auditor who only reads   *)
(* the committed register: entries appear one at a time, each with the     *)
(* next number of its series, and an entry never changes its number, moves *)
(* to another series or disappears.  Nothing of transactions, locks or     *)
(* rollbacks is visible.                                                   *)
(***************************************************************************)
EXTENDS Naturals

CONSTANTS Items, Series, NoEntry

VARIABLES entry,  \* [series, seq] of each item, NoEntry before it is entered
          next    \* the number the next entry of a series gets

RegisterInit ==
    /\ entry = [i \in Items |-> NoEntry]
    /\ next = [s \in Series |-> 1]

Enter(i, s) ==
    /\ entry[i] = NoEntry
    /\ entry' = [entry EXCEPT ![i] = [series |-> s, seq |-> next[s]]]
    /\ next' = [next EXCEPT ![s] = @ + 1]

RegisterNext == \E i \in Items, s \in Series : Enter(i, s)

RegisterSpec == RegisterInit /\ [][RegisterNext]_<<entry, next>>
=============================================================================
