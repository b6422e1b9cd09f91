----------------------------- MODULE MCCommission -----------------------------
(* Instances of Commission for TLC.  A behaviour has one of two scopes, so    *)
(* that each is explored in depth: payments and cancellation of two bookings  *)
(* while nothing is collected and rules may change, or the milestones of one  *)
(* booking under a fixed rule while the collection goes up and down.          *)
EXTENDS Commission

VARIABLE scope

OneList == {<<50, 100>>}
TwoLists == {<<50, 100>>, <<100>>}
Symmetry == Permutations(Bookings) \cup Permutations(Payments) \cup Permutations(Nocs)
            \cup Permutations(Txs)

InScope ==
    IF scope = "payments" THEN UNCHANGED collected
    ELSE /\ UNCHANGED milestones
         /\ Cardinality({b \in Bookings : snapshot'[b] # NULL \/ collected'[b] > 0}) <= 1
         /\ Cardinality({p \in Payments : payment'[p] # NULL}) <= 1

MCInit == Init /\ scope \in {"payments", "milestones"}
Step == Next /\ InScope /\ UNCHANGED scope

\* Any calls at once.
StepsSpec == MCInit /\ [][Step]_<<vars, scope>>

\* Calls that overlap in no harmful way.
MCNext ==
    /\ Step
    /\ OneHandlerPerPayment' /\ TakesApart' /\ ClawbackUndisturbed' /\ InsertsApart'
MCSpec == MCInit /\ [][MCNext]_<<vars, scope>>
=============================================================================
