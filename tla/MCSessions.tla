------------------------------ MODULE MCSessions ------------------------------
(* Instances of Sessions, AuthzVersion and Client for TLC.  A behaviour moves *)
(* one of the three.  Of the browsers only one is used, which may sign in     *)
(* several times; a late one sends its requests one by one.  Of the tabs one  *)
(* makes calls.                                                               *)
EXTENDS Sessions, AuthzVersion, Client, TLC

VARIABLE used

Symmetry == Permutations(Tokens) \cup Permutations(Reqs)  \* Calls is Reqs

CallingTab == CHOOSE t \in Tabs : TRUE

MCInit ==
    /\ Init /\ AuthzInit /\ ClientInit
    /\ used \in Browsers \cup {"guard", "tabs"}
    /\ used # "tabs" => renewable

MCNext ==
    /\ UNCHANGED used
    /\ \/ /\ used \in Browsers
          /\ Next
          /\ \A r \in Reqs : arg'[r].w \in {used, NULL}
          /\ used \in Prompt \/ Cardinality({r \in Reqs : pc'[r] # "idle"}) <= 1
          /\ UNCHANGED <<authzVars, clientVars>>
       \/ used = "guard" /\ AuthzNext /\ UNCHANGED <<vars, clientVars>>
       \/ /\ used = "tabs" /\ ClientNext
          /\ \A c \in Calls : call'[c] # NULL => call'[c].tab = CallingTab
          /\ UNCHANGED <<vars, authzVars>>

MCSpec == MCInit /\ [][MCNext]_<<vars, authzVars, clientVars, used>>
=============================================================================
