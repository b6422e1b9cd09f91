------------------------------ MODULE MCPresales ------------------------------
(***************************************************************************)
(* Presales for TLC: a behaviour is one of the lead pipeline, of a         *)
(* project's assignment pool, of the applicants, or of the contact details *)
(* of one of them.  They share no rows but the ids of leads and users, and *)
(* scope says which of them moves.                                         *)
(***************************************************************************)
EXTENDS LeadPipeline, AssignmentPool, Applicants, ChangeRequests, TLC

VARIABLE scope

MCInit ==
    /\ LeadInit /\ PoolInit /\ AppInit /\ ChangeInit
    /\ scope \in {"pipeline", "pool", "applicants", "changes"}
    /\ scope # "applicants" => autoLink
    /\ scope # "changes" => contact = CHOOSE c \in [email : Emails, alternatePhones : PhoneLists] : TRUE

MCNext ==
    /\ UNCHANGED scope
    /\ \/ scope = "pipeline" /\ LeadNext /\ UNCHANGED <<poolVars, appVars, changeVars>>
       \/ scope = "pool" /\ PoolNext /\ UNCHANGED <<leadVars, appVars, changeVars>>
       \/ scope = "applicants" /\ AppNext /\ UNCHANGED <<leadVars, poolVars, changeVars>>
       \/ scope = "changes" /\ ChangeNext /\ UNCHANGED <<leadVars, poolVars, appVars>>

MCSpec == MCInit /\ [][MCNext]_<<leadVars, poolVars, appVars, changeVars, scope>>

Symmetry == Permutations(People) \cup Permutations(Stages)
=============================================================================
