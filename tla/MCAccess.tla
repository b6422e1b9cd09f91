------------------------------- MODULE MCAccess -------------------------------
(* Who may do what, for TLC: a behaviour moves one of five parts.  scope names  *)
(* it; users and their roles are taken apart into two sets of operations.       *)
EXTENDS Screens, Accounts, PasswordLinks, SecondFactor, Tenancy

VARIABLE scope

allScreens == <<token, reached, screenVars>>

\* AccountReqs, LinkReqs and FactorReqs are one set of requests.
Symmetry == Permutations(Staff) \cup Permutations(LinkReqs)

\* Operations on users and roles that meet in one behaviour.
AccountOps ==
    [people |-> {"create", "promote", "assign", "manager", "deactivate", "reactivate"},
     roles  |-> {"create", "assign", "createRole", "updateRole", "removeRole"}]

\* Staff of two companies and a customer of the first; rows of everyone.
MCTenantSessions ==
    {[company |-> "c1", user |-> "staff1", portal |-> NULL],
     [company |-> "c1", user |-> "owner1", portal |-> "p1"],
     [company |-> "c2", user |-> "staff2", portal |-> NULL]}
MCRows == [company : Companies, owner : {"p1", "p2"}, direct : BOOLEAN]

MCInit ==
    /\ ScreenInit /\ AccountsInit /\ LinksInit /\ FactorInit /\ TenancyInit
    /\ scope \in {"screens", "people", "roles", "links", "factor", "tenancy"}
    /\ scope # "links" => hasAccount

MCNext ==
    /\ UNCHANGED scope
    /\ \/ scope = "screens" /\ ScreenNext /\ UNCHANGED <<accountVars, linkVars, factorVars, tenantVars>>
       \/ /\ scope \in DOMAIN AccountOps /\ AccountsNext
          /\ \A t \in AccountReqs : call'[t] # NULL => call'[t].op \in AccountOps[scope]
          /\ UNCHANGED <<allScreens, linkVars, factorVars, tenantVars>>
       \/ scope = "links" /\ LinksNext /\ UNCHANGED <<allScreens, accountVars, factorVars, tenantVars>>
       \/ scope = "factor" /\ FactorNext /\ UNCHANGED <<allScreens, accountVars, linkVars, tenantVars>>
       \/ scope = "tenancy" /\ TenancyNext /\ UNCHANGED <<allScreens, accountVars, linkVars, factorVars>>

MCSpec == MCInit /\ [][MCNext]_<<allScreens, accountVars, linkVars, factorVars, tenantVars, scope>>
=============================================================================
