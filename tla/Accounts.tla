------------------------------- MODULE Accounts -------------------------------
(***************************************************************************)
(* Users and roles of one company, and what an administrator may do to     *)
(* them.  A handler loads the caller and the target and decides from those *)
(* rows, outside any transaction; its transaction writes later.  Taking    *)
(* the super_admin role or its holder away locks the rows of the other     *)
(* active holders first.  Roles and accounts of the portals, which the     *)
(* same services keep apart from these, are left out.                      *)
(***************************************************************************)
EXTENDS Naturals, FiniteSets, Null

CONSTANTS Staff, AccountReqs,
          Custom,           \* ids of roles the company may add
          Keys,             \* permission keys
          AdminHolds,       \* those company_admin starts with
          AccountsTogether  \* operations that may overlap one another

System == {"super_admin", "company_admin"}
RoleIds == System \cup Custom
StaffRow == [role : RoleIds, active : BOOLEAN, manager : Staff \cup {NULL}]
KeySets == SUBSET Keys

\* The write a request is about to make: to a user's row or, when user is NULL, to
\* a role; lockout: it takes super_admin away from somebody.
Write == [user : Staff \cup {NULL}, role : RoleIds \cup {NULL}, manager : Staff \cup {NULL},
          keys : {NULL} \cup KeySets, next : {"write", "locked"}, lockout : BOOLEAN,
          op : {"create", "promote", "assign", "manager", "deactivate", "reactivate",
                "createRole", "updateRole", "removeRole", "none"}]

ASSUME AccountsAssumption ==
    /\ AdminHolds \subseteq Keys
    /\ System \cap Custom = {}
    /\ NULL \notin Staff \cup AccountReqs \cup RoleIds \cup StaffRow \cup Write
    /\ \A ks \in KeySets : ks # NULL

VARIABLES
    staff,     \* users, NULL if not created yet
    keysOf,    \* role_permissions of each role, NULL if there is no such role
    call,      \* the write each request is about to make, NULL if idle
    heldBy,    \* the request that has locked a user's row
    bySuper    \* a super_admin has acted

accountVars == <<staff, keysOf, call, heldBy, bySuper>>

Users == {u \in Staff : staff[u] # NULL}
SuperAdmins == {u \in Users : staff[u].active /\ staff[u].role = "super_admin"}

\* loadCurrentCaller: super_admin is every permission there is, whatever is stored.
HeldKeys(u) == IF staff[u].role = "super_admin" THEN Keys ELSE keysOf[staff[u].role]

AccountsTypeOK ==
    /\ staff \in [Staff -> StaffRow \cup {NULL}]
    /\ keysOf \in [RoleIds -> {NULL} \cup KeySets]
    /\ call \in [AccountReqs -> Write \cup {NULL}]
    /\ heldBy \in [Staff -> AccountReqs \cup {NULL}]
    /\ bySuper \in BOOLEAN

\* A company starts with one super_admin and one company_admin.
AccountsInit ==
    /\ \E s, a \in Staff :
          /\ s # a
          /\ staff = [u \in Staff |->
                IF u \in {s, a} THEN [role |-> IF u = s THEN "super_admin" ELSE "company_admin",
                                      active |-> TRUE, manager |-> NULL]
                ELSE NULL]
    /\ keysOf = [r \in RoleIds |->
          IF r = "super_admin" THEN Keys ELSE IF r = "company_admin" THEN AdminHolds ELSE NULL]
    /\ call = [t \in AccountReqs |-> NULL]
    /\ heldBy = [u \in Staff |-> NULL]
    /\ bySuper = FALSE

-----------------------------------------------------------------------------
(* What a handler checks.                                                  *)

Exists(r) == keysOf[r] # NULL

\* assertActorIsSuperAdminIfTargetIs
ActorFits(c, r) == r = "super_admin" => staff[c].role = "super_admin"

\* assertPermissionSubset on a role: acting on it or granting it.
MayHandle(c, r) == Exists(r) /\ ActorFits(c, r) /\ keysOf[r] \subseteq HeldKeys(c)

\* Fault: what is granted to a role is not compared with what the caller holds.
MayGrantAnything(c, ks) == TRUE

\* assertPermissionSubset on a list of keys.
MayGrant(c, ks) == ks \subseteq HeldKeys(c)

NoWrite == [user |-> NULL, role |-> NULL, manager |-> NULL, keys |-> NULL,
            op |-> "none", next |-> "write", lockout |-> FALSE]

Idle == \A t \in AccountReqs : call[t] = NULL

\* The caller is loaded and must be active; an operation outside AccountsTogether
\* runs when nothing else does.
Decide(t, c, op, write) ==
    /\ call[t] = NULL
    /\ staff[c].active
    /\ op \in AccountsTogether \/ Idle
    /\ \A o \in AccountReqs : call[o] # NULL => call[o].op \in AccountsTogether
    /\ call' = [call EXCEPT ![t] = [write EXCEPT !.op = op]]
    /\ bySuper' = (bySuper \/ staff[c].role = "super_admin")
    /\ UNCHANGED <<staff, keysOf, heldBy>>

-----------------------------------------------------------------------------
(* Users.                                                                  *)

\* UsersService.create
createUser(t, c, u, r) ==
    /\ staff[u] = NULL /\ \A o \in AccountReqs : call[o] # NULL => call[o].user # u
    /\ MayHandle(c, r)
    /\ Decide(t, c, "create", [NoWrite EXCEPT !.user = u, !.role = r])

\* UsersService.update with another role.  Making a super_admin is an operation of
\* its own for AccountsTogether.
assignRole(t, c, u, r) ==
    /\ u \in Users /\ u # c
    /\ MayHandle(c, staff[u].role) /\ MayHandle(c, r)
    /\ Decide(t, c, IF r = "super_admin" THEN "promote" ELSE "assign",
              [NoWrite EXCEPT !.user = u, !.role = r,
                  !.lockout = staff[u].role = "super_admin" /\ r # "super_admin"])

\* assertValidManager walks up from the candidate; no walk is longer than Staff.
Chain(u) ==
    LET up(S) == {staff[v].manager : v \in S} \ {NULL}
        reach[n \in Nat] == IF n = 0 THEN up({u}) ELSE reach[n - 1] \cup up(reach[n - 1])
    IN  reach[Cardinality(Staff)]

\* UsersService.update with another manager.
assignManager(t, c, u, m) ==
    /\ {u, m} \subseteq Users /\ m # u
    /\ u \notin Chain(m)
    /\ MayHandle(c, staff[u].role)
    /\ Decide(t, c, "manager", [NoWrite EXCEPT !.user = u, !.manager = m])

deactivateUser(t, c, u) ==
    /\ u \in Users
    /\ MayHandle(c, staff[u].role)
    /\ Decide(t, c, "deactivate", [NoWrite EXCEPT !.user = u, !.lockout = staff[u].role = "super_admin"])

reactivateUser(t, c, u) ==
    /\ u \in Users
    /\ MayHandle(c, staff[u].role)
    /\ Decide(t, c, "reactivate", [NoWrite EXCEPT !.user = u])

\* Fault: the other holders are counted, not locked.
assertSuperAdminNotEmptiedUnlocked(t) ==
    /\ call[t] # NULL /\ call[t].lockout /\ call[t].next = "write"
    /\ IF SuperAdmins \ {call[t].user} = {} THEN call' = [call EXCEPT ![t] = NULL]
       ELSE call' = [call EXCEPT ![t].next = "locked"]
    /\ UNCHANGED <<staff, keysOf, heldBy, bySuper>>

\* assertSuperAdminNotEmptied: SELECT ... FOR UPDATE of the other active holders
\* waits for whoever writes them and looks at what is left then.
assertSuperAdminNotEmptied(t) ==
    LET others == SuperAdmins \ {call[t].user} IN
    /\ call[t] # NULL /\ call[t].lockout /\ call[t].next = "write"
    /\ \A u \in others : heldBy[u] = NULL
    /\ IF others = {} THEN call' = [call EXCEPT ![t] = NULL] /\ UNCHANGED heldBy
       ELSE /\ call' = [call EXCEPT ![t].next = "locked"]
            /\ heldBy' = [u \in Staff |-> IF u \in others THEN t ELSE heldBy[u]]
    /\ UNCHANGED <<staff, keysOf, bySuper>>

Released(t) == [u \in Staff |-> IF heldBy[u] = t THEN NULL ELSE heldBy[u]]

\* The row as the transaction leaves it.
Written(w) ==
    LET u == w.user IN
    CASE w.op = "create" -> [role |-> w.role, active |-> TRUE, manager |-> NULL]
      [] w.op \in {"assign", "promote"} -> [staff[u] EXCEPT !.role = w.role]
      [] w.op = "manager" -> [staff[u] EXCEPT !.manager = w.manager]
      [] w.op = "deactivate" -> [staff[u] EXCEPT !.active = FALSE]
      [] w.op = "reactivate" -> [staff[u] EXCEPT !.active = TRUE]

\* The update by id waits for a lock on the row, and commits.  A role that is gone
\* fails the foreign key.
WriteUser(t) ==
    LET w == call[t] IN
    /\ w # NULL /\ w.user # NULL
    /\ w.next = (IF w.lockout THEN "locked" ELSE "write")
    /\ heldBy[w.user] \in {NULL, t}
    /\ staff' = IF w.role # NULL /\ ~Exists(w.role) THEN staff
                ELSE [staff EXCEPT ![w.user] = Written(w)]
    /\ heldBy' = Released(t)
    /\ call' = [call EXCEPT ![t] = NULL]
    /\ UNCHANGED <<keysOf, bySuper>>

-----------------------------------------------------------------------------
(* Roles.                                                                  *)

\* RolesService.create; the slug super_admin is reserved.
createRole(t, c, r, ks) ==
    /\ r \in Custom /\ ~Exists(r)
    /\ MayGrant(c, ks)
    /\ Decide(t, c, "createRole", [NoWrite EXCEPT !.role = r, !.keys = ks])

\* RolesService.update: the keys of super_admin cannot be edited.
updateRole(t, c, r, ks) ==
    /\ r # "super_admin" /\ MayHandle(c, r)
    /\ MayGrant(c, ks)
    /\ Decide(t, c, "updateRole", [NoWrite EXCEPT !.role = r, !.keys = ks])

\* RolesService.remove of a role that nobody holds.
removeRole(t, c, r) ==
    /\ r \in Custom /\ MayHandle(c, r)
    /\ \A u \in Users : staff[u].role # r
    /\ Decide(t, c, "removeRole", [NoWrite EXCEPT !.role = r])

\* A role that is gone cannot be edited, one that is held by then cannot go, and a
\* slug is unique.
WriteRole(t) ==
    LET w == call[t]
        stands == IF w.op = "createRole" THEN ~Exists(w.role) ELSE Exists(w.role)
        free == w.op = "removeRole" => \A u \in Users : staff[u].role # w.role
    IN  /\ w # NULL /\ w.user = NULL
        /\ keysOf' = IF stands /\ free THEN [keysOf EXCEPT ![w.role] = w.keys] ELSE keysOf
        /\ call' = [call EXCEPT ![t] = NULL]
        /\ UNCHANGED <<staff, heldBy, bySuper>>

\* A request fails, or PostgreSQL ends it because two wait for each other.
AccountFail(t) ==
    /\ call[t] # NULL
    /\ call' = [call EXCEPT ![t] = NULL]
    /\ heldBy' = Released(t)
    /\ UNCHANGED <<staff, keysOf, bySuper>>

AccountsNext ==
    \E t \in AccountReqs :
        \/ assertSuperAdminNotEmptied(t) \/ WriteUser(t) \/ WriteRole(t) \/ AccountFail(t)
        \/ \E c \in Users :
              \/ \E u \in Staff :
                    \/ deactivateUser(t, c, u) \/ reactivateUser(t, c, u)
                    \/ \E r \in RoleIds : createUser(t, c, u, r) \/ assignRole(t, c, u, r)
                    \/ \E m \in Staff : assignManager(t, c, u, m)
              \/ \E r \in RoleIds :
                    \/ removeRole(t, c, r)
                    \/ \E ks \in SUBSET Keys : createRole(t, c, r, ks) \/ updateRole(t, c, r, ks)

AccountsSpec == AccountsInit /\ [][AccountsNext]_accountVars

-----------------------------------------------------------------------------

\* However super_admins deactivate and demote one another at the same time, the
\* company keeps an active one (assertSuperAdminNotEmptied).
SuperAdminRemains == SuperAdmins # {}

\* As long as no super_admin acts, no sequence of new roles, edited roles,
\* assignments and reactivations gives anybody a permission that company_admin did
\* not have, or makes another super_admin (assertPermissionSubset,
\* assertActorIsSuperAdminIfTargetIs).
NobodyOutgrowsTheAdmin ==
    ~bySuper =>
        /\ \A u \in Users : staff[u].role # "super_admin" => HeldKeys(u) \subseteq AdminHolds
        /\ \A u, v \in Users : {staff[u].role, staff[v].role} = {"super_admin"} => u = v
=============================================================================
