---------------------------- MODULE AccessProofs ------------------------------
(***************************************************************************)
(* Who may act for whom.  Users and roles: nobody below super_admin raises *)
(* anybody above company_admin and a super_admin remains, for any          *)
(* permissions, staff, roles and requests at the same time.  Routes: the   *)
(* portal boundary under any drift of the roles' permissions.  Tenants:    *)
(* sessions see their own rows and the audit trail names the actor, for    *)
(* any companies, sessions, rows and connections, and calls nested as      *)
(* deeply as one likes.  Credentials: wrong codes are rationed, and a      *)
(* password link is redeemed once and only while it is the current one,    *)
(* for any number of links and requests.                                   *)
(***************************************************************************)
EXTENDS Access, Accounts, PasswordLinks, SecondFactor, Tenancy, Integers, SequenceTheorems,
        FiniteSetTheorems, TLAPS

\* A pending write names what it needs.
CallFits(v) ==
    \/ v.user \in Staff /\ v.op = "create" /\ v.role \in RoleIds
    \/ v.user \in Users /\ v.op \in {"assign", "promote"} /\ v.role \in RoleIds
    \/ v.user \in Users /\ v.op \in {"manager", "deactivate", "reactivate"} /\ v.role = NULL
    \/ v.user = NULL /\ v.op = "removeRole" /\ v.role \in RoleIds
    \/ v.user = NULL /\ v.op \in {"createRole", "updateRole"} /\ v.role \in RoleIds /\ v.keys \in KeySets

\* A pending write makes nobody a super_admin and gives no role more than
\* company_admin had.
CallBounded(v) == v.role # "super_admin" /\ (v.keys # NULL => v.keys \subseteq AdminHolds)

CallsFit == \A t \in AccountReqs : call[t] # NULL => CallFits(call[t])

RolesExist == \A u \in Users : Exists(staff[u].role)

KeysBounded == \A r \in RoleIds \ {"super_admin"} : Exists(r) => keysOf[r] \subseteq AdminHolds

CallsBounded == \A t \in AccountReqs : call[t] # NULL => CallBounded(call[t])

OneSuperAdmin ==
    \A u, v \in Users : staff[u].role = "super_admin" /\ staff[v].role = "super_admin" => u = v

AccountsInv ==
    /\ AccountsTypeOK /\ CallsFit /\ RolesExist
    /\ ~bySuper => KeysBounded /\ CallsBounded /\ OneSuperAdmin

LEMMA BoundFollows == AccountsInv => NobodyOutgrowsTheAdmin
<1> SUFFICES ASSUME AccountsInv, ~bySuper PROVE
             /\ \A u \in Users : staff[u].role # "super_admin" => HeldKeys(u) \subseteq AdminHolds
             /\ \A u, v \in Users : {staff[u].role, staff[v].role} = {"super_admin"} => u = v
  BY DEF NobodyOutgrowsTheAdmin
<1>1. ASSUME NEW u \in Users, staff[u].role # "super_admin" PROVE HeldKeys(u) \subseteq AdminHolds
  <2>1. staff[u].role \in RoleIds
    BY DEF AccountsInv, AccountsTypeOK, Users, StaffRow
  <2> QED
    BY <1>1, <2>1 DEF AccountsInv, RolesExist, KeysBounded, HeldKeys
<1>2. ASSUME NEW u \in Users, NEW v \in Users, {staff[u].role, staff[v].role} = {"super_admin"} PROVE u = v
  BY <1>2 DEF AccountsInv, OneSuperAdmin
<1> QED
  BY <1>1, <1>2

LEMMA AccountsInitOK == AccountsInit => AccountsInv
<1> SUFFICES ASSUME AccountsInit PROVE AccountsInv
  OBVIOUS
<1>1. PICK s \in Staff, a \in Staff :
         /\ s # a
         /\ staff = [u \in Staff |->
               IF u \in {s, a} THEN [role |-> IF u = s THEN "super_admin" ELSE "company_admin",
                                     active |-> TRUE, manager |-> NULL]
               ELSE NULL]
  BY DEF AccountsInit
<1>2. ASSUME NEW r \in RoleIds
      PROVE  [role |-> r, active |-> TRUE, manager |-> NULL] \in StaffRow
             /\ [role |-> r, active |-> TRUE, manager |-> NULL].role = r
  BY DEF StaffRow
<1>3. {"super_admin", "company_admin"} \subseteq RoleIds
  BY DEF RoleIds, System
<1>4. /\ staff[s] \in StaffRow /\ staff[s].role = "super_admin"
      /\ staff[a] \in StaffRow /\ staff[a].role = "company_admin"
      /\ \A u \in Staff \ {s, a} : staff[u] = NULL
  BY <1>1, <1>2, <1>3
<1>5. staff \in [Staff -> StaffRow \cup {NULL}]
  <2>1. \A u \in Staff : staff[u] \in StaffRow \cup {NULL}
    BY <1>4
  <2>2. staff = [u \in Staff |-> staff[u]]
    BY <1>1
  <2> QED
    BY <2>1, <2>2
<1>6. Users = {s, a}
  BY <1>4, AccountsAssumption DEF Users
<1>7. keysOf \in [RoleIds -> {NULL} \cup KeySets] /\ Exists("super_admin") /\ Exists("company_admin")
      /\ \A r \in RoleIds \ {"super_admin"} : Exists(r) => keysOf[r] = AdminHolds
  <2>1. Keys \in KeySets /\ AdminHolds \in KeySets
    BY AccountsAssumption DEF KeySets
  <2>2. keysOf["super_admin"] = Keys /\ keysOf["company_admin"] = AdminHolds
    BY <1>3 DEF AccountsInit
  <2>3. keysOf \in [RoleIds -> {NULL} \cup KeySets]
    BY <2>1 DEF AccountsInit
  <2>4. Exists("super_admin") /\ Exists("company_admin")
    BY <2>1, <2>2, AccountsAssumption DEF Exists
  <2>5. \A r \in RoleIds \ {"super_admin"} : Exists(r) => keysOf[r] = AdminHolds
    BY DEF Exists, AccountsInit
  <2> QED
    BY <2>3, <2>4, <2>5
<1>8. AccountsTypeOK /\ CallsFit /\ CallsBounded
  BY <1>5, <1>7 DEF AccountsInit, AccountsTypeOK, CallsFit, CallsBounded
<1>9. RolesExist /\ KeysBounded /\ OneSuperAdmin
  <2>1. RolesExist
    BY <1>4, <1>6, <1>7 DEF RolesExist
  <2>2. KeysBounded
    BY <1>7 DEF KeysBounded
  <2>3. OneSuperAdmin
    BY <1>4, <1>6 DEF OneSuperAdmin
  <2> QED
    BY <2>1, <2>2, <2>3
<1> QED
  BY <1>8, <1>9 DEF AccountsInv

-----------------------------------------------------------------------------
(* Deciding.                                                               *)

\* What a caller who is not a super_admin may grant.
LEMMA CallersAreBounded ==
    ASSUME AccountsInv, NEW c \in Users, staff[c].role # "super_admin", ~bySuper
    PROVE  HeldKeys(c) \subseteq AdminHolds
  BY BoundFollows DEF NobodyOutgrowsTheAdmin

\* A request decides on the write v.
LEMMA DecideStep ==
    ASSUME AccountsInv, NEW t \in AccountReqs, NEW c \in Users, NEW v \in Write,
           call' = [call EXCEPT ![t] = v],
           bySuper' = (bySuper \/ staff[c].role = "super_admin"), UNCHANGED <<staff, keysOf, heldBy>>,
           CallFits(v), staff[c].role # "super_admin" /\ ~bySuper => CallBounded(v)
    PROVE  AccountsInv'
<1>1. call' \in [AccountReqs -> Write \cup {NULL}]
  BY DEF AccountsInv, AccountsTypeOK
<1>2. call'[t] = v /\ \A o \in AccountReqs \ {t} : call'[o] = call[o]
  BY DEF AccountsInv, AccountsTypeOK
<1>3. AccountsTypeOK'
  BY <1>1 DEF AccountsInv, AccountsTypeOK
<1>4. Users' = Users /\ \A r : Exists(r)' <=> Exists(r)
  BY DEF Users, Exists
<1>5. CallsFit'
  BY <1>2, <1>4 DEF AccountsInv, CallsFit, CallFits
<1>6. RolesExist'
  BY <1>4 DEF AccountsInv, RolesExist
<1>7. ASSUME ~bySuper' PROVE KeysBounded' /\ CallsBounded' /\ OneSuperAdmin'
  <2>1. ~bySuper /\ CallBounded(v)
    BY <1>7
  <2> QED
    BY <1>2, <1>4, <2>1 DEF AccountsInv, KeysBounded, CallsBounded, CallBounded, OneSuperAdmin
<1> QED
  BY <1>3, <1>5, <1>6, <1>7 DEF AccountsInv

\* The keys that a caller may hand on.
LEMMA GrantsAreBounded ==
    ASSUME AccountsInv, NEW c \in Users, NEW ks \in SUBSET Keys, MayGrant(c, ks),
           staff[c].role # "super_admin", ~bySuper
    PROVE  ks \subseteq AdminHolds
  BY CallersAreBounded DEF MayGrant

LEMMA CreateUserStep ==
    ASSUME AccountsInv, NEW t \in AccountReqs, NEW c \in Users, NEW u \in Staff, NEW r \in RoleIds,
           createUser(t, c, u, r)
    PROVE  AccountsInv'
<1> DEFINE v == [[NoWrite EXCEPT !.user = u, !.role = r] EXCEPT !.op = "create"]
<1>1. v \in Write /\ v.user = u /\ v.role = r /\ v.op = "create" /\ v.keys = NULL
  BY DEF NoWrite, Write
<1>2. /\ call' = [call EXCEPT ![t] = v]
      /\ bySuper' = (bySuper \/ staff[c].role = "super_admin")
      /\ UNCHANGED <<staff, keysOf, heldBy>> /\ MayHandle(c, r)
  BY DEF createUser, Decide
<1> HIDE DEF v
<1>3. CallFits(v) /\ (staff[c].role # "super_admin" => CallBounded(v))
  BY <1>1, <1>2 DEF CallFits, CallBounded, MayHandle, ActorFits
<1> QED
  BY <1>1, <1>2, <1>3, DecideStep

LEMMA AssignRoleStep ==
    ASSUME AccountsInv, NEW t \in AccountReqs, NEW c \in Users, NEW u \in Staff, NEW r \in RoleIds,
           assignRole(t, c, u, r)
    PROVE  AccountsInv'
<1>0. PICK op \in {"promote", "assign"}, b \in BOOLEAN :
         Decide(t, c, op, [NoWrite EXCEPT !.user = u, !.role = r, !.lockout = b])
  BY DEF assignRole
<1> DEFINE v == [[NoWrite EXCEPT !.user = u, !.role = r, !.lockout = b] EXCEPT !.op = op]
<1>1. v \in Write /\ v.user = u /\ v.role = r /\ v.op = op /\ v.keys = NULL
  BY DEF NoWrite, Write
<1>2. /\ call' = [call EXCEPT ![t] = v]
      /\ bySuper' = (bySuper \/ staff[c].role = "super_admin")
      /\ UNCHANGED <<staff, keysOf, heldBy>>
  BY <1>0 DEF Decide
<1>3. u \in Users /\ MayHandle(c, r)
  BY DEF assignRole
<1> HIDE DEF v
<1>4. CallFits(v) /\ (staff[c].role # "super_admin" => CallBounded(v))
  BY <1>1, <1>3 DEF CallFits, CallBounded, MayHandle, ActorFits
<1> QED
  BY <1>1, <1>2, <1>4, DecideStep

LEMMA EditUserStep ==
    ASSUME AccountsInv, NEW t \in AccountReqs, NEW c \in Users, NEW u \in Staff, NEW m \in Staff,
           assignManager(t, c, u, m) \/ deactivateUser(t, c, u) \/ reactivateUser(t, c, u)
    PROVE  AccountsInv'
<1> SUFFICES ASSUME NEW v \in Write, call' = [call EXCEPT ![t] = v],
                    v.user = u, v.role = NULL, v.op \in {"manager", "deactivate", "reactivate"}, v.keys = NULL,
                    bySuper' = (bySuper \/ staff[c].role = "super_admin"), UNCHANGED <<staff, keysOf, heldBy>>
             PROVE  AccountsInv'
  <2>1. CASE assignManager(t, c, u, m)
    <3> DEFINE v == [[NoWrite EXCEPT !.user = u, !.manager = m] EXCEPT !.op = "manager"]
    <3>1. v \in Write /\ v.user = u /\ v.role = NULL /\ v.op = "manager" /\ v.keys = NULL
      BY DEF NoWrite, Write
    <3>2. /\ call' = [call EXCEPT ![t] = v] /\ UNCHANGED <<staff, keysOf, heldBy>>
          /\ bySuper' = (bySuper \/ staff[c].role = "super_admin")
      BY <2>1 DEF assignManager, Decide
    <3> HIDE DEF v
    <3> QED
      BY <3>1, <3>2
  <2>2. CASE deactivateUser(t, c, u)
    <3>0. PICK b \in BOOLEAN : Decide(t, c, "deactivate", [NoWrite EXCEPT !.user = u, !.lockout = b])
      BY <2>2 DEF deactivateUser
    <3> DEFINE v == [[NoWrite EXCEPT !.user = u, !.lockout = b] EXCEPT !.op = "deactivate"]
    <3>1. v \in Write /\ v.user = u /\ v.role = NULL /\ v.op = "deactivate" /\ v.keys = NULL
      BY DEF NoWrite, Write
    <3>2. /\ call' = [call EXCEPT ![t] = v] /\ UNCHANGED <<staff, keysOf, heldBy>>
          /\ bySuper' = (bySuper \/ staff[c].role = "super_admin")
      BY <3>0 DEF Decide
    <3> HIDE DEF v
    <3> QED
      BY <3>1, <3>2
  <2>3. CASE reactivateUser(t, c, u)
    <3> DEFINE v == [[NoWrite EXCEPT !.user = u] EXCEPT !.op = "reactivate"]
    <3>1. v \in Write /\ v.user = u /\ v.role = NULL /\ v.op = "reactivate" /\ v.keys = NULL
      BY DEF NoWrite, Write
    <3>2. /\ call' = [call EXCEPT ![t] = v] /\ UNCHANGED <<staff, keysOf, heldBy>>
          /\ bySuper' = (bySuper \/ staff[c].role = "super_admin")
      BY <2>3 DEF reactivateUser, Decide
    <3> HIDE DEF v
    <3> QED
      BY <3>1, <3>2
  <2> QED
    BY <2>1, <2>2, <2>3
<1>1. u \in Users
  BY DEF assignManager, deactivateUser, reactivateUser
<1>2. CallFits(v) /\ CallBounded(v)
  BY <1>1, AccountsAssumption DEF CallFits, CallBounded, RoleIds, System
<1> QED
  BY <1>2, DecideStep

LEMMA EditRoleStep ==
    ASSUME AccountsInv, NEW t \in AccountReqs, NEW c \in Users, NEW r \in RoleIds, NEW ks \in SUBSET Keys,
           createRole(t, c, r, ks) \/ updateRole(t, c, r, ks)
    PROVE  AccountsInv'
<1>0. PICK op \in {"createRole", "updateRole"} :
         Decide(t, c, op, [NoWrite EXCEPT !.role = r, !.keys = ks])
  BY DEF createRole, updateRole
<1> DEFINE v == [[NoWrite EXCEPT !.role = r, !.keys = ks] EXCEPT !.op = op]
<1>k. ks \in KeySets
  BY DEF KeySets
<1>1. v \in Write /\ v.user = NULL /\ v.role = r /\ v.op = op /\ v.keys = ks
  BY <1>k DEF NoWrite, Write
<1>2. /\ call' = [call EXCEPT ![t] = v] /\ UNCHANGED <<staff, keysOf, heldBy>>
      /\ bySuper' = (bySuper \/ staff[c].role = "super_admin")
  BY <1>0 DEF Decide
<1>3. r # "super_admin" /\ MayGrant(c, ks)
  BY AccountsAssumption DEF createRole, updateRole, System
<1> HIDE DEF v
<1>4. CallFits(v)
  BY <1>k, <1>1 DEF CallFits
<1>5. staff[c].role # "super_admin" /\ ~bySuper => CallBounded(v)
  BY <1>1, <1>3, GrantsAreBounded DEF CallBounded
<1> QED
  BY <1>1, <1>2, <1>4, <1>5, DecideStep

LEMMA RemoveRoleStep ==
    ASSUME AccountsInv, NEW t \in AccountReqs, NEW c \in Users, NEW r \in RoleIds, removeRole(t, c, r)
    PROVE  AccountsInv'
<1> DEFINE v == [[NoWrite EXCEPT !.role = r] EXCEPT !.op = "removeRole"]
<1>1. v \in Write /\ v.user = NULL /\ v.role = r /\ v.op = "removeRole" /\ v.keys = NULL
  BY DEF NoWrite, Write
<1>2. /\ call' = [call EXCEPT ![t] = v] /\ UNCHANGED <<staff, keysOf, heldBy>>
      /\ bySuper' = (bySuper \/ staff[c].role = "super_admin")
  BY DEF removeRole, Decide
<1>3. r # "super_admin"
  BY AccountsAssumption DEF removeRole, System
<1> HIDE DEF v
<1>4. CallFits(v) /\ CallBounded(v)
  BY <1>1, <1>3 DEF CallFits, CallBounded
<1> QED
  BY <1>1, <1>2, <1>4, DecideStep

-----------------------------------------------------------------------------
(* Writing.                                                                *)

\* A request that locks, ends or fails without writing.
LEMMA CallStep ==
    ASSUME AccountsInv, NEW t \in AccountReqs, NEW v \in Write \cup {NULL},
           call' = [call EXCEPT ![t] = v], heldBy' \in [Staff -> AccountReqs \cup {NULL}],
           UNCHANGED <<staff, keysOf, bySuper>>,
           v # NULL => CallFits(v) /\ (~bySuper => CallBounded(v))
    PROVE  AccountsInv'
<1>1. call' \in [AccountReqs -> Write \cup {NULL}]
  BY DEF AccountsInv, AccountsTypeOK
<1>2. call'[t] = v /\ \A o \in AccountReqs \ {t} : call'[o] = call[o]
  BY DEF AccountsInv, AccountsTypeOK
<1>3. AccountsTypeOK'
  BY <1>1 DEF AccountsInv, AccountsTypeOK
<1>4. Users' = Users /\ \A r : Exists(r)' <=> Exists(r)
  BY DEF Users, Exists
<1>5. CallsFit'
  BY <1>2, <1>4 DEF AccountsInv, CallsFit, CallFits
<1>6. RolesExist'
  BY <1>4 DEF AccountsInv, RolesExist
<1>7. ASSUME ~bySuper' PROVE KeysBounded' /\ CallsBounded' /\ OneSuperAdmin'
  BY <1>2, <1>4, <1>7 DEF AccountsInv, KeysBounded, CallsBounded, CallBounded, OneSuperAdmin
<1> QED
  BY <1>3, <1>5, <1>6, <1>7 DEF AccountsInv

LEMMA LockStep ==
    ASSUME AccountsInv, NEW t \in AccountReqs, assertSuperAdminNotEmptied(t)
    PROVE  AccountsInv'
<1>1. PICK w \in Write : w = call[t]
  BY DEF AccountsInv, AccountsTypeOK, assertSuperAdminNotEmptied
<1>2. CallFits(w) /\ (~bySuper => CallBounded(w))
  BY <1>1, AccountsAssumption DEF AccountsInv, CallsFit, CallsBounded
<1>3. UNCHANGED <<staff, keysOf, bySuper>> /\ heldBy' \in [Staff -> AccountReqs \cup {NULL}]
  BY DEF assertSuperAdminNotEmptied, AccountsInv, AccountsTypeOK
<1>4. CASE SuperAdmins \ {call[t].user} = {}
  <2>1. call' = [call EXCEPT ![t] = NULL]
    BY <1>4 DEF assertSuperAdminNotEmptied
  <2> QED
    BY <1>3, <2>1, CallStep
<1>5. CASE SuperAdmins \ {call[t].user} # {}
  <2> DEFINE v == [w EXCEPT !.next = "locked"]
  <2>1. v \in Write /\ v.user = w.user /\ v.role = w.role /\ v.op = w.op /\ v.keys = w.keys
    BY DEF Write
  <2>2. call' = [call EXCEPT ![t] = v]
    BY <1>1, <1>5 DEF assertSuperAdminNotEmptied
  <2> HIDE DEF v
  <2>3. CallFits(v) /\ (~bySuper => CallBounded(v))
    BY <1>2, <2>1 DEF CallFits, CallBounded
  <2> QED
    BY <1>3, <2>1, <2>2, <2>3, CallStep
<1> QED
  BY <1>4, <1>5

LEMMA FailStep ==
    ASSUME AccountsInv, NEW t \in AccountReqs, AccountFail(t)
    PROVE  AccountsInv'
<1>1. heldBy' \in [Staff -> AccountReqs \cup {NULL}]
  BY DEF AccountsInv, AccountsTypeOK, AccountFail, Released
<1> QED
  BY <1>1, CallStep DEF AccountFail

\* The row that a fitting write leaves has its role, or the one that was there.
LEMMA WrittenRow ==
    ASSUME AccountsInv, NEW w \in Write, CallFits(w), w.user # NULL
    PROVE  /\ Written(w) \in StaffRow
           /\ \/ w.role # NULL /\ Written(w).role = w.role
              \/ w.user \in Users /\ w.role = NULL /\ Written(w).role = staff[w.user].role
<1>1. CASE w.op = "create"
  <2>1. w.role \in RoleIds
    BY <1>1 DEF CallFits
  <2>2. PICK r \in RoleIds : r = w.role
    BY <2>1
  <2>3. /\ [role |-> r, active |-> TRUE, manager |-> NULL] \in StaffRow
        /\ [role |-> r, active |-> TRUE, manager |-> NULL].role = r
    BY DEF StaffRow
  <2>4. Written(w) = [role |-> r, active |-> TRUE, manager |-> NULL]
    BY <1>1, <2>2 DEF Written
  <2> QED
    BY <2>1, <2>2, <2>3, <2>4, AccountsAssumption
<1>2. CASE w.op # "create"
  <2>1. w.user \in Users /\ w.op \in {"assign", "promote", "manager", "deactivate", "reactivate"}
    BY <1>2 DEF CallFits
  <2>2. PICK s \in StaffRow : s = staff[w.user]
    BY <2>1 DEF AccountsInv, AccountsTypeOK, Users
  <2>3. CASE w.op \in {"assign", "promote"}
    <3>1. w.role \in RoleIds
      BY <2>3 DEF CallFits
    <3>2. PICK r \in RoleIds : r = w.role
      BY <3>1
    <3>3. [s EXCEPT !.role = r] \in StaffRow /\ [s EXCEPT !.role = r].role = r
      BY DEF StaffRow
    <3>4. Written(w) = [s EXCEPT !.role = r]
      BY <2>2, <2>3, <3>2 DEF Written
    <3> QED
      BY <3>1, <3>2, <3>3, <3>4, AccountsAssumption
  <2>4. CASE w.op = "manager"
    <3>1. w.role = NULL /\ w.manager \in Staff \cup {NULL}
      BY <2>4 DEF CallFits, Write
    <3>2. PICK m \in Staff \cup {NULL} : m = w.manager
      BY <3>1
    <3>3. [s EXCEPT !.manager = m] \in StaffRow /\ [s EXCEPT !.manager = m].role = s.role
      BY DEF StaffRow
    <3>4. Written(w) = [s EXCEPT !.manager = m]
      BY <2>2, <2>4, <3>2 DEF Written
    <3> QED
      BY <2>1, <2>2, <3>1, <3>3, <3>4
  <2>5. CASE w.op = "deactivate"
    <3>1. [s EXCEPT !.active = FALSE] \in StaffRow /\ [s EXCEPT !.active = FALSE].role = s.role
      BY DEF StaffRow
    <3>2. Written(w) = [s EXCEPT !.active = FALSE] /\ w.role = NULL
      BY <2>2, <2>5 DEF Written, CallFits
    <3> QED
      BY <2>1, <2>2, <3>1, <3>2
  <2>6. CASE w.op = "reactivate"
    <3>1. [s EXCEPT !.active = TRUE] \in StaffRow /\ [s EXCEPT !.active = TRUE].role = s.role
      BY DEF StaffRow
    <3>2. Written(w) = [s EXCEPT !.active = TRUE] /\ w.role = NULL
      BY <2>2, <2>6 DEF Written, CallFits
    <3> QED
      BY <2>1, <2>2, <3>1, <3>2
  <2> QED
    BY <2>1, <2>3, <2>4, <2>5, <2>6
<1> QED
  BY <1>1, <1>2

\* A request takes its write out of the way and leaves the others'.
LEMMA CallsRemain ==
    ASSUME AccountsInv, NEW t \in AccountReqs, call' = [call EXCEPT ![t] = NULL],
           Users \subseteq Users'
    PROVE  /\ call' \in [AccountReqs -> Write \cup {NULL}]
           /\ CallsFit'
           /\ CallsBounded => CallsBounded'
<1>1. call'[t] = NULL /\ \A o \in AccountReqs \ {t} : call'[o] = call[o]
  BY DEF AccountsInv, AccountsTypeOK
<1>2. CallsFit'
  BY <1>1 DEF AccountsInv, CallsFit, CallFits
<1>3. CallsBounded => CallsBounded'
  BY <1>1 DEF CallsBounded, CallBounded
<1> QED
  BY <1>2, <1>3 DEF AccountsInv, AccountsTypeOK

LEMMA WriteUserStep ==
    ASSUME AccountsInv, NEW t \in AccountReqs, WriteUser(t)
    PROVE  AccountsInv'
<1>1. PICK w \in Write : w = call[t] /\ w.user # NULL
  BY DEF AccountsInv, AccountsTypeOK, WriteUser
<1>2. CallFits(w) /\ (~bySuper => CallBounded(w)) /\ w.user \in Staff
  BY <1>1, AccountsAssumption DEF AccountsInv, CallsFit, CallsBounded, Write
<1>3. heldBy' \in [Staff -> AccountReqs \cup {NULL}] /\ UNCHANGED <<keysOf, bySuper>>
  BY DEF WriteUser, AccountsInv, AccountsTypeOK, Released
<1>4. call' = [call EXCEPT ![t] = NULL]
  BY DEF WriteUser
<1>5. CASE staff' = staff
  BY <1>3, <1>4, <1>5, CallStep
<1>6. CASE staff' = [staff EXCEPT ![w.user] = Written(w)] /\ (w.role # NULL => Exists(w.role))
  <2>1. PICK row \in StaffRow :
           /\ row = Written(w)
           /\ \/ w.role # NULL /\ row.role = w.role
              \/ w.user \in Users /\ w.role = NULL /\ row.role = staff[w.user].role
    BY <1>1, <1>2, WrittenRow
  <2>2. PICK u \in Staff : u = w.user
    BY <1>2
  <2>3. /\ staff' \in [Staff -> StaffRow \cup {NULL}] /\ staff'[u] = row
        /\ \A o \in Staff \ {u} : staff'[o] = staff[o]
    BY <1>6, <2>1, <2>2 DEF AccountsInv, AccountsTypeOK
  <2>4. Users' = Users \cup {u}
    BY <2>3, AccountsAssumption DEF Users
  <2>5. AccountsTypeOK' /\ CallsFit' /\ (CallsBounded => CallsBounded')
    BY <1>3, <1>4, <2>3, <2>4, CallsRemain DEF AccountsInv, AccountsTypeOK
  <2>6. Exists(row.role) /\ \A r : Exists(r)' <=> Exists(r)
    BY <1>3, <1>6, <2>1 DEF AccountsInv, RolesExist, Exists
  <2>7. RolesExist'
    BY <2>3, <2>4, <2>6 DEF AccountsInv, RolesExist, Users
  <2>8. ASSUME ~bySuper' PROVE KeysBounded' /\ CallsBounded' /\ OneSuperAdmin'
    <3>1. ~bySuper /\ CallBounded(w)
      BY <1>2, <1>3, <2>8
    <3>2. KeysBounded'
      BY <1>3, <2>6, <3>1 DEF AccountsInv, KeysBounded
    <3>3. row.role = "super_admin" => u \in Users /\ staff[u].role = "super_admin"
      BY <2>1, <2>2, <3>1 DEF CallBounded
    <3>4. OneSuperAdmin'
      BY <2>3, <2>4, <3>1, <3>3 DEF AccountsInv, OneSuperAdmin, Users
    <3> QED
      BY <2>5, <3>1, <3>2, <3>4 DEF AccountsInv
  <2> QED
    BY <2>5, <2>7, <2>8 DEF AccountsInv
<1> QED
  BY <1>1, <1>5, <1>6 DEF WriteUser

LEMMA WriteRoleStep ==
    ASSUME AccountsInv, NEW t \in AccountReqs, WriteRole(t)
    PROVE  AccountsInv'
<1>1. PICK w \in Write : w = call[t] /\ w.user = NULL
  BY DEF AccountsInv, AccountsTypeOK, WriteRole
<1>2. CallFits(w) /\ (~bySuper => CallBounded(w)) /\ w.keys \in {NULL} \cup KeySets
  BY <1>1, AccountsAssumption DEF AccountsInv, CallsFit, CallsBounded, Write
<1>3. /\ w.op \in {"removeRole", "createRole", "updateRole"} /\ w.role \in RoleIds
      /\ w.op # "removeRole" => w.keys # NULL
  <2>1. NULL \notin Staff /\ NULL \notin Users
    BY AccountsAssumption DEF Users
  <2>2. \A ks \in KeySets : ks # NULL
    BY AccountsAssumption
  <2> QED
    BY <1>1, <1>2, <2>1, <2>2 DEF CallFits
<1>4. call' = [call EXCEPT ![t] = NULL] /\ UNCHANGED <<staff, heldBy, bySuper>>
  BY DEF WriteRole
<1>5. Users' = Users
  BY <1>4 DEF Users
<1>6. CASE keysOf' = keysOf
  <2>1. heldBy' \in [Staff -> AccountReqs \cup {NULL}]
    BY <1>4 DEF AccountsInv, AccountsTypeOK
  <2> QED
    BY <1>4, <1>6, <2>1, CallStep
<1>7. CASE /\ keysOf' = [keysOf EXCEPT ![w.role] = w.keys]
           /\ w.op = "removeRole" => \A u \in Users : staff[u].role # w.role
  <2>1. PICK r \in RoleIds, ks \in {NULL} \cup KeySets : r = w.role /\ ks = w.keys
    BY <1>2, <1>3
  <2>2. /\ keysOf' \in [RoleIds -> {NULL} \cup KeySets] /\ keysOf'[r] = ks
        /\ \A o \in RoleIds \ {r} : keysOf'[o] = keysOf[o]
    BY <1>7, <2>1 DEF AccountsInv, AccountsTypeOK
  <2>3. AccountsTypeOK' /\ CallsFit' /\ (CallsBounded => CallsBounded')
    BY <1>4, <1>5, <2>2, CallsRemain DEF AccountsInv, AccountsTypeOK
  <2>4. RolesExist'
    <3> SUFFICES ASSUME NEW u \in Users PROVE keysOf'[staff[u].role] # NULL
      BY <1>4, <1>5 DEF RolesExist, Exists
    <3>1. staff[u].role \in RoleIds /\ keysOf[staff[u].role] # NULL
      BY DEF AccountsInv, AccountsTypeOK, RolesExist, Exists, Users, StaffRow
    <3>2. staff[u].role = r => ks # NULL
      BY <1>3, <1>7, <2>1
    <3> QED
      BY <2>2, <3>1, <3>2
  <2>5. ASSUME ~bySuper' PROVE KeysBounded' /\ CallsBounded' /\ OneSuperAdmin'
    <3>1. ~bySuper /\ (ks # NULL => ks \subseteq AdminHolds)
      BY <1>2, <1>4, <2>1, <2>5 DEF CallBounded
    <3>2. KeysBounded'
      BY <2>2, <3>1 DEF AccountsInv, KeysBounded, Exists
    <3>3. OneSuperAdmin'
      BY <1>4, <1>5, <3>1 DEF AccountsInv, OneSuperAdmin
    <3> QED
      BY <2>3, <3>1, <3>2, <3>3 DEF AccountsInv
  <2> QED
    BY <2>3, <2>4, <2>5 DEF AccountsInv
<1> QED
  BY <1>1, <1>6, <1>7 DEF WriteRole

-----------------------------------------------------------------------------

LEMMA AccountsStep == AccountsInv /\ [AccountsNext]_accountVars => AccountsInv'
<1> SUFFICES ASSUME AccountsInv, [AccountsNext]_accountVars PROVE AccountsInv'
  OBVIOUS
<1>1. CASE UNCHANGED accountVars
  <2>1. Users' = Users /\ \A r : Exists(r)' <=> Exists(r)
    BY <1>1 DEF accountVars, Users, Exists
  <2>2. AccountsTypeOK' /\ CallsFit'
    BY <1>1, <2>1 DEF accountVars, AccountsInv, AccountsTypeOK, CallsFit, CallFits
  <2>3. RolesExist'
    BY <1>1, <2>1 DEF accountVars, AccountsInv, RolesExist
  <2>4. ASSUME ~bySuper' PROVE KeysBounded' /\ CallsBounded' /\ OneSuperAdmin'
    BY <1>1, <2>1, <2>4
       DEF accountVars, AccountsInv, KeysBounded, CallsBounded, CallBounded, OneSuperAdmin
  <2> QED
    BY <2>2, <2>3, <2>4 DEF AccountsInv
<1>2. ASSUME NEW t \in AccountReqs,
             assertSuperAdminNotEmptied(t) \/ WriteUser(t) \/ WriteRole(t) \/ AccountFail(t)
      PROVE  AccountsInv'
  BY <1>2, LockStep, WriteUserStep, WriteRoleStep, FailStep
<1>3. ASSUME NEW t \in AccountReqs, NEW c \in Users, NEW u \in Staff,
             \/ deactivateUser(t, c, u) \/ reactivateUser(t, c, u)
             \/ \E r \in RoleIds : createUser(t, c, u, r) \/ assignRole(t, c, u, r)
             \/ \E m \in Staff : assignManager(t, c, u, m)
      PROVE  AccountsInv'
  BY <1>3, EditUserStep, CreateUserStep, AssignRoleStep
<1>4. ASSUME NEW t \in AccountReqs, NEW c \in Users, NEW r \in RoleIds,
             \/ removeRole(t, c, r)
             \/ \E ks \in SUBSET Keys : createRole(t, c, r, ks) \/ updateRole(t, c, r, ks)
      PROVE  AccountsInv'
  BY <1>4, RemoveRoleStep, EditRoleStep
<1> QED
  BY <1>1, <1>2, <1>3, <1>4 DEF AccountsNext

\* As long as no super_admin acts, nobody gets past what company_admin held, and
\* nobody else becomes super_admin, however many administrators work at the same
\* time and whatever roles they add, edit, remove and assign
\* (assertPermissionSubset, assertActorIsSuperAdminIfTargetIs).
THEOREM NobodyOutgrowsTheAdminHolds == AccountsSpec => []NobodyOutgrowsTheAdmin
<1>1. AccountsInit => AccountsInv
  BY AccountsInitOK
<1>2. AccountsInv /\ [AccountsNext]_accountVars => AccountsInv'
  BY AccountsStep
<1>3. AccountsInv => NobodyOutgrowsTheAdmin
  BY BoundFollows
<1> QED
  BY <1>1, <1>2, <1>3, PTL DEF AccountsSpec

-----------------------------------------------------------------------------
(* The last super_admin.                                                   *)

\* What a pending write still relies on.  A new account is nobody else's business;
\* making a super_admin runs alone; a demotion or deactivation that did not look
\* for other holders is of somebody who is not one; and one that has looked holds
\* the row of an active super_admin other than its target.
StillTrue(t, w) ==
    /\ w.op = "create" => /\ staff[w.user] = NULL
                          /\ \A o \in AccountReqs \ {t} : call[o] # NULL => call[o].user # w.user
    /\ w.op = "promote" => w.role = "super_admin" /\ \A o \in AccountReqs \ {t} : call[o] = NULL
    /\ w.op = "assign" => w.role # "super_admin"
    /\ w.op \in {"assign", "deactivate"} /\ ~w.lockout => staff[w.user].role # "super_admin"
    /\ w.next = "locked" => w.lockout /\ \E u \in SuperAdmins \ {w.user} : heldBy[u] = t

SuperInv ==
    /\ AccountsInv /\ SuperAdminRemains
    /\ \A t \in AccountReqs : call[t] # NULL => StillTrue(t, call[t])

LEMMA SuperInitOK == AccountsInit => SuperInv
<1> SUFFICES ASSUME AccountsInit PROVE SuperInv
  OBVIOUS
<1>1. PICK s \in Staff, a \in Staff :
         /\ s # a
         /\ staff = [u \in Staff |->
               IF u \in {s, a} THEN [role |-> IF u = s THEN "super_admin" ELSE "company_admin",
                                     active |-> TRUE, manager |-> NULL]
               ELSE NULL]
  BY DEF AccountsInit
<1>2. staff[s] = [role |-> "super_admin", active |-> TRUE, manager |-> NULL]
  BY <1>1
<1>3. [role |-> "super_admin", active |-> TRUE, manager |-> NULL] \in StaffRow
  BY DEF StaffRow, RoleIds, System
<1>4. s \in SuperAdmins
  BY <1>2, <1>3, AccountsAssumption DEF SuperAdmins, Users
<1> QED
  BY <1>4, AccountsInitOK DEF AccountsInit, SuperInv, SuperAdminRemains

\* The write that Decide leaves pending.
LEMMA Decided ==
    ASSUME NEW t \in AccountReqs, NEW c \in Users, NEW w \in Write, w.next = "write",
           NEW op \in {"create", "promote", "assign", "manager", "deactivate", "reactivate",
                       "createRole", "updateRole", "removeRole"},
           Decide(t, c, op, w)
    PROVE  /\ call[t] = NULL /\ UNCHANGED <<staff, keysOf, heldBy>>
           /\ op \in AccountsTogether \/ Idle
           /\ \A o \in AccountReqs : call[o] # NULL => call[o].op \in AccountsTogether
           /\ \E v \in Write : /\ call' = [call EXCEPT ![t] = v]
                               /\ v.op = op /\ v.user = w.user /\ v.role = w.role
                               /\ v.lockout = w.lockout /\ v.next = "write"
<1> DEFINE v == [w EXCEPT !.op = op]
<1>1. v \in Write /\ v.op = op /\ v.user = w.user /\ v.role = w.role
      /\ v.lockout = w.lockout /\ v.next = "write"
  BY DEF Write
<1>2. call' = [call EXCEPT ![t] = v]
  BY DEF Decide
<1> HIDE DEF v
<1> QED
  BY <1>1, <1>2 DEF Decide

\* A pending write still relies on what it did when accounts and locks stay and
\* the new request does not concern an account that is being made.
LEMMA DecideKeepsSuper ==
    ASSUME "promote" \notin AccountsTogether, SuperInv, AccountsInv',
           NEW t \in AccountReqs, NEW v \in Write,
           call[t] = NULL, call' = [call EXCEPT ![t] = v], UNCHANGED <<staff, keysOf, heldBy>>,
           v.op \in AccountsTogether \/ Idle,
           \A o \in AccountReqs : call[o] # NULL => call[o].op \in AccountsTogether,
           v.next = "write",
           v.op = "create" => /\ staff[v.user] = NULL
                              /\ \A o \in AccountReqs : call[o] # NULL => call[o].user # v.user,
           v.op # "create" => v.user \in Users \cup {NULL},
           v.op = "assign" => v.role # "super_admin",
           v.op = "promote" => v.role = "super_admin",
           v.op \in {"assign", "deactivate"} /\ ~v.lockout => staff[v.user].role # "super_admin"
    PROVE  SuperInv'
<1>1. call'[t] = v /\ \A o \in AccountReqs \ {t} : call'[o] = call[o]
  BY DEF SuperInv, AccountsInv, AccountsTypeOK
<1>2. SuperAdmins' = SuperAdmins /\ Users' = Users
  BY DEF SuperAdmins, Users
<1>3. StillTrue(t, v)'
  BY <1>1 DEF StillTrue, Idle
<1>4. ASSUME NEW o \in AccountReqs \ {t}, call[o] # NULL PROVE StillTrue(o, call[o])'
  <2>1. StillTrue(o, call[o]) /\ call[o].op # "promote" /\ call'[o] = call[o]
    BY <1>1, <1>4 DEF SuperInv
  <2>2. call[o].op = "create" => v.user # call[o].user
    <3> SUFFICES ASSUME call[o].op = "create" PROVE v.user # call[o].user
      OBVIOUS
    <3>1. call[o].user \in Staff /\ staff[call[o].user] = NULL
      <4>1. CallFits(call[o])
        BY <1>4 DEF SuperInv, AccountsInv, CallsFit
      <4> QED
        BY <2>1, <4>1 DEF CallFits, StillTrue
    <3>2. CASE v.op = "create"
      BY <1>4, <3>2
    <3>3. CASE v.op # "create"
      BY <3>1, <3>3, AccountsAssumption DEF Users
    <3> QED
      BY <3>2, <3>3
  <2> QED
    BY <1>1, <1>2, <2>1, <2>2 DEF StillTrue
<1>5. ASSUME NEW o \in AccountReqs, call'[o] # NULL PROVE StillTrue(o, call[o])'
  BY <1>1, <1>3, <1>4, <1>5
<1> QED
  BY <1>2, <1>5 DEF SuperInv, SuperAdminRemains

\* A request that ends without writing takes only its own locks with it.
LEMMA EndKeepsSuper ==
    ASSUME SuperInv, AccountsInv', NEW t \in AccountReqs, call' = [call EXCEPT ![t] = NULL],
           UNCHANGED staff, heldBy' = heldBy \/ heldBy' = Released(t)
    PROVE  SuperInv'
<1>1. call'[t] = NULL /\ \A o \in AccountReqs \ {t} : call'[o] = call[o]
  BY DEF SuperInv, AccountsInv, AccountsTypeOK
<1>2. SuperAdmins' = SuperAdmins /\ SuperAdmins \subseteq Staff
  BY DEF SuperAdmins, Users
<1>3. \A u \in Staff : heldBy[u] # t => heldBy'[u] = heldBy[u]
  BY DEF Released
<1>4. ASSUME NEW o \in AccountReqs, call'[o] # NULL PROVE StillTrue(o, call[o])'
  <2>1. o # t /\ call'[o] = call[o] /\ StillTrue(o, call[o])
    BY <1>1, <1>4 DEF SuperInv
  <2> QED
    BY <1>1, <1>2, <1>3, <2>1 DEF StillTrue
<1> QED
  BY <1>2, <1>4 DEF SuperInv, SuperAdminRemains

\* Looking for the other holders: the lock is taken on every one of them.
LEMMA LockKeepsSuper ==
    ASSUME SuperInv, AccountsInv', NEW t \in AccountReqs, assertSuperAdminNotEmptied(t)
    PROVE  SuperInv'
<1> DEFINE others == SuperAdmins \ {call[t].user}
<1>1. CASE others = {}
  BY <1>1, EndKeepsSuper DEF assertSuperAdminNotEmptied
<1>2. CASE others # {}
  <2>1. PICK w \in Write : w = call[t]
    BY DEF SuperInv, AccountsInv, AccountsTypeOK, assertSuperAdminNotEmptied
  <2> DEFINE v == [w EXCEPT !.next = "locked"]
  <2>2. v \in Write /\ v.user = w.user /\ v.role = w.role /\ v.op = w.op /\ v.lockout = w.lockout
        /\ v.next = "locked"
    BY DEF Write
  <2>3. /\ call' = [call EXCEPT ![t] = v] /\ UNCHANGED staff /\ w.lockout /\ call[t] # NULL
        /\ \A u \in others : heldBy[u] = NULL
        /\ \A u \in Staff : heldBy'[u] = IF u \in others THEN t ELSE heldBy[u]
    BY <1>2, <2>1 DEF assertSuperAdminNotEmptied
  <2> HIDE DEF v
  <2>4. call'[t] = v /\ \A o \in AccountReqs \ {t} : call'[o] = call[o]
    BY <2>3 DEF SuperInv, AccountsInv, AccountsTypeOK
  <2>5. SuperAdmins' = SuperAdmins /\ SuperAdmins \subseteq Staff
    BY <2>3 DEF SuperAdmins, Users
  <2>6. StillTrue(t, v)'
    <3>1. StillTrue(t, w)
      BY <2>1, <2>3 DEF SuperInv
    <3>2. \E u \in SuperAdmins' \ {v.user} : heldBy'[u] = t
      BY <1>2, <2>1, <2>2, <2>3, <2>5
    <3> QED
      BY <2>2, <2>3, <2>4, <3>1, <3>2 DEF StillTrue
  <2>7. ASSUME NEW o \in AccountReqs \ {t}, call[o] # NULL PROVE StillTrue(o, call[o])'
    <3>1. StillTrue(o, call[o]) /\ call'[o] = call[o]
      BY <2>4, <2>7 DEF SuperInv
    <3>2. call[o].next = "locked" => \E u \in SuperAdmins' \ {call[o].user} : heldBy'[u] = o
      <4> SUFFICES ASSUME call[o].next = "locked"
                   PROVE  \E u \in SuperAdmins' \ {call[o].user} : heldBy'[u] = o
        OBVIOUS
      <4>1. PICK u \in SuperAdmins \ {call[o].user} : heldBy[u] = o
        BY <3>1 DEF StillTrue
      <4>2. heldBy'[u] = o
        BY <2>3, <2>5, <4>1, AccountsAssumption
      <4> QED
        BY <2>5, <4>1, <4>2
    <3>3. \A a \in AccountReqs : call'[a] # NULL => call[a] # NULL /\ call'[a].user = call[a].user
      BY <2>1, <2>2, <2>3, <2>4
    <3> QED
      BY <2>3, <3>1, <3>2, <3>3 DEF StillTrue
  <2>8. ASSUME NEW o \in AccountReqs, call'[o] # NULL PROVE StillTrue(o, call[o])'
    BY <2>4, <2>6, <2>7, <2>8
  <2> QED
    BY <2>5, <2>8 DEF SuperInv, SuperAdminRemains
<1> QED
  BY <1>1, <1>2

\* The row a write leaves: a demotion gives its role, the writes that are neither a
\* demotion nor a deactivation keep an active super_admin one.
LEMMA WrittenSuper ==
    ASSUME SuperInv, NEW t \in AccountReqs, NEW w \in Write, w = call[t], w # NULL,
           w.user \in Users
    PROVE  /\ w.op = "assign" => Written(w).role # "super_admin"
           /\ w.op \in {"manager", "deactivate", "reactivate"} => Written(w).role = staff[w.user].role
           /\ w.user \in SuperAdmins /\ w.op \in {"promote", "manager", "reactivate"}
                  => Written(w).active /\ Written(w).role = "super_admin"
<1>1. PICK s \in StaffRow : s = staff[w.user]
  BY DEF SuperInv, AccountsInv, AccountsTypeOK, Users
<1>2. StillTrue(t, w) /\ CallFits(w)
  BY DEF SuperInv, AccountsInv, CallsFit
<1>3. w.role \in RoleIds \cup {NULL} /\ w.manager \in Staff \cup {NULL}
  BY DEF Write
<1>4. CASE w.op \in {"assign", "promote"}
  <2>1. PICK r \in RoleIds : r = w.role
    BY <1>2, <1>4 DEF CallFits
  <2>2. [s EXCEPT !.role = r].role = r /\ [s EXCEPT !.role = r].active = s.active
    BY DEF StaffRow
  <2>3. Written(w) = [s EXCEPT !.role = r]
    BY <1>1, <1>4, <2>1 DEF Written
  <2> QED
    BY <1>1, <1>2, <1>4, <2>1, <2>2, <2>3 DEF StillTrue, SuperAdmins
<1>5. CASE w.op = "manager"
  <2>1. PICK m \in Staff \cup {NULL} : m = w.manager
    BY <1>3
  <2>2. [s EXCEPT !.manager = m].role = s.role /\ [s EXCEPT !.manager = m].active = s.active
    BY DEF StaffRow
  <2>3. Written(w) = [s EXCEPT !.manager = m]
    BY <1>1, <1>5, <2>1 DEF Written
  <2> QED
    BY <1>1, <1>5, <2>2, <2>3 DEF SuperAdmins
<1>6. CASE w.op = "deactivate"
  <2>1. [s EXCEPT !.active = FALSE].role = s.role
    BY DEF StaffRow
  <2>2. Written(w) = [s EXCEPT !.active = FALSE]
    BY <1>1, <1>6 DEF Written
  <2> QED
    BY <1>1, <1>6, <2>1, <2>2
<1>7. CASE w.op = "reactivate"
  <2>1. [s EXCEPT !.active = TRUE].role = s.role /\ [s EXCEPT !.active = TRUE].active
    BY DEF StaffRow
  <2>2. Written(w) = [s EXCEPT !.active = TRUE]
    BY <1>1, <1>7 DEF Written
  <2> QED
    BY <1>1, <1>7, <2>1, <2>2 DEF SuperAdmins
<1> QED
  BY <1>4, <1>5, <1>6, <1>7

\* A write commits: what the others hold or saw is not what it changes.
LEMMA WriteKeepsSuper ==
    ASSUME SuperInv, AccountsInv', NEW t \in AccountReqs, WriteUser(t)
    PROVE  SuperInv'
<1>1. PICK w \in Write : w = call[t] /\ w # NULL /\ w.user # NULL
  BY DEF SuperInv, AccountsInv, AccountsTypeOK, WriteUser
<1>2. /\ call' = [call EXCEPT ![t] = NULL] /\ heldBy' = Released(t)
      /\ heldBy[w.user] \in {NULL, t} /\ w.user \in Staff
      /\ w.lockout => w.next = "locked"
  BY <1>1 DEF WriteUser, Write
<1>3. CallFits(w) /\ StillTrue(t, w)
  BY <1>1 DEF SuperInv, AccountsInv, CallsFit
<1>4. CASE staff' = staff
  BY <1>2, <1>4, EndKeepsSuper
<1>5. CASE staff' = [staff EXCEPT ![w.user] = Written(w)]
  <2>1. PICK u \in Staff : u = w.user
    BY <1>2
  <2>2. staff'[u] = Written(w) /\ \A x \in Staff \ {u} : staff'[x] = staff[x]
    BY <1>5, <2>1 DEF SuperInv, AccountsInv, AccountsTypeOK
  <2>3. call'[t] = NULL /\ \A o \in AccountReqs \ {t} : call'[o] = call[o]
    BY <1>2 DEF SuperInv, AccountsInv, AccountsTypeOK
  <2>4. \A x \in SuperAdmins \ {u} : x \in SuperAdmins'
    BY <2>2 DEF SuperAdmins, Users
  <2>5. \A x \in Staff : heldBy[x] # t => heldBy'[x] = heldBy[x]
    BY <1>2 DEF Released
  <2>6. SuperAdmins \subseteq Staff /\ NULL \notin Staff
    BY AccountsAssumption DEF SuperAdmins, Users
  <2>7. u \in Users => /\ w.op = "assign" => staff'[u].role # "super_admin"
                       /\ w.op \in {"manager", "deactivate", "reactivate"}
                              => staff'[u].role = staff[u].role
                       /\ u \in SuperAdmins /\ w.op \in {"promote", "manager", "reactivate"}
                              => staff'[u].active /\ staff'[u].role = "super_admin"
    BY <1>1, <2>1, <2>2, WrittenSuper
  <2>8. w.op # "create" => u \in Users /\ w.op \in {"assign", "promote", "manager", "deactivate", "reactivate"}
    BY <1>1, <1>3, <2>1 DEF CallFits
  <2>9. SuperAdminRemains'
    <3>1. CASE w.lockout
      BY <1>2, <1>3, <2>1, <2>4, <3>1 DEF StillTrue, SuperAdminRemains
    <3>2. CASE ~w.lockout
      <4>1. PICK x \in SuperAdmins : TRUE
        BY DEF SuperInv, SuperAdminRemains
      <4>2. CASE x # u
        BY <2>4, <4>1, <4>2 DEF SuperAdminRemains
      <4>3. CASE x = u
        <5>1. u \in Users /\ staff[u] # NULL /\ staff[u].role = "super_admin"
          BY <4>1, <4>3 DEF SuperAdmins, Users
        <5>2. w.op \in {"promote", "manager", "reactivate"}
          BY <1>3, <2>1, <2>8, <3>2, <5>1 DEF StillTrue
        <5>3. staff'[u].active /\ staff'[u].role = "super_admin"
          BY <2>7, <4>1, <4>3, <5>1, <5>2
        <5>4. staff'[u] # NULL
          <6>1. Written(w) \in StaffRow
            BY <1>1, <1>3, WrittenRow DEF SuperInv
          <6> QED
            BY <2>2, <6>1, AccountsAssumption
        <5>5. u \in SuperAdmins'
          BY <5>3, <5>4 DEF SuperAdmins, Users
        <5> QED
          BY <5>5 DEF SuperAdminRemains
      <4> QED
        BY <4>2, <4>3
    <3> QED
      BY <3>1, <3>2
  <2>10. ASSUME NEW o \in AccountReqs, call'[o] # NULL PROVE StillTrue(o, call[o])'
    <3>1. o # t /\ call'[o] = call[o] /\ call[o] # NULL /\ StillTrue(o, call[o])
      BY <2>3, <2>10 DEF SuperInv
    <3>2. w.op # "promote" /\ call[o].op # "promote"
      BY <1>1, <1>3, <3>1 DEF StillTrue
    <3>3. w.op = "create" => call[o].user # u
      BY <1>3, <2>1, <3>1 DEF StillTrue
    <3>4. call[o].op = "create" =>
             /\ staff'[call[o].user] = NULL
             /\ \A a \in AccountReqs \ {o} : call'[a] # NULL => call'[a].user # call'[o].user
      <4> SUFFICES ASSUME call[o].op = "create"
                   PROVE  /\ staff'[call[o].user] = NULL
                          /\ \A a \in AccountReqs \ {o} : call'[a] # NULL => call'[a].user # call'[o].user
        OBVIOUS
      <4>1. call[o].user \in Staff
        BY <3>1 DEF SuperInv, AccountsInv, CallsFit, CallFits
      <4>2. call[o].user # u /\ staff[call[o].user] = NULL
        BY <1>1, <2>1, <3>1 DEF StillTrue
      <4> QED
        BY <2>2, <2>3, <3>1, <4>1, <4>2 DEF StillTrue
    <3>5. call[o].op \in {"assign", "deactivate"} /\ ~call[o].lockout
             => staff'[call[o].user].role # "super_admin"
      <4> SUFFICES ASSUME call[o].op \in {"assign", "deactivate"}, ~call[o].lockout
                   PROVE  staff'[call[o].user].role # "super_admin"
        OBVIOUS
      <4>1. call[o].user \in Staff /\ staff[call[o].user].role # "super_admin"
        BY <3>1 DEF StillTrue, SuperInv, AccountsInv, CallsFit, CallFits, Users
      <4>2. CASE call[o].user # u
        BY <2>2, <4>1, <4>2
      <4>3. CASE call[o].user = u
        BY <2>7, <2>8, <3>2, <3>3, <4>1, <4>3
      <4> QED
        BY <4>2, <4>3
    <3>6. call[o].next = "locked" => \E x \in SuperAdmins' \ {call[o].user} : heldBy'[x] = o
      <4> SUFFICES ASSUME call[o].next = "locked"
                   PROVE  \E x \in SuperAdmins' \ {call[o].user} : heldBy'[x] = o
        OBVIOUS
      <4>1. PICK x \in SuperAdmins \ {call[o].user} : heldBy[x] = o
        BY <3>1 DEF StillTrue
      <4>2. x # u /\ heldBy[x] # t
        BY <1>2, <2>1, <3>1, <4>1, AccountsAssumption
      <4> QED
        BY <2>4, <2>5, <2>6, <4>1, <4>2
    <3> QED
      BY <3>1, <3>2, <3>4, <3>5, <3>6 DEF StillTrue
  <2> QED
    BY <2>9, <2>10 DEF SuperInv
<1> QED
  BY <1>1, <1>4, <1>5 DEF WriteUser

\* Every step keeps an active super_admin, as long as nobody is made one at the
\* same time as something else.
LEMMA SuperStep ==
    ASSUME "promote" \notin AccountsTogether, SuperInv, [AccountsNext]_accountVars
    PROVE  SuperInv'
<1>a. AccountsInv'
  BY AccountsStep DEF SuperInv
<1>b. NULL \notin Staff /\ NoWrite \in Write /\ NoWrite.next = "write"
  BY AccountsAssumption DEF NoWrite, Write
<1>1. CASE UNCHANGED accountVars
  <2>1. SuperAdmins' = SuperAdmins
    BY <1>1 DEF accountVars, SuperAdmins, Users
  <2> QED
    BY <1>1, <1>a, <2>1 DEF accountVars, SuperInv, SuperAdminRemains, StillTrue
<1>2. ASSUME NEW t \in AccountReqs,
             assertSuperAdminNotEmptied(t) \/ WriteUser(t) \/ WriteRole(t) \/ AccountFail(t)
      PROVE  SuperInv'
  BY <1>2, <1>a, LockKeepsSuper, WriteKeepsSuper, EndKeepsSuper DEF WriteRole, AccountFail
<1>3. ASSUME NEW t \in AccountReqs, NEW c \in Users, NEW u \in Staff, NEW r \in RoleIds,
             createUser(t, c, u, r)
      PROVE  SuperInv'
  <2> DEFINE w == [NoWrite EXCEPT !.user = u, !.role = r]
  <2>1. w \in Write /\ w.next = "write" /\ w.user = u
    BY DEF NoWrite, Write
  <2>2. Decide(t, c, "create", w)
    BY <1>3 DEF createUser
  <2> HIDE DEF w
  <2> QED
    BY <1>3, <1>a, <2>1, <2>2, Decided, DecideKeepsSuper DEF createUser
<1>4. ASSUME NEW t \in AccountReqs, NEW c \in Users, NEW u \in Staff, NEW r \in RoleIds,
             assignRole(t, c, u, r)
      PROVE  SuperInv'
  <2> DEFINE b == staff[u].role = "super_admin" /\ r # "super_admin"
             op == IF r = "super_admin" THEN "promote" ELSE "assign"
             w == [NoWrite EXCEPT !.user = u, !.role = r, !.lockout = b]
  <2>1. b \in BOOLEAN
    OBVIOUS
  <2>2. /\ op \in {"promote", "assign"} /\ (op = "promote" <=> r = "super_admin")
        /\ op = "assign" /\ ~b => staff[u].role # "super_admin"
    OBVIOUS
  <2>3. Decide(t, c, op, w) /\ u \in Users
    BY <1>4 DEF assignRole
  <2> HIDE DEF b, op
  <2>4. w \in Write /\ w.next = "write" /\ w.user = u /\ w.role = r /\ w.lockout = b
    BY <2>1 DEF NoWrite, Write
  <2> HIDE DEF w
  <2> QED
    BY <1>a, <2>2, <2>3, <2>4, Decided, DecideKeepsSuper
<1>5. ASSUME NEW t \in AccountReqs, NEW c \in Users, NEW u \in Staff, deactivateUser(t, c, u)
      PROVE  SuperInv'
  <2> DEFINE b == staff[u].role = "super_admin"
             w == [NoWrite EXCEPT !.user = u, !.lockout = b]
  <2>1. b \in BOOLEAN /\ (~b => staff[u].role # "super_admin")
    OBVIOUS
  <2>2. Decide(t, c, "deactivate", w) /\ u \in Users
    BY <1>5 DEF deactivateUser
  <2> HIDE DEF b
  <2>3. w \in Write /\ w.next = "write" /\ w.user = u /\ w.lockout = b
    BY <2>1 DEF NoWrite, Write
  <2> HIDE DEF w
  <2> QED
    BY <1>a, <2>1, <2>2, <2>3, Decided, DecideKeepsSuper
<1>6. ASSUME NEW t \in AccountReqs, NEW c \in Users, NEW w \in Write, w.next = "write",
             NEW op \in {"manager", "reactivate", "createRole", "updateRole", "removeRole"},
             Decide(t, c, op, w), w.user \in Users \cup {NULL}
      PROVE  SuperInv'
  BY <1>6, <1>a, Decided, DecideKeepsSuper
<1>7. ASSUME NEW t \in AccountReqs, NEW c \in Users, NEW u \in Staff,
             reactivateUser(t, c, u) \/ \E m \in Staff : assignManager(t, c, u, m)
      PROVE  SuperInv'
  <2>1. CASE reactivateUser(t, c, u)
    <3> DEFINE w == [NoWrite EXCEPT !.user = u]
    <3>1. w \in Write /\ w.next = "write" /\ w.user = u
      BY DEF NoWrite, Write
    <3>2. Decide(t, c, "reactivate", w) /\ u \in Users
      BY <2>1 DEF reactivateUser
    <3> HIDE DEF w
    <3> QED
      BY <1>6, <3>1, <3>2
  <2>2. ASSUME NEW m \in Staff, assignManager(t, c, u, m) PROVE SuperInv'
    <3> DEFINE w == [NoWrite EXCEPT !.user = u, !.manager = m]
    <3>1. w \in Write /\ w.next = "write" /\ w.user = u
      BY DEF NoWrite, Write
    <3>2. Decide(t, c, "manager", w) /\ u \in Users
      BY <2>2 DEF assignManager
    <3> HIDE DEF w
    <3> QED
      BY <1>6, <3>1, <3>2
  <2> QED
    BY <1>7, <2>1, <2>2
<1>8. ASSUME NEW t \in AccountReqs, NEW c \in Users, NEW r \in RoleIds,
             \/ removeRole(t, c, r)
             \/ \E ks \in SUBSET Keys : createRole(t, c, r, ks) \/ updateRole(t, c, r, ks)
      PROVE  SuperInv'
  <2>1. CASE removeRole(t, c, r)
    <3> DEFINE w == [NoWrite EXCEPT !.role = r]
    <3>1. w \in Write /\ w.next = "write" /\ w.user = NULL
      BY DEF NoWrite, Write
    <3>2. Decide(t, c, "removeRole", w)
      BY <2>1 DEF removeRole
    <3> HIDE DEF w
    <3> QED
      BY <1>6, <3>1, <3>2
  <2>2. ASSUME NEW ks \in SUBSET Keys, createRole(t, c, r, ks) \/ updateRole(t, c, r, ks)
        PROVE  SuperInv'
    <3> DEFINE w == [NoWrite EXCEPT !.role = r, !.keys = ks]
    <3>1. ks \in KeySets
      BY DEF KeySets
    <3>2. w \in Write /\ w.next = "write" /\ w.user = NULL
      BY <3>1 DEF NoWrite, Write
    <3>3. Decide(t, c, "createRole", w) \/ Decide(t, c, "updateRole", w)
      BY <2>2 DEF createRole, updateRole
    <3> HIDE DEF w
    <3> QED
      BY <1>6, <3>2, <3>3
  <2> QED
    BY <1>8, <2>1, <2>2
<1> QED
  BY <1>1, <1>2, <1>3, <1>4, <1>5, <1>7, <1>8 DEF AccountsNext

\* However many super_admins deactivate and demote one another at the same time,
\* and whatever else happens to accounts and roles meanwhile, one stays active, if
\* nobody is being made a super_admin just then (assertSuperAdminNotEmptied).
THEOREM SuperAdminRemainsHolds ==
    ASSUME "promote" \notin AccountsTogether
    PROVE  AccountsSpec => []SuperAdminRemains
<1>1. SuperInv /\ [AccountsNext]_accountVars => SuperInv'
  BY SuperStep
<1>2. SuperInv => SuperAdminRemains
  BY DEF SuperInv
<1> QED
  BY SuperInitOK, <1>1, <1>2, PTL DEF AccountsSpec

-----------------------------------------------------------------------------
(* The guards in front of the handlers.                                    *)

\* A handler that asks for the pending marker is the one that verifies the code.
OnlyVerify(rs) == \A r \in rs : TWO_FACTOR_PENDING \in r.needs => r.op = "verifyTotp"

LEMMA OnlyVerifyAt ==
    ASSUME NEW c, NEW w, NEW rules,
           \A rule \in rules : rule[2] = TWO_FACTOR_PENDING => \A op \in rule[3] : op = "verifyTotp"
    PROVE  OnlyVerify(At(c, w, rules))
<1> SUFFICES ASSUME NEW r \in At(c, w, rules), TWO_FACTOR_PENDING \in r.needs PROVE r.op = "verifyTotp"
  BY DEF OnlyVerify
<1>1. PICK rule \in rules : \E op \in rule[3] :
          r = [at |-> c, op |-> op, whose |-> w, needs |-> Needed(rule[2]),
               safe |-> rule[1] = "GET", public |-> rule[1] = "PUBLIC"]
  BY DEF At
<1>2. r.needs = Needed(rule[2]) /\ r.op \in rule[3]
  BY <1>1
<1>3. rule[2] = TWO_FACTOR_PENDING
  BY <1>2 DEF Needed
<1> QED
  BY <1>2, <1>3

LEMMA NoPermissionIsNotPending == NoPermission # TWO_FACTOR_PENDING
  BY DEF NoPermission, TWO_FACTOR_PENDING

LEMMA OnlyVerifyTakesPending == OnlyVerify(Routes)
<1> USE OnlyVerifyAt, NoPermissionIsNotPending DEF TWO_FACTOR_PENDING
<1>1. /\ OnlyVerify(AuditController)
      /\ OnlyVerify(AuthController)
      /\ OnlyVerify(PortalBrokerDashboardController)
      /\ OnlyVerify(PortalBrokerDocumentsController)
      /\ OnlyVerify(PortalBrokerNocController)
      /\ OnlyVerify(BrokerCommissionRuleController)
      /\ OnlyVerify(BrokerController)
      /\ OnlyVerify(NocController)
      /\ OnlyVerify(CommissionPaymentController)
      /\ OnlyVerify(CompanyController)
      /\ OnlyVerify(CustomFieldsController)
      /\ OnlyVerify(AdminChangeRequestController)
  BY DEF AuditController, AuthController, PortalBrokerDashboardController,
         PortalBrokerDocumentsController, PortalBrokerNocController,
         BrokerCommissionRuleController, BrokerController, NocController,
         CommissionPaymentController, CompanyController, CustomFieldsController,
         AdminChangeRequestController
<1>2. /\ OnlyVerify(AdminTicketController)
      /\ OnlyVerify(ConstructionUpdateAdminController)
      /\ OnlyVerify(PortalAccountController)
      /\ OnlyVerify(PortalProfileController)
      /\ OnlyVerify(PortalTicketController)
      /\ OnlyVerify(DashboardController)
      /\ OnlyVerify(DispatchController)
      /\ OnlyVerify(HealthController)
      /\ OnlyVerify(ImportExportController)
      /\ OnlyVerify(InventoryGroupController)
      /\ OnlyVerify(ProjectMediaController)
      /\ OnlyVerify(ProjectController)
  BY DEF AdminTicketController, ConstructionUpdateAdminController, PortalAccountController,
         PortalProfileController, PortalTicketController, DashboardController,
         DispatchController, HealthController, ImportExportController,
         InventoryGroupController, ProjectMediaController, ProjectController
<1>3. /\ OnlyVerify(TowerController)
      /\ OnlyVerify(UnitController)
      /\ OnlyVerify(LeadApiKeyController)
      /\ OnlyVerify(LeadInboundController)
      /\ OnlyVerify(GstRateController)
      /\ OnlyVerify(LeadStageController)
      /\ OnlyVerify(LetterTemplateController)
      /\ OnlyVerify(MasterController)
      /\ OnlyVerify(SmsTemplateController)
      /\ OnlyVerify(TdsRuleController)
      /\ OnlyVerify(DocumentController)
      /\ OnlyVerify(PluginAdminController)
  BY DEF TowerController, UnitController, LeadApiKeyController, LeadInboundController,
         GstRateController, LeadStageController, LetterTemplateController, MasterController,
         SmsTemplateController, TdsRuleController, DocumentController, PluginAdminController
<1>4. /\ OnlyVerify(PortalAuthController)
      /\ OnlyVerify(PortalBrandingController)
      /\ OnlyVerify(PortalInviteAdminController)
      /\ OnlyVerify(PortalPasswordResetAdminController)
      /\ OnlyVerify(PortalTwoFactorResetAdminController)
      /\ OnlyVerify(BookingDraftController)
      /\ OnlyVerify(BookingController)
      /\ OnlyVerify(PlanHistoryController)
      /\ OnlyVerify(ReceiptController)
      /\ OnlyVerify(RefundController)
      /\ OnlyVerify(StageRaiseController)
      /\ OnlyVerify(ApplicantController)
  BY DEF PortalAuthController, PortalBrandingController, PortalInviteAdminController,
         PortalPasswordResetAdminController, PortalTwoFactorResetAdminController,
         BookingDraftController, BookingController, PlanHistoryController, ReceiptController,
         RefundController, StageRaiseController, ApplicantController
<1>5. /\ OnlyVerify(AssignmentPoolController)
      /\ OnlyVerify(CommunicationController)
      /\ OnlyVerify(FollowUpController)
      /\ OnlyVerify(InquiryImportController)
      /\ OnlyVerify(InquiryController)
      /\ OnlyVerify(ReportsController)
      /\ OnlyVerify(BrokerReportsController)
      /\ OnlyVerify(PostsalesReportsController)
      /\ OnlyVerify(RolesController)
      /\ OnlyVerify(UsersController)
      /\ OnlyVerify(WebhookDeliveryController)
      /\ OnlyVerify(WebhookEndpointController)
  BY DEF AssignmentPoolController, CommunicationController, FollowUpController,
         InquiryImportController, InquiryController, ReportsController,
         BrokerReportsController, PostsalesReportsController, RolesController,
         UsersController, WebhookDeliveryController, WebhookEndpointController
<1>p. OnlyVerify(PortalPropertyController)
  <2>1. OnlyVerify(At("PortalProperty", "customer", {
            <<"GET", "portal.construction-update.read", {"getMyProperties"}>>}))
    OBVIOUS
  <2>2. OnlyVerify(At("PortalProperty", "portal", {
            <<"GET", "portal.construction-update.read",
              {"downloadProjectMedia", "downloadConstructionMedia"}>>}))
    OBVIOUS
  <2> QED
    BY <2>1, <2>2 DEF PortalPropertyController, OnlyVerify
<1>c. OnlyVerify(ReportsCsv)
  <2> SUFFICES ASSUME NEW r \in ReportsCsv, TWO_FACTOR_PENDING \in r.needs PROVE r.op = "verifyTotp"
    BY DEF OnlyVerify
  <2>1. PICK q \in ReportsController :
            r = [q EXCEPT !.at = "ReportsCsv", !.needs = @ \cup {"presales.report.export"}]
    BY DEF ReportsCsv
  <2>2. PICK rule, op : q = [at |-> "Reports", op |-> op, whose |-> "staff", needs |-> Needed(rule[2]),
                             safe |-> rule[1] = "GET", public |-> rule[1] = "PUBLIC"]
    BY <2>1 DEF ReportsController, At
  <2>3. r.op = q.op /\ r.needs = q.needs \cup {"presales.report.export"}
    BY <2>1, <2>2
  <2>4. OnlyVerify(ReportsController)
    BY DEF ReportsController
  <2> QED
    BY <2>1, <2>3, <2>4 DEF OnlyVerify
<1> QED
  BY <1>1, <1>2, <1>3, <1>4, <1>5, <1>p, <1>c
     DEF Routes, OnlyVerify

\* Whoever has reached a handler has a token that every guard lets by.
AccInv ==
    /\ reached \subseteq Routes
    /\ \A r \in reached : Answers(token, r)
    /\ token = NoToken => reached = {}

LEMMA AccInitOK == AccInit => AccInv
  BY DEF AccInit, AccInv

LEMMA AccStep == AccInv /\ [AccNext]_accVars => AccInv'
<1> SUFFICES ASSUME AccInv, [AccNext]_accVars PROVE AccInv'
  OBVIOUS
<1>1. ASSUME NEW role, NEW extra, NEW pending, NEW csrf, login(role, extra, pending, csrf) PROVE AccInv'
  BY <1>1 DEF AccInv, login
<1>2. ASSUME NEW r \in Routes, request(r) PROVE AccInv'
  BY <1>2 DEF AccInv, request
<1>3. CASE logout
  BY <1>3 DEF AccInv, logout
<1>4. CASE UNCHANGED accVars
  BY <1>4 DEF AccInv, accVars
<1> QED
  BY <1>1, <1>2, <1>3, <1>4 DEF AccNext

LEMMA BoundaryFollows == AccInv => BoundaryHoldsUnderDrift
<1> SUFFICES ASSUME AccInv, NEW r \in reached, ~r.public
             PROVE  /\ r.whose = "staff" <=> token.portalId = "none"
                    /\ r.whose \in PortalRoles => r.whose = token.portalId
                    /\ token.permissions = {TWO_FACTOR_PENDING} => r.op = "verifyTotp"
  BY DEF BoundaryHoldsUnderDrift
<1>1. /\ TwoFactorPendingGuard(token, r) /\ SessionSurfaceGuard(token, r) /\ RightAccount(token, r)
      /\ r \in Routes
  BY DEF AccInv, Answers
<1>2. r.whose = "staff" <=> token.portalId = "none"
  BY <1>1 DEF SessionSurfaceGuard, routeSurface, tokenIsConsistent
<1>3. r.whose \in PortalRoles => r.whose = token.portalId
  BY <1>1 DEF RightAccount, PortalRoles
<1>4. token.permissions = {TWO_FACTOR_PENDING} => r.op = "verifyTotp"
  BY <1>1, OnlyVerifyTakesPending DEF TwoFactorPendingGuard, OnlyVerify
<1> QED
  BY <1>2, <1>3, <1>4

\* Whatever keys administrators add to the roles, a session never gets across the
\* staff/portal boundary, to the other kind of portal account, or past a second
\* factor that is still pending (the global guards of app.module.ts and every
\* controller's decorators).
THEOREM BoundaryHoldsUnderDriftHolds == AccSpec => []BoundaryHoldsUnderDrift
  BY AccInitOK, AccStep, BoundaryFollows, PTL DEF AccSpec

-----------------------------------------------------------------------------
(* Isolation of sessions.                                                  *)

\* The store e may be current in a call that serves s.
Fits(s, e) ==
    \/ s = Job /\ e = NULL
    \/ /\ e # NULL /\ e.user = s.user
       /\ s # Job => e.company = s.company /\ (s.portal # NULL => e.portal = s.portal)

\* The settings g let s see its own rows only.
Confines(s, g) == s # Job => g.company = s.company /\ (s.portal # NULL => g.portal = s.portal)

\* Every open call has a store that fits; a session's outermost one is its own.
FramesFit ==
    \A q \in TenantReqs :
        /\ \A n \in 1 .. Len(frames[q]) : caller[q] # NULL /\ Fits(caller[q], frames[q][n].store)
        /\ caller[q] # NULL /\ caller[q] # Job => Len(frames[q]) > 0 /\ frames[q][1].kind = "store"

\* A connection belongs to an open transaction, of one request, and is set for it.
ConnsFit ==
    /\ \A q \in TenantReqs : heldConn[q] # NULL =>
          /\ \E n \in 1 .. Len(frames[q]) : frames[q][n].kind = "tx"
          /\ Confines(caller[q], settings[heldConn[q]])
    /\ \A q, o \in TenantReqs : heldConn[q] # NULL /\ heldConn[q] = heldConn[o] => q = o

ReadsFit ==
    /\ \A q \in TenantReqs : caller[q] = NULL => lastRead[q] = {}
    /\ SessionsSeeTheirOwn

ActorsFit ==
    /\ \A q \in TenantReqs : \A a \in unsaved[q] : a.named = a.by
    /\ AuditNamesTheActor

TenancyInv == TenancyTypeOK /\ FramesFit /\ ConnsFit /\ ReadsFit /\ ActorsFit

LEMMA TenancyInitOK == TenancyInit => TenancyInv
<1> SUFFICES ASSUME TenancyInit PROVE TenancyInv
  OBVIOUS
<1>1. TenancyTypeOK
  BY DEF TenancyInit, TenancyTypeOK
<1>2. \A q \in TenantReqs : Len(frames[q]) = 0 /\ caller[q] = NULL /\ heldConn[q] = NULL
  BY DEF TenancyInit
<1>3. FramesFit
  BY <1>2 DEF FramesFit
<1>4. ConnsFit
  BY <1>2 DEF ConnsFit
<1>5. ReadsFit /\ ActorsFit
  BY DEF TenancyInit, ReadsFit, ActorsFit, SessionsSeeTheirOwn, AuditNamesTheActor
<1> QED
  BY <1>1, <1>3, <1>4, <1>5 DEF TenancyInv

\* What is current in a request that is being served.
LEMMA AmbientFits ==
    ASSUME TenancyInv, NEW q \in TenantReqs, caller[q] # NULL
    PROVE  Ambient(q) \in TenantStore \cup {NULL} /\ Fits(caller[q], Ambient(q))
<1>1. frames[q] \in Seq(Frame)
  BY DEF TenancyInv, TenancyTypeOK
<1>2. CASE frames[q] = <<>>
  <2>1. caller[q] = Job
    BY <1>2 DEF TenancyInv, FramesFit
  <2> QED
    BY <1>2, <2>1 DEF Ambient, Fits
<1>3. CASE frames[q] # <<>>
  <2>1. Len(frames[q]) \in 1 .. Len(frames[q])
    BY <1>1, <1>3
  <2>2. frames[q][Len(frames[q])] \in Frame
    BY <1>1, <2>1
  <2> QED
    BY <1>3, <2>1, <2>2 DEF Ambient, Innermost, TenancyInv, FramesFit, Frame
<1> QED
  BY <1>2, <1>3

\* The stores that may be pushed.
LEMMA NewStores ==
    ASSUME TenancyInv, NEW q \in TenantReqs, caller[q] # NULL, NEW c \in Companies, c \in Named(q)
    PROVE  /\ Effective(Ambient(q), c) \in TenantStore
           /\ ~Widens(Ambient(q), c) => Fits(caller[q], Effective(Ambient(q), c))
<1>1. PICK e \in TenantStore \cup {NULL} : e = Ambient(q) /\ Fits(caller[q], e)
  BY AmbientFits
<1>2. PICK s \in TenantSessions \cup {Job} : s = caller[q]
  BY DEF TenancyInv, TenancyTypeOK
<1>3. s # Job => c = s.company
  BY <1>2 DEF Named
<1>4. Job.user = NULL
  BY DEF Job
<1>5. CASE e # NULL /\ e.company = c
  <2>1. PICK u \in {x.user : x \in TenantSessions} \cup {NULL} : u = e.user
    BY <1>5 DEF TenantStore
  <2> DEFINE v == [company |-> c, user |-> u, portal |-> NULL]
  <2>2. v \in TenantStore /\ v.company = c /\ v.user = u /\ v.portal = NULL
    BY DEF TenantStore
  <2>3. Effective(e, c) = v
    BY <1>5, <2>1 DEF Effective
  <2> HIDE DEF v
  <2>4. u = s.user
    BY <1>1, <1>2, <1>5, <2>1 DEF Fits
  <2>5. ~Widens(e, c) => (s # Job => s.portal = NULL)
    BY <1>1, <1>2, <1>3, <1>5 DEF Widens, Fits
  <2>6. v # NULL
    BY <2>2, TenancyAssumption
  <2>7. ~Widens(e, c) => Fits(s, v)
    BY <1>3, <2>2, <2>4, <2>5, <2>6 DEF Fits
  <2> QED
    BY <1>1, <1>2, <2>2, <2>3, <2>7
<1>6. CASE ~(e # NULL /\ e.company = c)
  <2> DEFINE v == [company |-> c, user |-> NULL, portal |-> NULL]
  <2>1. v \in TenantStore /\ v.company = c /\ v.user = NULL /\ v.portal = NULL
    BY DEF TenantStore
  <2>2. Effective(e, c) = v
    BY <1>6 DEF Effective, Store
  <2> HIDE DEF v
  <2>3. s = Job
    BY <1>1, <1>2, <1>3, <1>6 DEF Fits
  <2>4. v # NULL
    BY <2>1, TenancyAssumption
  <2>5. Fits(s, v)
    BY <1>4, <2>1, <2>3, <2>4 DEF Fits
  <2> QED
    BY <1>1, <1>2, <2>1, <2>2, <2>5
<1> QED
  BY <1>5, <1>6

\* Frames of a request after one more is put on top.
LEMMA Pushed ==
    ASSUME NEW fs \in Seq(Frame), NEW kind \in {"store", "tx", "joined"}, NEW e \in TenantStore \cup {NULL},
           NEW gs, gs = Append(fs, [kind |-> kind, store |-> e])
    PROVE  /\ gs \in Seq(Frame) /\ Len(gs) = Len(fs) + 1 /\ Len(fs) \in Nat
           /\ \A n \in 1 .. Len(fs) : gs[n] = fs[n]
           /\ gs[Len(fs) + 1].kind = kind /\ gs[Len(fs) + 1].store = e
<1> DEFINE f == [kind |-> kind, store |-> e]
<1>1. f \in Frame /\ f.kind = kind /\ f.store = e
  BY DEF Frame
<1>2. gs = Append(fs, f)
  OBVIOUS
<1> HIDE DEF f
<1> QED
  BY <1>1, <1>2

\* A nested call that opens no transaction.
LEMMA PushStep ==
    ASSUME TenancyInv, NEW q \in TenantReqs, NEW kind \in {"store", "joined"},
           NEW e \in TenantStore \cup {NULL}, caller[q] # NULL, Fits(caller[q], e),
           Push(q, kind, e), UNCHANGED <<caller, settings, heldConn, lastRead, unsaved, auditLog>>
    PROVE  TenancyInv'
<1> DEFINE fs == frames[q]
           gs == Append(fs, [kind |-> kind, store |-> e])
<1>1. frames \in [TenantReqs -> Seq(Frame)] /\ fs \in Seq(Frame)
  BY DEF TenancyInv, TenancyTypeOK
<1>e. gs = Append(fs, [kind |-> kind, store |-> e])
  OBVIOUS
<1>3. frames' = [frames EXCEPT ![q] = gs]
  BY DEF Push
<1> HIDE DEF gs
<1>2. /\ gs \in Seq(Frame) /\ Len(gs) = Len(fs) + 1 /\ Len(fs) \in Nat
      /\ \A n \in 1 .. Len(fs) : gs[n] = fs[n]
      /\ gs[Len(fs) + 1].kind = kind /\ gs[Len(fs) + 1].store = e
  <2> HIDE DEF fs
  <2>1. CASE kind = "store"
    BY <1>1, <1>e, <2>1, Pushed
  <2>2. CASE kind = "joined"
    BY <1>1, <1>e, <2>2, Pushed
  <2> QED
    BY <2>1, <2>2
<1>4. /\ frames' \in [TenantReqs -> Seq(Frame)] /\ frames'[q] = gs
      /\ \A o \in TenantReqs \ {q} : frames'[o] = frames[o]
  BY <1>1, <1>2, <1>3
<1>5. TenancyTypeOK'
  BY <1>4 DEF TenancyInv, TenancyTypeOK
<1>6. FramesFit'
  <2> SUFFICES ASSUME NEW o \in TenantReqs
               PROVE  /\ \A n \in 1 .. Len(frames'[o]) :
                             caller[o] # NULL /\ Fits(caller[o], frames'[o][n].store)
                      /\ caller[o] # NULL /\ caller[o] # Job
                             => Len(frames'[o]) > 0 /\ frames'[o][1].kind = "store"
    BY DEF FramesFit, Fits
  <2>1. CASE o # q
    BY <1>4, <2>1 DEF TenancyInv, FramesFit
  <2>2. CASE o = q
    <3>1. \A n \in 1 .. Len(gs) : n \in 1 .. Len(fs) \/ n = Len(fs) + 1
      BY <1>2
    <3>2. \A n \in 1 .. Len(gs) : Fits(caller[q], gs[n].store)
      BY <1>2, <3>1 DEF TenancyInv, FramesFit
    <3>3. caller[q] # Job => Len(gs) > 0 /\ gs[1].kind = "store"
      BY <1>2 DEF TenancyInv, FramesFit
    <3> QED
      BY <1>4, <2>2, <3>2, <3>3
  <2> QED
    BY <2>1, <2>2
<1>7. ConnsFit'
  <2>1. ASSUME NEW o \in TenantReqs, NEW n \in 1 .. Len(frames[o]), frames[o][n].kind = "tx"
        PROVE  n \in 1 .. Len(frames'[o]) /\ frames'[o][n].kind = "tx"
    BY <1>2, <1>4, <2>1
  <2> QED
    BY <2>1 DEF TenancyInv, ConnsFit, Confines
<1>8. ReadsFit' /\ ActorsFit'
  BY DEF TenancyInv, ReadsFit, ActorsFit, SessionsSeeTheirOwn, AuditNamesTheActor
<1> QED
  BY <1>5, <1>6, <1>7, <1>8 DEF TenancyInv

LEMMA UnwindStep ==
    ASSUME TenancyInv, NEW q \in TenantReqs, Unwind(q)
    PROVE  TenancyInv'
<1>1. /\ caller'[q] = NULL /\ \A o \in TenantReqs \ {q} : caller'[o] = caller[o]
      /\ frames'[q] = <<>> /\ \A o \in TenantReqs \ {q} : frames'[o] = frames[o]
      /\ heldConn'[q] = NULL /\ \A o \in TenantReqs \ {q} : heldConn'[o] = heldConn[o]
      /\ lastRead'[q] = {} /\ \A o \in TenantReqs \ {q} : lastRead'[o] = lastRead[o]
      /\ unsaved'[q] = {} /\ \A o \in TenantReqs \ {q} : unsaved'[o] = unsaved[o]
  BY DEF TenancyInv, TenancyTypeOK, Unwind
<1>2. TenancyTypeOK'
  BY DEF TenancyInv, TenancyTypeOK, Unwind
<1>3. FramesFit'
  BY <1>1 DEF TenancyInv, FramesFit, Fits
<1>4. ASSUME NEW o \in TenantReqs \ {q}, heldConn[o] # NULL
      PROVE  settings'[heldConn[o]] = settings[heldConn[o]]
  <2>1. heldConn[o] \in Conns /\ heldConn[o] # heldConn[q]
    BY <1>4 DEF TenancyInv, TenancyTypeOK, ConnsFit
  <2> QED
    BY <2>1 DEF Unwind
<1>5. ConnsFit'
  BY <1>1, <1>4 DEF TenancyInv, ConnsFit, Confines
<1>6. ReadsFit' /\ ActorsFit'
  BY <1>1 DEF Unwind, TenancyInv, ReadsFit, ActorsFit, SessionsSeeTheirOwn, AuditNamesTheActor
<1> QED
  BY <1>2, <1>3, <1>5, <1>6 DEF TenancyInv

LEMMA ServeStep ==
    ASSUME TenancyInv, NEW q \in TenantReqs, NEW s \in TenantSessions \cup {Job}, serve(q, s)
    PROVE  TenancyInv'
<1> DEFINE fs == frames[q]
           gs == IF s = Job THEN fs ELSE Append(fs, [kind |-> "store", store |-> s])
<1>1. frames \in [TenantReqs -> Seq(Frame)] /\ caller \in [TenantReqs -> TenantSessions \cup {Job, NULL}]
  BY DEF TenancyInv, TenancyTypeOK
<1>2. caller[q] = NULL /\ Len(fs) = 0 /\ heldConn[q] = NULL /\ lastRead[q] = {}
  <2>1. caller[q] = NULL /\ fs \in Seq(Frame)
    BY <1>1 DEF serve
  <2>2. Len(fs) = 0
    <3>1. Len(fs) \in Nat /\ ~(Len(fs) > 0)
      <4>1. Len(fs) \in Nat /\ (Len(fs) > 0 => 1 \in 1 .. Len(fs))
        BY <2>1
      <4> QED
        BY <2>1, <4>1 DEF TenancyInv, FramesFit
    <3> QED
      BY <3>1
  <2>3. heldConn[q] = NULL
    BY <2>2 DEF TenancyInv, ConnsFit
  <2> QED
    BY <2>1, <2>2, <2>3 DEF TenancyInv, ReadsFit
<1>3. caller'[q] = s /\ \A o \in TenantReqs \ {q} : caller'[o] = caller[o]
  BY <1>1 DEF serve
<1>4. s # Job => s \in TenantStore /\ s # NULL /\ s \in TenantSessions
  BY TenancyAssumption
<1>5. /\ gs \in Seq(Frame)
      /\ s = Job => Len(gs) = 0
      /\ s # Job => Len(gs) = 1 /\ gs[1].kind = "store" /\ gs[1].store = s
  <2>1. CASE s = Job
    BY <1>1, <1>2, <2>1
  <2>2. CASE s # Job
    <3>1. gs = Append(fs, [kind |-> "store", store |-> s]) /\ fs \in Seq(Frame)
      BY <1>1, <2>2
    <3> HIDE DEF gs
    <3>2. /\ gs \in Seq(Frame) /\ Len(gs) = Len(fs) + 1
          /\ gs[Len(fs) + 1].kind = "store" /\ gs[Len(fs) + 1].store = s
      BY <1>4, <2>2, <3>1, Pushed
    <3> QED
      BY <1>2, <2>2, <3>2
  <2> QED
    BY <2>1, <2>2
<1>6. frames' = [frames EXCEPT ![q] = gs]
  BY <1>1 DEF serve, Push
<1> HIDE DEF gs
<1>7. /\ frames' \in [TenantReqs -> Seq(Frame)] /\ frames'[q] = gs
      /\ \A o \in TenantReqs \ {q} : frames'[o] = frames[o]
  BY <1>1, <1>5, <1>6
<1>8. TenancyTypeOK'
  BY <1>7 DEF TenancyInv, TenancyTypeOK, serve
<1>9. FramesFit'
  <2> SUFFICES ASSUME NEW o \in TenantReqs
               PROVE  /\ \A n \in 1 .. Len(frames'[o]) :
                             caller'[o] # NULL /\ Fits(caller'[o], frames'[o][n].store)
                      /\ caller'[o] # NULL /\ caller'[o] # Job
                             => Len(frames'[o]) > 0 /\ frames'[o][1].kind = "store"
    BY DEF FramesFit, Fits
  <2>1. CASE o # q
    BY <1>3, <1>7, <2>1 DEF TenancyInv, FramesFit
  <2>2. CASE o = q
    <3>1. s # Job => Fits(s, s)
      BY <1>4 DEF Fits
    <3>2. s # NULL
      BY <1>4, TenancyAssumption
    <3>3. \A n \in 1 .. Len(gs) : s # Job /\ n = 1
      <4>1. Len(gs) = 0 \/ (s # Job /\ Len(gs) = 1)
        BY <1>5
      <4>2. CASE Len(gs) = 0
        BY <4>2
      <4>3. CASE s # Job /\ Len(gs) = 1
        BY <4>3
      <4> QED
        BY <4>1, <4>2, <4>3
    <3> QED
      BY <1>3, <1>5, <1>7, <2>2, <3>1, <3>2, <3>3
  <2> QED
    BY <2>1, <2>2
<1>10. ConnsFit'
  <2>1. UNCHANGED <<settings, heldConn>>
    BY DEF serve
  <2> QED
    BY <1>2, <1>3, <1>7, <2>1 DEF TenancyInv, ConnsFit, Confines
<1>11. ReadsFit' /\ ActorsFit'
  BY <1>2, <1>3 DEF serve, TenancyInv, ReadsFit, ActorsFit, SessionsSeeTheirOwn, AuditNamesTheActor
<1> QED
  BY <1>8, <1>9, <1>10, <1>11 DEF TenancyInv

\* withTenantTx on a connection that nobody uses.
LEMMA OpenStep ==
    ASSUME TenancyInv, NEW q \in TenantReqs, NEW c \in Companies, NEW k \in Conns,
           caller[q] # NULL, c \in Named(q), heldConn[q] = NULL, withTenantTx(q, c, k)
    PROVE  TenancyInv'
<1>1. PICK e \in TenantStore \cup {NULL} : e = Ambient(q) /\ Fits(caller[q], e)
  BY AmbientFits
<1>2. PICK s \in TenantSessions \cup {Job} : s = caller[q]
  BY DEF TenancyInv, TenancyTypeOK
<1>3. PICK p \in {x.portal : x \in TenantSessions} \cup {NULL} : p = (IF e = NULL THEN NULL ELSE e.portal)
  BY DEF TenantStore
<1> DEFINE g == [company |-> c, portal |-> p]
           fs == frames[q]
           gs == Append(fs, [kind |-> "tx", store |-> e])
<1>4. g \in Setting /\ g.company = c /\ g.portal = p
  BY DEF Setting
<1>5. /\ \A o \in TenantReqs : heldConn[o] # k
      /\ frames' = [frames EXCEPT ![q] = gs]
      /\ heldConn' = [heldConn EXCEPT ![q] = k]
      /\ settings' = [settings EXCEPT ![k] = g]
      /\ UNCHANGED <<caller, lastRead, unsaved, auditLog>>
  BY <1>1, <1>3 DEF withTenantTx, InTx, Push
<1>e. gs = Append(fs, [kind |-> "tx", store |-> e])
  OBVIOUS
<1> HIDE DEF g, gs
<1>6. frames \in [TenantReqs -> Seq(Frame)] /\ fs \in Seq(Frame)
  BY DEF TenancyInv, TenancyTypeOK
<1>7. /\ gs \in Seq(Frame) /\ Len(gs) = Len(fs) + 1 /\ Len(fs) \in Nat
      /\ \A n \in 1 .. Len(fs) : gs[n] = fs[n]
      /\ gs[Len(fs) + 1].kind = "tx" /\ gs[Len(fs) + 1].store = e
  <2> HIDE DEF fs
  <2> QED
    BY <1>6, <1>e, Pushed
<1>8. /\ frames' \in [TenantReqs -> Seq(Frame)] /\ frames'[q] = gs
      /\ \A o \in TenantReqs \ {q} : frames'[o] = frames[o]
  BY <1>5, <1>6, <1>7
<1>9. /\ heldConn'[q] = k /\ \A o \in TenantReqs \ {q} : heldConn'[o] = heldConn[o]
      /\ settings'[k] = g /\ \A j \in Conns \ {k} : settings'[j] = settings[j]
  BY <1>5 DEF TenancyInv, TenancyTypeOK
<1>10. TenancyTypeOK'
  BY <1>4, <1>5, <1>8 DEF TenancyInv, TenancyTypeOK
<1>11. FramesFit'
  <2> SUFFICES ASSUME NEW o \in TenantReqs
               PROVE  /\ \A n \in 1 .. Len(frames'[o]) :
                             caller[o] # NULL /\ Fits(caller[o], frames'[o][n].store)
                      /\ caller[o] # NULL /\ caller[o] # Job
                             => Len(frames'[o]) > 0 /\ frames'[o][1].kind = "store"
    BY <1>5 DEF FramesFit, Fits
  <2>1. CASE o # q
    BY <1>8, <2>1 DEF TenancyInv, FramesFit
  <2>2. CASE o = q
    <3>1. \A n \in 1 .. Len(gs) : n \in 1 .. Len(fs) \/ n = Len(fs) + 1
      BY <1>7
    <3>2. \A n \in 1 .. Len(gs) : Fits(caller[q], gs[n].store)
      BY <1>1, <1>7, <3>1 DEF TenancyInv, FramesFit
    <3>3. caller[q] # Job => Len(gs) > 0 /\ gs[1].kind = "store"
      BY <1>7 DEF TenancyInv, FramesFit
    <3> QED
      BY <1>8, <2>2, <3>2, <3>3
  <2> QED
    BY <2>1, <2>2
<1>12. Confines(caller[q], g)
  <2>1. s # Job => c = s.company
    BY <1>2 DEF Named
  <2>2. s # Job /\ s.portal # NULL => p = s.portal
    BY <1>1, <1>2, <1>3 DEF Fits
  <2> QED
    BY <1>2, <1>4, <2>1, <2>2 DEF Confines
<1>13. ConnsFit'
  <2>1. ASSUME NEW o \in TenantReqs \ {q}, heldConn[o] # NULL
        PROVE  heldConn'[o] # k /\ settings'[heldConn'[o]] = settings[heldConn[o]]
    <3>1. heldConn[o] \in Conns \ {k}
      BY <1>5, <2>1 DEF TenancyInv, TenancyTypeOK
    <3> QED
      BY <1>9, <3>1
  <2>2. Len(gs) \in 1 .. Len(gs) /\ gs[Len(gs)].kind = "tx"
    BY <1>7
  <2>3. \A o \in TenantReqs \ {q} : heldConn'[o] # NULL =>
           /\ \E n \in 1 .. Len(frames'[o]) : frames'[o][n].kind = "tx"
           /\ Confines(caller[o], settings'[heldConn'[o]])
    BY <1>8, <1>9, <2>1 DEF TenancyInv, ConnsFit
  <2>4. /\ \E n \in 1 .. Len(frames'[q]) : frames'[q][n].kind = "tx"
        /\ Confines(caller[q], settings'[heldConn'[q]])
    BY <1>8, <1>9, <1>12, <2>2
  <2>5. \A x, y \in TenantReqs : heldConn'[x] # NULL /\ heldConn'[x] = heldConn'[y] => x = y
    BY <1>5, <1>9 DEF TenancyInv, ConnsFit
  <2>6. caller' = caller
    BY <1>5
  <2> QED
    BY <2>3, <2>4, <2>5, <2>6 DEF ConnsFit, Confines
<1>14. ReadsFit' /\ ActorsFit'
  BY <1>5 DEF TenancyInv, ReadsFit, ActorsFit, SessionsSeeTheirOwn, AuditNamesTheActor
<1> QED
  BY <1>10, <1>11, <1>13, <1>14 DEF TenancyInv

LEMMA QueryStep ==
    ASSUME TenancyInv, NEW q \in TenantReqs, query(q)
    PROVE  TenancyInv'
<1>1. CASE Ambient(q) = NULL
  BY <1>1, UnwindStep DEF query
<1>2. CASE Ambient(q) # NULL
  <2> DEFINE found == {r \in Rows : RlsAdmits(settings[heldConn[q]], r) /\ ExtensionAdmits(Ambient(q), r)}
  <2>1. /\ lastRead' = [lastRead EXCEPT ![q] = found] /\ caller[q] # NULL /\ heldConn[q] # NULL
        /\ UNCHANGED <<caller, frames, settings, heldConn, unsaved, auditLog>>
    BY <1>2 DEF query, InTx
  <2>2. found \in SUBSET Rows /\ \A r \in found : RlsAdmits(settings[heldConn[q]], r)
    OBVIOUS
  <2> HIDE DEF found
  <2>3. lastRead'[q] = found /\ \A o \in TenantReqs \ {q} : lastRead'[o] = lastRead[o]
    BY <2>1 DEF TenancyInv, TenancyTypeOK
  <2>4. TenancyTypeOK'
    BY <2>1, <2>2 DEF TenancyInv, TenancyTypeOK
  <2>5. FramesFit' /\ ConnsFit' /\ ActorsFit'
    BY <2>1 DEF TenancyInv, FramesFit, Fits, ConnsFit, Confines, ActorsFit, AuditNamesTheActor
  <2>6. \A r \in found : caller[q] # Job =>
           r.company = caller[q].company /\ (caller[q].portal # NULL => r.owner = caller[q].portal)
    <3>1. Confines(caller[q], settings[heldConn[q]])
      BY <2>1 DEF TenancyInv, ConnsFit
    <3> QED
      BY <2>2, <3>1 DEF Confines, RlsAdmits
  <2>7. ReadsFit'
    BY <2>1, <2>3, <2>6 DEF TenancyInv, ReadsFit, SessionsSeeTheirOwn
  <2> QED
    BY <2>4, <2>5, <2>7 DEF TenancyInv
<1> QED
  BY <1>1, <1>2

LEMMA WriteStep ==
    ASSUME TenancyInv, NEW q \in TenantReqs, write(q)
    PROVE  TenancyInv'
<1>1. PICK e \in TenantStore : e = Ambient(q) /\ e.user = caller[q].user
  <2>1. caller[q] # NULL /\ Ambient(q) # NULL
    BY DEF write
  <2> QED
    BY <2>1, AmbientFits DEF Fits
<1> DEFINE row == [by |-> caller[q].user, named |-> e.user]
<1>2. row.by = row.named
  BY <1>1
<1>3. unsaved' = [unsaved EXCEPT ![q] = @ \cup {row}] /\ UNCHANGED <<caller, frames, settings, heldConn, lastRead, auditLog>>
  BY <1>1 DEF write
<1> HIDE DEF row
<1>4. unsaved'[q] = unsaved[q] \cup {row} /\ \A o \in TenantReqs \ {q} : unsaved'[o] = unsaved[o]
  BY <1>3 DEF TenancyInv, TenancyTypeOK
<1>5. TenancyTypeOK'
  BY <1>3 DEF TenancyInv, TenancyTypeOK
<1>6. FramesFit' /\ ConnsFit' /\ ReadsFit'
  BY <1>3 DEF TenancyInv, FramesFit, Fits, ConnsFit, Confines, ReadsFit, SessionsSeeTheirOwn
<1>7. ActorsFit'
  BY <1>2, <1>3, <1>4 DEF TenancyInv, ActorsFit, AuditNamesTheActor
<1> QED
  BY <1>5, <1>6, <1>7 DEF TenancyInv

\* Frames of a request after the innermost is taken off.
LEMMA Popped ==
    ASSUME NEW fs \in Seq(Frame), Len(fs) \in Nat \ {0}, NEW gs, gs = SubSeq(fs, 1, Len(fs) - 1)
    PROVE  /\ gs \in Seq(Frame) /\ Len(gs) = Len(fs) - 1
           /\ \A n \in 1 .. Len(gs) : gs[n] = fs[n]
<1>1. \A n \in 1 .. Len(fs) - 1 : n \in 1 .. Len(fs)
  OBVIOUS
<1>2. \A n \in 1 .. Len(fs) - 1 : fs[n] \in Frame
  BY <1>1
<1>3. PICK m \in Int : m = Len(fs) - 1 /\ m >= 0
  OBVIOUS
<1>4. /\ SubSeq(fs, 1, m) \in Seq(Frame)
      /\ Len(SubSeq(fs, 1, m)) = IF 1 <= m THEN m - 1 + 1 ELSE 0
      /\ \A n \in 1 .. m - 1 + 1 : SubSeq(fs, 1, m)[n] = fs[1 + n - 1]
  BY <1>2, <1>3, SubSeqProperties
<1>5. gs \in Seq(Frame) /\ Len(gs) = m
  BY <1>3, <1>4
<1>6. \A n \in 1 .. m : gs[n] = fs[n]
  BY <1>3, <1>4
<1> QED
  BY <1>3, <1>5, <1>6

LEMMA ReturnStep ==
    ASSUME TenancyInv, NEW q \in TenantReqs, return(q)
    PROVE  TenancyInv'
<1> DEFINE fs == frames[q]
           gs == SubSeq(fs, 1, Len(fs) - 1)
<1>1. frames \in [TenantReqs -> Seq(Frame)] /\ fs \in Seq(Frame) /\ Len(fs) \in Nat \ {0}
  BY DEF TenancyInv, TenancyTypeOK, return
<1>2. /\ gs \in Seq(Frame) /\ Len(gs) = Len(fs) - 1
      /\ \A n \in 1 .. Len(gs) : gs[n] = fs[n]
  <2> HIDE DEF fs
  <2> QED
    BY <1>1, Popped
<1>3. frames' = [frames EXCEPT ![q] = gs]
  BY DEF return
<1> HIDE DEF gs
<1>4. /\ frames' \in [TenantReqs -> Seq(Frame)] /\ frames'[q] = gs
      /\ \A o \in TenantReqs \ {q} : frames'[o] = frames[o]
  BY <1>1, <1>2, <1>3
<1>5. /\ caller'[q] = (IF Len(fs) = 1 /\ caller[q] # Job THEN NULL ELSE caller[q])
      /\ \A o \in TenantReqs \ {q} : caller'[o] = caller[o]
      /\ lastRead'[q] = {} /\ \A o \in TenantReqs \ {q} : lastRead'[o] = lastRead[o]
  BY DEF return, TenancyInv, TenancyTypeOK
<1>6. caller[q] # NULL
  <2>1. 1 \in 1 .. Len(fs)
    BY <1>1
  <2> QED
    BY <2>1 DEF TenancyInv, FramesFit
<1>7. TenancyTypeOK'
  <2>1. caller' \in [TenantReqs -> TenantSessions \cup {Job, NULL}]
    BY DEF return, TenancyInv, TenancyTypeOK
  <2>2. lastRead' \in [TenantReqs -> SUBSET Rows] /\ DOMAIN unsaved' = TenantReqs
    BY DEF return, TenancyInv, TenancyTypeOK
  <2>3. settings' \in [Conns -> Setting \cup {NULL}] /\ heldConn' \in [TenantReqs -> Conns \cup {NULL}]
    BY DEF return, TenancyInv, TenancyTypeOK
  <2> QED
    BY <1>4, <2>1, <2>2, <2>3 DEF TenancyTypeOK
<1>8. FramesFit'
  <2> SUFFICES ASSUME NEW o \in TenantReqs
               PROVE  /\ \A n \in 1 .. Len(frames'[o]) :
                             caller'[o] # NULL /\ Fits(caller'[o], frames'[o][n].store)
                      /\ caller'[o] # NULL /\ caller'[o] # Job
                             => Len(frames'[o]) > 0 /\ frames'[o][1].kind = "store"
    BY DEF FramesFit, Fits
  <2>1. CASE o # q
    BY <1>4, <1>5, <2>1 DEF TenancyInv, FramesFit
  <2>2. CASE o = q /\ Len(fs) = 1
    <3>1. Len(gs) = 0 /\ (caller'[q] = NULL \/ caller'[q] = Job)
      BY <1>2, <1>5, <2>2
    <3> QED
      BY <1>4, <2>2, <3>1
  <2>3. CASE o = q /\ Len(fs) # 1
    <3>1. Len(gs) > 0 /\ 1 \in 1 .. Len(gs) /\ caller'[q] = caller[q]
      BY <1>1, <1>2, <1>5, <2>3
    <3>2. \A n \in 1 .. Len(gs) : n \in 1 .. Len(fs) /\ gs[n] = fs[n]
      BY <1>1, <1>2
    <3> QED
      BY <1>4, <1>6, <2>3, <3>1, <3>2 DEF TenancyInv, FramesFit
  <2> QED
    BY <2>1, <2>2, <2>3
<1>9. CASE Innermost(q).kind = "tx"
  <2>1. /\ heldConn' = [heldConn EXCEPT ![q] = NULL]
        /\ settings' = [settings EXCEPT ![heldConn[q]] = NULL]
        /\ auditLog' = auditLog \cup unsaved[q] /\ unsaved' = [unsaved EXCEPT ![q] = {}]
    BY <1>9 DEF return
  <2>2. heldConn'[q] = NULL /\ \A o \in TenantReqs \ {q} : heldConn'[o] = heldConn[o]
    BY <2>1 DEF TenancyInv, TenancyTypeOK
  <2>3. ASSUME NEW o \in TenantReqs \ {q}, heldConn[o] # NULL
        PROVE  settings'[heldConn[o]] = settings[heldConn[o]]
    BY <2>1, <2>3 DEF TenancyInv, TenancyTypeOK, ConnsFit
  <2>4. ConnsFit'
    BY <1>4, <1>5, <2>2, <2>3 DEF TenancyInv, ConnsFit, Confines
  <2>5. unsaved'[q] = {} /\ \A o \in TenantReqs \ {q} : unsaved'[o] = unsaved[o]
    BY <2>1 DEF TenancyInv, TenancyTypeOK
  <2>6. ActorsFit'
    BY <2>1, <2>5 DEF TenancyInv, ActorsFit, AuditNamesTheActor
  <2>7. ReadsFit'
    BY <1>5 DEF TenancyInv, ReadsFit, SessionsSeeTheirOwn
  <2> QED
    BY <1>7, <1>8, <2>4, <2>6, <2>7 DEF TenancyInv
<1>10. CASE Innermost(q).kind # "tx"
  <2>1. UNCHANGED <<auditLog, unsaved, settings, heldConn>>
    BY <1>10 DEF return
  <2>2. ASSUME heldConn[q] # NULL
        PROVE  (\E n \in 1 .. Len(gs) : gs[n].kind = "tx") /\ caller'[q] = caller[q]
    <3>1. PICK n \in 1 .. Len(fs) : fs[n].kind = "tx"
      BY <2>2 DEF TenancyInv, ConnsFit
    <3>2. n # Len(fs)
      BY <1>10, <3>1 DEF Innermost
    <3>3. n \in 1 .. Len(gs) /\ Len(fs) # 1
      BY <1>1, <1>2, <3>1, <3>2
    <3> QED
      BY <1>2, <1>5, <3>1, <3>3
  <2>3. ConnsFit'
    <3>1. \A o \in TenantReqs : heldConn[o] # NULL =>
             /\ \E n \in 1 .. Len(frames'[o]) : frames'[o][n].kind = "tx"
             /\ Confines(caller'[o], settings[heldConn[o]])
      <4> TAKE o \in TenantReqs
      <4> HAVE heldConn[o] # NULL
      <4>1. /\ \E n \in 1 .. Len(frames[o]) : frames[o][n].kind = "tx"
            /\ Confines(caller[o], settings[heldConn[o]])
        BY DEF TenancyInv, ConnsFit
      <4>2. CASE o = q
        BY <1>4, <1>5, <2>2, <4>1, <4>2
      <4>3. CASE o # q
        BY <1>4, <1>5, <4>1, <4>3
      <4> QED
        BY <4>2, <4>3
    <3> QED
      BY <2>1, <3>1 DEF TenancyInv, ConnsFit, Confines
  <2>4. ReadsFit' /\ ActorsFit'
    BY <1>5, <2>1 DEF TenancyInv, ReadsFit, ActorsFit, SessionsSeeTheirOwn, AuditNamesTheActor
  <2> QED
    BY <1>7, <1>8, <2>3, <2>4 DEF TenancyInv
<1> QED
  BY <1>9, <1>10

LEMMA WrapStep ==
    ASSUME TenancyInv, NEW q \in TenantReqs, NEW c \in Companies, runWithTenant(q, c) \/ runScoped(q, c)
    PROVE  TenancyInv'
<1>1. caller[q] # NULL /\ c \in Named(q)
  BY DEF runWithTenant, runScoped
<1>2. PICK e \in TenantStore \cup {NULL} : e = Ambient(q) /\ Fits(caller[q], e)
  BY <1>1, AmbientFits
<1>3. PICK v \in TenantStore : v = Effective(Ambient(q), c) /\ (~Widens(Ambient(q), c) => Fits(caller[q], v))
  BY <1>1, NewStores
<1>4. CASE runWithTenant(q, c)
  <2>1. CASE Widens(Ambient(q), c)
    BY <1>4, <2>1, UnwindStep DEF runWithTenant
  <2>2. CASE ~Widens(Ambient(q), c)
    <3>1. Push(q, "store", v) /\ UNCHANGED <<caller, settings, heldConn, lastRead, unsaved, auditLog>>
      BY <1>3, <1>4, <2>2 DEF runWithTenant
    <3> QED
      BY <1>1, <1>3, <2>2, <3>1, PushStep
  <2> QED
    BY <2>1, <2>2
<1>5. CASE runScoped(q, c)
  <2>1. CASE e # NULL /\ e.company = c
    <3>1. Push(q, "store", e) /\ UNCHANGED <<caller, settings, heldConn, lastRead, unsaved, auditLog>>
      BY <1>2, <1>5, <2>1 DEF runScoped
    <3> QED
      BY <1>1, <1>2, <3>1, PushStep
  <2>2. CASE ~(e # NULL /\ e.company = c)
    <3>1. ~Widens(Ambient(q), c)
      BY <1>2, <2>2 DEF Widens
    <3>2. Push(q, "store", v) /\ UNCHANGED <<caller, settings, heldConn, lastRead, unsaved, auditLog>>
      BY <1>2, <1>3, <1>5, <2>2 DEF runScoped
    <3> QED
      BY <1>1, <1>3, <3>1, <3>2, PushStep
  <2> QED
    BY <2>1, <2>2
<1> QED
  BY <1>4, <1>5

LEMMA TransactionStep ==
    ASSUME TenancyInv, NEW q \in TenantReqs, NEW c \in Companies, NEW k \in Conns, withTenantTx(q, c, k)
    PROVE  TenancyInv'
<1>1. caller[q] # NULL /\ c \in Named(q)
  BY DEF withTenantTx
<1>2. CASE heldConn[q] = NULL
  BY <1>1, <1>2, OpenStep
<1>3. CASE heldConn[q] # NULL /\ settings[k].company # c
  BY <1>3, UnwindStep DEF withTenantTx, InTx
<1>4. CASE heldConn[q] # NULL /\ settings[k].company = c
  <2>1. PICK e \in TenantStore \cup {NULL} : e = Ambient(q) /\ Fits(caller[q], e)
    BY <1>1, AmbientFits
  <2>2. Push(q, "joined", e) /\ UNCHANGED <<caller, settings, heldConn, lastRead, unsaved, auditLog>>
    BY <1>4, <2>1 DEF withTenantTx, InTx
  <2> QED
    BY <1>1, <2>1, <2>2, PushStep
<1> QED
  BY <1>2, <1>3, <1>4

LEMMA TenancyStep == TenancyInv /\ [TenancyNext]_tenantVars => TenancyInv'
<1> SUFFICES ASSUME TenancyInv, [TenancyNext]_tenantVars PROVE TenancyInv'
  OBVIOUS
<1>1. CASE UNCHANGED tenantVars
  <2>1. TenancyTypeOK'
    BY <1>1 DEF tenantVars, TenancyInv, TenancyTypeOK
  <2>2. FramesFit'
    BY <1>1 DEF tenantVars, TenancyInv, FramesFit, Fits
  <2>3. ConnsFit'
    BY <1>1 DEF tenantVars, TenancyInv, ConnsFit, Confines
  <2>4. ReadsFit'
    BY <1>1 DEF tenantVars, TenancyInv, ReadsFit, SessionsSeeTheirOwn
  <2>5. ActorsFit'
    BY <1>1 DEF tenantVars, TenancyInv, ActorsFit, AuditNamesTheActor
  <2> QED
    BY <2>1, <2>2, <2>3, <2>4, <2>5 DEF TenancyInv
<1>2. ASSUME NEW q \in TenantReqs, throw(q) PROVE TenancyInv'
  BY <1>2, UnwindStep DEF throw
<1> QED
  BY <1>1, <1>2, ServeStep, QueryStep, WriteStep, ReturnStep, WrapStep, TransactionStep DEF TenancyNext

-----------------------------------------------------------------------------

\* A session reads rows of its own company only, and a portal session its own rows
\* only: for any rows, sessions and pool of connections, and however deeply
\* services nest runWithTenant, runScoped and withTenantTx.
THEOREM SessionsSeeTheirOwnHolds == TenancySpec => []SessionsSeeTheirOwn
<1>1. TenancyInit => TenancyInv
  BY TenancyInitOK
<1>2. TenancyInv /\ [TenancyNext]_tenantVars => TenancyInv'
  BY TenancyStep
<1>3. TenancyInv => SessionsSeeTheirOwn
  BY DEF TenancyInv, ReadsFit
<1> QED
  BY <1>1, <1>2, <1>3, PTL DEF TenancySpec

\* Every committed audit row names the user whose request wrote it, however many
\* bare stores were put between the request and the write (runWithTenant keeps the
\* actor within a company).
THEOREM AuditNamesTheActorHolds == TenancySpec => []AuditNamesTheActor
<1>1. TenancyInit => TenancyInv
  BY TenancyInitOK
<1>2. TenancyInv /\ [TenancyNext]_tenantVars => TenancyInv'
  BY TenancyStep
<1>3. TenancyInv => AuditNamesTheActor
  BY DEF TenancyInv, ActorsFit
<1> QED
  BY <1>1, <1>2, <1>3, PTL DEF TenancySpec

-----------------------------------------------------------------------------
(* Second factors.                                                         *)

\* What the counter means: codes looked at since it began anew are exactly those
\* it shows, until a lock stops them; a lock that has run out starts from nothing.
Counted ==
    /\ tried \in Nat
    /\ totp.lock = "NONE" => tried = totp.failed /\ totp.failed < MaxFailedTotp
    /\ totp.lock = "LOCKED" => tried <= MaxFailedTotp
    /\ totp.lock = "OVER" => tried = 0

FactorInv == FactorTypeOK /\ Counted

LEMMA FactorInitOK == FactorInit => FactorInv
  BY FactorAssumption DEF FactorInit, FactorInv, FactorTypeOK, Counted, NoFailures, Cleared, Logins, Totp, Lock

\* A request that leaves disturbs nothing of the types.
LEMMA LeaveKeepsTypes ==
    ASSUME FactorTypeOK, NEW r \in FactorReqs, Leave(r), logins' \in Logins, totp' \in Totp
    PROVE  FactorTypeOK'
  BY DEF FactorTypeOK, Leave

\* Nor does one that enters with a copy of the row.
LEMMA EnterKeepsTypes ==
    ASSUME FactorTypeOK, NEW r \in FactorReqs, NEW op, NEW label, NEW row, NEW code,
           Enter(r, op, label, row, code),
           label \in {"failed", "succeeded", "reserve", "check", "confirm"},
           row \in Logins \cup Totp \cup {NULL},
           label = "failed" => row \in Logins,
           label \in {"reserve", "check", "confirm"} => row \in Totp,
           code \in {"right", "wrong", NULL} \cup RecoveryCodes,
           logins' \in Logins, totp' \in Totp
    PROVE  FactorTypeOK'
  BY DEF FactorTypeOK, Enter

\* The rows a handler may leave behind.
LEMMA RowTypes ==
    ASSUME totp \in Totp
    PROVE  /\ NoFailures \in Logins /\ Cleared \in Totp /\ AttemptsCleared(totp) \in Totp
           /\ \A n \in Nat : Reserved(n) \in Totp
           /\ \A S \in SUBSET RecoveryCodes : [AttemptsCleared(totp) EXCEPT !.codes = S] \in Totp
  BY DEF NoFailures, Cleared, AttemptsCleared, Reserved, Logins, Totp, Lock

LEMMA FactorStep == FactorInv /\ [FactorNext]_factorVars => FactorInv'
<1> SUFFICES ASSUME FactorInv, [FactorNext]_factorVars PROVE FactorInv'
  OBVIOUS
<1> USE FactorAssumption
<1>t. FactorTypeOK /\ Counted /\ logins \in Logins /\ totp \in Totp
  BY DEF FactorInv, FactorTypeOK
<1>1. ASSUME NEW r \in FactorReqs, NEW right \in BOOLEAN, loginPassword(r, right) PROVE FactorInv'
  <2>1. Enter(r, "login", IF right THEN "succeeded" ELSE "failed", logins, NULL)
        /\ logins' \in Logins /\ totp' \in Totp
    BY <1>1, <1>t DEF loginPassword
  <2>2. FactorTypeOK'
    BY <1>t, <2>1, EnterKeepsTypes, (IF right THEN "succeeded" ELSE "failed") \in {"failed", "succeeded", "reserve", "check", "confirm"}
  <2> QED
    BY <1>1, <1>t, <2>2 DEF FactorInv, Counted, loginPassword
<1>2. ASSUME NEW r \in FactorReqs, recordFailedAttempt(r) PROVE FactorInv'
  <2>1. seen[r] \in Logins
    BY <1>2, <1>t DEF FactorTypeOK, recordFailedAttempt
  <2>2. logins' \in Logins
    BY <1>2, <2>1 DEF recordFailedAttempt, Logins, Lock
  <2>3. FactorTypeOK'
    BY <1>2, <1>t, <2>2, LeaveKeepsTypes DEF recordFailedAttempt
  <2> QED
    BY <1>2, <1>t, <2>3 DEF FactorInv, Counted, recordFailedAttempt
<1>3. ASSUME NEW r \in FactorReqs, LoginSucceeded(r) PROVE FactorInv'
  <2>1. FactorTypeOK'
    BY <1>3, <1>t, RowTypes, LeaveKeepsTypes DEF LoginSucceeded
  <2> QED
    BY <1>3, <1>t, <2>1 DEF FactorInv, Counted, LoginSucceeded
<1>4. ASSUME LoginLockEnds PROVE FactorInv'
  <2>1. logins' \in Logins
    BY <1>4, <1>t DEF LoginLockEnds, Logins, Lock
  <2> QED
    BY <1>4, <1>t, <2>1 DEF FactorInv, FactorTypeOK, Counted, LoginLockEnds
<1>5. ASSUME passwordReset PROVE FactorInv'
  BY <1>5, <1>t, RowTypes DEF FactorInv, FactorTypeOK, Counted, passwordReset
<1>6. ASSUME NEW r \in FactorReqs, NEW c \in {"right", "wrong"} \cup RecoveryCodes, verifyTotp(r, c)
      PROVE  FactorInv'
  <2>1. FactorTypeOK'
    BY <1>6, <1>t, EnterKeepsTypes DEF verifyTotp
  <2> QED
    BY <1>6, <1>t, <2>1 DEF FactorInv, Counted, verifyTotp
<1>7. ASSUME NEW r \in FactorReqs, reserveTotpAttempt(r) PROVE FactorInv'
  <2>1. CASE totp.lock = "LOCKED"
    <3>1. FactorTypeOK'
      BY <1>7, <2>1, <1>t, LeaveKeepsTypes DEF reserveTotpAttempt
    <3> QED
      BY <1>7, <2>1, <1>t, <3>1 DEF FactorInv, Counted, reserveTotpAttempt
  <2>2. CASE totp.lock # "LOCKED"
    <3> DEFINE n == IF totp.lock = "NONE" THEN totp.failed + 1 ELSE 1
    <3>1. n \in Nat /\ tried + 1 = n /\ n <= MaxFailedTotp
      BY <2>2, <1>t DEF Counted, Totp, Lock
    <3>2. totp' = Reserved(n) /\ tried' = n /\ UNCHANGED <<logins, seen, given>>
          /\ at' = [at EXCEPT ![r] = "check"] /\ at[r] = "reserve"
      BY <1>7, <2>2, <3>1 DEF reserveTotpAttempt
    <3>3. totp'.failed = n /\ totp'.lock = (IF n >= MaxFailedTotp THEN "LOCKED" ELSE "NONE")
      BY <3>2, <1>t DEF Reserved, Totp
    <3>4. totp' \in Totp
      BY <3>1, <3>2, <1>t, RowTypes
    <3>5. FactorTypeOK'
      BY <3>2, <3>4, <1>t DEF FactorTypeOK
    <3>6. Counted'
      BY <3>1, <3>2, <3>3 DEF Counted
    <3> QED
      BY <3>5, <3>6 DEF FactorInv
  <2> QED
    BY <2>1, <2>2
<1>8. ASSUME NEW r \in FactorReqs, CheckCode(r) PROVE FactorInv'
  <2>1. seen[r] \in Totp
    BY <1>8, <1>t DEF FactorTypeOK, CheckCode
  <2>2. seen[r].codes \ {given[r]} \in SUBSET RecoveryCodes
    BY <2>1 DEF Totp
  <2>3. totp' \in Totp /\ logins' \in Logins
    BY <1>8, <2>2, <1>t, RowTypes DEF CheckCode
  <2>4. FactorTypeOK'
    BY <1>8, <2>3, <1>t, LeaveKeepsTypes DEF CheckCode
  <2>5. \/ tried' = 0 /\ totp'.failed = 0 /\ totp'.lock = "NONE"
        \/ UNCHANGED <<totp, tried>>
    BY <1>8, <1>t DEF CheckCode, AttemptsCleared, Totp
  <2>6. Counted'
    BY <2>5, <1>t DEF Counted
  <2> QED
    BY <2>4, <2>6 DEF FactorInv
<1>9. ASSUME TotpLockEnds PROVE FactorInv'
  <2>1. totp' \in Totp /\ totp'.lock = "OVER"
    BY <1>9, <1>t DEF TotpLockEnds, Totp, Lock
  <2> QED
    BY <1>9, <1>t, <2>1 DEF FactorInv, FactorTypeOK, Counted, TotpLockEnds
<1>10. ASSUME setupTotp PROVE FactorInv'
  <2>1. totp' \in Totp /\ totp'.lock = totp.lock /\ totp'.failed = totp.failed
    BY <1>10, <1>t DEF setupTotp, Totp
  <2> QED
    BY <1>10, <1>t, <2>1 DEF FactorInv, FactorTypeOK, Counted, setupTotp
<1>11. ASSUME NEW r \in FactorReqs, confirmTotp(r) PROVE FactorInv'
  <2>1. FactorTypeOK'
    BY <1>11, <1>t, EnterKeepsTypes DEF confirmTotp
  <2> QED
    BY <1>11, <1>t, <2>1 DEF FactorInv, Counted, confirmTotp
<1>12. ASSUME NEW r \in FactorReqs, ConfirmCommit(r) PROVE FactorInv'
  <2>1. totp' \in Totp /\ totp'.lock = totp.lock /\ totp'.failed = totp.failed /\ logins' \in Logins
    BY <1>12, <1>t DEF ConfirmCommit, Totp
  <2>2. FactorTypeOK'
    BY <1>12, <1>t, <2>1, LeaveKeepsTypes DEF ConfirmCommit
  <2> QED
    BY <1>12, <1>t, <2>1, <2>2 DEF FactorInv, Counted, ConfirmCommit
<1>13. ASSUME disableTotp PROVE FactorInv'
  BY <1>13, <1>t, RowTypes DEF FactorInv, FactorTypeOK, Counted, disableTotp, Cleared
<1>14. ASSUME NEW r \in FactorReqs, FactorFail(r) PROVE FactorInv'
  <2>1. FactorTypeOK'
    BY <1>14, <1>t, LeaveKeepsTypes DEF FactorFail
  <2> QED
    BY <1>14, <1>t, <2>1 DEF FactorInv, Counted, FactorFail
<1>15. ASSUME UNCHANGED factorVars PROVE FactorInv'
  BY <1>15 DEF FactorInv, FactorTypeOK, Counted, factorVars
<1> QED
  BY <1>1, <1>2, <1>3, <1>4, <1>5, <1>6, <1>7, <1>8, <1>9, <1>10, <1>11, <1>12, <1>13, <1>14, <1>15
     DEF FactorNext

\* The rows, the steps and the copies that requests carry keep their types, however
\* sign-ins, enrolment and resets interleave.
THEOREM FactorTypeCorrect == FactorSpec => []FactorTypeOK
<1>1. FactorInv => FactorTypeOK
  BY DEF FactorInv
<1> QED
  BY FactorInitOK, FactorStep, <1>1, PTL DEF FactorSpec

\* No more than MaxFailedTotp codes are looked at before a right one, a reset or a
\* pause, with any number of requests at once (reserveTotpAttempt is one UPDATE).
THEOREM CodesAreRationedHolds == FactorSpec => []CodesAreRationed
<1>1. FactorInv => CodesAreRationed
  BY FactorAssumption DEF FactorInv, Counted, CodesAreRationed, FactorTypeOK, Totp, Lock
<1> QED
  BY FactorInitOK, FactorStep, <1>1, PTL DEF FactorSpec

-----------------------------------------------------------------------------
(* Password links.                                                         *)

\* r has claimed x and is on its way to writing the password.
Redeeming(r, x) ==
    linkArg[r] = x /\ step[r] \in {"write", "finalize", "set", "consume", "commit"}

\* A request refers to rows that exist.
ArgsFit ==
    \A r \in LinkReqs :
        /\ step[r] \in {"claim", "write"} => linkArg[r] \in Links /\ link[linkArg[r]] # NULL
        /\ step[r] \in {"mismatch", "claimInvite", "finalize"} =>
              linkArg[r] \in Invites /\ invite[linkArg[r]] # NULL
        /\ step[r] \in {"set", "consume", "commit"} /\ linkArg[r] # NULL =>
              linkArg[r] \in Invites /\ invite[linkArg[r]] # NULL
        /\ \A l \in taking[r] : link[l] # NULL

LinkClosed(x) == x \in Links => link[x] # NULL /\ link[x].state = "CONSUMED"
InviteClosed(x) == x \in Invites => invite[x] # NULL /\ ~invite[x].open

\* Claiming closes a link or an invitation for good, before it is used: one request
\* holds the claim, and it has not been used yet.
ClaimsAreExclusive ==
    \A x \in Links \cup Invites : \A r \in LinkReqs : Redeeming(r, x) =>
        /\ LinkClosed(x) /\ InviteClosed(x) /\ uses[x] = 0
        /\ \A o \in LinkReqs : Redeeming(o, x) => o = r

UsedIsClosed ==
    \A x \in Links \cup Invites :
        uses[x] <= 1 /\ (uses[x] > 0 => LinkClosed(x) /\ InviteClosed(x))

Rationed ==
    \A i \in Invites : invite[i] # NULL =>
        invite[i].wrong <= InviteCap /\ (invite[i].open => invite[i].wrong < InviteCap)

LinksInv == LinksTypeOK /\ ArgsFit /\ ClaimsAreExclusive /\ UsedIsClosed /\ Rationed

LEMMA LinksInitOK == LinksInit => LinksInv
  BY LinksAssumption DEF LinksInit, LinksInv, LinksTypeOK, ArgsFit, ClaimsAreExclusive, UsedIsClosed,
     Rationed, Redeeming

LEMMA RedeemedOnceFollows == LinksInv => RedeemedOnce
<1> SUFFICES ASSUME LinksInv PROVE RedeemedOnce
  OBVIOUS
<1>1. ASSUME NEW x \in Links \cup Invites PROVE uses[x] <= 1
  BY <1>1 DEF LinksInv, UsedIsClosed
<1>2. ASSUME NEW l \in Links, uses[l] > 0 PROVE link[l].state = "CONSUMED"
  BY <1>2 DEF LinksInv, UsedIsClosed, LinkClosed
<1>3. ASSUME NEW i \in Invites, invite[i] # NULL
      PROVE  /\ uses[i] > 0 => ~invite[i].open
             /\ invite[i].wrong <= InviteCap /\ (invite[i].wrong = InviteCap => ~invite[i].open)
  <2>1. invite[i].wrong \in Nat
    BY <1>3 DEF LinksInv, LinksTypeOK, InviteRow
  <2> QED
    BY <1>3, <2>1, LinksAssumption DEF LinksInv, UsedIsClosed, InviteClosed, Rationed
<1> QED
  BY <1>1, <1>2, <1>3 DEF RedeemedOnce

-----------------------------------------------------------------------------
(* Steps that neither claim nor use anything.                              *)

\* LinkRows stay, and what is closed stays closed.
RowsStay ==
    /\ \A l \in Links : link[l] # NULL =>
          link'[l] # NULL /\ (link[l].state = "CONSUMED" => link'[l].state = "CONSUMED")
    /\ \A i \in Invites : invite[i] # NULL => invite'[i] # NULL /\ (~invite[i].open => ~invite'[i].open)

LEMMA QuietStep ==
    ASSUME LinksInv, LinksTypeOK', RowsStay, UNCHANGED uses, ArgsFit', Rationed',
           \A r \in LinkReqs : \A x \in Links \cup Invites : Redeeming(r, x)' => Redeeming(r, x)
    PROVE  LinksInv'
<1>1. ASSUME NEW x \in Links \cup Invites
      PROVE  /\ LinkClosed(x) => LinkClosed(x)' 
             /\ InviteClosed(x) => InviteClosed(x)'
  BY DEF RowsStay, LinkClosed, InviteClosed
<1>2. UsedIsClosed'
  BY <1>1 DEF LinksInv, UsedIsClosed
<1>3. ClaimsAreExclusive'
  BY <1>1 DEF LinksInv, ClaimsAreExclusive
<1> QED
  BY <1>2, <1>3 DEF LinksInv

-----------------------------------------------------------------------------
(* What the statements do to one row.                                      *)

LEMMA ClosedRow ==
    ASSUME NEW w \in LinkRow, NEW s \in LinkState
    PROVE  [w EXCEPT !.state = s] \in LinkRow /\ [w EXCEPT !.state = s].state = s
  BY DEF LinkRow

LEMMA ClosedInvite ==
    ASSUME NEW w \in InviteRow
    PROVE  /\ [w EXCEPT !.open = FALSE] \in InviteRow
           /\ ~[w EXCEPT !.open = FALSE].open
           /\ [w EXCEPT !.open = FALSE].wrong = w.wrong
  BY DEF InviteRow

LEMMA CountedInvite ==
    ASSUME NEW n \in Nat
    PROVE  /\ [open |-> n + 1 < InviteCap, wrong |-> n + 1] \in InviteRow
           /\ [open |-> n + 1 < InviteCap, wrong |-> n + 1].wrong = n + 1
           /\ [open |-> n + 1 < InviteCap, wrong |-> n + 1].open =>
                 [open |-> n + 1 < InviteCap, wrong |-> n + 1].wrong < InviteCap
<1>1. ASSUME NEW p \in BOOLEAN, NEW m \in Nat
      PROVE  /\ [open |-> p, wrong |-> m] \in InviteRow
             /\ [open |-> p, wrong |-> m].wrong = m
             /\ [open |-> p, wrong |-> m].open = p
  BY DEF InviteRow
<1>2. n + 1 \in Nat /\ (n + 1 < InviteCap) \in BOOLEAN
  OBVIOUS
<1> QED
  BY <1>1, <1>2, Zenon

\* Consuming links keeps the other rows and leaves these consumed.
LEMMA ConsumedRows ==
    ASSUME LinksTypeOK, NEW ls \in SUBSET Links, \A l \in ls : link[l] # NULL
    PROVE  /\ Consumed(ls) \in [Links -> LinkRow \cup {NULL}]
           /\ \A l \in Links : link[l] # NULL =>
                 /\ Consumed(ls)[l] # NULL
                 /\ link[l].state = "CONSUMED" => Consumed(ls)[l].state = "CONSUMED"
           /\ \A l \in Links \ ls : Consumed(ls)[l] = link[l]
<1>1. ASSUME NEW l \in Links, link[l] # NULL
      PROVE  link[l] \in LinkRow
  BY <1>1 DEF LinksTypeOK
<1>2. ASSUME NEW l \in ls
      PROVE  Consumed(ls)[l] \in LinkRow /\ Consumed(ls)[l].state = "CONSUMED"
  <2>1. Consumed(ls)[l] = [link[l] EXCEPT !.state = "CONSUMED"]
    BY <1>2 DEF Consumed
  <2>2. "CONSUMED" \in LinkState /\ link[l] \in LinkRow
    BY <1>1, <1>2 DEF LinkState
  <2> QED
    BY <2>1, <2>2, ClosedRow
<1>3. ASSUME NEW l \in Links \ ls PROVE Consumed(ls)[l] = link[l]
  BY <1>3 DEF Consumed
<1>4. Consumed(ls) \in [Links -> LinkRow \cup {NULL}]
  <2>1. Consumed(ls) = [l \in Links |-> Consumed(ls)[l]]
    BY DEF Consumed
  <2>2. \A l \in Links : Consumed(ls)[l] \in LinkRow \cup {NULL}
    BY <1>2, <1>3 DEF LinksTypeOK
  <2> QED
    BY <2>1, <2>2
<1> QED
  BY <1>2, <1>3, <1>4, LinksAssumption

-----------------------------------------------------------------------------
(* One step per kind of action.                                            *)

LinkRows == <<link, invite, uses>>

\* r redeems the invitation x and is about to open, or in, its transaction.
Resumed(r, x) == x = linkArg[r] /\ step[r] \in {"finalize", "set", "consume"}

\* A request moves on and no row changes.
LEMMA MoveOn ==
    ASSUME LinksInv, UNCHANGED LinkRows, LinksTypeOK', NEW r \in LinkReqs,
           NEW label, NEW x, Go(r, label, x),
           label \in {"idle", "issue", "create", "self", "kill"} \/
           (label \in {"set", "consume", "commit"} /\ (x = NULL \/ Resumed(r, x))) \/
           (label = "claim" /\ x \in LiveLinks) \/
           (label \in {"mismatch", "claimInvite"} /\ x \in Invites /\ invite[x] # NULL),
           \A o \in LinkReqs \ {r} : taking'[o] = taking[o],
           \A l \in taking'[r] : link[l] # NULL
    PROVE  LinksInv'
<1>1. \A o \in LinkReqs \ {r} : step'[o] = step[o] /\ linkArg'[o] = linkArg[o]
  BY DEF Go, LinksInv, LinksTypeOK
<1>2. step'[r] = label /\ linkArg'[r] = x
  BY DEF Go, LinksInv, LinksTypeOK
<1>3. RowsStay
  BY DEF RowsStay, LinkRows
<1>4. Rationed'
  BY DEF LinksInv, Rationed, LinkRows
<1>5. ASSUME NEW o \in LinkReqs, NEW y \in Links \cup Invites, Redeeming(o, y)'
      PROVE  Redeeming(o, y)
  <2>1. CASE o = r
    BY <1>2, <1>5, <2>1, LinksAssumption DEF Redeeming, Resumed
  <2>2. CASE o # r
    BY <1>1, <1>5, <2>2 DEF Redeeming
  <2> QED
    BY <2>1, <2>2
<1>6. ArgsFit'
  <2> SUFFICES ASSUME NEW o \in LinkReqs
               PROVE  /\ step'[o] \in {"claim", "write"} => linkArg'[o] \in Links /\ link[linkArg'[o]] # NULL
                      /\ step'[o] \in {"mismatch", "claimInvite", "finalize"} =>
                            linkArg'[o] \in Invites /\ invite[linkArg'[o]] # NULL
                      /\ step'[o] \in {"set", "consume", "commit"} /\ linkArg'[o] # NULL =>
                            linkArg'[o] \in Invites /\ invite[linkArg'[o]] # NULL
                      /\ \A l \in taking'[o] : link[l] # NULL
    BY DEF ArgsFit, LinkRows
  <2>1. CASE o = r
    <3>1. CASE label \in {"idle", "issue", "create", "self", "kill"}
      BY <1>2, <2>1, <3>1
    <3>2. CASE label \in {"set", "consume", "commit"} /\ (x = NULL \/ Resumed(r, x))
      BY <1>2, <2>1, <3>2 DEF LinksInv, ArgsFit, Resumed
    <3>3. CASE label = "claim" /\ x \in LiveLinks
      BY <1>2, <2>1, <3>3 DEF LiveLinks
    <3>4. CASE label \in {"mismatch", "claimInvite"} /\ x \in Invites /\ invite[x] # NULL
      BY <1>2, <2>1, <3>4
    <3> QED
      BY <3>1, <3>2, <3>3, <3>4
  <2>2. CASE o # r
    BY <1>1, <2>2 DEF LinksInv, ArgsFit
  <2> QED
    BY <2>1, <2>2
<1> QED
  BY <1>3, <1>4, <1>5, <1>6, QuietStep DEF LinkRows

\* LinkRows change, nothing is used and no request but r moves, which stops.
LEMMA RowsChange ==
    ASSUME LinksInv, RowsStay, UNCHANGED uses, LinksTypeOK', Rationed',
           NEW r \in LinkReqs, Stop(r) \/ UNCHANGED <<step, linkArg>>,
           UNCHANGED taking
    PROVE  LinksInv'
<1>1. ASSUME NEW o \in LinkReqs
      PROVE  step'[o] = "idle" \/ (step'[o] = step[o] /\ linkArg'[o] = linkArg[o])
  BY DEF Stop, Go, LinksInv, LinksTypeOK
<1>2. ASSUME NEW o \in LinkReqs, NEW y \in Links \cup Invites, Redeeming(o, y)'
      PROVE  Redeeming(o, y)
  BY <1>1, <1>2 DEF Redeeming
<1>3. ArgsFit'
  <2> SUFFICES ASSUME NEW o \in LinkReqs
               PROVE  /\ step'[o] \in {"claim", "write"} => linkArg'[o] \in Links /\ link'[linkArg'[o]] # NULL
                      /\ step'[o] \in {"mismatch", "claimInvite", "finalize"} =>
                            linkArg'[o] \in Invites /\ invite'[linkArg'[o]] # NULL
                      /\ step'[o] \in {"set", "consume", "commit"} /\ linkArg'[o] # NULL =>
                            linkArg'[o] \in Invites /\ invite'[linkArg'[o]] # NULL
                      /\ \A l \in taking'[o] : link'[l] # NULL
    BY DEF ArgsFit
  <2>1. \A l \in taking'[o] : link'[l] # NULL
    BY DEF LinksInv, ArgsFit, RowsStay, LinksTypeOK
  <2> QED
    BY <1>1, <2>1 DEF LinksInv, ArgsFit, RowsStay
<1> QED
  BY <1>2, <1>3, QuietStep

LEMMA ArgsStay ==
    ASSUME LinksInv, RowsStay, NEW r \in LinkReqs, NEW label, NEW x, Go(r, label, x),
           label = "idle" \/ (label = "write" /\ x \in Links /\ link'[x] # NULL) \/
           (label = "finalize" /\ x \in Invites /\ invite'[x] # NULL),
           \A o \in LinkReqs : taking'[o] = taking[o] \/ taking'[o] = {}
    PROVE  ArgsFit'
<1>1. \A o \in LinkReqs \ {r} : step'[o] = step[o] /\ linkArg'[o] = linkArg[o]
  BY DEF Go, LinksInv, LinksTypeOK
<1>2. step'[r] = label /\ linkArg'[r] = x
  BY DEF Go, LinksInv, LinksTypeOK
<1> SUFFICES ASSUME NEW o \in LinkReqs
             PROVE  /\ step'[o] \in {"claim", "write"} => linkArg'[o] \in Links /\ link'[linkArg'[o]] # NULL
                    /\ step'[o] \in {"mismatch", "claimInvite", "finalize"} =>
                          linkArg'[o] \in Invites /\ invite'[linkArg'[o]] # NULL
                    /\ step'[o] \in {"set", "consume", "commit"} /\ linkArg'[o] # NULL =>
                          linkArg'[o] \in Invites /\ invite'[linkArg'[o]] # NULL
                    /\ \A l \in taking'[o] : link'[l] # NULL
  BY DEF ArgsFit
<1>3. \A l \in taking'[o] : link'[l] # NULL
  BY DEF LinksInv, ArgsFit, RowsStay, LinksTypeOK
<1>4. CASE o = r
  BY <1>2, <1>3, <1>4
<1>5. CASE o # r
  BY <1>1, <1>3, <1>5 DEF LinksInv, ArgsFit, RowsStay
<1> QED
  BY <1>4, <1>5

\* What was closed stays closed.
LEMMA ClosedStays ==
    ASSUME RowsStay, NEW x \in Links \cup Invites
    PROVE  (LinkClosed(x) => LinkClosed(x)') /\ (InviteClosed(x) => InviteClosed(x)')
  BY DEF RowsStay, LinkClosed, InviteClosed

\* r claims x, which was open: nobody redeems it and it has not been used.
LEMMA ClaimStep ==
    ASSUME LinksInv, RowsStay, UNCHANGED uses, LinksTypeOK', Rationed', ArgsFit',
           NEW r \in LinkReqs, NEW x \in Links \cup Invites, NEW label, Go(r, label, x),
           ~LinkClosed(x) \/ ~InviteClosed(x), LinkClosed(x)', InviteClosed(x)'
    PROVE  LinksInv'
<1>1. \A o \in LinkReqs \ {r} : step'[o] = step[o] /\ linkArg'[o] = linkArg[o]
  BY DEF Go, LinksInv, LinksTypeOK
<1>2. linkArg'[r] = x
  BY DEF Go, LinksInv, LinksTypeOK
<1>3. uses[x] = 0 /\ \A o \in LinkReqs : ~Redeeming(o, x)
  <2>1. uses[x] \in Nat
    BY DEF LinksInv, LinksTypeOK
  <2> QED
    BY <2>1 DEF LinksInv, UsedIsClosed, ClaimsAreExclusive
<1>4. UsedIsClosed'
  BY ClosedStays DEF LinksInv, UsedIsClosed
<1>5. ClaimsAreExclusive'
  <2> SUFFICES ASSUME NEW y \in Links \cup Invites, NEW o \in LinkReqs, Redeeming(o, y)'
               PROVE  /\ LinkClosed(y)' /\ InviteClosed(y)' /\ uses[y] = 0
                      /\ \A p \in LinkReqs : Redeeming(p, y)' => p = o
    BY DEF ClaimsAreExclusive
  <2>1. CASE y = x
    <3>1. \A p \in LinkReqs : Redeeming(p, x)' => p = r
      BY <1>1, <1>3 DEF Redeeming
    <3> QED
      BY <1>3, <2>1, <3>1
  <2>2. CASE y # x
    <3>1. \A p \in LinkReqs : Redeeming(p, y)' => Redeeming(p, y)
      BY <1>1, <1>2, <2>2 DEF Redeeming
    <3> QED
      BY <3>1, ClosedStays DEF LinksInv, ClaimsAreExclusive
  <2> QED
    BY <2>1, <2>2
<1> QED
  BY <1>4, <1>5 DEF LinksInv

\* r has claimed x, sets the password and is done.
LEMMA UseStep ==
    ASSUME LinksInv, RowsStay, LinksTypeOK', Rationed', ArgsFit',
           NEW r \in LinkReqs, NEW x \in Links \cup Invites, Redeeming(r, x), Stop(r),
           uses' = [uses EXCEPT ![x] = @ + 1]
    PROVE  LinksInv'
<1>1. \A o \in LinkReqs \ {r} : step'[o] = step[o] /\ linkArg'[o] = linkArg[o]
  BY DEF Stop, Go, LinksInv, LinksTypeOK
<1>2. step'[r] = "idle"
  BY DEF Stop, Go, LinksInv, LinksTypeOK
<1>3. uses[x] = 0 /\ LinkClosed(x) /\ InviteClosed(x) /\ \A o \in LinkReqs \ {r} : ~Redeeming(o, x)
  BY DEF LinksInv, ClaimsAreExclusive
<1>4. uses'[x] = 1 /\ \A y \in (Links \cup Invites) \ {x} : uses'[y] = uses[y]
  BY <1>3 DEF LinksInv, LinksTypeOK
<1>5. UsedIsClosed'
  BY <1>3, <1>4, ClosedStays DEF LinksInv, UsedIsClosed
<1>6. ClaimsAreExclusive'
  <2> SUFFICES ASSUME NEW y \in Links \cup Invites, NEW o \in LinkReqs, Redeeming(o, y)'
               PROVE  /\ LinkClosed(y)' /\ InviteClosed(y)' /\ uses'[y] = 0
                      /\ \A p \in LinkReqs : Redeeming(p, y)' => p = o
    BY DEF ClaimsAreExclusive
  <2>1. \A p \in LinkReqs : Redeeming(p, y)' => p # r /\ Redeeming(p, y)
    BY <1>1, <1>2 DEF Redeeming
  <2>2. y # x
    BY <1>3, <2>1
  <2> QED
    BY <1>4, <2>1, <2>2, ClosedStays DEF LinksInv, ClaimsAreExclusive
<1> QED
  BY <1>5, <1>6 DEF LinksInv

-----------------------------------------------------------------------------

LEMMA LinksStep == LinksInv /\ [LinksNext]_linkVars => LinksInv'
<1> SUFFICES ASSUME LinksInv, [LinksNext]_linkVars PROVE LinksInv'
  OBVIOUS
<1>t. LinksTypeOK
  BY DEF LinksInv
<1>a. Rationed /\ ArgsFit
  BY DEF LinksInv
<1>u. ASSUME UNCHANGED linkVars PROVE LinksInv'
  BY <1>u DEF linkVars, LinksInv, LinksTypeOK, ArgsFit, ClaimsAreExclusive, UsedIsClosed, Rationed,
     Redeeming, LinkClosed, InviteClosed
<1>live. LiveLinks \in SUBSET Links /\ \A l \in LiveLinks : link[l] # NULL
  BY DEF LiveLinks
<1>c. ASSUME NEW ls \in SUBSET Links, \A l \in ls : link[l] # NULL, link' = Consumed(ls), UNCHANGED invite
      PROVE  RowsStay /\ Rationed' /\ link' \in [Links -> LinkRow \cup {NULL}]
  <2>1. RowsStay
    BY <1>c, <1>t, ConsumedRows DEF RowsStay
  <2>2. link' \in [Links -> LinkRow \cup {NULL}]
    BY <1>c, <1>t, ConsumedRows
  <2> QED
    BY <2>1, <2>2, <1>a, <1>c DEF Rationed
<1>n. ASSUME NEW r \in LinkReqs, NEW l \in Links, NEW ls \in SUBSET Links, NEW byAdmin \in BOOLEAN,
             \A k \in ls : link[k] # NULL, NewLink(r, l, ls, byAdmin), UNCHANGED invite
      PROVE  RowsStay /\ Rationed' /\ link' \in [Links -> LinkRow \cup {NULL}]
  <2>1. Consumed(ls) \in [Links -> LinkRow \cup {NULL}]
    BY <1>n, <1>t, ConsumedRows
  <2>2. [state |-> "LIVE", at |-> changes, admin |-> byAdmin] \in LinkRow
    BY <1>t DEF LinkRow, LinkState, LinksTypeOK
  <2>3. link' \in [Links -> LinkRow \cup {NULL}]
    BY <1>n, <2>1, <2>2 DEF NewLink
  <2>4. link[l] = NULL /\ \A k \in Links \ {l} : link'[k] = Consumed(ls)[k]
    BY <1>n, <2>1 DEF NewLink
  <2>5. \A k \in Links : link[k] # NULL =>
           /\ Consumed(ls)[k] # NULL
           /\ link[k].state = "CONSUMED" => Consumed(ls)[k].state = "CONSUMED"
    BY <1>n, <1>t, ConsumedRows
  <2>6. RowsStay
    BY <1>n, <2>4, <2>5 DEF RowsStay
  <2> QED
    BY <2>3, <2>6, <1>a, <1>n DEF Rationed
<1>1. ASSUME NEW r \in LinkReqs, issueReset(r) PROVE LinksInv'
  <2>1. LinksTypeOK'
    BY <1>t, <1>1 DEF LinksTypeOK, issueReset, Go
  <2> QED
    BY <1>1, <2>1, <1>a, MoveOn DEF issueReset, LinkRows, ArgsFit
<1>2. ASSUME NEW r \in LinkReqs, IssueLock(r) PROVE LinksInv'
  <2>1. LinksTypeOK'
    BY <1>t, <1>2 DEF LinksTypeOK, IssueLock, Go
  <2> QED
    BY <1>2, <2>1, <1>a, MoveOn DEF IssueLock, LinkRows, ArgsFit
<1>3. ASSUME NEW r \in LinkReqs, requestPasswordReset(r) PROVE LinksInv'
  <2>1. LinksTypeOK'
    BY <1>t, <1>3 DEF LinksTypeOK, requestPasswordReset, Go
  <2> QED
    BY <1>3, <2>1, <1>a, MoveOn DEF requestPasswordReset, LinkRows, ArgsFit
<1>4. ASSUME NEW r \in LinkReqs, changePassword(r) PROVE LinksInv'
  <2>1. LinksTypeOK'
    BY <1>t, <1>4 DEF LinksTypeOK, changePassword, Go
  <2> QED
    BY <1>4, <2>1, <1>a, MoveOn DEF changePassword, LinkRows, ArgsFit
<1>5. ASSUME NEW r \in LinkReqs, SetPassword(r) PROVE LinksInv'
  <2>1. LinksTypeOK'
    BY <1>t, <1>5 DEF LinksTypeOK, SetPassword, Go
  <2>2. Resumed(r, linkArg[r])
    BY <1>5 DEF SetPassword, Resumed
  <2> QED
    BY <1>5, <2>1, <2>2, <1>a, MoveOn DEF SetPassword, LinkRows, ArgsFit
<1>6. ASSUME NEW r \in LinkReqs, consumeResetLinks(r) PROVE LinksInv'
  <2>1. LinksTypeOK'
    BY <1>t, <1>6, <1>live DEF LinksTypeOK, consumeResetLinks, Go
  <2>2. Resumed(r, linkArg[r])
    BY <1>6 DEF consumeResetLinks, Resumed
  <2>3. taking'[r] = LiveLinks /\ \A o \in LinkReqs \ {r} : taking'[o] = taking[o]
    BY <1>t, <1>6 DEF consumeResetLinks, LinksTypeOK
  <2> QED
    BY <1>6, <2>1, <2>2, <2>3, <1>live, MoveOn DEF consumeResetLinks, LinkRows
<1>7. ASSUME NEW r \in LinkReqs, CommitPassword(r) PROVE LinksInv'
  <2>1. taking[r] \in SUBSET Links /\ \A l \in taking[r] : link[l] # NULL
    BY <1>t, <1>a DEF LinksTypeOK, ArgsFit
  <2>2. RowsStay /\ Rationed' /\ link' \in [Links -> LinkRow \cup {NULL}]
    BY <1>7, <2>1, <1>c DEF CommitPassword
  <2>3. Stop(r) /\ ArgsFit'
    <3>1. \A o \in LinkReqs : taking'[o] = taking[o] \/ taking'[o] = {}
      BY <1>7, <1>t DEF CommitPassword, LinksTypeOK
    <3> QED
      BY <1>7, <2>2, <3>1, ArgsStay DEF CommitPassword, Stop
  <2>4. CASE linkArg[r] = NULL
    <3>1. UNCHANGED <<isActive, uses>>
      BY <1>7, <2>4 DEF CommitPassword
    <3>2. LinksTypeOK'
      BY <1>7, <1>t, <2>2, <3>1 DEF CommitPassword, LinksTypeOK, Stop, Go
    <3>3. \A o \in LinkReqs : \A y \in Links \cup Invites : Redeeming(o, y)' => Redeeming(o, y)
      BY <2>3, <1>t DEF Redeeming, Stop, Go, LinksTypeOK
    <3> QED
      BY <2>2, <2>3, <3>1, <3>2, <3>3, QuietStep
  <2>5. CASE linkArg[r] # NULL
    <3>1. linkArg[r] \in Invites /\ Redeeming(r, linkArg[r])
      BY <1>7, <1>a, <2>5 DEF CommitPassword, ArgsFit, Redeeming
    <3>2. isActive' = TRUE /\ uses' = [uses EXCEPT ![linkArg[r]] = @ + 1]
      BY <1>7, <2>5 DEF CommitPassword
    <3>3. LinksTypeOK'
      BY <1>7, <1>t, <2>2, <3>1, <3>2 DEF CommitPassword, LinksTypeOK, Stop, Go
    <3> QED
      BY <2>2, <2>3, <3>1, <3>2, <3>3, UseStep
  <2> QED
    BY <2>4, <2>5
<1>8. ASSUME NEW r \in LinkReqs, Claim(r) PROVE LinksInv'
  <2>0. PICK l \in Links : l = linkArg[r]
    BY <1>8, <1>a DEF Claim, ArgsFit
  <2>1. l \in Links /\ link[l] # NULL /\ link[l] \in LinkRow
    BY <1>8, <1>t, <1>a, <2>0 DEF Claim, ArgsFit, LinksTypeOK
  <2>2. CASE link[l].state = "CONSUMED"
    <3>1. Stop(r) /\ UNCHANGED link
      BY <1>8, <2>0, <2>2 DEF Claim
    <3>2. LinksTypeOK'
      BY <1>8, <1>t, <3>1 DEF Claim, LinksTypeOK, Stop, Go
    <3> QED
      BY <1>8, <1>a, <3>1, <3>2, MoveOn DEF Claim, Stop, LinkRows, ArgsFit
  <2>3. CASE link[l].state # "CONSUMED"
    <3>1. Go(r, "write", l)
      BY <1>8, <2>0, <2>3 DEF Claim
    <3>2. link' = [link EXCEPT ![l] = [link[l] EXCEPT !.state = "CONSUMED"]]
      BY <1>8, <2>0, <2>3 DEF Claim
    <3>3. [link[l] EXCEPT !.state = "CONSUMED"] \in LinkRow /\ [link[l] EXCEPT !.state = "CONSUMED"].state = "CONSUMED"
      BY <2>1, ClosedRow DEF LinkState
    <3>4. link' \in [Links -> LinkRow \cup {NULL}]
      BY <1>t, <3>2, <3>3 DEF LinksTypeOK
    <3>5. link'[l].state = "CONSUMED" /\ link'[l] # NULL /\ \A k \in Links \ {l} : link'[k] = link[k]
      BY <1>t, <2>1, <3>2, <3>3, LinksAssumption DEF LinksTypeOK
    <3>6. RowsStay /\ Rationed'
      BY <1>8, <1>a, <3>5 DEF Claim, RowsStay, Rationed
    <3>7. LinksTypeOK'
      BY <1>8, <1>t, <2>1, <3>1, <3>4 DEF Claim, LinksTypeOK, Go
    <3>8. ArgsFit'
      BY <1>8, <2>1, <3>1, <3>5, <3>6, ArgsStay DEF Claim
    <3>9. ~LinkClosed(l) /\ LinkClosed(l)' /\ InviteClosed(l)'
      BY <2>1, <2>3, <3>5, LinksAssumption DEF LinkClosed, InviteClosed
    <3> QED
      BY <1>8, <2>1, <3>1, <3>6, <3>7, <3>8, <3>9, ClaimStep DEF Claim
  <2> QED
    BY <2>2, <2>3
<1>9. ASSUME NEW r \in LinkReqs, WritePassword(r) PROVE LinksInv'
  <2>1. linkArg[r] \in Links /\ Redeeming(r, linkArg[r])
    BY <1>9, <1>a DEF WritePassword, ArgsFit, Redeeming
  <2>2. LinksTypeOK'
    BY <1>9, <1>t, <2>1 DEF WritePassword, LinksTypeOK, Stop, Go
  <2>3. CASE isActive
    <3>1. RowsStay /\ Rationed'
      BY <1>9, <1>a DEF WritePassword, RowsStay, Rationed
    <3>2. ArgsFit'
      BY <1>9, <3>1, ArgsStay DEF WritePassword, Stop
    <3> QED
      BY <1>9, <2>1, <2>2, <2>3, <3>1, <3>2, UseStep DEF WritePassword
  <2>4. CASE ~isActive
    BY <1>9, <1>a, <2>2, <2>4, MoveOn DEF WritePassword, Stop, LinkRows, ArgsFit
  <2> QED
    BY <2>3, <2>4
<1>10. ASSUME NEW r \in LinkReqs, Mismatch(r) PROVE LinksInv'
  <2> DEFINE i == linkArg[r]
  <2>1. i \in Invites /\ invite[i] # NULL /\ invite[i] \in InviteRow
    BY <1>10, <1>t, <1>a DEF Mismatch, ArgsFit, LinksTypeOK
  <2>2. Stop(r)
    BY <1>10 DEF Mismatch
  <2>3. CASE ~invite[i].open
    <3>1. UNCHANGED invite
      BY <1>10, <2>3 DEF Mismatch
    <3>2. LinksTypeOK'
      BY <1>10, <1>t, <2>2, <3>1 DEF Mismatch, LinksTypeOK, Stop, Go
    <3> QED
      BY <1>10, <1>a, <2>2, <3>1, <3>2, MoveOn DEF Mismatch, Stop, LinkRows, ArgsFit
  <2>4. CASE invite[i].open
    <3> DEFINE w == [open |-> invite[i].wrong + 1 < InviteCap, wrong |-> invite[i].wrong + 1]
    <3>1. invite' = [invite EXCEPT ![i] = w]
      BY <1>10, <2>4 DEF Mismatch
    <3>2. invite[i].wrong \in Nat /\ invite[i].wrong < InviteCap
      BY <1>a, <2>1, <2>4 DEF Rationed, InviteRow
    <3>3. w \in InviteRow /\ w.wrong = invite[i].wrong + 1 /\ (w.open => w.wrong < InviteCap)
      BY <3>2, CountedInvite
    <3> HIDE DEF w
    <3>4. invite'[i] = w /\ \A k \in Invites \ {i} : invite'[k] = invite[k]
      BY <1>t, <2>1, <3>1 DEF LinksTypeOK
    <3>5. w # NULL /\ w.wrong <= InviteCap /\ (w.open => w.wrong < InviteCap)
      BY <3>2, <3>3, LinksAssumption
    <3>6. RowsStay
      BY <1>10, <2>4, <3>4, <3>5 DEF Mismatch, RowsStay
    <3>7. Rationed'
      BY <1>a, <3>4, <3>5 DEF Rationed
    <3>8. LinksTypeOK'
      BY <1>10, <1>t, <2>1, <2>2, <3>1, <3>3 DEF Mismatch, LinksTypeOK, Stop, Go
    <3> QED
      BY <1>10, <2>2, <3>6, <3>7, <3>8, RowsChange DEF Mismatch
  <2> QED
    BY <2>3, <2>4
<1>11. ASSUME NEW r \in LinkReqs, ClaimInvite(r) PROVE LinksInv'
  <2>0. PICK i \in Invites : i = linkArg[r]
    BY <1>11, <1>a DEF ClaimInvite, ArgsFit
  <2>1. i \in Invites /\ invite[i] # NULL /\ invite[i] \in InviteRow
    BY <1>11, <1>t, <1>a, <2>0 DEF ClaimInvite, ArgsFit, LinksTypeOK
  <2>2. CASE ~invite[i].open
    <3>1. Stop(r) /\ UNCHANGED invite
      BY <1>11, <2>0, <2>2 DEF ClaimInvite
    <3>2. LinksTypeOK'
      BY <1>11, <1>t, <3>1 DEF ClaimInvite, LinksTypeOK, Stop, Go
    <3> QED
      BY <1>11, <1>a, <3>1, <3>2, MoveOn DEF ClaimInvite, Stop, LinkRows, ArgsFit
  <2>3. CASE invite[i].open
    <3> DEFINE w == [invite[i] EXCEPT !.open = FALSE]
    <3>1. Go(r, "finalize", i)
      BY <1>11, <2>0, <2>3 DEF ClaimInvite
    <3>2. invite' = [invite EXCEPT ![i] = w]
      BY <1>11, <2>0, <2>3 DEF ClaimInvite
    <3>3. w \in InviteRow /\ ~w.open /\ w.wrong = invite[i].wrong
      BY <2>1, ClosedInvite
    <3> HIDE DEF w
    <3>4. invite'[i] = w /\ \A k \in Invites \ {i} : invite'[k] = invite[k]
      BY <1>t, <2>1, <3>2 DEF LinksTypeOK
    <3>5. RowsStay /\ Rationed'
      BY <1>11, <1>a, <2>1, <3>3, <3>4, LinksAssumption DEF ClaimInvite, RowsStay, Rationed
    <3>6. LinksTypeOK'
      BY <1>11, <1>t, <2>1, <3>1, <3>2, <3>3 DEF ClaimInvite, LinksTypeOK, Go
    <3>7. ArgsFit'
      BY <1>11, <2>1, <3>1, <3>3, <3>4, <3>5, ArgsStay, LinksAssumption DEF ClaimInvite
    <3>8. ~InviteClosed(i) /\ InviteClosed(i)' /\ LinkClosed(i)'
      BY <2>1, <2>3, <3>3, <3>4, LinksAssumption DEF LinkClosed, InviteClosed
    <3> QED
      BY <1>11, <2>1, <3>1, <3>5, <3>6, <3>7, <3>8, ClaimStep DEF ClaimInvite
  <2> QED
    BY <2>2, <2>3
<1>12. ASSUME NEW r \in LinkReqs, finalizeInviteConsumption(r) PROVE LinksInv'
  <2>1. linkArg[r] \in Invites /\ Redeeming(r, linkArg[r]) /\ Resumed(r, linkArg[r])
    BY <1>12, <1>a DEF finalizeInviteConsumption, ArgsFit, Redeeming, Resumed
  <2>2. CASE hasAccount
    <3>1. Go(r, "set", linkArg[r]) /\ UNCHANGED <<hasAccount, isActive, uses>>
      BY <1>12, <2>2 DEF finalizeInviteConsumption
    <3>2. LinksTypeOK'
      BY <1>12, <1>t, <3>1 DEF finalizeInviteConsumption, LinksTypeOK, Go
    <3> QED
      BY <1>12, <1>a, <2>1, <3>1, <3>2, MoveOn DEF finalizeInviteConsumption, LinkRows, ArgsFit
  <2>3. CASE ~hasAccount
    <3>1. Stop(r) /\ hasAccount' = TRUE /\ isActive' = TRUE /\ uses' = [uses EXCEPT ![linkArg[r]] = @ + 1]
      BY <1>12, <2>3 DEF finalizeInviteConsumption
    <3>2. LinksTypeOK'
      BY <1>12, <1>t, <2>1, <3>1 DEF finalizeInviteConsumption, LinksTypeOK, Stop, Go
    <3>3. RowsStay /\ Rationed'
      BY <1>12, <1>a DEF finalizeInviteConsumption, RowsStay, Rationed
    <3>4. ArgsFit'
      BY <1>12, <3>1, <3>3, ArgsStay DEF finalizeInviteConsumption, Stop
    <3> QED
      BY <2>1, <3>1, <3>2, <3>3, <3>4, UseStep
  <2> QED
    BY <2>2, <2>3
<1>13. ASSUME NEW r \in LinkReqs, deactivate(r) PROVE LinksInv'
  <2>1. LinksTypeOK'
    BY <1>t, <1>13 DEF LinksTypeOK, deactivate, Go
  <2> QED
    BY <1>13, <2>1, <1>a, MoveOn DEF deactivate, LinkRows, ArgsFit
<1>14. ASSUME NEW r \in LinkReqs, KillLinks(r) PROVE LinksInv'
  <2>1. RowsStay /\ Rationed' /\ link' \in [Links -> LinkRow \cup {NULL}]
    BY <1>14, <1>c, <1>live DEF KillLinks
  <2>2. LinksTypeOK'
    BY <1>t, <1>14, <2>1 DEF LinksTypeOK, KillLinks, Stop, Go
  <2> QED
    BY <1>14, <2>1, <2>2, RowsChange DEF KillLinks
<1>15. ASSUME NEW r \in LinkReqs, reactivate(r) PROVE LinksInv'
  <2>1. LinksTypeOK'
    BY <1>t, <1>15 DEF LinksTypeOK, reactivate
  <2>2. RowsStay /\ Rationed'
    BY <1>15, <1>a DEF reactivate, RowsStay, Rationed
  <2> QED
    BY <1>15, <2>1, <2>2, RowsChange DEF reactivate
<1>16. ASSUME NEW r \in LinkReqs, LinkFail(r) PROVE LinksInv'
  <2>1. LinksTypeOK'
    BY <1>t, <1>16 DEF LinksTypeOK, LinkFail, Stop, Go
  <2>2. taking'[r] = {} /\ \A o \in LinkReqs \ {r} : taking'[o] = taking[o]
    BY <1>t, <1>16 DEF LinkFail, LinksTypeOK
  <2> QED
    BY <1>16, <2>1, <2>2, MoveOn DEF LinkFail, Stop, LinkRows
<1>17. ASSUME NEW r \in LinkReqs, NEW l \in Links, IssueCreate(r, l) PROVE LinksInv'
  <2>1. RowsStay /\ Rationed' /\ link' \in [Links -> LinkRow \cup {NULL}]
    BY <1>17, <1>n, <1>live DEF IssueCreate
  <2>2. Stop(r)
    BY <1>17 DEF IssueCreate, NewLink
  <2>3. LinksTypeOK'
    BY <1>t, <1>17, <2>1, <2>2 DEF LinksTypeOK, IssueCreate, Stop, Go
  <2> QED
    BY <1>17, <2>1, <2>2, <2>3, RowsChange DEF IssueCreate
<1>18. ASSUME NEW r \in LinkReqs, NEW l \in Links, ResetProcessor(r, l) PROVE LinksInv'
  <2>1. Stop(r)
    BY <1>18 DEF ResetProcessor, NewLink
  <2>2. RowsStay /\ Rationed' /\ link' \in [Links -> LinkRow \cup {NULL}]
    <3>1. CASE isActive
      <4>1. NewLink(r, l, {}, FALSE) /\ UNCHANGED invite
        BY <1>18, <3>1 DEF ResetProcessor
      <4>2. {} \in SUBSET Links /\ \A k \in {} : link[k] # NULL
        OBVIOUS
      <4> QED
        BY <1>n, <4>1, <4>2
    <3>2. CASE ~isActive
      BY <1>18, <1>t, <1>a, <3>2 DEF ResetProcessor, RowsStay, Rationed, LinksTypeOK
    <3> QED
      BY <3>1, <3>2
  <2>3. LinksTypeOK'
    BY <1>t, <1>18, <2>1, <2>2 DEF LinksTypeOK, ResetProcessor, Stop, Go
  <2> QED
    BY <1>18, <2>1, <2>2, <2>3, RowsChange DEF ResetProcessor
<1>19. ASSUME NEW r \in LinkReqs, NEW l \in Links, confirmPasswordReset(r, l) PROVE LinksInv'
  <2>1. LinksTypeOK'
    BY <1>t, <1>19 DEF LinksTypeOK, confirmPasswordReset, Go
  <2> QED
    BY <1>19, <2>1, <1>a, MoveOn DEF confirmPasswordReset, LinkRows, ArgsFit
<1>20. ASSUME NEW r \in LinkReqs, NEW i \in Invites, NEW right \in BOOLEAN, consumeInvite(r, i, right)
       PROVE  LinksInv'
  <2>1. LinksTypeOK'
    BY <1>t, <1>20 DEF LinksTypeOK, consumeInvite, Go
  <2>2. PICK label \in {"mismatch", "claimInvite"} : Go(r, label, i)
    BY <1>20 DEF consumeInvite
  <2> QED
    BY <1>20, <2>1, <2>2, <1>a, MoveOn DEF consumeInvite, LinkRows, ArgsFit
<1>21. ASSUME NEW i \in Invites, sendInvite(i) PROVE LinksInv'
  <2>1. [open |-> TRUE, wrong |-> 0] \in InviteRow
    BY DEF InviteRow
  <2>2. invite[i] = NULL /\ invite'[i] = [open |-> TRUE, wrong |-> 0] /\ \A k \in Invites \ {i} : invite'[k] = invite[k]
    BY <1>t, <1>21 DEF sendInvite, LinksTypeOK
  <2>3. LinksTypeOK'
    BY <1>t, <1>21, <2>1 DEF LinksTypeOK, sendInvite
  <2>4. RowsStay
    BY <1>21, <2>2 DEF sendInvite, RowsStay
  <2>5. Rationed'
    BY <1>a, <2>2, LinksAssumption DEF Rationed
  <2>6. ArgsFit'
    BY <1>a, <1>t, <1>21, <2>4 DEF ArgsFit, sendInvite, RowsStay, LinksTypeOK
  <2>7. \A o \in LinkReqs : \A y \in Links \cup Invites : Redeeming(o, y)' => Redeeming(o, y)
    BY <1>21 DEF sendInvite, Redeeming
  <2> QED
    BY <1>21, <2>3, <2>4, <2>5, <2>6, <2>7, QuietStep DEF sendInvite
<1>22. ASSUME NEW l \in Links, LinkExpires(l) PROVE LinksInv'
  <2> DEFINE w == [link[l] EXCEPT !.state = "EXPIRED"]
  <2>1. link[l] # NULL /\ link[l].state = "LIVE" /\ link[l] \in LinkRow
    BY <1>t, <1>22 DEF LinkExpires, LiveLinks, LinksTypeOK
  <2>2. w \in LinkRow
    BY <2>1, ClosedRow DEF LinkState
  <2>3. link' = [link EXCEPT ![l] = w]
    BY <1>22 DEF LinkExpires
  <2> HIDE DEF w
  <2>4. link'[l] = w /\ \A k \in Links \ {l} : link'[k] = link[k]
    BY <1>t, <2>3 DEF LinksTypeOK
  <2>5. LinksTypeOK'
    BY <1>t, <1>22, <2>2, <2>3 DEF LinksTypeOK, LinkExpires
  <2>6. RowsStay /\ Rationed'
    BY <1>a, <1>22, <2>1, <2>2, <2>4, LinksAssumption DEF LinkExpires, RowsStay, Rationed
  <2>7. ArgsFit'
    BY <1>a, <1>t, <1>22, <2>6 DEF ArgsFit, LinkExpires, RowsStay, LinksTypeOK
  <2>8. \A o \in LinkReqs : \A y \in Links \cup Invites : Redeeming(o, y)' => Redeeming(o, y)
    BY <1>22 DEF LinkExpires, Redeeming
  <2> QED
    BY <1>22, <2>5, <2>6, <2>7, <2>8, QuietStep DEF LinkExpires
<1> QED
  BY <1>u, <1>1, <1>2, <1>3, <1>4, <1>5, <1>6, <1>7, <1>8, <1>9, <1>10, <1>11, <1>12, <1>13, <1>14,
     <1>15, <1>16, <1>17, <1>18, <1>19, <1>20, <1>21, <1>22 DEF LinksNext

\* A reset link and an invitation set a password at most once and are closed to
\* everybody else before they do, however many requests redeem them at once
\* (confirmPasswordReset, consumeInvite).
THEOREM RedeemedOnceHolds == LinksSpec => []RedeemedOnce
<1>1. LinksInit => LinksInv
  BY LinksInitOK
<1>2. LinksInv /\ [LinksNext]_linkVars => LinksInv'
  BY LinksStep
<1>3. LinksInv => RedeemedOnce
  BY RedeemedOnceFollows
<1> QED
  BY <1>1, <1>2, <1>3, PTL DEF LinksSpec

-----------------------------------------------------------------------------
(* Live links are current.  The job that answers a request from the        *)
(* sign-in page takes no lock, so the argument is for schedules in which   *)
(* it does not overlap another request.                                    *)

\* The user's row belongs to the transaction that works on it; the job is alone.
LockInv ==
    /\ \A r \in LinkReqs : step[r] = "self" => \A o \in LinkReqs \ {r} : step[o] = "idle"
    /\ \A r \in LinkReqs : step[r] \in {"create", "consume", "commit"} => rowLock = r

\* No live link predates the password, and a password about to be committed has
\* every live link in hand.
CurrentInv ==
    /\ \A l \in LiveLinks : link[l].at = changes
    /\ \A l, k \in LiveLinks : link[l].admin /\ link[k].admin => l = k
    /\ \A r \in LinkReqs : step[r] = "commit" => LiveLinks \subseteq taking[r]

\* A request of r that goes on to a label outside the transactions disturbs no lock.
LEMMA LockMove ==
    ASSUME LinksTypeOK, LockInv, NEW r \in LinkReqs, NEW label, NEW x, Go(r, label, x),
           label \in {"create", "consume", "commit"} => rowLock' = r,
           step[r] = "idle" => \A o \in LinkReqs : step[o] # "self",
           label = "self" => \A o \in LinkReqs : step[o] = "idle",
           rowLock' = rowLock \/ rowLock = NULL \/ rowLock = r
    PROVE  LockInv'
<1>1. step'[r] = label /\ \A o \in LinkReqs \ {r} : step'[o] = step[o]
  BY DEF Go, LinksTypeOK
<1>2. ASSUME NEW o \in LinkReqs, step'[o] = "self"
      PROVE  \A p \in LinkReqs \ {o} : step'[p] = "idle"
  <2>1. CASE o = r
    BY <1>1, <1>2, <2>1
  <2>2. CASE o # r
    BY <1>1, <1>2, <2>2 DEF LockInv
  <2> QED
    BY <2>1, <2>2
<1>3. ASSUME NEW o \in LinkReqs, step'[o] \in {"create", "consume", "commit"}
      PROVE  rowLock' = o
  <2>1. CASE o = r
    BY <1>1, <1>3, <2>1
  <2>2. CASE o # r
    BY <1>1, <1>3, <2>2, LinksAssumption DEF LockInv
  <2> QED
    BY <2>1, <2>2
<1> QED
  BY <1>2, <1>3 DEF LockInv

LEMMA IssueLockStep ==
    ASSUME "self" \notin LinkTogether, LinksInv, LockInv, [LinksNext]_linkVars
    PROVE  LockInv'
<1>t. LinksTypeOK /\ NULL \notin LinkReqs
  BY LinksAssumption DEF LinksInv
<1>m. ASSUME NEW r \in LinkReqs, NEW op, MayStart(r, op)
      PROVE  /\ step[r] = "idle" /\ \A o \in LinkReqs : step[o] # "self"
             /\ op = "self" => \A o \in LinkReqs : step[o] = "idle"
  BY <1>m DEF MayStart, Busy
<1>1. ASSUME NEW r \in LinkReqs,
             issueReset(r) \/ changePassword(r) \/ deactivate(r) \/ reactivate(r)
      PROVE  LockInv'
  <2>1. CASE issueReset(r)
    BY <1>t, <1>m, <2>1, LockMove DEF issueReset
  <2>2. CASE changePassword(r)
    BY <1>t, <1>m, <2>2, LockMove DEF changePassword
  <2>3. CASE deactivate(r)
    BY <1>t, <1>m, <2>3, LockMove DEF deactivate
  <2>4. CASE reactivate(r)
    BY <2>4 DEF reactivate, LockInv
  <2> QED
    BY <1>1, <2>1, <2>2, <2>3, <2>4
<1>2. ASSUME NEW r \in LinkReqs, requestPasswordReset(r) PROVE LockInv'
  BY <1>t, <1>m, <1>2, LockMove DEF requestPasswordReset
<1>3. ASSUME NEW r \in LinkReqs, IssueLock(r) PROVE LockInv'
  BY <1>t, <1>3, LockMove DEF IssueLock, RowFree
<1>4. ASSUME NEW r \in LinkReqs, SetPassword(r) PROVE LockInv'
  BY <1>t, <1>4, LockMove DEF SetPassword
<1>5. ASSUME NEW r \in LinkReqs, consumeResetLinks(r) PROVE LockInv'
  BY <1>t, <1>5, LockMove DEF consumeResetLinks, LockInv
<1>6. ASSUME NEW r \in LinkReqs, CommitPassword(r) PROVE LockInv'
  BY <1>t, <1>6, LockMove DEF CommitPassword, Stop, LockInv
<1>7. ASSUME NEW r \in LinkReqs, Claim(r) PROVE LockInv'
  BY <1>t, <1>7, LockMove DEF Claim, Stop
<1>8. ASSUME NEW r \in LinkReqs, WritePassword(r) PROVE LockInv'
  BY <1>t, <1>8, LockMove DEF WritePassword, Stop
<1>9. ASSUME NEW r \in LinkReqs, Mismatch(r) \/ ClaimInvite(r) PROVE LockInv'
  BY <1>t, <1>9, LockMove DEF Mismatch, ClaimInvite, Stop
<1>10. ASSUME NEW r \in LinkReqs, finalizeInviteConsumption(r) PROVE LockInv'
  BY <1>t, <1>10, LockMove DEF finalizeInviteConsumption, Stop
<1>11. ASSUME NEW r \in LinkReqs, KillLinks(r) PROVE LockInv'
  BY <1>t, <1>11, LockMove DEF KillLinks, Stop
<1>12. ASSUME NEW r \in LinkReqs, LinkFail(r) PROVE LockInv'
  BY <1>t, <1>12, LockMove DEF LinkFail, Stop
<1>13. ASSUME NEW r \in LinkReqs, NEW l \in Links, IssueCreate(r, l) PROVE LockInv'
  BY <1>t, <1>13, LockMove DEF IssueCreate, NewLink, Stop, LockInv
<1>14. ASSUME NEW r \in LinkReqs, NEW l \in Links, ResetProcessor(r, l) PROVE LockInv'
  BY <1>t, <1>14, LockMove DEF ResetProcessor, NewLink, Stop
<1>15. ASSUME NEW r \in LinkReqs, NEW l \in Links, confirmPasswordReset(r, l) PROVE LockInv'
  BY <1>t, <1>m, <1>15, LockMove DEF confirmPasswordReset
<1>16. ASSUME NEW r \in LinkReqs, NEW i \in Invites, NEW right \in BOOLEAN, consumeInvite(r, i, right)
       PROVE  LockInv'
  BY <1>t, <1>m, <1>16, LockMove DEF consumeInvite
<1>17. CASE \/ UNCHANGED linkVars
            \/ \E i \in Invites : sendInvite(i)
            \/ \E l \in Links : LinkExpires(l)
  BY <1>17 DEF linkVars, sendInvite, LinkExpires, LockInv
<1> QED
  BY <1>1, <1>2, <1>3, <1>4, <1>5, <1>6, <1>7, <1>8, <1>9, <1>10, <1>11, <1>12, <1>13, <1>14,
     <1>15, <1>16, <1>17 DEF LinksNext

\* Steps after which every live link was one before, and untouched.
LEMMA ShrinkStep ==
    ASSUME CurrentInv, \A l \in LiveLinks' : l \in LiveLinks /\ link'[l] = link[l],
           changes' = changes \/ LiveLinks' = {},
           \A r \in LinkReqs : step'[r] = "commit" =>
              (step[r] = "commit" /\ taking'[r] = taking[r]) \/ LiveLinks \subseteq taking'[r]
    PROVE  CurrentInv'
  BY DEF CurrentInv

\* Consuming links leaves no new live one and none of these.
LEMMA ConsumedLive ==
    ASSUME LinksTypeOK, NEW ls \in SUBSET Links, \A l \in ls : link[l] # NULL,
           link' = Consumed(ls)
    PROVE  \A l \in LiveLinks' : l \in LiveLinks \ ls /\ link'[l] = link[l]
<1> SUFFICES ASSUME NEW l \in Links, link'[l] # NULL, link'[l].state = "LIVE"
             PROVE  l \in LiveLinks \ ls /\ link'[l] = link[l]
  BY DEF LiveLinks
<1>1. CASE l \in ls
  <2>1. link'[l] = [link[l] EXCEPT !.state = "CONSUMED"]
    BY <1>1 DEF Consumed
  <2>2. link[l] \in LinkRow /\ "CONSUMED" \in LinkState
    BY <1>1 DEF LinksTypeOK, LinkState
  <2>3. link'[l].state = "CONSUMED"
    BY <2>1, <2>2, ClosedRow
  <2> QED
    BY <2>3
<1>2. CASE l \notin ls
  BY <1>2 DEF Consumed, LiveLinks
<1> QED
  BY <1>1, <1>2

\* A new link after consuming ls.
LEMMA NewLinkLive ==
    ASSUME LinksTypeOK, NEW l \in Links, NEW ls \in SUBSET Links, NEW row,
           \A k \in ls : link[k] # NULL, link' = [Consumed(ls) EXCEPT ![l] = row]
    PROVE  /\ \A k \in LiveLinks' : k # l => k \in LiveLinks \ ls /\ link'[k] = link[k]
           /\ link'[l] = row
<1>1. Consumed(ls) \in [Links -> LinkRow \cup {NULL}]
  BY ConsumedRows
<1>3. link'[l] = row /\ \A k \in Links \ {l} : link'[k] = Consumed(ls)[k]
  BY <1>1
<1>4. ASSUME NEW k \in LiveLinks', k # l PROVE k \in LiveLinks \ ls /\ link'[k] = link[k]
  <2>1. k \in Links /\ link'[k] # NULL /\ link'[k].state = "LIVE" /\ link'[k] = Consumed(ls)[k]
    BY <1>3, <1>4 DEF LiveLinks
  <2>2. CASE k \in ls
    <3>1. link'[k] = [link[k] EXCEPT !.state = "CONSUMED"]
      BY <2>1, <2>2 DEF Consumed
    <3>2. link[k] \in LinkRow /\ "CONSUMED" \in LinkState
      BY <2>2 DEF LinksTypeOK, LinkState
    <3>3. link'[k].state = "CONSUMED"
      BY <3>1, <3>2, ClosedRow
    <3> QED
      BY <2>1, <3>3
  <2>3. CASE k \notin ls
    BY <2>1, <2>3 DEF Consumed, LiveLinks
  <2> QED
    BY <2>2, <2>3
<1> QED
  BY <1>3, <1>4

LEMMA CurrentStep ==
    ASSUME "self" \notin LinkTogether, LinksInv, LockInv, CurrentInv, [LinksNext]_linkVars
    PROVE  CurrentInv'
<1>t. LinksTypeOK
  BY DEF LinksInv
<1>live. LiveLinks \in SUBSET Links /\ \A l \in LiveLinks : link[l] # NULL
  BY DEF LiveLinks
<1>same. ASSUME UNCHANGED <<link, changes, taking>>, NEW r \in LinkReqs, NEW label, NEW x,
                Go(r, label, x), label # "commit"
         PROVE  CurrentInv'
  <2>1. \A o \in LinkReqs : step'[o] = "commit" => step[o] = "commit"
    BY <1>t, <1>same DEF Go, LinksTypeOK
  <2>2. LiveLinks' = LiveLinks
    BY <1>same DEF LiveLinks
  <2> QED
    BY <1>same, <2>1, <2>2 DEF CurrentInv
<1>1. ASSUME NEW r \in LinkReqs, \/ issueReset(r) \/ requestPasswordReset(r) \/ IssueLock(r)
                                 \/ changePassword(r) \/ SetPassword(r) \/ deactivate(r)
      PROVE  CurrentInv'
  BY <1>1, <1>same DEF issueReset, requestPasswordReset, IssueLock, changePassword, SetPassword, deactivate
<1>2. ASSUME NEW r \in LinkReqs, \/ WritePassword(r) \/ Mismatch(r) \/ ClaimInvite(r)
                                 \/ finalizeInviteConsumption(r)
      PROVE  CurrentInv'
  BY <1>2, <1>same DEF WritePassword, Mismatch, ClaimInvite, finalizeInviteConsumption, Stop
<1>3. ASSUME NEW r \in LinkReqs, NEW l \in Links, confirmPasswordReset(r, l) PROVE CurrentInv'
  BY <1>3, <1>same DEF confirmPasswordReset
<1>4. ASSUME NEW r \in LinkReqs, NEW i \in Invites, NEW right \in BOOLEAN, consumeInvite(r, i, right)
      PROVE  CurrentInv'
  BY <1>4, <1>same DEF consumeInvite
<1>5. CASE \/ UNCHANGED linkVars
           \/ \E i \in Invites : sendInvite(i)
           \/ \E r \in LinkReqs : reactivate(r)
  BY <1>5 DEF linkVars, sendInvite, reactivate, CurrentInv, LiveLinks
<1>6. ASSUME NEW r \in LinkReqs, consumeResetLinks(r) PROVE CurrentInv'
  <2>1. taking'[r] = LiveLinks /\ \A o \in LinkReqs \ {r} : taking'[o] = taking[o] /\ step'[o] = step[o]
    BY <1>t, <1>6 DEF consumeResetLinks, Go, LinksTypeOK
  <2>2. LiveLinks' = LiveLinks
    BY <1>6 DEF consumeResetLinks, LiveLinks
  <2> QED
    BY <1>6, <2>1, <2>2 DEF CurrentInv, consumeResetLinks
<1>7. ASSUME NEW r \in LinkReqs, CommitPassword(r) PROVE CurrentInv'
  <2>1. LiveLinks \subseteq taking[r] /\ taking[r] \in SUBSET Links /\ \A l \in taking[r] : link[l] # NULL
    BY <1>t, <1>7 DEF CommitPassword, CurrentInv, LinksInv, ArgsFit, LinksTypeOK
  <2>2. LiveLinks' = {}
    BY <1>t, <1>7, <2>1, ConsumedLive DEF CommitPassword
  <2> QED
    BY <2>2 DEF CurrentInv
<1>8. ASSUME NEW r \in LinkReqs, Claim(r) PROVE CurrentInv'
  <2> DEFINE l == linkArg[r]
  <2>0. l \in Links /\ link[l] \in LinkRow
    BY <1>t, <1>8 DEF Claim, LinksInv, ArgsFit, LinksTypeOK
  <2>1. CASE link[l].state = "CONSUMED"
    BY <1>8, <2>1, <1>same DEF Claim, Stop
  <2>2. CASE link[l].state # "CONSUMED"
    <3>1. link' = [link EXCEPT ![l] = [link[l] EXCEPT !.state = "CONSUMED"]]
      BY <1>8, <2>2 DEF Claim
    <3>2. [link[l] EXCEPT !.state = "CONSUMED"].state = "CONSUMED"
      BY <2>0, ClosedRow DEF LinkState
    <3>3. link'[l].state = "CONSUMED" /\ \A k \in Links \ {l} : link'[k] = link[k]
      BY <1>t, <2>0, <3>1, <3>2 DEF LinksTypeOK
    <3>4. \A k \in LiveLinks' : k \in LiveLinks /\ link'[k] = link[k]
      BY <3>3 DEF LiveLinks
    <3>5. \A o \in LinkReqs : step'[o] = "commit" => step[o] = "commit" /\ taking'[o] = taking[o]
      BY <1>t, <1>8, <2>2 DEF Claim, Go, LinksTypeOK
    <3> QED
      BY <1>8, <3>4, <3>5, ShrinkStep DEF Claim
  <2> QED
    BY <2>1, <2>2
<1>9. ASSUME NEW r \in LinkReqs, KillLinks(r) PROVE CurrentInv'
  <2>1. \A l \in LiveLinks' : l \in LiveLinks /\ link'[l] = link[l]
    BY <1>t, <1>live, <1>9, ConsumedLive DEF KillLinks
  <2>2. \A o \in LinkReqs : step'[o] = "commit" => step[o] = "commit" /\ taking'[o] = taking[o]
    BY <1>t, <1>9 DEF KillLinks, Stop, Go, LinksTypeOK
  <2> QED
    BY <1>9, <2>1, <2>2, ShrinkStep DEF KillLinks
<1>10. ASSUME NEW r \in LinkReqs, LinkFail(r) PROVE CurrentInv'
  <2>1. LiveLinks' = LiveLinks /\ link' = link /\ changes' = changes
    BY <1>10 DEF LinkFail, LiveLinks
  <2>2. \A o \in LinkReqs : step'[o] = "commit" => step[o] = "commit" /\ taking'[o] = taking[o]
    BY <1>t, <1>10 DEF LinkFail, Stop, Go, LinksTypeOK
  <2> QED
    BY <2>1, <2>2, ShrinkStep
<1>11. ASSUME NEW r \in LinkReqs, NEW l \in Links, IssueCreate(r, l) PROVE CurrentInv'
  <2> DEFINE row == [state |-> "LIVE", at |-> changes, admin |-> TRUE]
  <2>0. link' = [Consumed(LiveLinks) EXCEPT ![l] = row] /\ row.at = changes
    BY <1>11 DEF IssueCreate, NewLink
  <2> HIDE DEF row
  <2>1. (\A k \in LiveLinks' : k = l) /\ link'[l].at = changes
    <3>1. PICK ls \in SUBSET Links : ls = LiveLinks
      BY <1>live
    <3>2. /\ \A k \in LiveLinks' : k # l => k \in LiveLinks \ ls /\ link'[k] = link[k]
          /\ link'[l] = row
      <4>1. link' = [Consumed(ls) EXCEPT ![l] = row]
        BY <2>0, <3>1
      <4>2. \A k \in ls : link[k] # NULL
        BY <1>live, <3>1
      <4> QED
        BY <1>t, <4>1, <4>2, NewLinkLive
    <3> QED
      BY <2>0, <3>1, <3>2
  <2>2. changes' = changes
    BY <1>11 DEF IssueCreate
  <2>3. \A o \in LinkReqs : step'[o] # "commit"
    <3>1. step'[r] = "idle" /\ \A o \in LinkReqs \ {r} : step'[o] = step[o]
      BY <1>t, <1>11 DEF IssueCreate, NewLink, Stop, Go, LinksTypeOK
    <3>2. \A o \in LinkReqs \ {r} : step[o] # "commit"
      BY <1>11 DEF IssueCreate, LockInv
    <3> QED
      BY <3>1, <3>2
  <2> QED
    BY <2>1, <2>2, <2>3 DEF CurrentInv
<1>12. ASSUME NEW r \in LinkReqs, NEW l \in Links, ResetProcessor(r, l) PROVE CurrentInv'
  <2>1. step[r] = "self" /\ \A o \in LinkReqs \ {r} : step[o] = "idle"
    BY <1>12 DEF ResetProcessor, LockInv
  <2>2. CASE isActive
    <3>0. NewLink(r, l, {}, FALSE)
      BY <1>12, <2>2 DEF ResetProcessor
    <3> DEFINE row == [state |-> "LIVE", at |-> changes, admin |-> FALSE]
    <3>a. link' = [Consumed({}) EXCEPT ![l] = row] /\ row.at = changes /\ ~row.admin
      BY <3>0 DEF NewLink
    <3> HIDE DEF row
    <3>1. /\ \A k \in LiveLinks' : k # l => k \in LiveLinks /\ link'[k] = link[k]
          /\ link'[l].at = changes /\ ~link'[l].admin
      BY <1>t, <3>a, NewLinkLive
    <3>2. changes' = changes
      BY <1>12 DEF ResetProcessor
    <3>3. \A o \in LinkReqs : step'[o] # "commit"
      BY <1>t, <2>1, <3>0 DEF NewLink, Stop, Go, LinksTypeOK
    <3> QED
      BY <3>1, <3>2, <3>3 DEF CurrentInv
  <2>3. CASE ~isActive
    BY <1>12, <2>3, <1>same DEF ResetProcessor, Stop
  <2> QED
    BY <2>2, <2>3
<1>13. ASSUME NEW l \in Links, LinkExpires(l) PROVE CurrentInv'
  <2>1. link' = [link EXCEPT ![l] = [link[l] EXCEPT !.state = "EXPIRED"]]
    BY <1>13 DEF LinkExpires
  <2>2. link[l] \in LinkRow
    BY <1>t, <1>13 DEF LinkExpires, LiveLinks, LinksTypeOK
  <2>3. [link[l] EXCEPT !.state = "EXPIRED"].state = "EXPIRED"
    BY <2>2, ClosedRow DEF LinkState
  <2>4. link'[l].state = "EXPIRED" /\ \A k \in Links \ {l} : link'[k] = link[k]
    BY <1>t, <2>1, <2>3 DEF LinksTypeOK
  <2>5. \A k \in LiveLinks' : k \in LiveLinks /\ link'[k] = link[k]
    BY <2>4 DEF LiveLinks
  <2> QED
    BY <1>13, <2>5, ShrinkStep DEF LinkExpires
<1> QED
  BY <1>1, <1>2, <1>3, <1>4, <1>5, <1>6, <1>7, <1>8, <1>9, <1>10, <1>11, <1>12, <1>13 DEF LinksNext

LEMMA CurrentFollows == CurrentInv => LinksAreCurrent
<1> SUFFICES ASSUME CurrentInv PROVE LinksAreCurrent
  OBVIOUS
<1> DEFINE A == {l \in LiveLinks : link[l].admin}
<1>1. \A l, k \in A : l = k
  BY DEF CurrentInv
<1>2. A = {} \/ \E l \in A : A = {l}
  BY <1>1
<1>3. Cardinality(A) <= 1
  BY <1>2, FS_EmptySet, FS_Singleton
<1> QED
  BY <1>3 DEF LinksAreCurrent, CurrentInv

\* As long as the sign-in page's reset job does not overlap another request, a live
\* link never predates the password set since and at most one link of an
\* administrator is live, however many requests issue, redeem, change, deactivate
\* and fail at once (consumeResetLinks under the row lock).
THEOREM LinksAreCurrentHolds ==
    ASSUME "self" \notin LinkTogether
    PROVE  LinksSpec => []LinksAreCurrent
<1>1. LinksInit => LinksInv /\ LockInv /\ CurrentInv
  BY LinksInitOK DEF LinksInit, LockInv, CurrentInv, LiveLinks
<1>2. LinksInv /\ [LinksNext]_linkVars => LinksInv'
  BY LinksStep
<1>3. LinksInv /\ LockInv /\ [LinksNext]_linkVars => LockInv'
  BY IssueLockStep
<1>4. LinksInv /\ LockInv /\ CurrentInv /\ [LinksNext]_linkVars => CurrentInv'
  BY CurrentStep
<1>5. CurrentInv => LinksAreCurrent
  BY CurrentFollows
<1> QED
  BY <1>1, <1>2, <1>3, <1>4, <1>5, PTL DEF LinksSpec
===============================================================================
