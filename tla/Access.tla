------------------------------ MODULE Access ------------------------------
(***************************************************************************)
(* Who reaches which handler: the seven system roles of                    *)
(* packages/shared/src/roles.ts and the chain of global guards that        *)
(* apps/api/src/app.module.ts registers in front of every handler.         *)
(*                                                                         *)
(* A token is [surface, portalId, permissions, csrf].  portalId is the     *)
(* account the token carries: "none", "customer" or "broker".  csrf is     *)
(* whether the request presents the cookie of that surface and repeats it  *)
(* in the header.  The version guard is module AuthzVersion's.             *)
(***************************************************************************)
EXTENDS Routes

CONSTANT Drift    \* keys an administrator may have added to a role

VARIABLES token,  \* the signed-in session's token, or NoToken
          reached \* the handlers it got through to

accVars == <<token, reached>>

----------------------------------------------------------------------------
salesManager ==
    PresalesKeys \cup {
        "admin.user.read", "admin.master.read", "admin.broker.read",
        "inventory.project.read", "inventory.tower.read", "inventory.unit.read",
        "inventory.unit.hold", "inventory.unit.book", "inventory.unit.export",
        "inventory.rate.read", "inventory.upload.read", "inventory.inventory-group.manage",
        "postsales.booking.read", "postsales.booking.create", "postsales.booking.update",
        "postsales.booking.allot", "postsales.booking.register", "postsales.booking.cancel",
        "postsales.noc.request", "postsales.plan.read", "postsales.plan.edit",
        "postsales.unit.read", "postsales.receipt.read", "postsales.transfer.read",
        "postsales.transfer.create", "postsales.tds.read", "postsales.document.read",
        "postsales.document.upload", "postsales.letter.read", "postsales.letter.generate",
        "postsales.dispatch.send", "postsales.dispatch.read", "reports.sales.view",
        "reports.collection.view", "reports.broker.view", "reports.applicant-ledger.view",
        "reports.birthday.view", "admin.change-request.approve", "admin.ticket.respond",
        "admin.portal-invite.send", "admin.construction-update.manage"}

salesExecutive ==
    {"admin.master.read", "inventory.project.read", "inventory.tower.read",
     "inventory.unit.read", "inventory.unit.hold", "inventory.rate.read",
     "inventory.upload.read", "presales.applicant.read", "presales.applicant.create",
     "presales.inquiry.read", "presales.inquiry.create", "presales.inquiry.update",
     "presales.follow-up.read", "presales.follow-up.create", "presales.follow-up.update",
     "presales.site-visit.read", "presales.site-visit.create", "presales.site-visit.update",
     "presales.communication.send", "presales.report.view", "postsales.booking.read",
     "postsales.unit.read", "postsales.document.read", "postsales.document.upload",
     "postsales.letter.read"}

accountsClerk ==
    AccountsKeys \cup {
        "admin.master.read", "postsales.booking.read", "postsales.plan.read",
        "postsales.plan.edit", "postsales.receipt.read", "postsales.receipt.create",
        "postsales.receipt.cancel", "postsales.cheque.verify",
        "postsales.extra-charge.create", "postsales.interest.waive", "postsales.tds.read",
        "postsales.tds.certificate", "postsales.refund.request", "postsales.refund.approve",
        "postsales.refund.pay", "postsales.demand.read", "postsales.demand.generate",
        "postsales.demand.raise", "postsales.letter.read", "postsales.letter.generate",
        "postsales.dispatch.send", "postsales.dispatch.read", "reports.collection.view",
        "reports.outstanding.view", "reports.gst.view", "reports.applicant-ledger.view"}

customerKeys ==
    PortalKeys \ {"portal.noc.action", "portal.broker.dashboard.read"}

brokerKeys ==
    {"portal.booking.read", "portal.receipt.read", "portal.document.read",
     "portal.payment-schedule.read", "portal.profile.update", "portal.ticket.create",
     "portal.ticket.read", "portal.noc.action", "portal.broker.dashboard.read"}

ROLE_PERMISSIONS ==
    [super_admin |-> PERMISSIONS, company_admin |-> StaffKeys,
     sales_manager |-> salesManager, sales_executive |-> salesExecutive,
     accounts |-> accountsClerk, customer |-> customerKeys, broker |-> brokerKeys]

SYSTEM_ROLES == DOMAIN ROLE_PERMISSIONS

PortalRoles == {"customer", "broker"}

----------------------------------------------------------------------------
(***************************************************************************)
(* The guards, in registration order.  A public handler has no user, so    *)
(* every guard lets it by.                                                 *)
(***************************************************************************)
TWO_FACTOR_PENDING == "auth.totp.verify"

(* Decided by the path alone: everything outside /api/v1/portal/ is staff. *)
routeSurface(r) == IF r.whose = "staff" THEN "staff" ELSE "portal"

tokenIsConsistent(t) == t.surface = "portal" <=> t.portalId # "none"

NoTwoFactorPendingGuard(t, r) == TRUE

TwoFactorPendingGuard(t, r) ==
    TWO_FACTOR_PENDING \in t.permissions => TWO_FACTOR_PENDING \in r.needs

SessionSurfaceGuard(t, r) == tokenIsConsistent(t) /\ routeSurface(r) = t.surface

CsrfGuard(t, r) == r.safe \/ t.csrf

PermissionsGuard(t, r) == r.needs \subseteq t.permissions

(* The handler's own refusal of the other kind of portal account. *)
RightAccount(t, r) == r.whose \in {"customer", "broker"} => t.portalId = r.whose

Answers(t, r) ==
    r.public \/ /\ TwoFactorPendingGuard(t, r)
                /\ SessionSurfaceGuard(t, r)
                /\ CsrfGuard(t, r)
                /\ PermissionsGuard(t, r)
                /\ RightAccount(t, r)

----------------------------------------------------------------------------
NoToken == [surface |-> "", portalId |-> "none", permissions |-> {}, csrf |-> FALSE]

AccInit == token = NoToken /\ reached = {}

(***************************************************************************)
(* login of either surface with a role as seeded or as an administrator    *)
(* has since extended it.  Two-factor accounts get a token with nothing    *)
(* but the pending marker.                                                 *)
(***************************************************************************)
login(role, extra, pending, csrf) ==
    /\ token = NoToken
    /\ token' = [surface |-> IF role \in PortalRoles THEN "portal" ELSE "staff",
                 portalId |-> IF role \in PortalRoles THEN role ELSE "none",
                 permissions |-> IF pending THEN {TWO_FACTOR_PENDING}
                                 ELSE ROLE_PERMISSIONS[role] \cup extra,
                 csrf |-> csrf]
    /\ UNCHANGED reached

request(r) ==
    /\ token # NoToken /\ Answers(token, r)
    /\ reached' = {r}
    /\ UNCHANGED token

logout ==
    /\ token # NoToken
    /\ token' = NoToken /\ reached' = {}

AccNext ==
    \/ \E role \in SYSTEM_ROLES, extra \in SUBSET Drift, pending, csrf \in BOOLEAN :
            login(role, extra, pending, csrf)
    \/ \E r \in Routes : request(r)
    \/ logout

AccSpec == AccInit /\ [][AccNext]_accVars

----------------------------------------------------------------------------
(***************************************************************************)
(* The staff/portal boundary and the second factor hold whatever keys a    *)
(* role has drifted to: a portal session gets through to no staff handler  *)
(* and to no handler of the other kind of portal account, a staff session  *)
(* to no portal handler, and a session whose second factor is pending to   *)
(* nothing but the handler that verifies it.  Handlers without             *)
(* @RequirePermissions are let by for any token that reaches the last      *)
(* guard, so this rests on the earlier guards of the chain.                *)
(***************************************************************************)
BoundaryHoldsUnderDrift ==
    \A r \in reached : ~r.public =>
        /\ r.whose = "staff" <=> token.portalId = "none"
        /\ r.whose \in PortalRoles => r.whose = token.portalId
        /\ token.permissions = {TWO_FACTOR_PENDING} => r.op = "verifyTotp"
============================================================================
