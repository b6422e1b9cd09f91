------------------------------- MODULE Tenancy -------------------------------
(***************************************************************************)
(* How a handler's queries are confined to its company and, for a portal   *)
(* session, to its own rows.  The request's identity travels in an         *)
(* AsyncLocalStorage store that any service may shadow for the calls it    *)
(* makes; a transaction copies it into settings of the pooled connection   *)
(* when it opens, and row-level security reads those settings.  The two    *)
(* are nested freely by services that do not know who calls them.          *)
(* Queries of the system client bypass all of this and are not here.       *)
(***************************************************************************)
EXTENDS Naturals, Sequences, Null

CONSTANTS TenantReqs, Conns, Companies,
          TenantSessions, \* [company, user, portal] of those who may call; portal: the
                       \* applicant or broker, NULL for staff
          Rows,        \* [company, owner, direct]; direct: of a PORTAL_SCOPED_MODEL
          MaxFrames    \* bound on nested calls

\* TenantStore: who is acting, NULL where not known.
TenantStore == [company : Companies, user : {s.user : s \in TenantSessions} \cup {NULL},
                portal : {s.portal : s \in TenantSessions} \cup {NULL}]

\* An open call: what it is, and the store that is current inside it.
Frame == [kind : {"store", "tx", "joined"}, store : TenantStore \cup {NULL}]

\* app.current_company and the portal's id on a connection.
Setting == [company : Companies, portal : {s.portal : s \in TenantSessions} \cup {NULL}]

\* A job of the system: no company, no user.
Job == [company |-> NULL, user |-> NULL, portal |-> NULL]

ASSUME TenancyAssumption ==
    /\ TenantSessions \subseteq TenantStore
    /\ NULL \notin Companies \cup Conns \cup TenantStore \cup Setting \cup {Job}

VARIABLES
    caller,     \* the session a request or job serves, NULL if idle
    frames,     \* its open calls, outermost first
    settings,   \* app.* of each connection: [company, portal], NULL outside a transaction
    heldConn,   \* the connection of its transaction
    lastRead,   \* what its last query returned
    unsaved,    \* actors of its uncommitted audit rows
    auditLog    \* committed audit rows: who acted, who is named

tenantVars == <<caller, frames, settings, heldConn, lastRead, unsaved, auditLog>>

TenancyTypeOK ==
    /\ caller \in [TenantReqs -> TenantSessions \cup {Job, NULL}]
    /\ frames \in [TenantReqs -> Seq(Frame)]
    /\ settings \in [Conns -> Setting \cup {NULL}]
    /\ heldConn \in [TenantReqs -> Conns \cup {NULL}]
    /\ lastRead \in [TenantReqs -> SUBSET Rows]
    /\ DOMAIN unsaved = TenantReqs

\* The bare { companyId } that services pass.
Store(c) == [company |-> c, user |-> NULL, portal |-> NULL]

TenancyInit ==
    /\ caller = [q \in TenantReqs |-> NULL]
    /\ frames = [q \in TenantReqs |-> <<>>]
    /\ settings = [k \in Conns |-> NULL]
    /\ heldConn = [q \in TenantReqs |-> NULL]
    /\ lastRead = [q \in TenantReqs |-> {}]
    /\ unsaved = [q \in TenantReqs |-> {}]
    /\ auditLog = {}

-----------------------------------------------------------------------------

Innermost(q) == frames[q][Len(frames[q])]

\* tenantContext.getStore(): the innermost store, NULL if there is none.
Ambient(q) == IF frames[q] = <<>> THEN NULL ELSE Innermost(q).store

\* tenantTxContext.getStore(): the company of the open transaction.
InTx(q) == heldConn[q] # NULL

Push(q, kind, s) == frames' = [frames EXCEPT ![q] = Append(@, [kind |-> kind, store |-> s])]

\* The companies a service is called with: the session's own, and any for a job.
Named(q) == IF caller[q] = Job THEN Companies ELSE {caller[q].company}

\* An exception unwinds every call; a transaction it leaves is rolled back.
Unwind(q) ==
    /\ caller' = [caller EXCEPT ![q] = NULL]
    /\ frames' = [frames EXCEPT ![q] = <<>>]
    /\ heldConn' = [heldConn EXCEPT ![q] = NULL]
    /\ settings' = [k \in Conns |-> IF k = heldConn[q] THEN NULL ELSE settings[k]]
    /\ lastRead' = [lastRead EXCEPT ![q] = {}]
    /\ unsaved' = [unsaved EXCEPT ![q] = {}]
    /\ UNCHANGED auditLog

\* TenantContextInterceptor wraps the handler in the session's store; a job has none.
serve(q, s) ==
    /\ caller[q] = NULL
    /\ caller' = [caller EXCEPT ![q] = s]
    /\ IF s = Job THEN UNCHANGED frames ELSE Push(q, "store", s)
    /\ UNCHANGED <<settings, heldConn, lastRead, unsaved, auditLog>>

\* Fault: an active portal scope may be shadowed.
WidensNothing(e, c) == FALSE

\* The refusal of runWithTenant: the same company, a portal scope around, and a
\* bare store to replace it.
Widens(e, c) == e # NULL /\ e.company = c /\ e.portal # NULL

\* Fault: a bare store shadows the actor.
Bare(e, c) == Store(c)

\* The store that takes over: the actor is kept within a company.
Effective(e, c) ==
    IF e # NULL /\ e.company = c THEN [company |-> c, user |-> e.user, portal |-> NULL] ELSE Store(c)

\* runWithTenant({ companyId }), as nearly every service calls it.
runWithTenant(q, c) ==
    /\ caller[q] # NULL /\ c \in Named(q)
    /\ Len(frames[q]) < MaxFrames
    /\ IF Widens(Ambient(q), c) THEN Unwind(q)
       ELSE /\ Push(q, "store", Effective(Ambient(q), c))
            /\ UNCHANGED <<caller, settings, heldConn, lastRead, unsaved, auditLog>>

\* runScoped keeps the store of the same company, otherwise it is runWithTenant.
runScoped(q, c) ==
    /\ caller[q] # NULL /\ c \in Named(q)
    /\ Len(frames[q]) < MaxFrames
    /\ LET e == Ambient(q) IN
       Push(q, "store", IF e # NULL /\ e.company = c THEN e ELSE Effective(e, c))
    /\ UNCHANGED <<caller, settings, heldConn, lastRead, unsaved, auditLog>>

\* withTenantTx opens a transaction on a free connection and writes all the
\* settings (setTenantOnTx) from the store around it; inside another one of the
\* same company it joins, of another company it throws.
withTenantTx(q, c, k) ==
    LET e == Ambient(q) IN
    /\ caller[q] # NULL /\ c \in Named(q)
    /\ Len(frames[q]) < MaxFrames
    /\ IF InTx(q)
       THEN /\ k = heldConn[q]
            /\ IF settings[k].company = c
               THEN /\ Push(q, "joined", e)
                    /\ UNCHANGED <<caller, settings, heldConn, lastRead, unsaved, auditLog>>
               ELSE Unwind(q)
       ELSE /\ \A o \in TenantReqs : heldConn[o] # k
            /\ Push(q, "tx", e)
            /\ heldConn' = [heldConn EXCEPT ![q] = k]
            /\ settings' = [settings EXCEPT ![k] =
                  [company |-> c, portal |-> IF e = NULL THEN NULL ELSE e.portal]]
            /\ UNCHANGED <<caller, lastRead, unsaved, auditLog>>

\* tenant_isolation_policy and the restrictive portal policies.
RlsAdmits(g, r) == r.company = g.company /\ (g.portal # NULL => r.owner = g.portal)

\* injectCompanyId and injectPortalScope add conditions from the store, the second
\* for models whose scope is a column of their own.
ExtensionAdmits(e, r) ==
    r.company = e.company /\ (e.portal # NULL /\ r.direct => r.owner = e.portal)

\* A query of the tenant client inside the transaction; without a store it throws.
query(q) ==
    LET e == Ambient(q) IN
    /\ caller[q] # NULL /\ InTx(q)
    /\ IF e = NULL THEN Unwind(q)
       ELSE /\ lastRead' = [lastRead EXCEPT ![q] =
                  {r \in Rows : RlsAdmits(settings[heldConn[q]], r) /\ ExtensionAdmits(e, r)}]
            /\ UNCHANGED <<caller, frames, settings, heldConn, unsaved, auditLog>>

\* A write to an audited model adds its audit row in the same transaction, naming
\* the user of the store (writeAuditRow).
write(q) ==
    LET e == Ambient(q) IN
    /\ caller[q] # NULL /\ InTx(q) /\ e # NULL
    /\ settings[heldConn[q]].company = e.company
    /\ unsaved' = [unsaved EXCEPT ![q] = @ \cup {[by |-> caller[q].user, named |-> e.user]}]
    /\ UNCHANGED <<caller, frames, settings, heldConn, lastRead, auditLog>>

\* The innermost call returns; if it opened the transaction, that commits and its
\* local settings go.
return(q) ==
    /\ frames[q] # <<>>
    /\ frames' = [frames EXCEPT ![q] = SubSeq(@, 1, Len(@) - 1)]
    /\ IF Innermost(q).kind = "tx"
       THEN /\ auditLog' = auditLog \cup unsaved[q]
            /\ unsaved' = [unsaved EXCEPT ![q] = {}]
            /\ settings' = [settings EXCEPT ![heldConn[q]] = NULL]
            /\ heldConn' = [heldConn EXCEPT ![q] = NULL]
       ELSE UNCHANGED <<auditLog, unsaved, settings, heldConn>>
    /\ lastRead' = [lastRead EXCEPT ![q] = {}]
    /\ caller' = IF Len(frames[q]) = 1 /\ caller[q] # Job THEN [caller EXCEPT ![q] = NULL] ELSE caller

\* A handler throws at any point.
throw(q) == caller[q] # NULL /\ Unwind(q)

TenancyNext ==
    \E q \in TenantReqs :
        \/ \E s \in TenantSessions \cup {Job} : serve(q, s)
        \/ \E c \in Companies : \/ runWithTenant(q, c) \/ runScoped(q, c)
                                \/ \E k \in Conns : withTenantTx(q, c, k)
        \/ query(q) \/ write(q) \/ return(q) \/ throw(q)

TenancySpec == TenancyInit /\ [][TenancyNext]_tenantVars

-----------------------------------------------------------------------------

\* However services nest runWithTenant, runScoped and withTenantTx, and whatever a
\* pooled connection was used for before, a session reads rows of its own company
\* only, and a portal session its own rows only.  A service must not be able to
\* widen a portal session by wrapping itself.
SessionsSeeTheirOwn ==
    \A q \in TenantReqs : \A r \in lastRead[q] : caller[q] # Job =>
        /\ r.company = caller[q].company
        /\ caller[q].portal # NULL => r.owner = caller[q].portal

\* Every committed audit row names the user whose request wrote it, and a job's
\* names nobody.
AuditNamesTheActor == \A a \in auditLog : a.named = a.by
=============================================================================
