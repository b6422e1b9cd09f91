----------------------------- MODULE LeadPipeline -----------------------------
(***************************************************************************)
(* A lead (Inquiry) from intake to booking: its disposition, its stage,    *)
(* its owner, the history rows that every change leaves behind, and the    *)
(* company's lead stages.  A handler reads in one step and commits in      *)
(* another, because it decides on rows it does not lock.                   *)
(***************************************************************************)
EXTENDS Null, Naturals, FiniteSets

CONSTANTS Leads, Stages, Users, Bookings, LeadTxs,
          LeadOps,   \* operations that occur
          Together  \* operations that may overlap others of this set

Status == {"OPEN", "CONTINUED", "DUMPED", "SUCCESSFUL"}
ACTIVE_INQUIRY_STATUSES == {"OPEN", "CONTINUED"}

LeadRow == [status : Status, stage : Stages \cup {NULL}, owner : Users \cup {NULL},
            converted : BOOLEAN]

TrailRow == [stage : Stages \cup {NULL}, status : Status \cup {NULL}, owner : Users \cup {NULL},
             gaps : SUBSET {"stage", "status", "owner"}]

ASSUME LeadAssumption == NULL \notin LeadRow \cup TrailRow \cup Status \cup Stages \cup Users \cup Leads

VARIABLES
    lead,     \* inquiries: [status, stage, owner, converted], NULL if free
    trail,    \* per lead the "to" of the last row of its three histories, and the
              \* histories with a row that does not start where the one before ended
    stage,    \* lead_stages: [active, isDefault], NULL if free
    source,   \* bookings.source_inquiry_id
    leadReq   \* the handler under way on each connection

leadVars == <<lead, trail, stage, source, leadReq>>

LeadTypeOK ==
    /\ lead \in [Leads -> LeadRow \cup {NULL}]
    /\ trail \in [Leads -> TrailRow \cup {NULL}]
    /\ \A s \in Stages : stage[s] = NULL \/ stage[s] \in [active : BOOLEAN, isDefault : BOOLEAN]
    /\ source \in [Bookings -> Leads \cup {NULL}]

LeadInit ==
    /\ lead = [i \in Leads |-> NULL]
    /\ trail = [i \in Leads |-> NULL]
    /\ stage = [s \in Stages |-> NULL]
    /\ source = [b \in Bookings |-> NULL]
    /\ leadReq = [t \in LeadTxs |-> NULL]

-----------------------------------------------------------------------------
(* Histories.                                                              *)

\* writeStageTransition, writeDispositionTransition, inquiryAssignment.create:
\* a row "from -> to" on axis x of trail r.
Row(r, x, from, to) == [r EXCEPT ![x] = to, !.gaps = IF r[x] = from THEN @ ELSE @ \cup {x}]

StageRow(r, from, to) == IF to = NULL THEN r ELSE Row(r, "stage", from, to)

NoTrail == [stage |-> NULL, status |-> NULL, owner |-> NULL, gaps |-> {}]

-----------------------------------------------------------------------------
(* Intake.                                                                 *)

DefaultStage == IF \E s \in Stages : stage[s] # NULL /\ stage[s].isDefault
                THEN CHOOSE s \in Stages : stage[s] # NULL /\ stage[s].isDefault
                ELSE NULL

\* resolveInitialStage: the stage asked for, which must exist, or the default.
InitialStages(asked) == IF asked = NULL THEN {DefaultStage}
                        ELSE {s \in {asked} : stage[s] # NULL}

Quiet == leadReq = [t \in LeadTxs |-> NULL]

\* A new lead with its first rows; u is its owner or NULL.
Enter(i, s, u) ==
    /\ Quiet \/ "intake" \in Together
    /\ lead[i] = NULL
    /\ lead' = [lead EXCEPT ![i] =
                  [status |-> "OPEN", stage |-> s, owner |-> u, converted |-> FALSE]]
    /\ trail' = [trail EXCEPT ![i] =
                  LET a == StageRow(NoTrail, NULL, s)
                      b == Row(a, "status", NULL, "OPEN")
                  IN  IF u = NULL THEN b ELSE Row(b, "owner", NULL, u)]
    /\ UNCHANGED <<stage, source, leadReq>>

\* create: the creator keeps the lead, or the pool of its project (if it has
\* one) decides, as presalesCreatorRetainsLead says.
create(i, asked, by, retains, pool) ==
    /\ "intake" \in LeadOps
    /\ \E s \in InitialStages(asked) : Enter(i, s, IF retains THEN by ELSE pool)

\* createFromLead and a row of importInquiries: nobody asked, the pool decides.
createFromLead(i, pool) ==
    /\ "intake" \in LeadOps
    /\ Enter(i, DefaultStage, pool)

-----------------------------------------------------------------------------
(* Handlers in two steps.                                                  *)

Start(t, r) ==
    /\ leadReq[t] = NULL
    /\ r.op \in LeadOps
    /\ \A o \in LeadTxs : leadReq[o] # NULL => {r.op, leadReq[o].op} \subseteq Together
    /\ leadReq' = [leadReq EXCEPT ![t] = r]
    /\ UNCHANGED <<lead, trail, stage, source>>

Done(t) == leadReq' = [leadReq EXCEPT ![t] = NULL]

Request(op, i, st, s) == [op |-> op, lead |-> i, status |-> st, stage |-> s, seen |-> lead[i]]

\* update: findOne, the decisions on what it returned ...
update(t, i, st, s, hasReason) ==
    /\ lead[i] # NULL
    /\ st = "DUMPED" /\ lead[i].status # "DUMPED" => hasReason
    /\ Start(t, Request("update", i, st, s))

\* convertedAt is stamped on the way into SUCCESSFUL and cleared on the way out.
Converted(now, seen, st) ==
    IF st = NULL \/ st = seen.status THEN now
    ELSE IF st = "SUCCESSFUL" THEN TRUE
    ELSE IF seen.status = "SUCCESSFUL" THEN FALSE
    ELSE now

\* ... and its transaction, which writes what the request names.
UpdateCommit(t) ==
    LET r == leadReq[t]
        i == r.lead
        stageChanged == r.stage # NULL /\ r.stage # r.seen.stage
        statusChanged == r.status # NULL /\ r.status # r.seen.status
    IN  /\ r # NULL /\ r.op = "update"
        /\ stageChanged => stage[r.stage] # NULL
        /\ lead' = [lead EXCEPT ![i] =
              [status |-> IF r.status = NULL THEN @.status ELSE r.status,
               stage |-> IF r.stage = NULL THEN @.stage ELSE r.stage,
               owner |-> @.owner,
               converted |-> Converted(@.converted, r.seen, r.status)]]
        /\ trail' = [trail EXCEPT ![i] =
              LET a == IF stageChanged THEN StageRow(@, r.seen.stage, r.stage) ELSE @
              IN  IF statusChanged THEN Row(a, "status", r.seen.status, r.status) ELSE a]
        /\ Done(t)
        /\ UNCHANGED <<stage, source>>

\* FollowUpService.create: an active lead needs a next action.
followUp(t, i, hasNext) ==
    /\ lead[i] # NULL
    /\ lead[i].status \in ACTIVE_INQUIRY_STATUSES => hasNext
    /\ Start(t, Request("followUp", i, IF hasNext THEN "next" ELSE NULL, NULL))

\* The first next action makes an OPEN lead CONTINUED; no history row is written.
FollowUpCommit(t) ==
    LET r == leadReq[t]
    IN  /\ r # NULL /\ r.op = "followUp"
        /\ lead' = IF r.status = NULL THEN lead
                   ELSE [lead EXCEPT ![r.lead].status =
                            IF r.seen.status = "OPEN" THEN "CONTINUED" ELSE r.seen.status]
        /\ Done(t)
        /\ UNCHANGED <<trail, stage, source>>

\* The checks of attachBooking; the unique index repeats the second one later.
Linkable(i, b) == source[b] = NULL /\ \A c \in Bookings : source[c] # i

attachBooking(t, i, b) ==
    /\ lead[i] # NULL /\ lead[i].status # "DUMPED"
    /\ Linkable(i, b)
    /\ Start(t, [op |-> "attach", lead |-> i, booking |-> b, seen |-> lead[i]])

\* bookings_source_inquiry_id_key.
SourceIsUnique(i, b) == \A c \in Bookings \ {b} : source[c] # i

AttachCommit(t) ==
    LET r == leadReq[t]
        i == r.lead
    IN  /\ r # NULL /\ r.op = "attach"
        /\ SourceIsUnique(i, r.booking)
        /\ source' = [source EXCEPT ![r.booking] = i]
        /\ IF r.seen.status = "SUCCESSFUL" THEN UNCHANGED <<lead, trail>>
           ELSE /\ lead' = [lead EXCEPT ![i].status = "SUCCESSFUL", ![i].converted = TRUE]
                /\ trail' = [trail EXCEPT ![i] = Row(@, "status", r.seen.status, "SUCCESSFUL")]
        /\ Done(t)
        /\ UNCHANGED stage

\* assign: the lead and its new owner must both be among the users the caller sees.
assign(t, i, u, visible) ==
    /\ lead[i] # NULL
    /\ visible = Users \/ (lead[i].owner \in visible /\ u \in visible)
    /\ Start(t, [op |-> "assign", lead |-> i, user |-> u, seen |-> lead[i]])

AssignCommit(t) ==
    LET r == leadReq[t]
    IN  /\ r # NULL /\ r.op = "assign"
        /\ lead' = [lead EXCEPT ![r.lead].owner = r.user]
        /\ trail' = [trail EXCEPT ![r.lead] = Row(@, "owner", r.seen.owner, r.user)]
        /\ Done(t)
        /\ UNCHANGED <<stage, source>>

-----------------------------------------------------------------------------
(* Lead stages.                                                            *)

\* One default per company, by unique index: the others lose the flag first.
Undefault(s, default) ==
    [x \in Stages |-> IF stage[x] = NULL \/ x = s \/ ~default THEN stage[x]
                      ELSE [stage[x] EXCEPT !.isDefault = FALSE]]

createStage(s, active, default) ==
    /\ "stage" \in LeadOps
    /\ Quiet \/ "stage" \in Together
    /\ stage[s] = NULL
    /\ stage' = [Undefault(s, default) EXCEPT ![s] = [active |-> active, isDefault |-> default]]
    /\ UNCHANGED <<lead, trail, source, leadReq>>

\* LeadStageService.update: the default cannot be deactivated.
updateStage(t, s, active, default, target) ==
    /\ stage[s] # NULL
    /\ ~(stage[s].active /\ ~active /\ stage[s].isDefault)
    /\ Start(t, [op |-> "stage", stage |-> s, active |-> active, default |-> default,
                 target |-> target, seen |-> stage[s]])

Occupants(s) == {i \in Leads : /\ lead[i] # NULL /\ lead[i].stage = s
                               /\ lead[i].status \in ACTIVE_INQUIRY_STATUSES}

\* Fault: the leads of a retired stage move without a history row.
ReassignedSilently(s, to, moved) == trail

\* reassignOccupants: an administrative row for every lead it moves.
Reassigned(s, to, moved) ==
    [i \in Leads |-> IF i \in moved THEN Row(trail[i], "stage", s, to) ELSE trail[i]]

UpdateStageCommit(t) ==
    LET r == leadReq[t]
        s == r.stage
        moved == IF r.seen.active /\ ~r.active THEN Occupants(s) ELSE {}
    IN  /\ r # NULL /\ r.op = "stage"
        /\ moved # {} => r.target \in Stages \ {s} /\ stage[r.target] # NULL
        /\ lead' = [i \in Leads |-> IF i \in moved THEN [lead[i] EXCEPT !.stage = r.target]
                                    ELSE lead[i]]
        /\ trail' = Reassigned(s, r.target, moved)
        /\ stage' = [Undefault(s, r.default) EXCEPT ![s] =
                       [active |-> r.active, isDefault |-> r.default]]
        /\ Done(t)
        /\ UNCHANGED source

\* Any refusal or failure of a transaction leaves everything as it was.
Refuse(t) ==
    /\ leadReq[t] # NULL
    /\ Done(t)
    /\ UNCHANGED <<lead, trail, stage, source>>

LeadNext ==
    \/ \E i \in Leads, asked \in Stages \cup {NULL}, by \in Users, retains \in BOOLEAN,
          pool \in Users \cup {NULL} : create(i, asked, by, retains, pool)
    \/ \E i \in Leads, pool \in Users \cup {NULL} : createFromLead(i, pool)
    \/ \E s \in Stages, active, default \in BOOLEAN : createStage(s, active, default)
    \/ \E t \in LeadTxs :
        \/ \E i \in Leads, st \in Status \cup {NULL}, s \in Stages \cup {NULL},
              hasReason \in BOOLEAN : update(t, i, st, s, hasReason)
        \/ UpdateCommit(t)
        \/ \E i \in Leads, hasNext \in BOOLEAN : followUp(t, i, hasNext)
        \/ FollowUpCommit(t)
        \/ \E i \in Leads, b \in Bookings : attachBooking(t, i, b)
        \/ AttachCommit(t)
        \/ \E i \in Leads, u \in Users, visible \in SUBSET Users : assign(t, i, u, visible)
        \/ AssignCommit(t)
        \/ \E s \in Stages, active, default \in BOOLEAN, target \in Stages \cup {NULL} :
              updateStage(t, s, active, default, target)
        \/ UpdateStageCommit(t)
        \/ Refuse(t)

LeadSpec == LeadInit /\ [][LeadNext]_leadVars

-----------------------------------------------------------------------------
(* Properties.                                                             *)

\* The records about a lead agree, through edits, bookings, reassignment of a
\* retired stage's leads and manual assignment: the stage and owner histories end
\* where the lead is and every row of them starts where the one before ended
\* ("gap-free from row one", writeStageTransition); the lead counts as a conversion
\* (convertedAt) exactly while it is SUCCESSFUL; and two bookings never come from
\* one lead.
RecordsTellTheLead ==
    /\ \A i \in Leads : lead[i] # NULL =>
          /\ trail[i].stage = lead[i].stage
          /\ trail[i].owner = lead[i].owner
          /\ trail[i].gaps \subseteq {"status"}
          /\ lead[i].converted <=> lead[i].status = "SUCCESSFUL"
    /\ \A b, c \in Bookings : source[b] # NULL /\ source[b] = source[c] => b = c

\* Not kept by FollowUpService.create: the disposition history, "written on EVERY
\* status transition", ends in the lead's status.
DispositionHistoryIsComplete ==
    \A i \in Leads : lead[i] # NULL => 
        trail[i].status = lead[i].status /\ "status" \notin trail[i].gaps

\* Not kept (README.md, Known divergences): no active lead is in a stage that the
\* board does not show.
ActiveLeadsAreOnTheBoard ==
    \A s \in Stages : stage[s] # NULL /\ ~stage[s].active => Occupants(s) = {}
=============================================================================
