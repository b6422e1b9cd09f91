------------------------------ MODULE Escalation ------------------------------
(***************************************************************************)
(* Overdue follow-ups: the tick that repeats every half hour, the job it   *)
(* queues for an active company, and the run that finds overdue leads,     *)
(* stamps them and writes to the managers.  Salespeople reschedule and     *)
(* close leads at any moment.                                              *)
(***************************************************************************)
EXTENDS Null, Naturals, FiniteSets

CONSTANTS Chased,       \* leads (inquiries)
          MaxTime,      \* bound: the clock
          MaxRunFailures \* bound: runs that fail or stop

Times == 0 .. MaxTime
Chase == [active : BOOLEAN, next : Times \cup {NULL}, last : Times \cup {NULL}]
Run == [now : Times, dates : [Chased -> Times \cup {NULL}], eligible : SUBSET Chased,
        step : {"read", "stamped"}]

ASSUME EscAssumption ==
    MaxTime \in Nat /\ MaxRunFailures \in Nat /\ NULL \notin Times \cup Run

VARIABLES
    chase,       \* inquiries: [active, next, last], next = next_followup_at,
                 \* last = last_escalated_at
    companyOn,   \* companies.is_active
    clockNow,    \* the clock
    queued,      \* a company-escalation job is in the queue
    running,     \* what the run under way read and how far it is, NULL if none
    notices,     \* notices about the current next_followup_at of each lead, which
                 \* is not program state
    unheard,     \* leads whose current next_followup_at was stamped by a run that
                 \* then reached nobody, which is not program state
    runFailures

escVars == <<chase, companyOn, clockNow, queued, running, notices, unheard, runFailures>>

EscTypeOK ==
    /\ chase \in [Chased -> Chase]
    /\ companyOn \in BOOLEAN /\ queued \in BOOLEAN
    /\ clockNow \in Times
    /\ running \in Run \cup {NULL}
    /\ notices \in [Chased -> Nat]
    /\ unheard \subseteq Chased
    /\ runFailures \in 0 .. MaxRunFailures

EscInit ==
    /\ chase = [i \in Chased |-> [active |-> TRUE, next |-> NULL, last |-> NULL]]
    /\ companyOn = TRUE
    /\ clockNow = 0
    /\ queued = FALSE
    /\ running = NULL
    /\ notices = [i \in Chased |-> 0]
    /\ unheard = {}
    /\ runFailures = 0

-----------------------------------------------------------------------------
(* Salespeople and administrators.                                         *)

\* A follow-up with a next action, or an edit of nextFollowupAt, which may lie in
\* the past.
schedule(i, d) ==
    /\ chase' = [chase EXCEPT ![i].next = d]
    /\ notices' = [notices EXCEPT ![i] = 0]
    /\ unheard' = unheard \ {i}
    /\ UNCHANGED <<companyOn, clockNow, queued, running, runFailures>>

\* A change of disposition, into or out of the active ones.
setActive(i, on) ==
    /\ chase' = [chase EXCEPT ![i].active = on]
    /\ UNCHANGED <<companyOn, clockNow, queued, running, notices, unheard, runFailures>>

setCompany(on) ==
    /\ companyOn' = on
    /\ UNCHANGED <<chase, clockNow, queued, running, notices, unheard, runFailures>>

Pass ==
    /\ clockNow < MaxTime
    /\ clockNow' = clockNow + 1
    /\ UNCHANGED <<chase, companyOn, queued, running, notices, unheard, runFailures>>

-----------------------------------------------------------------------------
(* The job.                                                                *)

\* isFollowUpOverdue
isFollowUpOverdue(next, now) == next # NULL /\ next < now

\* Fault: a lead that was escalated once is never looked at again.
isEscalationEligibleOnce(next, last, now) == isFollowUpOverdue(next, now) /\ last = NULL

\* Fault: the last escalation is not asked for.
isEscalationEligibleAlways(next, last, now) == isFollowUpOverdue(next, now)

isEscalationEligible(next, last, now) ==
    isFollowUpOverdue(next, now) /\ (IF last = NULL THEN TRUE ELSE last < next)

\* dispatchTick: one job for the company if it is active.  A second job that
\* waits behind the first finds nothing left to do and is left out.
dispatchTick ==
    /\ ~queued /\ companyOn
    /\ queued' = TRUE
    /\ UNCHANGED <<chase, companyOn, clockNow, running, notices, unheard, runFailures>>

\* runForCompany: the candidates, and those of them that are eligible.  The
\* worker takes one job at a time.
StartRun ==
    /\ queued /\ running = NULL
    /\ queued' = FALSE
    /\ running' = [now |-> clockNow,
                   dates |-> [i \in Chased |-> chase[i].next],
                   eligible |-> {i \in Chased :
                       chase[i].active /\ isEscalationEligible(chase[i].next, chase[i].last, clockNow)},
                   step |-> "read"]
    /\ UNCHANGED <<chase, companyOn, clockNow, notices, unheard, runFailures>>

\* The stamps commit together, by id.
StampRun ==
    /\ running # NULL /\ running.step = "read"
    /\ chase' = [i \in Chased |-> IF i \in running.eligible
                                  THEN [chase[i] EXCEPT !.last = running.now] ELSE chase[i]]
    /\ running' = [running EXCEPT !.step = "stamped"]
    /\ UNCHANGED <<companyOn, clockNow, queued, notices, unheard, runFailures>>

\* The transaction fails: the job has one attempt, and the next tick tries again.
FailRun ==
    /\ running # NULL /\ running.step = "read" /\ runFailures < MaxRunFailures
    /\ running' = NULL
    /\ runFailures' = runFailures + 1
    /\ UNCHANGED <<chase, companyOn, clockNow, queued, notices, unheard>>

\* The leads whose date is still the one the run found lapsed.
StillLapsed == {i \in running.eligible : running.dates[i] = chase[i].next}

\* After the commit the managers are written to, and one of them at least is reached.
NotifyManagers ==
    /\ running # NULL /\ running.step = "stamped"
    /\ notices' = [i \in Chased |-> IF i \in StillLapsed THEN notices[i] + 1 ELSE notices[i]]
    /\ running' = NULL
    /\ UNCHANGED <<chase, companyOn, clockNow, queued, unheard, runFailures>>

\* Nobody is reached: provider.send throws, which is logged and nothing else, or the
\* company has no active sales manager with an address.  The stamps stay.
NoticeLost ==
    /\ running # NULL /\ running.step = "stamped"
    /\ unheard' = unheard \cup StillLapsed
    /\ running' = NULL
    /\ UNCHANGED <<chase, companyOn, clockNow, queued, notices, runFailures>>

\* The worker stops, before the stamps or after them; the queue hands the job out
\* again or, if it has stalled before, gives it up (which one is left open).
RunStops ==
    /\ running # NULL /\ runFailures < MaxRunFailures
    /\ unheard' = IF running.step = "stamped" THEN unheard \cup StillLapsed ELSE unheard
    /\ running' = NULL
    /\ queued' \in {queued, TRUE}
    /\ runFailures' = runFailures + 1
    /\ UNCHANGED <<chase, companyOn, clockNow, notices>>

EscNext ==
    \/ \E i \in Chased, d \in Times : schedule(i, d)
    \/ \E i \in Chased, on \in BOOLEAN : setActive(i, on)
    \/ \E on \in BOOLEAN : setCompany(on)
    \/ Pass
    \/ dispatchTick \/ StartRun \/ StampRun \/ FailRun
    \/ NotifyManagers \/ NoticeLost \/ RunStops

\* The tick repeats and the worker keeps taking jobs; time passes.
EscFairness ==
    /\ WF_escVars(Pass)
    /\ WF_escVars(dispatchTick)
    /\ WF_escVars(StartRun)
    /\ WF_escVars(StampRun)
    /\ WF_escVars(NotifyManagers)

EscSpec == EscInit /\ [][EscNext]_escVars /\ EscFairness

-----------------------------------------------------------------------------
(* Properties.                                                             *)

\* One notice for every lapse: however ticks, reschedulings, failed runs and
\* stopped workers interleave, a follow-up date that lapses is reported at most once.
OneNoticePerLapse == \A i \in Chased : notices[i] <= 1

\* No lapse is passed over: a follow-up date that is still ahead is reported once it
\* has lapsed, unless it is moved, the lead is closed or the company is switched off
\* first, and although runs fail and earlier dates were reported.  What remains is
\* what the code accepts: the stamp commits before the notice is sent, so a notice
\* that reaches nobody, or a worker that stops between the two, uses up the lapse.
LapsesAreReported ==
    \A i \in Chased : \A d \in 1 .. MaxTime - 1 :
        (chase[i].active /\ chase[i].next = d /\ d > clockNow /\ companyOn /\ notices[i] = 0)
            ~> (notices[i] > 0 \/ i \in unheard
                \/ ~chase[i].active \/ chase[i].next # d \/ ~companyOn)
=============================================================================
