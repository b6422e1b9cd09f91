------------------------------- MODULE Messages -------------------------------
(***************************************************************************)
(* What is sent to people: communication_logs (messages to applicants) and *)
(* document_dispatches (documents sent out).  Both are a row that commits  *)
(* as QUEUED, a job added after it, and a worker that reads the row, calls *)
(* the provider outside any transaction and writes the result.             *)
(***************************************************************************)
EXTENDS Null, Naturals

CONSTANTS Rows,          \* ids of communication_logs and document_dispatches
          MaxSendStops   \* bound: times a server or a worker stops

VARIABLES
    message,    \* rows: [kind, status, of], of = attempt_of_dispatch_id, NULL if free
    unqueued,   \* rows whose job is not yet added
    sendJob,    \* jobs: "wait", "read", the provider's answer or "recorded", NULL if none
    dead,       \* rows whose job failed for good (the queue's failed set)
    resent,     \* rows whose job was handed out again after their result was
                \* written, which is not program state
    sendStops

msgVars == <<message, unqueued, sendJob, dead, resent, sendStops>>

MsgTypeOK ==
    /\ \A m \in Rows : message[m] = NULL \/ message[m] \in
          [kind : {"communication", "dispatch"}, status : {"QUEUED", "SENT", "FAILED"},
           of : Rows \cup {NULL}]
    /\ unqueued \cup dead \cup resent \subseteq Rows
    /\ \A m \in Rows : sendJob[m] \in {NULL, "wait", "read", "accepted", "refused", "recorded"}

MsgInit ==
    /\ message = [m \in Rows |-> NULL]
    /\ unqueued = {}
    /\ sendJob = [m \in Rows |-> NULL]
    /\ dead = {} /\ resent = {}
    /\ sendStops = 0

\* The row commits first.
NewRow(m, kind, of) ==
    /\ message[m] = NULL
    /\ message' = [message EXCEPT ![m] = [kind |-> kind, status |-> "QUEUED", of |-> of]]
    /\ unqueued' = unqueued \cup {m}
    /\ UNCHANGED <<sendJob, dead, resent, sendStops>>

\* CommunicationService.send: to an applicant that stands and has an address.
sendCommunication(m, merged, hasAddress) ==
    ~merged /\ hasAddress /\ NewRow(m, "communication", NULL)

\* DispatchService.send: a document that exists.
sendDispatch(m) == NewRow(m, "dispatch", NULL)

\* DispatchService.retry: a FAILED dispatch gets a new row; the old one stays.
retryDispatch(m, n) ==
    /\ message[n] # NULL /\ message[n].kind = "dispatch" /\ message[n].status = "FAILED"
    /\ NewRow(m, "dispatch", n)

\* queue.add without options: the job has one attempt.
AddJob(m) ==
    /\ m \in unqueued
    /\ unqueued' = unqueued \ {m}
    /\ sendJob' = [sendJob EXCEPT ![m] = "wait"]
    /\ UNCHANGED <<message, dead, resent, sendStops>>

\* The server stops between the commit and the job: the row stays QUEUED.
JobLost(m) ==
    /\ m \in unqueued /\ sendStops < MaxSendStops
    /\ unqueued' = unqueued \ {m}
    /\ sendStops' = sendStops + 1
    /\ UNCHANGED <<message, sendJob, dead, resent>>

\* process: the row is read, the provider is called ...
Take(m) ==
    /\ sendJob[m] = "wait"
    /\ sendJob' = [sendJob EXCEPT ![m] = "read"]
    /\ UNCHANGED <<message, unqueued, dead, resent, sendStops>>

\* ... and answers success or not (it may also throw: SendThrows) ...
ProviderAnswers(m) ==
    /\ sendJob[m] = "read"
    /\ \E ok \in {"accepted", "refused"} : sendJob' = [sendJob EXCEPT ![m] = ok]
    /\ UNCHANGED <<message, unqueued, dead, resent, sendStops>>

Outcome(row, answer) == [row EXCEPT !.status = IF answer = "accepted" THEN "SENT" ELSE "FAILED"]

\* ... and its answer is written to the row in a transaction of its own.
Record(m) ==
    /\ sendJob[m] \in {"accepted", "refused"}
    /\ message' = [message EXCEPT ![m] = Outcome(@, sendJob[m])]
    /\ sendJob' = [sendJob EXCEPT ![m] = "recorded"]
    /\ UNCHANGED <<unqueued, dead, resent, sendStops>>

\* process has returned, and the queue is told so.
MessageDone(m) ==
    /\ sendJob[m] = "recorded"
    /\ sendJob' = [sendJob EXCEPT ![m] = NULL]
    /\ UNCHANGED <<message, unqueued, dead, resent, sendStops>>

FailForGood(m) == sendJob' = [sendJob EXCEPT ![m] = NULL] /\ dead' = dead \cup {m}

\* The read, provider.send or the transaction that writes the result throws.  It
\* was the job's only attempt, and nothing writes to the row.
SendThrows(m) ==
    /\ sendJob[m] \notin {NULL, "recorded"}
    /\ FailForGood(m)
    /\ UNCHANGED <<message, unqueued, resent, sendStops>>

\* A worker stops within the job, which the queue then hands out again; or it gives
\* up a job that has stalled before (which one is left open).
SenderStops(m) ==
    /\ sendJob[m] \notin {NULL, "wait"} /\ sendStops < MaxSendStops
    /\ sendStops' = sendStops + 1
    /\ \/ /\ sendJob' = [sendJob EXCEPT ![m] = "wait"]
          /\ resent' = IF sendJob[m] = "recorded" THEN resent \cup {m} ELSE resent
          /\ UNCHANGED dead
       \/ FailForGood(m) /\ UNCHANGED resent
    /\ UNCHANGED <<message, unqueued>>

SendStep(m) == Take(m) \/ ProviderAnswers(m) \/ Record(m) \/ MessageDone(m)

MsgNext ==
    \E m \in Rows :
        \/ \E merged, hasAddress \in BOOLEAN : sendCommunication(m, merged, hasAddress)
        \/ sendDispatch(m)
        \/ \E n \in Rows : retryDispatch(m, n)
        \/ AddJob(m) \/ JobLost(m) \/ SendStep(m)
        \/ SendThrows(m) \/ SenderStops(m)

\* Workers keep working; people and servers need not act, and nothing has to fail.
MsgFairness == \A m \in Rows : WF_msgVars(SendStep(m))

MsgSpec == MsgInit /\ [][MsgNext]_msgVars /\ MsgFairness

-----------------------------------------------------------------------------
\* A message in the queue is not dropped unseen: its row gets its result, SENT or
\* FAILED, or its job is in the queue's failed set, although workers may stop while
\* they have it and every call may throw.  And a retried document leaves its whole
\* history: the rows it was an attempt of are FAILED and stay so, unless their own
\* job was handed out again after the result was written.
MessagesAreDecided ==
    /\ \A m \in Rows : (sendJob[m] # NULL)
                          ~> (m \in dead \/ (message[m] # NULL /\ message[m].status # "QUEUED"))
    /\ [](\A m \in Rows : message[m] # NULL /\ message[m].of # NULL
                             => message[message[m].of].status = "FAILED" \/ message[m].of \in resent)
=============================================================================
