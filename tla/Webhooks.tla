------------------------------- MODULE Webhooks -------------------------------
(***************************************************************************)
(* Webhook endpoints, deliveries and the jobs that carry them out.  A      *)
(* worker loads a delivery, posts it, and writes what came of it in        *)
(* several statements outside any transaction, so other workers and the    *)
(* administrators act in between.  An endpoint that exhausts too many      *)
(* deliveries in a row is disabled.                                        *)
(***************************************************************************)
EXTENDS Null, Naturals, FiniteSets

CONSTANTS Endpoints, Deliveries,
          Jobs,           \* ids of queue jobs
          MaxAttempts,    \* RETRY_OPTS.attempts
          Threshold,      \* WEBHOOK_DISABLE_THRESHOLD
          MaxWorkerStops  \* bound: workers that stop within a job

EndpointRow == [active : BOOLEAN, failures : Nat]
DeliveryRow == [to : Endpoints, status : {"PENDING", "SUCCESS", "EXHAUSTED"}]
Job == [delivery : Deliveries, made : 0 .. MaxAttempts,
        step : {"wait", "post", "succeeded", "failed", "close SUCCESS", "close EXHAUSTED",
                "done"}]

ASSUME WebhookAssumption ==
    /\ MaxAttempts \in Nat \ {0} /\ Threshold \in Nat \ {0} /\ MaxWorkerStops \in Nat
    /\ NULL \notin EndpointRow \cup DeliveryRow \cup Job

VARIABLES
    endpoint,    \* webhook_endpoints: [active, failures], NULL if absent
    delivery,    \* webhook_deliveries: [to, status], NULL if absent
    unsent,      \* deliveries whose row is written and whose job is not yet added
    job,         \* queue: [delivery, made, step], NULL if absent
    gaveUp,      \* deliveries of which a job failed for good since one was last added
    workerStops  \* workers that stopped so far

hookVars == <<endpoint, delivery, unsent, job, gaveUp, workerStops>>

HookTypeOK ==
    /\ endpoint \in [Endpoints -> EndpointRow \cup {NULL}]
    /\ delivery \in [Deliveries -> DeliveryRow \cup {NULL}]
    /\ unsent \subseteq Deliveries /\ gaveUp \subseteq Deliveries
    /\ job \in [Jobs -> Job \cup {NULL}]
    /\ workerStops \in 0 .. MaxWorkerStops

HookInit ==
    /\ endpoint = [e \in Endpoints |-> NULL]
    /\ delivery = [d \in Deliveries |-> NULL]
    /\ unsent = {} /\ gaveUp = {}
    /\ job = [j \in Jobs |-> NULL]
    /\ workerStops = 0

-----------------------------------------------------------------------------
(* Administration.                                                         *)

Fresh == [active |-> TRUE, failures |-> 0]

createEndpoint(e) ==
    /\ endpoint[e] = NULL
    /\ endpoint' = [endpoint EXCEPT ![e] = Fresh]
    /\ UNCHANGED <<delivery, unsent, job, gaveUp, workerStops>>

enable(e) ==
    /\ endpoint[e] # NULL
    /\ endpoint' = [endpoint EXCEPT ![e] = Fresh]
    /\ UNCHANGED <<delivery, unsent, job, gaveUp, workerStops>>

disable(e) ==
    /\ endpoint[e] # NULL
    /\ endpoint' = [endpoint EXCEPT ![e].active = FALSE]
    /\ UNCHANGED <<delivery, unsent, job, gaveUp, workerStops>>

\* An endpoint with deliveries stays: the foreign key restricts.
removeEndpoint(e) ==
    /\ endpoint[e] # NULL
    /\ \A d \in Deliveries : delivery[d] # NULL => delivery[d].to # e
    /\ endpoint' = [endpoint EXCEPT ![e] = NULL]
    /\ UNCHANGED <<delivery, unsent, job, gaveUp, workerStops>>

-----------------------------------------------------------------------------
(* Creating deliveries: the row first, the job after it.                   *)

\* One turn of dispatchEvent's loop, for an endpoint that was active and
\* subscribed, or sendTestEvent, which asks neither.
dispatchEvent(e, d) ==
    /\ endpoint[e] # NULL /\ delivery[d] = NULL
    /\ delivery' = [delivery EXCEPT ![d] = [to |-> e, status |-> "PENDING"]]
    /\ unsent' = unsent \cup {d}
    /\ UNCHANGED <<endpoint, job, gaveUp, workerStops>>

\* retry and a turn of bulkRetry: only an EXHAUSTED delivery goes round again.
retry(d) ==
    /\ delivery[d] # NULL /\ delivery[d].status = "EXHAUSTED"
    /\ delivery' = [delivery EXCEPT ![d].status = "PENDING"]
    /\ unsent' = unsent \cup {d}
    /\ UNCHANGED <<endpoint, job, gaveUp, workerStops>>

QueueAdd(d) ==
    /\ d \in unsent
    /\ \E j \in Jobs : /\ job[j] = NULL
                       /\ job' = [job EXCEPT ![j] = [delivery |-> d, made |-> 0, step |-> "wait"]]
    /\ unsent' = unsent \ {d}
    /\ gaveUp' = gaveUp \ {d}
    /\ UNCHANGED <<endpoint, delivery, workerStops>>

\* The server stops, or Redis is away, between the row and the job.
LoseJob(d) ==
    /\ d \in unsent /\ workerStops < MaxWorkerStops
    /\ unsent' = unsent \ {d}
    /\ workerStops' = workerStops + 1
    /\ UNCHANGED <<endpoint, delivery, job, gaveUp>>

-----------------------------------------------------------------------------
(* WebhookDeliveryProcessor.process.                                       *)

Target(j) == delivery[job[j].delivery].to

Step(j, s) == job' = [job EXCEPT ![j].step = s]

\* A delivery to a disabled endpoint is left PENDING and its job ends.
LoadDelivery(j) ==
    /\ job[j] # NULL /\ job[j].step = "wait"
    /\ IF endpoint[Target(j)].active THEN Step(j, "post") ELSE job' = [job EXCEPT ![j] = NULL]
    /\ UNCHANGED <<endpoint, delivery, unsent, gaveUp, workerStops>>

\* The request: a 2xx, or anything else including the time limit.
Post(j) ==
    /\ job[j] # NULL /\ job[j].step = "post"
    /\ \E s \in {"succeeded", "failed"} : Step(j, s)
    /\ UNCHANGED <<endpoint, delivery, unsent, gaveUp, workerStops>>

\* Fault: a late success clears the counter of a disabled endpoint too.
ResetAlways(e) == [endpoint EXCEPT ![e].failures = 0]

\* UPDATE ... SET consecutive_failures = 0 WHERE is_active.
Reset(e) == IF endpoint[e].active THEN [endpoint EXCEPT ![e].failures = 0] ELSE endpoint

CountSuccess(j) ==
    /\ job[j] # NULL /\ job[j].step = "succeeded"
    /\ endpoint' = Reset(Target(j))
    /\ Step(j, "close SUCCESS")
    /\ UNCHANGED <<delivery, unsent, gaveUp, workerStops>>

\* A failure with attempts left is thrown, and the queue tries again later.
ThrowForRetry(j) ==
    /\ job[j] # NULL /\ job[j].step = "failed"
    /\ job[j].made + 1 < MaxAttempts
    /\ job' = [job EXCEPT ![j].made = @ + 1, ![j].step = "wait"]
    /\ UNCHANGED <<endpoint, delivery, unsent, gaveUp, workerStops>>

\* The single UPDATE that counts an exhausted delivery and disables at the threshold.
Charged(r) == [active |-> r.active /\ r.failures + 1 < Threshold, failures |-> r.failures + 1]

CountExhausted(j) ==
    /\ job[j] # NULL /\ job[j].step = "failed"
    /\ job[j].made + 1 >= MaxAttempts
    /\ endpoint' = [endpoint EXCEPT ![Target(j)] = Charged(@)]
    /\ Step(j, "close EXHAUSTED")
    /\ UNCHANGED <<delivery, unsent, gaveUp, workerStops>>

\* Fault: the job ends without writing the delivery's status.
VerdictForgotten(d, s) == delivery

Verdict(d, s) == [delivery EXCEPT ![d].status = s]

\* The delivery's own status comes last.
Close(j) ==
    \E s \in {"SUCCESS", "EXHAUSTED"} :
        /\ job[j] # NULL /\ job[j].step = (IF s = "SUCCESS" THEN "close SUCCESS" ELSE "close EXHAUSTED")
        /\ delivery' = Verdict(job[j].delivery, s)
        /\ Step(j, "done")
        /\ UNCHANGED <<endpoint, unsent, gaveUp, workerStops>>

\* process has returned, and the queue is told so.
Acknowledge(j) ==
    /\ job[j] # NULL /\ job[j].step = "done"
    /\ job' = [job EXCEPT ![j] = NULL]
    /\ UNCHANGED <<endpoint, delivery, unsent, gaveUp, workerStops>>

GiveUp(j) ==
    /\ job' = [job EXCEPT ![j] = NULL]
    /\ gaveUp' = gaveUp \cup {job[j].delivery}

\* A query or the decryption throws, anywhere in process: the attempt is used up,
\* and after the last one the job has failed with the delivery as it stands.
ProcessThrows(j) ==
    /\ job[j] # NULL /\ job[j].step # "done"
    /\ \/ /\ job[j].made + 1 < MaxAttempts
          /\ job' = [job EXCEPT ![j].made = @ + 1, ![j].step = "wait"]
          /\ UNCHANGED gaveUp
       \/ job[j].made + 1 >= MaxAttempts /\ GiveUp(j)
    /\ UNCHANGED <<endpoint, delivery, unsent, workerStops>>

\* A worker stops; the queue notices that the job stalled and hands it out again as
\* the same attempt, or gives up a job that has stalled before (which one is left
\* open).
WorkerStops(j) ==
    /\ job[j] # NULL /\ job[j].step # "wait"
    /\ workerStops < MaxWorkerStops
    /\ (Step(j, "wait") /\ UNCHANGED gaveUp) \/ GiveUp(j)
    /\ workerStops' = workerStops + 1
    /\ UNCHANGED <<endpoint, delivery, unsent>>

Process(j) == \/ LoadDelivery(j) \/ Post(j) \/ CountSuccess(j) \/ ThrowForRetry(j)
              \/ CountExhausted(j) \/ Close(j) \/ Acknowledge(j)

HookNext ==
    \/ \E e \in Endpoints : createEndpoint(e) \/ enable(e) \/ disable(e) \/ removeEndpoint(e)
    \/ \E e \in Endpoints, d \in Deliveries : dispatchEvent(e, d)
    \/ \E d \in Deliveries : retry(d) \/ QueueAdd(d) \/ LoseJob(d)
    \/ \E j \in Jobs : Process(j) \/ ProcessThrows(j) \/ WorkerStops(j)

\* Workers keep taking jobs; administrators and senders need not act, and nothing
\* has to fail.
HookFairness == \A j \in Jobs : WF_hookVars(Process(j))

HookSpec == HookInit /\ [][HookNext]_hookVars /\ HookFairness

-----------------------------------------------------------------------------
(* Properties.                                                             *)

\* Auto-disable holds under concurrent workers and administrators: an active
\* endpoint is below the threshold, and only enable makes an inactive endpoint
\* active or lowers its count (a late success "never resurrects" it).
DisabledStaysDisabled ==
    [][\A e \in Endpoints : endpoint[e] # NULL /\ endpoint'[e] # NULL =>
          /\ endpoint'[e].active => endpoint'[e].failures < Threshold
          /\ /\ ~endpoint[e].active
             /\ endpoint'[e].active \/ endpoint'[e].failures < endpoint[e].failures
             => endpoint'[e] = Fresh]_hookVars

InQueue(d) == \E j \in Jobs : job[j] # NULL /\ job[j].delivery = d /\ job[j].step # "done"

\* A delivery that is in the queue is not dropped unseen: it gets its verdict, or
\* its endpoint is disabled meanwhile, or its job fails for good and stays in the
\* queue's failed set, although workers may stop and every call may fail.
DeliveriesAreDecided ==
    \A d \in Deliveries :
        (InQueue(d) /\ delivery[d].status = "PENDING")
            ~> (d \in gaveUp \/ (delivery[d] # NULL /\ (delivery[d].status # "PENDING"
                                                       \/ ~endpoint[delivery[d].to].active)))
=============================================================================
