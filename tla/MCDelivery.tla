------------------------------ MODULE MCDelivery ------------------------------
(***************************************************************************)
(* Background work for TLC, with the fairness of its workers: webhooks,    *)
(* escalation of overdue leads, and messages.  They share the queue        *)
(* server but no rows and no jobs; scope says which of them a behaviour is *)
(* about.                                                                  *)
(***************************************************************************)
EXTENDS Webhooks, Escalation, Messages

VARIABLE scope

vars == <<hookVars, escVars, msgVars, scope>>

MCInit ==
    /\ HookInit /\ EscInit /\ MsgInit
    /\ scope \in {"webhooks", "escalation", "messages"}

MCNext ==
    /\ UNCHANGED scope
    /\ \/ scope = "webhooks" /\ HookNext /\ UNCHANGED <<escVars, msgVars>>
       \/ scope = "escalation" /\ EscNext /\ UNCHANGED <<hookVars, msgVars>>
       \/ scope = "messages" /\ MsgNext /\ UNCHANGED <<hookVars, escVars>>

\* Each part's fairness, in its own scope.
MCFairness ==
    /\ \A j \in Jobs : WF_vars(scope = "webhooks" /\ Process(j) /\ UNCHANGED <<escVars, msgVars, scope>>)
    /\ \A m \in Rows : WF_vars(scope = "messages" /\ SendStep(m) /\ UNCHANGED <<escVars, hookVars, scope>>)
    /\ WF_vars(scope = "escalation" /\ Pass /\ UNCHANGED <<hookVars, msgVars, scope>>)
    /\ WF_vars(scope = "escalation" /\ dispatchTick /\ UNCHANGED <<hookVars, msgVars, scope>>)
    /\ WF_vars(scope = "escalation" /\ StartRun /\ UNCHANGED <<hookVars, msgVars, scope>>)
    /\ WF_vars(scope = "escalation" /\ StampRun /\ UNCHANGED <<hookVars, msgVars, scope>>)
    /\ WF_vars(scope = "escalation" /\ NotifyManagers /\ UNCHANGED <<hookVars, msgVars, scope>>)

MCSpec == MCInit /\ [][MCNext]_vars /\ MCFairness

\* What is in a queue is not dropped unseen, although workers stop and calls fail: a
\* webhook delivery gets its verdict, unless its endpoint is disabled meanwhile
\* (DeliveriesAreDecided), and a message or document its result
\* (MessagesAreDecided), or else its job failed for good and is in the failed set.
DecidedInTheEnd == DeliveriesAreDecided /\ MessagesAreDecided
=============================================================================
