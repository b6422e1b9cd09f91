------------------------------ MODULE StageRaise ------------------------------
(***************************************************************************)
(* One construction stage of one project: raising it makes the waiting     *)
(* installments of every booking due, and a plan instantiated later takes  *)
(* its due date from the raise.  Both are READ COMMITTED transactions.     *)
(* Finding a raise takes no lock, and nothing makes a raise unique.        *)
(***************************************************************************)
EXTENDS Naturals, FiniteSets

CONSTANTS Bookings, Txs,
          Days,       \* what stageCompletedOn may be
          MaxRaises,  \* bound on the stage_raises rows
          NULL

VARIABLES
    raises,  \* committed stage_raises rows: [no, on], no counts the inserts
    inst,    \* due date of a booking's installment; "unraised", NULL if no plan
    pc, booking,
    stage,   \* the raise a transaction found or creates, NULL if none
    target   \* rows its bulk update has matched

vars == <<raises, inst, pc, booking, stage, target>>

TypeOK ==
    /\ raises \subseteq [no : 1 .. MaxRaises, on : Days]
    /\ inst \in [Bookings -> Days \cup {"unraised", NULL}]
    /\ pc \in [Txs -> {"idle", "match", "update", "commitRaise", "insert"}]
    /\ booking \in [Txs -> Bookings \cup {NULL}]
    /\ stage \in [Txs -> [no : 1 .. MaxRaises, on : Days] \cup {NULL}]
    /\ target \in [Txs -> SUBSET Bookings]
    /\ \A t \in Txs : pc[t] = "idle" => target[t] = {}

Init ==
    /\ raises = {}
    /\ inst = [b \in Bookings |-> NULL]
    /\ pc = [t \in Txs |-> "idle"]
    /\ booking = [t \in Txs |-> NULL]
    /\ stage = [t \in Txs |-> NULL]
    /\ target = [t \in Txs |-> {}]

\* findStageRaise returns one of the committed rows, if there is any.
findStageRaise == IF raises = {} THEN {NULL} ELSE raises

\* A row inserted by t: numbered after those that others have inserted.
NewRaise(t, d) ==
    LET pending == {o \in Txs \ {t} : stage[o] # NULL /\ stage[o] \notin raises}
    IN  [no |-> Cardinality(raises) + Cardinality(pending) + 1, on |-> d]

\* Fault: every raise makes a row of its own.
raiseStageAgain(t, d) ==
    /\ pc[t] = "idle"
    /\ NewRaise(t, d).no <= MaxRaises
    /\ stage' = [stage EXCEPT ![t] = NewRaise(t, d)]
    /\ pc' = [pc EXCEPT ![t] = "match"]
    /\ UNCHANGED <<raises, inst, booking, target>>

\* raiseStage: the existing raise and its date win over the requested one.
raiseStage(t, d) ==
    /\ pc[t] = "idle"
    /\ NewRaise(t, d).no <= MaxRaises \/ raises # {}
    /\ \E s \in findStageRaise :
          stage' = [stage EXCEPT ![t] = IF s = NULL THEN NewRaise(t, d) ELSE s]
    /\ pc' = [pc EXCEPT ![t] = "match"]
    /\ UNCHANGED <<raises, inst, booking, target>>

\* The bulk update sees the rows committed when it starts ...
Match(t) ==
    /\ pc[t] = "match"
    /\ target' = [target EXCEPT ![t] = {b \in Bookings : inst[b] = "unraised"}]
    /\ pc' = [pc EXCEPT ![t] = "update"]
    /\ UNCHANGED <<raises, inst, booking, stage>>

\* ... waits for the transactions that have updated them, and drops the rows
\* that no longer match.
Update(t) ==
    /\ pc[t] = "update"
    /\ \A o \in Txs \ {t} : pc[o] = "commitRaise" => target[o] \cap target[t] = {}
    /\ target' = [target EXCEPT ![t] = {b \in target[t] : inst[b] = "unraised"}]
    /\ pc' = [pc EXCEPT ![t] = "commitRaise"]
    /\ UNCHANGED <<raises, inst, booking, stage>>

Finish(t) ==
    /\ pc' = [pc EXCEPT ![t] = "idle"]
    /\ booking' = [booking EXCEPT ![t] = NULL]
    /\ stage' = [stage EXCEPT ![t] = NULL]
    /\ target' = [target EXCEPT ![t] = {}]

CommitRaise(t) ==
    /\ pc[t] = "commitRaise"
    /\ raises' = raises \cup {stage[t]}
    /\ inst' = [b \in Bookings |-> IF b \in target[t] THEN stage[t].on ELSE inst[b]]
    /\ Finish(t)

\* instantiateFromTemplate looks the stage up, then inserts the installment.
\* A booking's first plan; two plans of one booking at once are left out.
instantiate(t, b) ==
    /\ pc[t] = "idle"
    /\ inst[b] = NULL
    /\ \A o \in Txs : booking[o] # b
    /\ \E s \in findStageRaise : stage' = [stage EXCEPT ![t] = s]
    /\ booking' = [booking EXCEPT ![t] = b]
    /\ pc' = [pc EXCEPT ![t] = "insert"]
    /\ UNCHANGED <<raises, inst, target>>

CommitInsert(t) ==
    /\ pc[t] = "insert"
    /\ inst' = [inst EXCEPT ![booking[t]] =
                  IF stage[t] = NULL THEN "unraised" ELSE stage[t].on]
    /\ Finish(t)
    /\ UNCHANGED raises

Rollback(t) ==
    /\ pc[t] # "idle"
    /\ Finish(t)
    /\ UNCHANGED <<raises, inst>>

Next ==
    \E t \in Txs :
        \/ \E d \in Days : raiseStage(t, d)
        \/ Match(t)
        \/ Update(t)
        \/ CommitRaise(t)
        \/ \E b \in Bookings : instantiate(t, b)
        \/ CommitInsert(t)
        \/ Rollback(t)

Spec == Init /\ [][Next]_vars

Raising(t) == pc[t] \in {"match", "update", "commitRaise"}

\* Nothing overlaps a raise that may turn out to be the first.
FirstRaiseAlone ==
    \A s, t \in Txs : s # t /\ Raising(s) /\ stage[s] \notin raises => pc[t] = "idle"

\* Without FirstRaiseAlone not kept by a plan and a raise at the same time, as the
\* next one by two raises (README.md, Known divergences).  Once a stage is raised no installment that
\* waits for it stays unraised: later plans raise theirs when instantiated.
NoneStuck ==
    raises # {} => \A b \in Bookings : inst[b] # "unraised"

\* The original completion date is authoritative: however often a stage is
\* raised, every booking's installment falls due on one date.
OneDatePerStage ==
    \A b, c \in Bookings : {inst[b], inst[c]} \subseteq Days => inst[b] = inst[c]
=============================================================================
