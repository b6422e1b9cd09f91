---------------------------- MODULE AssignmentPool ----------------------------
(***************************************************************************)
(* The round-robin pool of one project (project_assignment_pools).  A      *)
(* transaction that takes in a lead, or an import with several rows, calls *)
(* autoAssign once per row: it counts the active members, takes the        *)
(* project's advisory lock, picks the member that waited longest among the *)
(* rows nobody locks, and stamps it.  Everything stays locked until the    *)
(* transaction ends.  setMembership reads a row and writes it later.       *)
(***************************************************************************)
EXTENDS Null, Integers, FiniteSets

CONSTANTS Members,   \* users, numbered by sort_order
          PoolTxs,   \* connections
          MaxRows,   \* bound: rows of one import
          MaxClock  \* bound: timestamps handed out

PoolRow == [active : BOOLEAN, last : 0 .. MaxClock]

ASSUME PoolAssumption ==
    /\ Members \subseteq Int /\ NULL \notin PoolRow
    /\ MaxRows \in Nat /\ MaxClock \in Nat

VARIABLES
    member,  \* pool rows: [active, last], NULL before the first setMembership
    clock,   \* latest clock_timestamp()
    ptx,     \* what each connection's transaction has done so far
    served   \* committed picks since the pool last changed; like the field picks
             \* of a transaction this is not program state

poolVars == <<member, clock, ptx, served>>

Never == 0  \* last_assigned_at IS NULL; a row t has not stamped

NoServed == [m \in Members |-> 0]
NoStamp == [m \in Members |-> Never]

Idle == [step |-> "idle", rows |-> 0, locked |-> FALSE, stamp |-> NoStamp, picks |-> NoServed,
         m |-> NULL, on |-> FALSE, existing |-> NULL]

PoolTypeOK ==
    /\ member \in [Members -> PoolRow \cup {NULL}]
    /\ clock \in 0 .. MaxClock
    /\ ptx \in [PoolTxs -> [step : {"idle", "count", "lock", "pick", "write"},
                            rows : 0 .. MaxRows, locked : BOOLEAN,
                            stamp : [Members -> 0 .. MaxClock], picks : [Members -> Nat],
                            m : Members \cup {NULL}, on : BOOLEAN,
                            existing : PoolRow \cup {NULL}]]
    /\ served \in [Members -> Nat]

PoolInit ==
    /\ member = [m \in Members |-> NULL]
    /\ clock = 0
    /\ ptx = [t \in PoolTxs |-> Idle]
    /\ served = NoServed

\* What transaction t sees: its own stamps over the committed row.
LastSeen(t, m) == IF ptx[t].stamp[m] # Never THEN ptx[t].stamp[m] ELSE member[m].last

RowLocked(t, m) == \E o \in PoolTxs \ {t} : ptx[o].stamp[m] # Never

\* Fault: the pick is not serialised per project.
NoAdvisoryLock(t) == TRUE

\* pg_advisory_xact_lock: held from the lock statement to the end.
AdvisoryFree(t) == \A o \in PoolTxs \ {t} : ~ptx[o].locked

-----------------------------------------------------------------------------
(* autoAssign, within the transaction of its caller.                       *)

\* The caller's transaction opens with k leads to place.
BeginIntake(t, k) ==
    /\ ptx[t].step = "idle"
    /\ ptx' = [ptx EXCEPT ![t] = [Idle EXCEPT !.step = "count", !.rows = k]]
    /\ UNCHANGED <<member, clock, served>>

ActiveMembers == {m \in Members : member[m] # NULL /\ member[m].active}

\* A lead has its member or stays unassigned: on with the next row.
NextRow(r) == [r EXCEPT !.step = "count", !.rows = @ - 1]

\* An empty or paused pool leaves the lead unassigned.
CountActive(t) ==
    /\ ptx[t].step = "count" /\ ptx[t].rows > 0
    /\ ptx' = [ptx EXCEPT ![t] = IF ActiveMembers = {} THEN NextRow(@)
                                 ELSE [@ EXCEPT !.step = "lock"]]
    /\ UNCHANGED <<member, clock, served>>

LockProject(t) ==
    /\ ptx[t].step = "lock"
    /\ AdvisoryFree(t)
    /\ ptx' = [ptx EXCEPT ![t] = [@ EXCEPT !.step = "pick", !.locked = TRUE]]
    /\ UNCHANGED <<member, clock, served>>

\* ORDER BY last_assigned_at ASC NULLS FIRST, sort_order ASC.
Before(t, m, n) == \/ LastSeen(t, m) < LastSeen(t, n)
                   \/ LastSeen(t, m) = LastSeen(t, n) /\ m < n

\* The UPDATE of last_assigned_at, kept in the transaction until it commits.
Stamped(r, m, now) == [r EXCEPT !.stamp[m] = now, !.picks[m] = @ + 1]

\* SELECT ... LIMIT 1 FOR UPDATE SKIP LOCKED, then the stamp.  A retry that
\* still finds every row locked changes nothing; the last one gives up.
PickAndStamp(t) ==
    LET open == {m \in ActiveMembers : ~RowLocked(t, m)}
    IN  /\ ptx[t].step = "pick"
        /\ \/ /\ open = {}
              /\ ptx' = [ptx EXCEPT ![t] = NextRow(@)]
              /\ UNCHANGED clock
           \/ \E m \in open :
              /\ \A n \in open \ {m} : Before(t, m, n)
              /\ clock < MaxClock
              /\ clock' = clock + 1
              /\ ptx' = [ptx EXCEPT ![t] = NextRow(Stamped(@, m, clock'))]
        /\ UNCHANGED <<member, served>>

\* The caller commits: inquiries, assignments and stamps together.
CommitIntake(t) ==
    /\ ptx[t].step = "count" /\ ptx[t].rows = 0
    /\ member' = [m \in Members |-> IF ptx[t].stamp[m] # Never
                                    THEN [member[m] EXCEPT !.last = ptx[t].stamp[m]]
                                    ELSE member[m]]
    /\ served' = [m \in Members |-> served[m] + ptx[t].picks[m]]
    /\ ptx' = [ptx EXCEPT ![t] = Idle]
    /\ UNCHANGED clock

\* An exception anywhere rolls back, stamps included.
RollbackIntake(t) ==
    /\ ptx[t].step \in {"count", "lock", "pick"}
    /\ ptx' = [ptx EXCEPT ![t] = Idle]
    /\ UNCHANGED <<member, clock, served>>

-----------------------------------------------------------------------------
(* setMembership.                                                          *)

setMembership(t, m, on) ==
    /\ ptx[t].step = "idle"
    /\ ptx' = [ptx EXCEPT ![t] = [Idle EXCEPT !.step = "write", !.m = m, !.on = on,
                                               !.existing = member[m]]]
    /\ UNCHANGED <<member, clock, served>>

\* A returning member goes to the back; otherwise the value read is written back.
LastOnWrite(existing, on) ==
    IF on /\ ~existing.active THEN clock' ELSE existing.last

WriteMembership(t) ==
    LET r == ptx[t]
    IN  /\ r.step = "write"
        /\ ~RowLocked(t, r.m)
        /\ clock < MaxClock
        /\ clock' = clock + 1
        /\ IF r.existing = NULL
           THEN /\ member[r.m] = NULL  \* unique per project and user
                /\ member' = [member EXCEPT ![r.m] = [active |-> r.on, last |-> Never]]
           ELSE member' = [member EXCEPT ![r.m] =
                              [active |-> r.on, last |-> LastOnWrite(r.existing, r.on)]]
        /\ served' = NoServed
        /\ ptx' = [o \in PoolTxs |-> IF o = t THEN Idle
                                    ELSE [ptx[o] EXCEPT !.picks = NoServed]]

AbandonMembership(t) ==
    /\ ptx[t].step = "write"
    /\ ptx' = [ptx EXCEPT ![t] = Idle]
    /\ UNCHANGED <<member, clock, served>>

PoolNext ==
    \E t \in PoolTxs :
        \/ \E k \in 1 .. MaxRows : BeginIntake(t, k)
        \/ CountActive(t)
        \/ LockProject(t)
        \/ PickAndStamp(t)
        \/ CommitIntake(t)
        \/ RollbackIntake(t)
        \/ \E m \in Members, on \in BOOLEAN : setMembership(t, m, on)
        \/ WriteMembership(t)
        \/ AbandonMembership(t)

PoolSpec == PoolInit /\ [][PoolNext]_poolVars

-----------------------------------------------------------------------------
\* Strict round robin ("no duplicate picks ... strict round-robin order",
\* autoAssign): while the pool does not change, no active member has been given
\* two leads more than another, whatever intakes overlap, fail or bring several
\* rows.
StrictRoundRobin ==
    \A m, n \in ActiveMembers : served[m] <= served[n] + 1

\* Not kept when setMembership overlaps an intake (README.md, Known divergences):
\* a member's place in the queue never moves forward.
StampsNeverMoveBack ==
    [][\A m \in Members : member[m] # NULL => member'[m].last >= member[m].last]_poolVars
=============================================================================
