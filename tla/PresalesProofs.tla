---------------------------- MODULE PresalesProofs ----------------------------
(***************************************************************************)
(* Presales, for any number of members, connections, applicants and rows.  *)
(* The assignment pool serves its members in strict turn under overlapping *)
(* imports; a lead's records end where the lead is; leads follow the merges*)
(* of their applicants, and what a machine takes in is linked by its number;*)
(* a change request is decided once, on what its reviewer saw.             *)
(***************************************************************************)
EXTENDS AssignmentPool, LeadPipeline, Applicants, ChangeRequests, TLAPS

-----------------------------------------------------------------------------
(* The assignment pool.                                                    *)

PoolTx == [step : {"idle", "count", "lock", "pick", "write"},
           rows : 0 .. MaxRows, locked : BOOLEAN,
           stamp : [Members -> 0 .. MaxClock], picks : [Members -> Nat],
           m : Members \cup {NULL}, on : BOOLEAN,
           existing : PoolRow \cup {NULL}]

\* What a transaction holds: picks and stamps only under the project's lock, stamps
\* only on rows that exist, and every time it knows already handed out.
TxFits(r) ==
    /\ r.step \in {"idle", "write"} => ~r.locked
    /\ r.step = "pick" => r.locked
    /\ r.step \in {"lock", "pick"} => r.rows > 0
    /\ r.step = "write" => r.m \in Members
    /\ ~r.locked => r.stamp = NoStamp /\ r.picks = NoServed
    /\ r.existing # NULL => r.existing.last <= clock
    /\ \A m \in Members : r.stamp[m] <= clock
    /\ \A m \in Members : r.stamp[m] # Never => m \in ActiveMembers

\* pg_advisory_xact_lock has one holder.
OneHolder == \A t, o \in PoolTxs : ptx[t].locked /\ ptx[o].locked => t = o

ClockBoundsRows == \A m \in Members : member[m] # NULL => member[m].last <= clock

\* Round robin with its reason: whoever was given more was given the later one.
InTurn(count, last) ==
    \A m, n \in ActiveMembers :
        count[m] <= count[n] + 1 /\ (count[m] > count[n] => last[m] > last[n])

\* What is committed, and what would be if r committed now.
Stamps == [m \in Members |-> member[m].last]
StampsWith(r) == [m \in Members |-> IF r.stamp[m] # Never THEN r.stamp[m] ELSE member[m].last]
ServedWith(r) == [m \in Members |-> served[m] + r.picks[m]]

PoolInv ==
    /\ PoolTypeOK /\ OneHolder /\ ClockBoundsRows
    /\ \A t \in PoolTxs : TxFits(ptx[t])
    /\ InTurn(served, Stamps)
    /\ \A t \in PoolTxs : ptx[t].locked => InTurn(ServedWith(ptx[t]), StampsWith(ptx[t]))

LEMMA ActiveAreMembers == ActiveMembers \subseteq Members
  BY DEF ActiveMembers

LEMMA IdleFits ==
    PoolTypeOK => Idle \in PoolTx /\ ~Idle.locked /\ Idle.step = "idle" /\ TxFits(Idle)
<1> SUFFICES ASSUME PoolTypeOK PROVE Idle \in PoolTx /\ ~Idle.locked /\ Idle.step = "idle" /\ TxFits(Idle)
  OBVIOUS
<1>1. NoStamp \in [Members -> 0 .. MaxClock] /\ NoServed \in [Members -> Nat]
  BY PoolAssumption DEF NoStamp, NoServed, Never
<1>2. \A m \in Members : NoStamp[m] = Never
  BY DEF NoStamp
<1>3. Idle \in PoolTx
  BY <1>1, PoolAssumption DEF Idle, PoolTx
<1>4. TxFits(Idle)
  BY <1>2 DEF Idle, TxFits, PoolTypeOK, Never
<1> QED
  BY <1>3, <1>4 DEF Idle

\* Initially there is no pool, and nothing was handed out.
LEMMA PoolInitOK == PoolInit => PoolInv
<1> SUFFICES ASSUME PoolInit PROVE PoolInv
  OBVIOUS
<1>1. NoServed \in [Members -> Nat]
  BY DEF NoServed
<1>2. Idle \in PoolTx
  BY PoolAssumption DEF Idle, PoolTx, NoStamp, NoServed, Never
<1>3. PoolTypeOK
  BY <1>1, <1>2, PoolAssumption DEF PoolInit, PoolTypeOK, PoolTx
<1>4. ActiveMembers = {}
  BY DEF PoolInit, ActiveMembers
<1> QED
  BY <1>3, <1>4, IdleFits DEF PoolInit, PoolInv, OneHolder, ClockBoundsRows, InTurn

\* Only t's own transaction changes, to r.
LEMMA OneTxStep ==
    ASSUME PoolInv, NEW t \in PoolTxs, NEW r \in PoolTx,
           ptx' = [ptx EXCEPT ![t] = r], UNCHANGED <<member, clock, served>>,
           TxFits(r),
           r.locked => \A o \in PoolTxs \ {t} : ~ptx[o].locked,
           r.locked => InTurn(ServedWith(r), StampsWith(r))
    PROVE  PoolInv'
<1>1. PoolTypeOK'
  BY DEF PoolInv, PoolTypeOK, PoolTx
<1>2. \A o \in PoolTxs : ptx'[o] = IF o = t THEN r ELSE ptx[o]
  BY DEF PoolInv, PoolTypeOK
<1>3. OneHolder'
  BY <1>2 DEF PoolInv, OneHolder
<1>4. ActiveMembers' = ActiveMembers /\ Stamps' = Stamps
  BY DEF ActiveMembers, Stamps
<1>5. \A o \in PoolTxs : TxFits(ptx[o])' 
  BY <1>2, <1>4 DEF PoolInv, TxFits
<1>6. \A o \in PoolTxs : ptx'[o].locked => InTurn(ServedWith(ptx[o]), StampsWith(ptx[o]))'
  <2> SUFFICES ASSUME NEW o \in PoolTxs, ptx'[o].locked
               PROVE InTurn(ServedWith(ptx[o]), StampsWith(ptx[o]))'
    OBVIOUS
  <2> DEFINE q == IF o = t THEN r ELSE ptx[o]
  <2>1. q.locked /\ InTurn(ServedWith(q), StampsWith(q))
    BY <1>2 DEF PoolInv
  <2>2. ServedWith(ptx[o])' = ServedWith(q) /\ StampsWith(ptx[o])' = StampsWith(q)
    BY <1>2 DEF ServedWith, StampsWith
  <2> HIDE DEF q
  <2> QED
    BY <2>1, <2>2, <1>4 DEF InTurn
<1>7. InTurn(served, Stamps)'
  BY <1>4 DEF PoolInv, InTurn
<1> QED
  BY <1>1, <1>3, <1>5, <1>6, <1>7 DEF PoolInv, ClockBoundsRows

\* A transaction that has ended, or has just begun, holds nothing.
LEMMA HoldsNothing ==
    ASSUME PoolInv, NEW t \in PoolTxs, NEW r \in PoolTx,
           ptx' = [ptx EXCEPT ![t] = r], UNCHANGED <<member, clock, served>>,
           TxFits(r), ~r.locked
    PROVE  PoolInv'
  BY OneTxStep

\* The same transaction at another step, with as many rows or one less.
LEMMA MovedOn ==
    ASSUME PoolInv, NEW t \in PoolTxs, NEW r \in PoolTx,
           ptx' = [ptx EXCEPT ![t] = r], UNCHANGED <<member, clock, served>>,
           r.locked = ptx[t].locked, r.stamp = ptx[t].stamp, r.picks = ptx[t].picks,
           r.existing = ptx[t].existing,
           r.step = "count" \/ (r.step = "lock" /\ r.rows > 0)
    PROVE  PoolInv'
<1>1. TxFits(r)
  BY DEF PoolInv, TxFits
<1>2. r.locked => \A o \in PoolTxs \ {t} : ~ptx[o].locked
  BY DEF PoolInv, OneHolder
<1>3. r.locked => InTurn(ServedWith(r), StampsWith(r))
  <2>1. ServedWith(r) = ServedWith(ptx[t]) /\ StampsWith(r) = StampsWith(ptx[t])
    BY DEF ServedWith, StampsWith
  <2> QED
    BY <2>1 DEF PoolInv
<1> QED
  BY <1>1, <1>2, <1>3, OneTxStep

\* The next row of a transaction that had one.
LEMMA NextRowFits ==
    ASSUME NEW r \in PoolTx, r.rows > 0
    PROVE  /\ NextRow(r) \in PoolTx /\ NextRow(r).step = "count"
           /\ NextRow(r).locked = r.locked /\ NextRow(r).stamp = r.stamp
           /\ NextRow(r).picks = r.picks /\ NextRow(r).existing = r.existing
<1>1. PICK k \in 0 .. MaxRows : k = r.rows - 1
  BY PoolAssumption DEF PoolTx
<1>2. NextRow(r) = [r EXCEPT !.step = "count", !.rows = k]
  BY <1>1 DEF NextRow
<1>3. [r EXCEPT !.step = "count", !.rows = k] \in PoolTx
  BY DEF PoolTx
<1> QED
  BY <1>2, <1>3 DEF PoolTx

\* The first to lock sees what is committed.
LEMMA LockStep ==
    ASSUME PoolInv, NEW t \in PoolTxs, LockProject(t)
    PROVE  PoolInv'
<1> DEFINE r == [ptx[t] EXCEPT !.step = "pick", !.locked = TRUE]
<1>1. ptx[t] \in PoolTx
  BY DEF PoolInv, PoolTypeOK, PoolTx
<1>2. r \in PoolTx /\ r.locked /\ r.step = "pick" /\ r.rows = ptx[t].rows
      /\ r.stamp = ptx[t].stamp /\ r.picks = ptx[t].picks /\ r.existing = ptx[t].existing
  BY <1>1 DEF PoolTx
<1>3. ptx' = [ptx EXCEPT ![t] = r] /\ UNCHANGED <<member, clock, served>>
      /\ ptx[t].step = "lock" /\ \A o \in PoolTxs \ {t} : ~ptx[o].locked
  BY DEF LockProject, AdvisoryFree
<1> HIDE DEF r
<1>4. TxFits(r)
  BY <1>2, <1>3 DEF PoolInv, TxFits
<1>5. InTurn(ServedWith(r), StampsWith(r))
  <2>1. CASE ptx[t].locked
    <3>1. ServedWith(r) = ServedWith(ptx[t]) /\ StampsWith(r) = StampsWith(ptx[t])
      BY <1>2 DEF ServedWith, StampsWith
    <3> QED
      BY <2>1, <3>1 DEF PoolInv
  <2>2. CASE ~ptx[t].locked
    <3>1. r.stamp = NoStamp /\ r.picks = NoServed
      BY <1>2, <2>2 DEF PoolInv, TxFits
    <3>2. served \in [Members -> Nat]
      BY DEF PoolInv, PoolTypeOK
    <3>3. ServedWith(r) = served
      BY <3>1, <3>2 DEF ServedWith, NoServed
    <3>4. StampsWith(r) = Stamps
      BY <3>1 DEF StampsWith, Stamps, NoStamp
    <3> QED
      BY <3>3, <3>4 DEF PoolInv
  <2> QED
    BY <2>1, <2>2
<1> QED
  BY <1>2, <1>3, <1>4, <1>5, OneTxStep

\* A transaction after it picked m at time c.
LEMMA PickedFits ==
    ASSUME NEW q \in PoolTx, q.rows > 0, NEW m \in Members, NEW c \in 0 .. MaxClock,
           NEW r, r = NextRow(Stamped(q, m, c))
    PROVE  /\ r \in PoolTx /\ r.locked = q.locked /\ r.step = "count"
           /\ r.stamp = [q.stamp EXCEPT ![m] = c]
           /\ r.picks = [q.picks EXCEPT ![m] = @ + 1]
           /\ r.existing = q.existing
<1> DEFINE st == [q.stamp EXCEPT ![m] = c]
           pk == [q.picks EXCEPT ![m] = @ + 1]
           s == Stamped(q, m, c)
<1>1. st \in [Members -> 0 .. MaxClock] /\ pk \in [Members -> Nat]
  BY DEF PoolTx
<1>2. s = [q EXCEPT !.stamp = st, !.picks = pk]
  BY Zenon DEF Stamped
<1> HIDE DEF st, pk, s
<1>3. s \in PoolTx /\ s.rows = q.rows /\ s.stamp = st /\ s.picks = pk /\ s.locked = q.locked
      /\ s.existing = q.existing
  BY <1>1, <1>2 DEF PoolTx
<1>4. r = NextRow(s)
  BY DEF s
<1> QED
  BY <1>3, <1>4, NextRowFits DEF st, pk

\* The holder's pick: nobody else has a row locked, so the choice is among all the
\* active members, and who waited longest has been given no more than anyone.
LEMMA PickStep ==
    ASSUME PoolInv, NEW t \in PoolTxs, ptx[t].step = "pick",
           NEW m \in ActiveMembers,
           \A n \in ActiveMembers \ {m} : RowLocked(t, n) \/ Before(t, m, n),
           clock < MaxClock, clock' = clock + 1, UNCHANGED <<member, served>>,
           NEW r \in PoolTx, ptx' = [ptx EXCEPT ![t] = r], r.locked, r.step = "count",
           r.stamp = [ptx[t].stamp EXCEPT ![m] = clock'],
           r.picks = [ptx[t].picks EXCEPT ![m] = @ + 1],
           r.existing = ptx[t].existing
    PROVE  PoolInv'
<1>1. ptx[t] \in PoolTx /\ ptx[t].locked /\ m \in Members
  BY ActiveAreMembers DEF PoolInv, PoolTypeOK, PoolTx, TxFits
<1>2. /\ clock \in 0 .. MaxClock /\ clock' \in 0 .. MaxClock /\ clock' # Never
      /\ served \in [Members -> Nat]
  BY PoolAssumption DEF PoolInv, PoolTypeOK, Never
<1>6. \A o \in PoolTxs : ptx'[o] = IF o = t THEN r ELSE ptx[o]
  BY DEF PoolInv, PoolTypeOK
<1>7. PoolTypeOK'
  BY <1>2 DEF PoolInv, PoolTypeOK, PoolTx
<1>8. OneHolder'
  BY <1>1, <1>6 DEF PoolInv, OneHolder
<1>9. ClockBoundsRows'
  <2> SUFFICES ASSUME NEW n \in Members, member[n] # NULL PROVE member[n].last <= clock'
    BY DEF ClockBoundsRows
  <2>1. member[n] \in PoolRow /\ member[n].last <= clock
    BY DEF PoolInv, ClockBoundsRows, PoolTypeOK
  <2> QED
    BY <1>2, <2>1 DEF PoolRow
<1>10. ActiveMembers' = ActiveMembers /\ Stamps' = Stamps
  BY DEF ActiveMembers, Stamps
<1>11. ASSUME NEW o \in PoolTxs PROVE TxFits(ptx[o])'
  <2>1. ptx[o] \in PoolTx /\ TxFits(ptx[o])
    BY DEF PoolInv, PoolTypeOK, PoolTx
  <2>2. CASE o = t
    <3>1. \A n \in Members : r.stamp[n] = IF n = m THEN clock' ELSE ptx[t].stamp[n]
      BY <1>1 DEF PoolTx
    <3>2. \A n \in Members : r.stamp[n] <= clock'
      BY <1>1, <1>2, <3>1, <2>1, <2>2 DEF TxFits, PoolTx
    <3>3. r.existing # NULL => r.existing.last <= clock'
      BY <1>1, <1>2, <2>1, <2>2 DEF TxFits, PoolTx, PoolRow
    <3>4. \A n \in Members : r.stamp[n] # Never => n \in ActiveMembers
      BY <3>1, <2>1, <2>2 DEF TxFits
    <3> QED
      BY <1>6, <1>10, <2>2, <3>2, <3>3, <3>4 DEF TxFits
  <2>3. CASE o # t
    <3>1. \A n \in Members : ptx[o].stamp[n] <= clock'
      BY <1>2, <2>1 DEF TxFits, PoolTx
    <3>2. ptx[o].existing # NULL => ptx[o].existing.last <= clock'
      BY <1>2, <2>1 DEF TxFits, PoolTx, PoolRow
    <3> QED
      BY <1>6, <1>10, <2>1, <2>3, <3>1, <3>2 DEF TxFits
  <2> QED
    BY <2>2, <2>3
<1>12. InTurn(ServedWith(r), StampsWith(r))
  <2>1. InTurn(ServedWith(ptx[t]), StampsWith(ptx[t]))
    BY <1>1 DEF PoolInv
  <2>2. ASSUME NEW n \in Members
        PROVE  /\ ServedWith(ptx[t])[n] \in Nat
               /\ ServedWith(r)[n] = IF n = m THEN ServedWith(ptx[t])[m] + 1
                                     ELSE ServedWith(ptx[t])[n]
    BY <1>1, <1>2 DEF ServedWith, PoolTx
  <2>3. ASSUME NEW n \in ActiveMembers
        PROVE  /\ StampsWith(ptx[t])[n] \in Nat /\ StampsWith(ptx[t])[n] <= clock
               /\ StampsWith(r)[n] = IF n = m THEN clock' ELSE StampsWith(ptx[t])[n]
               /\ StampsWith(ptx[t])[n] = LastSeen(t, n)
    <3>1. n \in Members /\ member[n] \in PoolRow /\ member[n].last <= clock
      BY DEF ActiveMembers, PoolInv, PoolTypeOK, ClockBoundsRows
    <3>2. ptx[t].stamp[n] \in 0 .. MaxClock /\ ptx[t].stamp[n] <= clock
      BY <1>1, <3>1 DEF PoolInv, TxFits, PoolTx
    <3>3. StampsWith(ptx[t])[n] = LastSeen(t, n)
      BY <3>1 DEF StampsWith, LastSeen
    <3>4. r.stamp[n] = IF n = m THEN clock' ELSE ptx[t].stamp[n]
      BY <1>1, <3>1 DEF PoolTx
    <3>5. StampsWith(r)[n] = IF n = m THEN clock' ELSE StampsWith(ptx[t])[n]
      BY <3>1, <3>4, <1>2 DEF StampsWith
    <3> QED
      BY <3>1, <3>2, <3>3, <3>5 DEF StampsWith, PoolRow
  <2>4. \A n \in ActiveMembers \ {m} : StampsWith(ptx[t])[m] <= StampsWith(ptx[t])[n]
    <3> SUFFICES ASSUME NEW n \in ActiveMembers \ {m}
                 PROVE  StampsWith(ptx[t])[m] <= StampsWith(ptx[t])[n]
      OBVIOUS
    <3>1. ~RowLocked(t, n)
      <4> SUFFICES ASSUME NEW o \in PoolTxs \ {t} PROVE ptx[o].stamp[n] = Never
        BY DEF RowLocked
      <4>1. ~ptx[o].locked
        BY <1>1 DEF PoolInv, OneHolder
      <4>2. n \in Members
        BY ActiveAreMembers
      <4> QED
        BY <4>1, <4>2 DEF PoolInv, TxFits, NoStamp
    <3> QED
      BY <3>1, <2>3 DEF Before
  <2> HIDE DEF PoolInv
  <2> SUFFICES ASSUME NEW a \in ActiveMembers, NEW b \in ActiveMembers
               PROVE  /\ ServedWith(r)[a] <= ServedWith(r)[b] + 1
                      /\ ServedWith(r)[a] > ServedWith(r)[b] => StampsWith(r)[a] > StampsWith(r)[b]
    BY DEF InTurn
  <2>5. a \in Members /\ b \in Members
    BY ActiveAreMembers
  <2>6. /\ ServedWith(ptx[t])[a] <= ServedWith(ptx[t])[b] + 1
        /\ ServedWith(ptx[t])[a] > ServedWith(ptx[t])[b]
              => StampsWith(ptx[t])[a] > StampsWith(ptx[t])[b]
        /\ ServedWith(ptx[t])[b] <= ServedWith(ptx[t])[a] + 1
        /\ ServedWith(ptx[t])[b] > ServedWith(ptx[t])[a]
              => StampsWith(ptx[t])[b] > StampsWith(ptx[t])[a]
    BY <2>1 DEF InTurn
  <2>7. CASE a = m /\ b # m
    BY <1>2, <2>2, <2>3, <2>4, <2>5, <2>6, <2>7
  <2>8. CASE a # m /\ b = m
    BY <1>2, <2>2, <2>3, <2>4, <2>5, <2>6, <2>8
  <2>9. CASE a = m <=> b = m
    BY <1>2, <2>2, <2>3, <2>5, <2>6, <2>9
  <2> QED
    BY <2>7, <2>8, <2>9
<1>13. ASSUME NEW o \in PoolTxs, ptx'[o].locked
       PROVE  InTurn(ServedWith(ptx[o]), StampsWith(ptx[o]))'
  <2>1. o = t
    BY <1>1, <1>6, <1>13 DEF PoolInv, OneHolder
  <2>2. ServedWith(ptx[o])' = ServedWith(r) /\ StampsWith(ptx[o])' = StampsWith(r)
    <3>1. ptx'[o] = r /\ member' = member /\ served' = served
      BY <1>6, <2>1
    <3> QED
      BY ONLY <3>1 DEF ServedWith, StampsWith
  <2> QED
    BY <2>2, <1>10, <1>12 DEF InTurn
<1>14. InTurn(served, Stamps)'
  BY <1>10 DEF PoolInv, InTurn
<1> QED
  BY <1>7, <1>8, <1>9, <1>11, <1>13, <1>14 DEF PoolInv

\* Stamps and picks of the holder become what is committed; a transaction without
\* the lock commits none.
LEMMA CommitStep ==
    ASSUME PoolInv, NEW t \in PoolTxs, CommitIntake(t)
    PROVE  PoolInv'
<1>1. ptx[t] \in PoolTx /\ TxFits(ptx[t])
  BY DEF PoolInv, PoolTypeOK, PoolTx
<1>2. \A o \in PoolTxs : ptx'[o] = IF o = t THEN Idle ELSE ptx[o]
  BY DEF CommitIntake, PoolInv, PoolTypeOK
<1>3. Idle \in PoolTx /\ ~Idle.locked /\ TxFits(Idle) /\ Idle.stamp = NoStamp
      /\ Idle.picks = NoServed /\ Idle.existing = NULL /\ Idle.step = "idle"
  BY IdleFits DEF PoolInv, Idle
<1>4. /\ member \in [Members -> PoolRow \cup {NULL}] /\ served \in [Members -> Nat]
      /\ clock' = clock /\ clock \in 0 .. MaxClock
  BY DEF CommitIntake, PoolInv, PoolTypeOK
<1>5. ASSUME NEW m \in Members
      PROVE  /\ member'[m] \in PoolRow \cup {NULL}
             /\ member'[m] = NULL <=> member[m] = NULL
             /\ m \in ActiveMembers' <=> m \in ActiveMembers
             /\ m \in ActiveMembers => member'[m].last = StampsWith(ptx[t])[m]
             /\ member[m] # NULL => member'[m].last <= clock
  <2>1. ptx[t].stamp[m] \in 0 .. MaxClock /\ ptx[t].stamp[m] <= clock
        /\ (ptx[t].stamp[m] # Never => m \in ActiveMembers)
    BY <1>1 DEF PoolTx, TxFits
  <2>2. CASE ptx[t].stamp[m] # Never
    <3>1. member[m] \in PoolRow /\ member[m] # NULL /\ member[m].active
      BY <1>4, <2>1, <2>2 DEF ActiveMembers
    <3>2. member'[m] = [member[m] EXCEPT !.last = ptx[t].stamp[m]]
      BY <2>2 DEF CommitIntake
    <3>3. member'[m] \in PoolRow /\ member'[m].active /\ member'[m].last = ptx[t].stamp[m]
      BY <3>1, <3>2, <2>1 DEF PoolRow
    <3> QED
      BY <3>1, <3>3, <2>1, <2>2, PoolAssumption DEF ActiveMembers, StampsWith
  <2>3. CASE ptx[t].stamp[m] = Never
    <3>1. member'[m] = member[m]
      BY <2>3 DEF CommitIntake
    <3>2. member[m] # NULL => member[m].last <= clock
      BY DEF PoolInv, ClockBoundsRows
    <3> QED
      BY <3>1, <3>2, <1>4, <2>3 DEF ActiveMembers, StampsWith
  <2> QED
    BY <2>2, <2>3
<1>6. ActiveMembers' = ActiveMembers
  BY <1>5 DEF ActiveMembers
<1>7. ASSUME NEW m \in Members PROVE served'[m] = ServedWith(ptx[t])[m] /\ served'[m] \in Nat
  BY <1>1, <1>4 DEF CommitIntake, ServedWith, PoolTx
<1>8. PoolTypeOK'
  <2>1. member' \in [Members -> PoolRow \cup {NULL}]
    <3>1. \A m \in Members : member'[m] \in PoolRow \cup {NULL}
      BY <1>5
    <3>2. member' = [m \in Members |-> member'[m]]
      BY DEF CommitIntake
    <3> QED
      BY <3>1, <3>2
  <2>2. served' \in [Members -> Nat]
    <3>1. served' = [m \in Members |-> served'[m]]
      BY DEF CommitIntake
    <3> QED
      BY <3>1, <1>7
  <2>3. ptx' \in [PoolTxs -> PoolTx]
    BY <1>3 DEF CommitIntake, PoolInv, PoolTypeOK, PoolTx
  <2> QED
    BY <1>4, <2>1, <2>2, <2>3 DEF PoolTypeOK, PoolTx
<1>9. OneHolder' /\ ClockBoundsRows'
  BY <1>2, <1>3, <1>4, <1>5 DEF PoolInv, OneHolder, ClockBoundsRows
<1>10. ASSUME NEW o \in PoolTxs PROVE TxFits(ptx[o])'
  <2>1. TxFits(ptx'[o])
    BY <1>2, <1>3 DEF PoolInv
  <2> QED
    BY <2>1, <1>4, <1>6 DEF TxFits
<1>11. InTurn(served, Stamps)'
  <2> DEFINE c == IF ptx[t].locked THEN ServedWith(ptx[t]) ELSE served
             l == IF ptx[t].locked THEN StampsWith(ptx[t]) ELSE Stamps
  <2>1. InTurn(c, l)
    BY DEF PoolInv
  <2>2. ASSUME NEW m \in ActiveMembers PROVE served'[m] = c[m] /\ Stamps'[m] = l[m]
    <3>1. m \in Members /\ Stamps'[m] = member'[m].last
      BY ActiveAreMembers DEF Stamps
    <3>2. CASE ptx[t].locked
      BY <3>1, <3>2, <1>5, <1>7
    <3>3. CASE ~ptx[t].locked
      <4>1. ptx[t].stamp[m] = Never /\ ptx[t].picks[m] = 0
        BY <3>1, <3>3, <1>1 DEF TxFits, NoStamp, NoServed
      <4>2. StampsWith(ptx[t])[m] = Stamps[m] /\ ServedWith(ptx[t])[m] = served[m]
        BY <3>1, <4>1, <1>4 DEF StampsWith, Stamps, ServedWith
      <4> QED
        BY <3>1, <3>3, <4>2, <1>5, <1>7
    <3> QED
      BY <3>2, <3>3
  <2> HIDE DEF c, l
  <2> QED
    BY <2>1, <2>2, <1>6 DEF InTurn
<1>12. ASSUME NEW o \in PoolTxs, ptx'[o].locked
       PROVE  InTurn(ServedWith(ptx[o]), StampsWith(ptx[o]))'
  <2>1. o # t /\ ptx'[o] = ptx[o] /\ ptx[o].locked /\ ~ptx[t].locked
    BY <1>2, <1>3, <1>12 DEF PoolInv, OneHolder
  <2>2. ASSUME NEW m \in ActiveMembers
        PROVE  /\ ServedWith(ptx[o])'[m] = ServedWith(ptx[o])[m]
               /\ StampsWith(ptx[o])'[m] = StampsWith(ptx[o])[m]
    <3>1. m \in Members
      BY ActiveAreMembers
    <3>2. ptx[t].stamp[m] = Never /\ ptx[t].picks[m] = 0
      BY <3>1, <2>1, <1>1 DEF TxFits, NoStamp, NoServed
    <3>3. member'[m] = member[m] /\ served'[m] = served[m]
      BY <3>1, <3>2, <1>4 DEF CommitIntake
    <3> QED
      BY <3>1, <3>3, <2>1 DEF ServedWith, StampsWith
  <2>3. InTurn(ServedWith(ptx[o]), StampsWith(ptx[o]))
    BY <2>1 DEF PoolInv
  <2> QED
    BY <2>2, <2>3, <1>6 DEF InTurn
<1> QED
  BY <1>8, <1>9, <1>10, <1>11, <1>12 DEF PoolInv

\* A member changes: the counts start anew, and the row is nobody's but the writer's.
LEMMA MembershipStep ==
    ASSUME PoolInv, NEW t \in PoolTxs, WriteMembership(t)
    PROVE  PoolInv'
<1> DEFINE w == ptx[t].m
           row == member'[w]
<1>1. ptx[t] \in PoolTx /\ TxFits(ptx[t]) /\ w \in Members /\ ptx[t].step = "write"
  BY DEF WriteMembership, PoolInv, PoolTypeOK, PoolTx, TxFits
<1>2. /\ member \in [Members -> PoolRow \cup {NULL}] /\ clock \in 0 .. MaxClock
      /\ clock' = clock + 1 /\ clock' \in 0 .. MaxClock
  BY PoolAssumption DEF WriteMembership, PoolInv, PoolTypeOK
<1>3. \A o \in PoolTxs \ {t} : ptx[o].stamp[w] = Never
  BY <1>1 DEF WriteMembership, RowLocked
<1>4. PICK x \in 0 .. MaxClock :
         x <= clock' /\ member' = [member EXCEPT ![w] = [active |-> ptx[t].on, last |-> x]]
  <2>1. CASE ptx[t].existing = NULL
    BY <2>1, <1>2, PoolAssumption DEF WriteMembership, Never
  <2>2. CASE ptx[t].existing # NULL
    <3>1. ptx[t].existing \in PoolRow /\ ptx[t].existing.last <= clock
      BY <1>1, <2>2 DEF PoolTx, TxFits
    <3>2. LastOnWrite(ptx[t].existing, ptx[t].on) \in 0 .. MaxClock
          /\ LastOnWrite(ptx[t].existing, ptx[t].on) <= clock'
      BY <1>2, <3>1 DEF LastOnWrite, PoolRow
    <3> QED
      BY <2>2, <3>2 DEF WriteMembership
  <2> QED
    BY <2>1, <2>2
<1>5. ptx[t].on \in BOOLEAN /\ [active |-> ptx[t].on, last |-> x] \in PoolRow
  BY <1>1 DEF PoolTx, PoolRow
<1>6. /\ member'[w] = [active |-> ptx[t].on, last |-> x]
      /\ \A m \in Members \ {w} : member'[m] = member[m]
  BY <1>1, <1>2, <1>4
<1>7. /\ Idle \in PoolTx /\ ~Idle.locked /\ TxFits(Idle) /\ Idle.step = "idle"
      /\ Idle.stamp = NoStamp /\ Idle.picks = NoServed /\ Idle.existing = NULL
  BY IdleFits DEF PoolInv, Idle
<1>8. ASSUME NEW o \in PoolTxs \ {t}
      PROVE  /\ ptx'[o] \in PoolTx /\ ptx'[o].step = ptx[o].step /\ ptx'[o].rows = ptx[o].rows
             /\ ptx'[o].locked = ptx[o].locked /\ ptx'[o].stamp = ptx[o].stamp
             /\ ptx'[o].picks = NoServed /\ ptx'[o].existing = ptx[o].existing
             /\ ptx'[o].m = ptx[o].m
  <2>1. ptx[o] \in PoolTx /\ NoServed \in [Members -> Nat]
    BY DEF PoolInv, PoolTypeOK, PoolTx, NoServed
  <2>2. ptx'[o] = [ptx[o] EXCEPT !.picks = NoServed]
    BY DEF WriteMembership
  <2> QED
    BY <2>1, <2>2 DEF PoolTx
<1>9. ptx'[t] = Idle /\ served' = NoServed
  BY DEF WriteMembership
<1>10. PoolTypeOK'
  <2>1. \A o \in PoolTxs : ptx'[o] \in PoolTx
    BY <1>7, <1>8, <1>9
  <2>2. ptx' = [o \in PoolTxs |-> ptx'[o]]
    BY DEF WriteMembership
  <2>3. ptx' \in [PoolTxs -> PoolTx]
    BY <2>1, <2>2
  <2>4. member' \in [Members -> PoolRow \cup {NULL}]
    BY <1>1, <1>2, <1>4, <1>5
  <2>5. served' \in [Members -> Nat]
    BY <1>9 DEF NoServed
  <2> QED
    BY <1>2, <2>3, <2>4, <2>5 DEF PoolTypeOK, PoolTx
<1>11. OneHolder'
  BY <1>7, <1>8, <1>9 DEF PoolInv, OneHolder
<1>12. ClockBoundsRows'
  <2> SUFFICES ASSUME NEW m \in Members, member'[m] # NULL PROVE member'[m].last <= clock'
    BY DEF ClockBoundsRows
  <2>1. CASE m = w
    BY <2>1, <1>4, <1>6
  <2>2. CASE m # w
    BY <2>2, <1>2, <1>6 DEF PoolInv, ClockBoundsRows, PoolRow
  <2> QED
    BY <2>1, <2>2
<1>13. \A m \in Members \ {w} : m \in ActiveMembers => m \in ActiveMembers'
  BY <1>6 DEF ActiveMembers
<1>14. ASSUME NEW o \in PoolTxs PROVE TxFits(ptx[o])'
  <2>1. CASE o = t
    <3>1. \A m \in Members : NoStamp[m] = Never
      BY DEF NoStamp
    <3> QED
      BY <2>1, <3>1, <1>2, <1>7, <1>9 DEF TxFits, Never
  <2>2. CASE o # t
    <3>1. TxFits(ptx[o]) /\ ptx[o] \in PoolTx
      BY DEF PoolInv, PoolTypeOK, PoolTx
    <3>2. \A m \in Members : ptx[o].stamp[m] <= clock'
      BY <3>1, <1>2 DEF TxFits, PoolTx
    <3>3. ptx[o].existing # NULL => ptx[o].existing.last <= clock'
      BY <3>1, <1>2 DEF TxFits, PoolTx, PoolRow
    <3>4. \A m \in Members : ptx[o].stamp[m] # Never => m \in ActiveMembers'
      BY <3>1, <2>2, <1>3, <1>13 DEF TxFits
    <3> QED
      BY <3>1, <3>2, <3>3, <3>4, <2>2, <1>8 DEF TxFits
  <2> QED
    BY <2>1, <2>2
<1>15. InTurn(served, Stamps)'
  BY <1>9, ActiveAreMembers DEF InTurn, NoServed, ActiveMembers
<1>16. ASSUME NEW o \in PoolTxs, ptx'[o].locked
       PROVE  InTurn(ServedWith(ptx[o]), StampsWith(ptx[o]))'
  <2>1. ptx'[o].picks = NoServed
    BY <1>7, <1>8, <1>9
  <2>2. \A m \in Members : ServedWith(ptx[o])'[m] = 0
    BY <2>1, <1>9 DEF ServedWith, NoServed
  <2> QED
    BY <2>2 DEF InTurn, ActiveMembers
<1> QED
  BY <1>10, <1>11, <1>12, <1>14, <1>15, <1>16 DEF PoolInv

\* Every step keeps the pool's invariant.
LEMMA PoolStep == PoolInv /\ [PoolNext]_poolVars => PoolInv'
<1> SUFFICES ASSUME PoolInv, [PoolNext]_poolVars PROVE PoolInv'
  OBVIOUS
<1>t. ASSUME NEW t \in PoolTxs PROVE ptx[t] \in PoolTx /\ TxFits(ptx[t])
  BY DEF PoolInv, PoolTypeOK, PoolTx
<1>i. /\ Idle \in PoolTx /\ ~Idle.locked /\ TxFits(Idle)
      /\ Idle.stamp = NoStamp /\ Idle.picks = NoServed /\ Idle.existing = NULL
  BY IdleFits DEF PoolInv, Idle
<1>0. CASE UNCHANGED poolVars
  <2>1. ActiveMembers' = ActiveMembers /\ Stamps' = Stamps
    BY <1>0 DEF poolVars, ActiveMembers, Stamps
  <2>2. \A t \in PoolTxs : TxFits(ptx[t])'
    BY <1>0, <1>t, <2>1 DEF poolVars, TxFits
  <2>3. \A t \in PoolTxs : ServedWith(ptx[t])' = ServedWith(ptx[t])
                           /\ StampsWith(ptx[t])' = StampsWith(ptx[t])
    BY <1>0 DEF poolVars, ServedWith, StampsWith
  <2> QED
    BY <1>0, <2>1, <2>2, <2>3
    DEF poolVars, PoolInv, PoolTypeOK, OneHolder, ClockBoundsRows, InTurn
<1>1. ASSUME NEW t \in PoolTxs, NEW k \in 1 .. MaxRows, BeginIntake(t, k) PROVE PoolInv'
  <2> DEFINE r == [Idle EXCEPT !.step = "count", !.rows = k]
  <2>1. /\ r \in PoolTx /\ r.step = "count" /\ ~r.locked /\ r.stamp = NoStamp
        /\ r.picks = NoServed /\ r.existing = NULL
    <3>1. k \in 0 .. MaxRows
      BY PoolAssumption
    <3> QED
      BY <3>1, <1>i DEF PoolTx
  <2>2. ptx' = [ptx EXCEPT ![t] = r] /\ UNCHANGED <<member, clock, served>>
    BY <1>1 DEF BeginIntake
  <2> HIDE DEF r
  <2>3. TxFits(r)
    BY <2>1, <1>i DEF TxFits, Idle
  <2> QED
    BY <2>1, <2>2, <2>3, HoldsNothing
<1>2. ASSUME NEW t \in PoolTxs, CountActive(t) PROVE PoolInv'
  <2> DEFINE l == [ptx[t] EXCEPT !.step = "lock"]
             r == IF ActiveMembers = {} THEN NextRow(ptx[t]) ELSE l
  <2>1. ptx[t].rows > 0 /\ ptx' = [ptx EXCEPT ![t] = r] /\ UNCHANGED <<member, clock, served>>
    BY <1>2 DEF CountActive
  <2>2. /\ l \in PoolTx /\ l.step = "lock" /\ l.rows > 0 /\ l.locked = ptx[t].locked
        /\ l.stamp = ptx[t].stamp /\ l.picks = ptx[t].picks /\ l.existing = ptx[t].existing
    BY <1>t, <2>1 DEF PoolTx
  <2> HIDE DEF l
  <2>3. /\ r \in PoolTx /\ (r.step = "count" \/ (r.step = "lock" /\ r.rows > 0))
        /\ r.locked = ptx[t].locked /\ r.stamp = ptx[t].stamp /\ r.picks = ptx[t].picks
        /\ r.existing = ptx[t].existing
    <3>1. CASE ActiveMembers = {}
      BY <1>t, <2>1, <3>1, NextRowFits
    <3>2. CASE ActiveMembers # {}
      BY <2>2, <3>2
    <3> QED
      BY <3>1, <3>2
  <2> HIDE DEF r
  <2> QED
    BY <2>1, <2>3, MovedOn
<1>3. ASSUME NEW t \in PoolTxs, PickAndStamp(t) PROVE PoolInv'
  <2> DEFINE open == {m \in ActiveMembers : ~RowLocked(t, m)}
  <2>1. ptx[t].step = "pick" /\ ptx[t].rows > 0 /\ ptx[t].locked
    BY <1>3, <1>t DEF PickAndStamp, TxFits
  <2>2. CASE ptx' = [ptx EXCEPT ![t] = NextRow(@)] /\ UNCHANGED <<member, clock, served>>
    <3> DEFINE r == NextRow(ptx[t])
    <3>1. /\ r \in PoolTx /\ r.step = "count" /\ r.locked = ptx[t].locked
          /\ r.stamp = ptx[t].stamp /\ r.picks = ptx[t].picks /\ r.existing = ptx[t].existing
      BY <1>t, <2>1, NextRowFits
    <3>2. ptx' = [ptx EXCEPT ![t] = r] /\ UNCHANGED <<member, clock, served>>
      BY <2>2
    <3> HIDE DEF r
    <3> QED
      BY <3>1, <3>2, MovedOn
  <2>3. ASSUME NEW m \in open, \A n \in open \ {m} : Before(t, m, n),
               clock < MaxClock, clock' = clock + 1, UNCHANGED <<member, served>>,
               ptx' = [ptx EXCEPT ![t] = NextRow(Stamped(@, m, clock'))]
        PROVE  PoolInv'
    <3> DEFINE r == NextRow(Stamped(ptx[t], m, clock'))
    <3>1. m \in ActiveMembers /\ m \in Members /\ clock' \in 0 .. MaxClock
      BY <2>3, ActiveAreMembers, PoolAssumption DEF PoolInv, PoolTypeOK
    <3>2. ptx' = [ptx EXCEPT ![t] = r]
      BY <2>3
    <3>3. ptx[t] \in PoolTx
      BY <1>t
    <3>4. /\ r \in PoolTx /\ r.locked = ptx[t].locked /\ r.step = "count"
          /\ r.stamp = [ptx[t].stamp EXCEPT ![m] = clock']
          /\ r.picks = [ptx[t].picks EXCEPT ![m] = @ + 1]
          /\ r.existing = ptx[t].existing
      <4> DEFINE q == ptx[t]
                 c == clock'
      <4>1. q \in PoolTx /\ q.rows > 0 /\ m \in Members /\ c \in 0 .. MaxClock
            /\ r = NextRow(Stamped(q, m, c))
        BY <3>1, <3>3, <2>1
      <4> HIDE DEF r, q, c
      <4>2. /\ r \in PoolTx /\ r.locked = q.locked /\ r.step = "count"
            /\ r.stamp = [q.stamp EXCEPT ![m] = c]
            /\ r.picks = [q.picks EXCEPT ![m] = @ + 1]
            /\ r.existing = q.existing
        BY <4>1, PickedFits
      <4> QED
        BY <4>2 DEF q, c
    <3> HIDE DEF r
    <3>5. \A n \in ActiveMembers \ {m} : RowLocked(t, n) \/ Before(t, m, n)
      BY <2>3
    <3> QED
      BY <2>1, <2>3, <3>1, <3>2, <3>4, <3>5, PickStep
  <2> QED
    BY <1>3, <2>2, <2>3 DEF PickAndStamp
<1>4. ASSUME NEW t \in PoolTxs, RollbackIntake(t) \/ AbandonMembership(t) PROVE PoolInv'
  BY <1>4, <1>i, HoldsNothing DEF RollbackIntake, AbandonMembership
<1>5. ASSUME NEW t \in PoolTxs, NEW m \in Members, NEW on \in BOOLEAN, setMembership(t, m, on)
      PROVE  PoolInv'
  <2> DEFINE r == [Idle EXCEPT !.step = "write", !.m = m, !.on = on, !.existing = member[m]]
  <2>1. member[m] \in PoolRow \cup {NULL} /\ (member[m] # NULL => member[m].last <= clock)
    BY DEF PoolInv, PoolTypeOK, ClockBoundsRows
  <2>2. /\ r \in PoolTx /\ r.step = "write" /\ ~r.locked /\ r.stamp = NoStamp
        /\ r.picks = NoServed /\ r.existing = member[m] /\ r.m = m
    BY <2>1, <1>i DEF PoolTx
  <2>3. ptx' = [ptx EXCEPT ![t] = r] /\ UNCHANGED <<member, clock, served>>
    BY <1>5 DEF setMembership
  <2> HIDE DEF r
  <2>4. TxFits(r)
    BY <2>1, <2>2, <1>i DEF TxFits, Idle
  <2> QED
    BY <2>2, <2>3, <2>4, HoldsNothing
<1> QED
  BY <1>0, <1>1, <1>2, <1>3, <1>4, <1>5, LockStep, CommitStep, MembershipStep DEF PoolNext

\* Strict round robin: whatever intakes overlap, fail or bring several rows, and
\* whatever the pool's size, no active member has been given two leads more than
\* another since the pool last changed (autoAssign).
THEOREM StrictRoundRobinHolds == PoolSpec => []StrictRoundRobin
<1>1. PoolInv => StrictRoundRobin
  BY DEF PoolInv, InTurn, StrictRoundRobin
<1> QED
  BY PoolInitOK, PoolStep, <1>1, PTL DEF PoolSpec

-----------------------------------------------------------------------------
(* The lead pipeline.                                                      *)

\* A lead's histories end where it is and have gaps at most in the dispositions,
\* and it is converted while it is successful.
Told(i) ==
    lead[i] # NULL =>
        /\ trail[i] \in TrailRow
        /\ trail[i].stage = lead[i].stage
        /\ trail[i].owner = lead[i].owner
        /\ trail[i].gaps \subseteq {"status"}
        /\ lead[i].converted <=> lead[i].status = "SUCCESSFUL"

\* What a request under way names.  The lead that it read is there, and is as it
\* was read unless the request is an attachBooking.
LeadReqOK(v) ==
    \/ v.op = "stage"
    \/ /\ v.lead \in Leads /\ lead[v.lead] # NULL
       /\ \/ v.op = "attach" /\ v.booking \in Bookings /\ v.seen \in LeadRow
          \/ v.op = "followUp" /\ v.seen = lead[v.lead]
          \/ v.op = "assign" /\ v.seen = lead[v.lead] /\ v.user \in Users
          \/ /\ v.op = "update" /\ v.seen = lead[v.lead]
             /\ v.status \in Status \cup {NULL} /\ v.stage \in Stages \cup {NULL}

\* Only attachBooking requests overlap.
Overlap ==
    \A t, o \in LeadTxs : t # o /\ leadReq[t] # NULL /\ leadReq[o] # NULL => leadReq[t].op = "attach"

OneBookingPerLead == \A b, c \in Bookings : source[b] # NULL /\ source[b] = source[c] => b = c

LeadTyped ==
    /\ lead \in [Leads -> LeadRow \cup {NULL}]
    /\ trail \in [Leads -> TrailRow \cup {NULL}]
    /\ source \in [Bookings -> Leads \cup {NULL}]
    /\ leadReq = [t \in LeadTxs |-> leadReq[t]]

LeadInv ==
    /\ LeadTyped
    /\ \A i \in Leads : Told(i)
    /\ \A t \in LeadTxs : leadReq[t] # NULL => LeadReqOK(leadReq[t])
    /\ Overlap
    /\ OneBookingPerLead

LEMMA LeadInitOK == LeadInit => LeadInv
  BY DEF LeadInit, LeadInv, LeadTyped, Told, Overlap, OneBookingPerLead

\* A row from where the history of that axis ends leaves no gap.
LEMMA RowOfStage ==
    ASSUME NEW w \in TrailRow, NEW from, NEW to \in Stages \cup {NULL}
    PROVE  /\ Row(w, "stage", from, to) \in TrailRow
           /\ Row(w, "stage", from, to).stage = to
           /\ Row(w, "stage", from, to).owner = w.owner
           /\ w.stage = from => Row(w, "stage", from, to).gaps = w.gaps
  BY DEF Row, TrailRow

LEMMA RowOfStatus ==
    ASSUME NEW w \in TrailRow, NEW from, NEW to \in Status
    PROVE  /\ Row(w, "status", from, to) \in TrailRow
           /\ Row(w, "status", from, to).stage = w.stage
           /\ Row(w, "status", from, to).owner = w.owner
           /\ Row(w, "status", from, to).gaps \subseteq w.gaps \cup {"status"}
  BY DEF Row, TrailRow

LEMMA RowOfOwner ==
    ASSUME NEW w \in TrailRow, NEW from, NEW to \in Users
    PROVE  /\ Row(w, "owner", from, to) \in TrailRow
           /\ Row(w, "owner", from, to).stage = w.stage
           /\ Row(w, "owner", from, to).owner = to
           /\ w.owner = from => Row(w, "owner", from, to).gaps = w.gaps
  BY DEF Row, TrailRow

\* Lead i becomes v and its trail w; the requests that stay under way are still
\* about leads that are as they read them.
LEMMA LeadBecomes ==
    ASSUME LeadInv, NEW i \in Leads, NEW v \in LeadRow, NEW w \in TrailRow,
           lead' = [lead EXCEPT ![i] = v], trail' = [trail EXCEPT ![i] = w],
           w.stage = v.stage, w.owner = v.owner, w.gaps \subseteq {"status"},
           v.converted <=> v.status = "SUCCESSFUL",
           source' \in [Bookings -> Leads \cup {NULL}], OneBookingPerLead',
           leadReq' = [t \in LeadTxs |-> leadReq'[t]],
           \A t \in LeadTxs : leadReq'[t] # NULL =>
               leadReq'[t] = leadReq[t] /\ (lead[i] = NULL \/ leadReq[t].op = "attach")
    PROVE  LeadInv'
<1>1. LeadTyped /\ \A j \in Leads : Told(j)
  BY DEF LeadInv
<1>2. v # NULL /\ lead'[i] = v /\ trail'[i] = w
  BY <1>1, LeadAssumption DEF LeadTyped
<1>3. \A j \in Leads \ {i} : lead'[j] = lead[j] /\ trail'[j] = trail[j]
  BY <1>1 DEF LeadTyped
<1>4. LeadTyped'
  BY <1>1 DEF LeadTyped
<1>5. ASSUME NEW j \in Leads PROVE Told(j)'
  <2>1. CASE j = i
    BY <1>2, <2>1 DEF Told
  <2>2. CASE j # i
    BY <1>1, <1>3, <2>2 DEF Told
  <2> QED
    BY <2>1, <2>2
<1>6. ASSUME NEW t \in LeadTxs, leadReq'[t] # NULL PROVE LeadReqOK(leadReq[t])' /\ leadReq'[t] = leadReq[t]
  <2>1. leadReq'[t] = leadReq[t] /\ LeadReqOK(leadReq[t]) /\ (lead[i] = NULL \/ leadReq[t].op = "attach")
    BY <1>6 DEF LeadInv
  <2>2. PICK q : q = leadReq[t]
    OBVIOUS
  <2>3. q.op = "stage" \/ q.lead = i \/ (q.lead \in Leads /\ lead'[q.lead] = lead[q.lead])
    BY <1>3, <2>1, <2>2 DEF LeadReqOK
  <2>4. q.lead = i => lead'[q.lead] # NULL
    BY <1>2
  <2>5. LeadReqOK(q)'
    BY <2>1, <2>2, <2>3, <2>4 DEF LeadReqOK
  <2> QED
    BY <2>1, <2>2, <2>5
<1>7. Overlap'
  BY <1>6 DEF LeadInv, Overlap
<1> QED
  BY <1>4, <1>5, <1>6, <1>7 DEF LeadInv

\* The histories of a new lead.
LEMMA EnterStep ==
    ASSUME LeadInv, NEW i \in Leads, NEW s \in Stages \cup {NULL}, NEW u \in Users \cup {NULL},
           Enter(i, s, u)
    PROVE  LeadInv'
<1> DEFINE v == [status |-> "OPEN", stage |-> s, owner |-> u, converted |-> FALSE]
           a == StageRow(NoTrail, NULL, s)
           b == Row(a, "status", NULL, "OPEN")
           w == IF u = NULL THEN b ELSE Row(b, "owner", NULL, u)
<1>1. v \in LeadRow /\ v.stage = s /\ v.owner = u /\ (v.converted <=> v.status = "SUCCESSFUL")
  BY DEF LeadRow, Status
<1>2. NoTrail \in TrailRow /\ NoTrail.stage = NULL /\ NoTrail.owner = NULL /\ NoTrail.gaps = {}
  BY DEF NoTrail, TrailRow
<1>3. a \in TrailRow /\ a.stage = s /\ a.owner = NULL /\ a.gaps = {}
  <2>1. CASE s = NULL
    BY <1>2, <2>1 DEF StageRow
  <2>2. CASE s # NULL
    <3>1. a = Row(NoTrail, "stage", NULL, s)
      BY <2>2 DEF StageRow
    <3> QED
      BY <1>2, <3>1, RowOfStage
  <2> QED
    BY <2>1, <2>2
<1>4. /\ lead[i] = NULL /\ lead' = [lead EXCEPT ![i] = v] /\ trail' = [trail EXCEPT ![i] = w]
      /\ UNCHANGED <<source, leadReq>>
  BY DEF Enter
<1> HIDE DEF v, a
<1>5. b \in TrailRow /\ b.stage = s /\ b.owner = NULL /\ b.gaps \subseteq {"status"}
  <2>1. "OPEN" \in Status
    BY DEF Status
  <2> QED
    BY <1>3, <2>1, RowOfStatus
<1> HIDE DEF b
<1>6. w \in TrailRow /\ w.stage = s /\ w.owner = u /\ w.gaps \subseteq {"status"}
  <2>1. CASE u = NULL
    BY <1>5, <2>1
  <2>2. CASE u # NULL
    <3>1. w = Row(b, "owner", NULL, u)
      BY <2>2
    <3> QED
      BY <1>5, <2>2, <3>1, RowOfOwner
  <2> QED
    BY <2>1, <2>2
<1> HIDE DEF w
<1>7. /\ source' \in [Bookings -> Leads \cup {NULL}] /\ OneBookingPerLead'
      /\ leadReq' = [t \in LeadTxs |-> leadReq'[t]]
  BY <1>4 DEF LeadInv, LeadTyped, OneBookingPerLead
<1> QED
  BY <1>1, <1>4, <1>6, <1>7, LeadBecomes

\* A handler begins on what it read.
LEMMA LeadStart ==
    ASSUME LeadInv, Together \subseteq {"attach", "intake"}, NEW t \in LeadTxs, NEW r,
           Start(t, r), LeadReqOK(r)
    PROVE  LeadInv'
<1>1. leadReq' = [leadReq EXCEPT ![t] = r] /\ UNCHANGED <<lead, trail, source>>
  BY DEF Start
<1>2. leadReq'[t] = r /\ (\A o \in LeadTxs \ {t} : leadReq'[o] = leadReq[o])
      /\ leadReq' = [o \in LeadTxs |-> leadReq'[o]]
  BY <1>1 DEF LeadInv, LeadTyped
<1>3. ASSUME NEW q, LeadReqOK(q) PROVE LeadReqOK(q)' /\ q.op # "intake"
  BY <1>1, <1>3 DEF LeadReqOK
<1>4. ASSUME NEW o \in LeadTxs, leadReq'[o] # NULL PROVE LeadReqOK(leadReq[o])'
  <2>1. PICK q : q = leadReq'[o] /\ LeadReqOK(q)
    BY <1>2, <1>4 DEF LeadInv
  <2>2. LeadReqOK(q)'
    BY <1>3, <2>1
  <2> QED
    BY <2>1, <2>2
<1>5. ASSUME NEW o \in LeadTxs \ {t}, leadReq[o] # NULL PROVE leadReq[o].op = "attach" /\ r.op = "attach"
  <2>1. LeadReqOK(leadReq[o])
    BY <1>5 DEF LeadInv
  <2>2. leadReq[o].op # "intake" /\ r.op # "intake"
    BY <1>3, <2>1
  <2> QED
    BY <1>5, <2>2 DEF Start
<1>6. Overlap'
  BY <1>2, <1>5 DEF LeadInv, Overlap
<1>7. LeadTyped' /\ OneBookingPerLead' /\ \A i \in Leads : Told(i)'
  BY <1>1, <1>2 DEF LeadInv, LeadTyped, OneBookingPerLead, Told
<1> QED
  BY <1>4, <1>6, <1>7 DEF LeadInv

\* What stays under way when t is done.
LEMMA LeadDone ==
    ASSUME LeadInv, NEW t \in LeadTxs, Done(t), leadReq[t] # NULL
    PROVE  /\ leadReq' = [o \in LeadTxs |-> leadReq'[o]]
           /\ \A o \in LeadTxs : leadReq'[o] # NULL => leadReq'[o] = leadReq[o] /\ leadReq[o].op = "attach"
<1>1. leadReq'[t] = NULL /\ \A o \in LeadTxs \ {t} : leadReq'[o] = leadReq[o]
  BY DEF LeadInv, LeadTyped, Done
<1> QED
  BY <1>1 DEF LeadInv, LeadTyped, Done, Overlap

LEMMA NothingTold ==
    ASSUME LeadInv, NEW t \in LeadTxs, Done(t), leadReq[t] # NULL, UNCHANGED <<lead, trail>>,
           source' \in [Bookings -> Leads \cup {NULL}], OneBookingPerLead'
    PROVE  LeadInv'
<1>1. /\ leadReq' = [o \in LeadTxs |-> leadReq'[o]]
      /\ \A o \in LeadTxs : leadReq'[o] # NULL => leadReq'[o] = leadReq[o] /\ leadReq[o].op = "attach"
  BY LeadDone
<1>2. LeadTyped' /\ \A i \in Leads : Told(i)'
  BY <1>1 DEF LeadInv, LeadTyped, Told
<1>3. ASSUME NEW o \in LeadTxs, leadReq'[o] # NULL PROVE LeadReqOK(leadReq[o])'
  <2>1. PICK q : q = leadReq'[o] /\ LeadReqOK(q)
    BY <1>1, <1>3 DEF LeadInv
  <2>2. LeadReqOK(q)'
    BY <2>1 DEF LeadReqOK
  <2> QED
    BY <2>1, <2>2
<1>4. Overlap'
  BY <1>1 DEF Overlap
<1> QED
  BY <1>2, <1>3, <1>4 DEF LeadInv

\* The commit of a handler that names the new row and the new trail.
LEMMA LeadCommits ==
    ASSUME LeadInv, NEW t \in LeadTxs, Done(t), leadReq[t] # NULL,
           NEW i \in Leads, NEW v \in LeadRow, NEW w \in TrailRow,
           lead' = [lead EXCEPT ![i] = v], trail' = [trail EXCEPT ![i] = w],
           w.stage = v.stage, w.owner = v.owner, w.gaps \subseteq {"status"},
           v.converted <=> v.status = "SUCCESSFUL",
           source' \in [Bookings -> Leads \cup {NULL}], OneBookingPerLead'
    PROVE  LeadInv'
  BY LeadDone, LeadBecomes

LEMMA UpdateStep ==
    ASSUME LeadInv, NEW t \in LeadTxs, UpdateCommit(t)
    PROVE  LeadInv'
<1>0. PICK r : r = leadReq[t]
  OBVIOUS
<1>1. r # NULL /\ r.op = "update" /\ LeadReqOK(r)
  BY <1>0 DEF UpdateCommit, LeadInv
<1>2. PICK i \in Leads, st \in Status \cup {NULL}, s \in Stages \cup {NULL} :
          i = r.lead /\ st = r.status /\ s = r.stage /\ r.seen = lead[i] /\ lead[i] # NULL
  BY <1>1 DEF LeadReqOK
<1>3. PICK p \in LeadRow, h \in TrailRow :
          /\ p = lead[i] /\ h = trail[i] /\ h.stage = p.stage /\ h.owner = p.owner
          /\ h.gaps \subseteq {"status"} /\ (p.converted <=> p.status = "SUCCESSFUL")
  BY <1>2 DEF LeadInv, LeadTyped, Told
<1> DEFINE v == [status |-> IF st = NULL THEN p.status ELSE st,
                 stage |-> IF s = NULL THEN p.stage ELSE s,
                 owner |-> p.owner,
                 converted |-> Converted(p.converted, p, st)]
           a == IF s # NULL /\ s # p.stage THEN StageRow(h, p.stage, s) ELSE h
           w == IF st # NULL /\ st # p.status THEN Row(a, "status", p.status, st) ELSE a
<1>4. lead' = [lead EXCEPT ![i] = v] /\ trail' = [trail EXCEPT ![i] = w] /\ Done(t) /\ UNCHANGED source
  BY <1>0, <1>2, <1>3 DEF UpdateCommit
<1>5. Converted(p.converted, p, st) \in BOOLEAN
  BY DEF Converted, LeadRow
<1>6. v \in LeadRow /\ v.stage = (IF s = NULL THEN p.stage ELSE s) /\ v.owner = p.owner
  BY <1>5 DEF LeadRow
<1>7. v.converted <=> v.status = "SUCCESSFUL"
  BY <1>3 DEF Converted
<1>8. a \in TrailRow /\ a.stage = v.stage /\ a.owner = p.owner /\ a.gaps \subseteq {"status"}
  <2>1. CASE s # NULL /\ s # p.stage
    <3>1. a = Row(h, "stage", p.stage, s)
      BY <2>1 DEF StageRow
    <3> QED
      BY <1>3, <1>6, <2>1, <3>1, RowOfStage
  <2>2. CASE ~(s # NULL /\ s # p.stage)
    <3>1. a = h
      BY <2>2
    <3> QED
      BY <1>3, <1>6, <2>2, <3>1
  <2> QED
    BY <2>1, <2>2
<1> HIDE DEF v, a
<1>9. w \in TrailRow /\ w.stage = v.stage /\ w.owner = v.owner /\ w.gaps \subseteq {"status"}
  <2>1. CASE st # NULL /\ st # p.status
    <3>1. w = Row(a, "status", p.status, st)
      BY <2>1
    <3> QED
      BY <1>6, <1>8, <2>1, <3>1, RowOfStatus
  <2>2. CASE ~(st # NULL /\ st # p.status)
    BY <1>6, <1>8, <2>2
  <2> QED
    BY <2>1, <2>2
<1> HIDE DEF w
<1>10. source' \in [Bookings -> Leads \cup {NULL}] /\ OneBookingPerLead'
  BY <1>4 DEF LeadInv, LeadTyped, OneBookingPerLead
<1> QED
  BY <1>0, <1>1, <1>4, <1>6, <1>7, <1>9, <1>10, LeadCommits

LEMMA FollowUpStep ==
    ASSUME LeadInv, NEW t \in LeadTxs, FollowUpCommit(t)
    PROVE  LeadInv'
<1>0. PICK r : r = leadReq[t]
  OBVIOUS
<1>1. r # NULL /\ r.op = "followUp" /\ LeadReqOK(r) /\ Done(t) /\ UNCHANGED <<trail, source>>
  BY <1>0 DEF FollowUpCommit, LeadInv
<1>s. source' \in [Bookings -> Leads \cup {NULL}] /\ OneBookingPerLead'
  BY <1>1 DEF LeadInv, LeadTyped, OneBookingPerLead
<1>2. PICK i \in Leads : i = r.lead /\ r.seen = lead[i] /\ lead[i] # NULL
  BY <1>1 DEF LeadReqOK
<1>3. PICK p \in LeadRow, h \in TrailRow :
          /\ p = lead[i] /\ h = trail[i] /\ h.stage = p.stage /\ h.owner = p.owner
          /\ h.gaps \subseteq {"status"} /\ (p.converted <=> p.status = "SUCCESSFUL")
  BY <1>2 DEF LeadInv, LeadTyped, Told
<1>4. CASE r.status = NULL
  <2>1. UNCHANGED <<lead, trail>>
    BY <1>0, <1>1, <1>4 DEF FollowUpCommit
  <2> QED
    BY <1>0, <1>1, <1>s, <2>1, NothingTold
<1>5. CASE r.status # NULL
  <2>1. PICK st \in Status : st = (IF p.status = "OPEN" THEN "CONTINUED" ELSE p.status)
    BY DEF LeadRow, Status
  <2> DEFINE v == [p EXCEPT !.status = st]
  <2>2. v \in LeadRow /\ v.stage = p.stage /\ v.owner = p.owner
    BY DEF LeadRow
  <2>3. v.converted <=> v.status = "SUCCESSFUL"
    BY <1>3, <2>1 DEF LeadRow
  <2>4. lead' = [lead EXCEPT ![i] = v]
    BY <1>0, <1>2, <1>3, <1>5, <2>1 DEF FollowUpCommit
  <2>5. trail' = [trail EXCEPT ![i] = h]
    BY <1>1, <1>3 DEF LeadInv, LeadTyped
  <2>6. Done(t) /\ leadReq[t] # NULL /\ h.stage = v.stage /\ h.owner = v.owner /\ h.gaps \subseteq {"status"}
    BY <1>0, <1>1, <1>3, <2>2
  <2> HIDE DEF v
  <2> QED
    BY <1>s, <2>2, <2>3, <2>4, <2>5, <2>6, LeadCommits
<1> QED
  BY <1>4, <1>5

LEMMA AttachStep ==
    ASSUME LeadInv, NEW t \in LeadTxs, AttachCommit(t)
    PROVE  LeadInv'
<1>0. PICK r : r = leadReq[t]
  OBVIOUS
<1>1. r # NULL /\ r.op = "attach" /\ LeadReqOK(r) /\ Done(t)
  BY <1>0 DEF AttachCommit, LeadInv
<1>2. PICK i \in Leads, b \in Bookings, q \in LeadRow :
          i = r.lead /\ b = r.booking /\ q = r.seen /\ lead[i] # NULL
  BY <1>1 DEF LeadReqOK
<1>3. PICK p \in LeadRow, h \in TrailRow :
          /\ p = lead[i] /\ h = trail[i] /\ h.stage = p.stage /\ h.owner = p.owner
          /\ h.gaps \subseteq {"status"}
  BY <1>2 DEF LeadInv, LeadTyped, Told
<1>4. source' = [source EXCEPT ![b] = i] /\ \A c \in Bookings \ {b} : source[c] # i
  BY <1>0, <1>2 DEF AttachCommit, SourceIsUnique
<1>s. source' \in [Bookings -> Leads \cup {NULL}] /\ OneBookingPerLead'
  BY <1>4 DEF LeadInv, LeadTyped, OneBookingPerLead
<1>5. CASE q.status = "SUCCESSFUL"
  <2>1. UNCHANGED <<lead, trail>>
    BY <1>0, <1>2, <1>5 DEF AttachCommit
  <2> QED
    BY <1>0, <1>1, <1>s, <2>1, NothingTold
<1>6. CASE q.status # "SUCCESSFUL"
  <2> DEFINE v == [p EXCEPT !.status = "SUCCESSFUL", !.converted = TRUE]
             w == Row(h, "status", q.status, "SUCCESSFUL")
  <2>1. lead' = [lead EXCEPT ![i] = v]
    <3>1. lead' = [lead EXCEPT ![i].status = "SUCCESSFUL", ![i].converted = TRUE]
      BY <1>0, <1>2, <1>6 DEF AttachCommit
    <3>2. lead \in [Leads -> LeadRow \cup {NULL}]
      BY DEF LeadInv, LeadTyped
    <3> QED
      BY <1>3, <3>1, <3>2
  <2>2. trail' = [trail EXCEPT ![i] = w]
    BY <1>0, <1>2, <1>3, <1>6 DEF AttachCommit
  <2>3. v \in LeadRow /\ v.stage = p.stage /\ v.owner = p.owner /\ (v.converted <=> v.status = "SUCCESSFUL")
    BY DEF LeadRow, Status
  <2>4. w \in TrailRow /\ w.stage = p.stage /\ w.owner = p.owner /\ w.gaps \subseteq {"status"}
    <3>1. "SUCCESSFUL" \in Status
      BY DEF Status
    <3> QED
      BY <1>3, <3>1, RowOfStatus
  <2> HIDE DEF v, w
  <2> QED
    BY <1>0, <1>1, <1>s, <2>1, <2>2, <2>3, <2>4, LeadCommits
<1> QED
  BY <1>5, <1>6

LEMMA AssignStep ==
    ASSUME LeadInv, NEW t \in LeadTxs, AssignCommit(t)
    PROVE  LeadInv'
<1>0. PICK r : r = leadReq[t]
  OBVIOUS
<1>1. r # NULL /\ r.op = "assign" /\ LeadReqOK(r) /\ Done(t) /\ UNCHANGED source
  BY <1>0 DEF AssignCommit, LeadInv
<1>s. source' \in [Bookings -> Leads \cup {NULL}] /\ OneBookingPerLead'
  BY <1>1 DEF LeadInv, LeadTyped, OneBookingPerLead
<1>2. PICK i \in Leads, u \in Users : i = r.lead /\ u = r.user /\ r.seen = lead[i] /\ lead[i] # NULL
  BY <1>1 DEF LeadReqOK
<1>3. PICK p \in LeadRow, h \in TrailRow :
          /\ p = lead[i] /\ h = trail[i] /\ h.stage = p.stage /\ h.owner = p.owner
          /\ h.gaps \subseteq {"status"} /\ (p.converted <=> p.status = "SUCCESSFUL")
  BY <1>2 DEF LeadInv, LeadTyped, Told
<1> DEFINE v == [p EXCEPT !.owner = u]
           w == Row(h, "owner", p.owner, u)
<1>4. lead' = [lead EXCEPT ![i] = v] /\ trail' = [trail EXCEPT ![i] = w]
  BY <1>0, <1>2, <1>3 DEF AssignCommit
<1>5. v \in LeadRow /\ v.stage = p.stage /\ v.owner = u
  BY DEF LeadRow
<1>6. v.converted <=> v.status = "SUCCESSFUL"
  BY <1>3 DEF LeadRow
<1>7. w \in TrailRow /\ w.stage = p.stage /\ w.owner = u /\ w.gaps \subseteq {"status"}
  BY <1>3, RowOfOwner
<1> HIDE DEF v, w
<1> QED
  BY <1>0, <1>1, <1>s, <1>4, <1>5, <1>6, <1>7, LeadCommits

\* reassignOccupants moves the leads that are in the stage when it commits, and
\* writes each of them a row from there.
LEMMA RetireStageStep ==
    ASSUME LeadInv, NEW t \in LeadTxs, UpdateStageCommit(t)
    PROVE  LeadInv'
<1>0. PICK r, s, to : r = leadReq[t] /\ s = r.stage /\ to = r.target
  OBVIOUS
<1>1. r # NULL /\ r.op = "stage" /\ Done(t) /\ UNCHANGED source
  BY <1>0 DEF UpdateStageCommit
<1>2. \A o \in LeadTxs : leadReq'[o] = NULL
  BY <1>0, <1>1 DEF LeadInv, LeadTyped, Overlap, Done
<1> DEFINE moved == IF r.seen.active /\ ~r.active THEN Occupants(s) ELSE {}
<1>3. /\ moved # {} => to \in Stages
      /\ lead' = [i \in Leads |-> IF i \in moved THEN [lead[i] EXCEPT !.stage = to] ELSE lead[i]]
      /\ trail' = [i \in Leads |-> IF i \in moved THEN Row(trail[i], "stage", s, to) ELSE trail[i]]
  BY <1>0 DEF UpdateStageCommit, Reassigned
<1>4. \A i \in moved : i \in Leads /\ lead[i] # NULL /\ lead[i].stage = s
  BY DEF Occupants
<1> HIDE DEF moved
<1>5. ASSUME NEW i \in Leads
      PROVE  lead'[i] \in LeadRow \cup {NULL} /\ trail'[i] \in TrailRow \cup {NULL} /\ Told(i)'
  <2>0. lead[i] \in LeadRow \cup {NULL} /\ trail[i] \in TrailRow \cup {NULL} /\ Told(i)
    BY DEF LeadInv, LeadTyped
  <2>1. CASE i \notin moved
    <3>1. lead'[i] = lead[i] /\ trail'[i] = trail[i]
      BY <1>3, <2>1
    <3> QED
      BY <2>0, <3>1 DEF Told
  <2>2. CASE i \in moved
    <3>1. PICK p \in LeadRow, h \in TrailRow :
              /\ p = lead[i] /\ h = trail[i] /\ h.stage = s /\ h.owner = p.owner
              /\ h.gaps \subseteq {"status"} /\ (p.converted <=> p.status = "SUCCESSFUL")
      BY <1>4, <2>0, <2>2 DEF Told
    <3> DEFINE v == [p EXCEPT !.stage = to]
               w == Row(h, "stage", s, to)
    <3>2. lead'[i] = v /\ trail'[i] = w /\ to \in Stages
      BY <1>3, <2>2, <3>1
    <3>3. v \in LeadRow /\ v.stage = to /\ v.owner = p.owner
      BY <3>2 DEF LeadRow
    <3>4. v.converted <=> v.status = "SUCCESSFUL"
      BY <3>1 DEF LeadRow
    <3>5. w \in TrailRow /\ w.stage = to /\ w.owner = p.owner /\ w.gaps \subseteq {"status"}
      BY <3>1, <3>2, RowOfStage
    <3> HIDE DEF v, w
    <3> QED
      BY <3>2, <3>3, <3>4, <3>5 DEF Told
  <2> QED
    BY <2>1, <2>2
<1>6. LeadTyped'
  <2>1. lead' = [i \in Leads |-> lead'[i]] /\ trail' = [i \in Leads |-> trail'[i]]
    BY <1>3
  <2>2. leadReq' = [o \in LeadTxs |-> leadReq'[o]]
    BY <1>1 DEF LeadInv, LeadTyped, Done
  <2> QED
    BY <1>1, <1>5, <2>1, <2>2 DEF LeadInv, LeadTyped
<1> QED
  BY <1>1, <1>2, <1>5, <1>6 DEF LeadInv, Overlap, OneBookingPerLead

LEMMA DefaultStageFits == DefaultStage \in Stages \cup {NULL}
  BY DEF DefaultStage

LEMMA LeadStep ==
    ASSUME Together \subseteq {"attach", "intake"}
    PROVE  LeadInv /\ [LeadNext]_leadVars => LeadInv'
<1> SUFFICES ASSUME LeadInv, [LeadNext]_leadVars PROVE LeadInv'
  OBVIOUS
<1>r. ASSUME NEW i \in Leads, lead[i] # NULL PROVE lead[i] \in LeadRow
  BY <1>r DEF LeadInv, LeadTyped
<1>0. CASE UNCHANGED leadVars
  BY <1>0 DEF leadVars, LeadInv, LeadTyped, Told, LeadReqOK, Overlap, OneBookingPerLead
<1>1. ASSUME NEW i \in Leads, NEW asked \in Stages \cup {NULL}, NEW by \in Users, NEW retains \in BOOLEAN,
             NEW pool \in Users \cup {NULL}, create(i, asked, by, retains, pool)
      PROVE  LeadInv'
  <2>1. PICK s \in InitialStages(asked) : Enter(i, s, IF retains THEN by ELSE pool)
    BY <1>1 DEF create
  <2>2. s \in Stages \cup {NULL}
    BY DefaultStageFits DEF InitialStages
  <2>3. PICK u \in Users \cup {NULL} : u = (IF retains THEN by ELSE pool)
    OBVIOUS
  <2>4. Enter(i, s, u)
    BY <2>1, <2>3
  <2> QED
    BY <2>2, <2>4, EnterStep
<1>2. ASSUME NEW i \in Leads, NEW pool \in Users \cup {NULL}, createFromLead(i, pool) PROVE LeadInv'
  BY <1>2, DefaultStageFits, EnterStep DEF createFromLead
<1>3. ASSUME NEW s \in Stages, NEW active, NEW default, createStage(s, active, default) PROVE LeadInv'
  BY <1>3 DEF createStage, LeadInv, LeadTyped, Told, LeadReqOK, Overlap, OneBookingPerLead
<1>4. ASSUME NEW t \in LeadTxs, NEW i \in Leads, NEW st \in Status \cup {NULL}, NEW s \in Stages \cup {NULL},
             NEW hasReason, update(t, i, st, s, hasReason)
      PROVE  LeadInv'
  <2>1. lead[i] # NULL /\ Start(t, Request("update", i, st, s))
    BY <1>4 DEF update
  <2>2. LeadReqOK(Request("update", i, st, s))
    BY <2>1 DEF LeadReqOK, Request
  <2> QED
    BY <2>1, <2>2, LeadStart
<1>5. ASSUME NEW t \in LeadTxs, NEW i \in Leads, NEW hasNext, followUp(t, i, hasNext) PROVE LeadInv'
  <2>1. PICK st : lead[i] # NULL /\ Start(t, Request("followUp", i, st, NULL))
    BY <1>5 DEF followUp
  <2>2. LeadReqOK(Request("followUp", i, st, NULL))
    BY <2>1 DEF LeadReqOK, Request
  <2> QED
    BY <2>1, <2>2, LeadStart
<1>6. ASSUME NEW t \in LeadTxs, NEW i \in Leads, NEW b \in Bookings, attachBooking(t, i, b) PROVE LeadInv'
  <2> DEFINE v == [op |-> "attach", lead |-> i, booking |-> b, seen |-> lead[i]]
  <2>1. lead[i] # NULL /\ Start(t, v)
    BY <1>6 DEF attachBooking
  <2>2. LeadReqOK(v)
    BY <1>r, <2>1 DEF LeadReqOK
  <2> QED
    BY <2>1, <2>2, LeadStart
<1>7. ASSUME NEW t \in LeadTxs, NEW i \in Leads, NEW u \in Users, NEW visible, assign(t, i, u, visible)
      PROVE  LeadInv'
  <2> DEFINE v == [op |-> "assign", lead |-> i, user |-> u, seen |-> lead[i]]
  <2>1. lead[i] # NULL /\ Start(t, v)
    BY <1>7 DEF assign
  <2>2. LeadReqOK(v)
    BY <2>1 DEF LeadReqOK
  <2> QED
    BY <2>1, <2>2, LeadStart
<1>8. ASSUME NEW t \in LeadTxs, NEW s \in Stages, NEW active, NEW default, NEW target,
             updateStage(t, s, active, default, target)
      PROVE  LeadInv'
  <2> DEFINE v == [op |-> "stage", stage |-> s, active |-> active, default |-> default,
                   target |-> target, seen |-> stage[s]]
  <2>1. Start(t, v)
    BY <1>8 DEF updateStage
  <2>2. LeadReqOK(v)
    BY DEF LeadReqOK
  <2> QED
    BY <2>1, <2>2, LeadStart
<1>9. ASSUME NEW t \in LeadTxs, Refuse(t) PROVE LeadInv'
  <2>1. Done(t) /\ leadReq[t] # NULL /\ UNCHANGED <<lead, trail, source>>
    BY <1>9 DEF Refuse
  <2>2. source' \in [Bookings -> Leads \cup {NULL}] /\ OneBookingPerLead'
    BY <2>1 DEF LeadInv, LeadTyped, OneBookingPerLead
  <2> QED
    BY <2>1, <2>2, NothingTold
<1> QED
  BY <1>0, <1>1, <1>2, <1>3, <1>4, <1>5, <1>6, <1>7, <1>8, <1>9, UpdateStep, FollowUpStep, AttachStep,
     AssignStep, RetireStageStep DEF LeadNext

\* When edits, follow-ups, assignments and stage changes run one at a time, and
\* intakes and booking attachments overlap as they like, the records about every
\* lead agree: its histories end where it is, without a gap in stages or owners, it
\* counts as converted while it is SUCCESSFUL, and it has at most one booking
\* (writeStageTransition, reassignOccupants, attachBooking).
THEOREM RecordsTellTheLeadHolds ==
    ASSUME Together \subseteq {"attach", "intake"}
    PROVE  LeadSpec => []RecordsTellTheLead
<1>1. LeadInv => RecordsTellTheLead
  BY DEF LeadInv, Told, OneBookingPerLead, RecordsTellTheLead
<1> QED
  BY <1>1, LeadInitOK, LeadStep, PTL DEF LeadSpec

-----------------------------------------------------------------------------
(* Applicants.                                                             *)

\* Phones as they are stored, and their rows.
NormalPhones == {p \in Typed : p.number \notin Foreign => p.prefix = ""}
StoredRow == [phone : NormalPhones, mergedInto : People \cup {NULL}]

Exists(a) == a \in People /\ person[a] # NULL

\* What a request carries between its read and its transaction.
AppReqOK(r) ==
    /\ r.op \in {"create", "inquiry", "lead", "update", "merge"}
    /\ r.op \in {"create", "lead", "update"} => r.phone \in NormalPhones
    /\ r.op \in {"inquiry", "update"} => Exists(r.a)
    /\ r.op = "lead" => r.a = NULL \/ Exists(r.a)
    /\ r.op = "merge" => Exists(r.survivor) /\ Exists(r.merged) /\ r.survivor # r.merged

AppInv ==
    /\ person \in [People -> StoredRow \cup {NULL}]
    /\ inquiryOf \in [Inquiries -> People \cup {NULL}]
    /\ autoLink \in BOOLEAN
    /\ appReq = [t \in AppTxs |-> appReq[t]]
    /\ \A t \in AppTxs : appReq[t] # NULL => AppReqOK(appReq[t])

LEMMA NormalIsNormal == \A raw \in Typed : normalizePhone(raw) \in NormalPhones
  BY DEF Typed, normalizePhone, NormalPhones

LEMMA StoredIsNotNull == NULL \notin StoredRow
  BY AppAssumption DEF StoredRow, NormalPhones, ApplicantRow

LEMMA SameLineIsSamePhone ==
    \A p, q \in NormalPhones : SameLine(p, q) => p = q
<1> SUFFICES ASSUME NEW p \in NormalPhones, NEW q \in NormalPhones, p.number = q.number, p.number \notin Foreign
             PROVE  p = q
  BY DEF SameLine
<1>1. p = [prefix |-> p.prefix, number |-> p.number] /\ q = [prefix |-> q.prefix, number |-> q.number]
  BY DEF NormalPhones, Typed
<1>2. p.prefix = "" /\ q.prefix = ""
  BY DEF NormalPhones
<1> QED
  BY <1>1, <1>2

LEMMA LiveIsTyped ==
    ASSUME AppInv
    PROVE  \A a \in Live : a \in People /\ person[a] \in StoredRow /\ Exists(a) /\ a # NULL
  BY AppAssumption DEF AppInv, Live, Exists

LEMMA AppInitOK == AppInit => AppInv
  BY DEF AppInit, AppInv

\* A request is taken on.
LEMMA AskKeepsInv ==
    ASSUME AppInv, NEW t \in AppTxs, NEW r, AppReqOK(r), Ask(t, r)
    PROVE  AppInv'
<1>1. /\ UNCHANGED <<person, inquiryOf, autoLink>>
      /\ appReq' = [appReq EXCEPT ![t] = r]
  BY DEF Ask
<1>2. ASSUME NEW o \in AppTxs, appReq'[o] # NULL PROVE AppReqOK(appReq[o])'
  <2>1. CASE o = t
    BY <1>1, <2>1 DEF AppReqOK, Exists, AppInv
  <2>2. CASE o # t
    <3>1. appReq'[o] = appReq[o] /\ AppReqOK(appReq[o])
      BY <1>1, <1>2, <2>2 DEF AppInv
    <3> QED
      BY <1>1, <3>1 DEF AppReqOK, Exists
  <2> QED
    BY <2>1, <2>2
<1> QED
  BY <1>1, <1>2 DEF AppInv

\* A request is answered; the rows keep their types and nobody disappears.
LEMMA AnswerKeepsInv ==
    ASSUME AppInv, NEW t \in AppTxs, Answer(t),
           person' \in [People -> StoredRow \cup {NULL}],
           \A a \in People : person[a] # NULL => person'[a] # NULL,
           inquiryOf' \in [Inquiries -> People \cup {NULL}],
           UNCHANGED autoLink
    PROVE  AppInv'
<1>1. appReq' = [appReq EXCEPT ![t] = NULL]
  BY DEF Answer
<1>2. ASSUME NEW o \in AppTxs, appReq'[o] # NULL PROVE AppReqOK(appReq[o])'
  <2>1. appReq'[o] = appReq[o] /\ AppReqOK(appReq[o])
    BY <1>1, <1>2 DEF AppInv
  <2> QED
    BY <2>1 DEF AppReqOK, Exists
<1> QED
  BY <1>1, <1>2 DEF AppInv

\* A lead is placed: somebody new, or somebody who is there.
LEMMA PlacedLead ==
    ASSUME AppInv, NEW i \in Inquiries, NEW a \in People \cup {NULL},
           NEW phone \in NormalPhones, PlaceLead(i, a, phone)
    PROVE  /\ person' \in [People -> StoredRow \cup {NULL}]
           /\ \A b \in People : person[b] # NULL => person'[b] = person[b]
           /\ inquiryOf' \in [Inquiries -> People \cup {NULL}]
           /\ a # NULL => person' = person /\ inquiryOf' = [inquiryOf EXCEPT ![i] = a]
           /\ a = NULL => \E b \in People :
                /\ person[b] = NULL
                /\ person' = [person EXCEPT ![b] = [phone |-> phone, mergedInto |-> NULL]]
                /\ inquiryOf' = [inquiryOf EXCEPT ![i] = b]
<1>1. CASE a # NULL
  BY <1>1 DEF PlaceLead, AppInv
<1>2. CASE a = NULL
  <2>1. PICK b \in People :
          /\ person[b] = NULL
          /\ person' = [person EXCEPT ![b] = [phone |-> phone, mergedInto |-> NULL]]
          /\ inquiryOf' = [inquiryOf EXCEPT ![i] = b]
    BY <1>2 DEF PlaceLead
  <2>2. [phone |-> phone, mergedInto |-> NULL] \in StoredRow
    BY DEF StoredRow
  <2> QED
    BY <1>2, <2>1, <2>2 DEF AppInv
<1> QED
  BY <1>1, <1>2

LEMMA AppCommits ==
    ASSUME AppInv, NEW t \in AppTxs,
           \/ ApplicantCommit(t) \/ ApplicantInquiryCommit(t) \/ PlaceCommit(t)
           \/ PhoneCommit(t) \/ MergeCommit(t) \/ AppRefuse(t)
    PROVE  AppInv'
<1>r. appReq[t] # NULL => AppReqOK(appReq[t])
  BY DEF AppInv
<1>1. CASE ApplicantCommit(t)
  <2>1. appReq[t].phone \in NormalPhones
    BY <1>r, <1>1 DEF ApplicantCommit, AppReqOK
  <2>2. PICK a \in People :
          /\ person[a] = NULL
          /\ person' = [person EXCEPT ![a] = [phone |-> appReq[t].phone, mergedInto |-> NULL]]
          /\ \/ UNCHANGED inquiryOf
             \/ \E i \in Inquiries : inquiryOf' = [inquiryOf EXCEPT ![i] = a]
    BY <1>1 DEF ApplicantCommit
  <2>3. [phone |-> appReq[t].phone, mergedInto |-> NULL] \in StoredRow
    BY <2>1 DEF StoredRow
  <2>4. person' \in [People -> StoredRow \cup {NULL}] /\ \A b \in People : person[b] # NULL => person'[b] # NULL
    BY <2>2, <2>3 DEF AppInv
  <2>5. inquiryOf' \in [Inquiries -> People \cup {NULL}]
    BY <2>2 DEF AppInv
  <2> QED
    BY <1>1, <2>4, <2>5, AnswerKeepsInv DEF ApplicantCommit
<1>2. CASE ApplicantInquiryCommit(t)
  <2>1. appReq[t].a \in People
    BY <1>r, <1>2 DEF ApplicantInquiryCommit, AppReqOK, Exists
  <2>2. inquiryOf' \in [Inquiries -> People \cup {NULL}]
    BY <1>2, <2>1 DEF ApplicantInquiryCommit, AppInv
  <2>3. person' \in [People -> StoredRow \cup {NULL}] /\ \A b \in People : person[b] # NULL => person'[b] # NULL
    BY <1>2 DEF ApplicantInquiryCommit, AppInv
  <2> QED
    BY <1>2, <2>2, <2>3, AnswerKeepsInv DEF ApplicantInquiryCommit
<1>3. CASE PlaceCommit(t)
  <2>1. appReq[t].a \in People \cup {NULL} /\ appReq[t].phone \in NormalPhones
    BY <1>r, <1>3 DEF PlaceCommit, AppReqOK, Exists
  <2>2. PICK i \in Inquiries : PlaceLead(i, appReq[t].a, appReq[t].phone)
    BY <1>3 DEF PlaceCommit
  <2>3. /\ person' \in [People -> StoredRow \cup {NULL}]
        /\ \A b \in People : person[b] # NULL => person'[b] = person[b]
        /\ inquiryOf' \in [Inquiries -> People \cup {NULL}]
    BY <2>1, <2>2, PlacedLead
  <2> QED
    BY <1>3, <2>3, AnswerKeepsInv DEF PlaceCommit
<1>4. CASE PhoneCommit(t)
  <2>1. appReq[t].a \in People /\ person[appReq[t].a] # NULL /\ appReq[t].phone \in NormalPhones
    BY <1>r, <1>4 DEF PhoneCommit, AppReqOK, Exists
  <2>2. PICK a, p : a = appReq[t].a /\ p = appReq[t].phone
    OBVIOUS
  <2>3. person' = [person EXCEPT ![a] = [person[a] EXCEPT !.phone = p]]
    BY <1>4, <2>1, <2>2 DEF PhoneCommit, AppInv
  <2>4. [person[a] EXCEPT !.phone = p] \in StoredRow
    BY <2>1, <2>2 DEF AppInv, StoredRow
  <2>5. person' \in [People -> StoredRow \cup {NULL}] /\ \A b \in People : person[b] # NULL => person'[b] # NULL
    BY <2>1, <2>2, <2>3, <2>4, StoredIsNotNull DEF AppInv
  <2>6. inquiryOf' \in [Inquiries -> People \cup {NULL}]
    BY <1>4 DEF PhoneCommit, AppInv
  <2> QED
    BY <1>4, <2>5, <2>6, AnswerKeepsInv DEF PhoneCommit
<1>5. CASE MergeCommit(t)
  <2>1. PICK s, m : s = appReq[t].survivor /\ m = appReq[t].merged
    OBVIOUS
  <2>2. s \in People /\ m \in People /\ person[m] # NULL
    BY <1>r, <1>5, <2>1 DEF MergeCommit, AppReqOK, Exists
  <2>3. person' = [person EXCEPT ![m] = [person[m] EXCEPT !.mergedInto = s]]
    BY <1>5, <2>1, <2>2 DEF MergeCommit, AppInv
  <2>4. [person[m] EXCEPT !.mergedInto = s] \in StoredRow
    BY <2>2 DEF AppInv, StoredRow
  <2>5. person' \in [People -> StoredRow \cup {NULL}] /\ \A b \in People : person[b] # NULL => person'[b] # NULL
    BY <2>2, <2>3, <2>4, StoredIsNotNull DEF AppInv
  <2>6. inquiryOf' = LeadsMoved(s, m)
    BY <1>5, <2>1 DEF MergeCommit
  <2>7. inquiryOf' \in [Inquiries -> People \cup {NULL}]
    BY <2>2, <2>6 DEF LeadsMoved, AppInv
  <2> QED
    BY <1>5, <2>5, <2>7, AnswerKeepsInv DEF MergeCommit
<1>6. CASE AppRefuse(t)
  BY <1>6, AnswerKeepsInv DEF AppRefuse, AppInv
<1> QED
  BY <1>1, <1>2, <1>3, <1>4, <1>5, <1>6

\* What each handler asks for is well formed.
LEMMA AppAsks ==
    ASSUME AppInv, NEW t \in AppTxs
    PROVE  /\ \A raw \in Typed : createApplicant(t, raw) =>
                \E r : Ask(t, r) /\ AppReqOK(r) /\ r.op = "create"
           /\ \A a \in People : createInquiry(t, a) =>
                \E r : Ask(t, r) /\ AppReqOK(r) /\ r.op = "inquiry" /\ r.a = a /\ a \in Live
           /\ \A raw \in Typed : leadIntake(t, raw) =>
                \E r : /\ Ask(t, r) /\ AppReqOK(r) /\ r.op = "lead"
                       /\ r.a \in Live \cup {NULL}
                       /\ autoLink /\ r.a = NULL => findDuplicates(r.phone) = {}
           /\ \A a \in People, raw \in Typed : updateApplicant(t, a, raw) =>
                \E r : Ask(t, r) /\ AppReqOK(r) /\ r.op = "update"
           /\ \A a, b \in People : merge(t, a, b) =>
                \E r : /\ Ask(t, r) /\ AppReqOK(r) /\ r.op = "merge"
                       /\ r.survivor \in Live /\ r.merged \in Live
<1>1. ASSUME NEW raw \in Typed, createApplicant(t, raw)
      PROVE  \E r : Ask(t, r) /\ AppReqOK(r) /\ r.op = "create"
  <2> DEFINE r == [op |-> "create", phone |-> normalizePhone(raw)]
  <2>1. AppReqOK(r) /\ r.op = "create"
    BY NormalIsNormal DEF AppReqOK
  <2> QED
    BY <1>1, <2>1 DEF createApplicant
<1>2. ASSUME NEW a \in People, createInquiry(t, a)
      PROVE  \E r : Ask(t, r) /\ AppReqOK(r) /\ r.op = "inquiry" /\ r.a = a /\ a \in Live
  <2> DEFINE r == [op |-> "inquiry", a |-> a]
  <2>1. AppReqOK(r) /\ r.op = "inquiry" /\ r.a = a /\ a \in Live
    BY <1>2 DEF AppReqOK, createInquiry, StandingApplicant, Exists, Live
  <2> QED
    BY <1>2, <2>1 DEF createInquiry
<1>3. ASSUME NEW raw \in Typed, leadIntake(t, raw)
      PROVE  \E r : /\ Ask(t, r) /\ AppReqOK(r) /\ r.op = "lead"
                    /\ r.a \in Live \cup {NULL}
                    /\ autoLink /\ r.a = NULL => findDuplicates(r.phone) = {}
  <2>1. PICK phone : phone = normalizePhone(raw)
    OBVIOUS
  <2>2. PICK a \in IF findDuplicates(phone) = {} THEN {NULL} ELSE findDuplicates(phone) :
            Ask(t, [op |-> "lead", phone |-> phone, a |-> IF autoLink THEN a ELSE NULL])
    BY <1>3, <2>1 DEF leadIntake
  <2>3. PICK b : b = IF autoLink THEN a ELSE NULL
    OBVIOUS
  <2> DEFINE r == [op |-> "lead", phone |-> phone, a |-> b]
  <2>4. b \in Live \cup {NULL}
    BY <2>2, <2>3 DEF findDuplicates
  <2>5. autoLink /\ b = NULL => findDuplicates(phone) = {}
    BY <2>2, <2>3, LiveIsTyped DEF findDuplicates
  <2>6. AppReqOK(r)
    BY <2>1, <2>4, NormalIsNormal, LiveIsTyped DEF AppReqOK
  <2>7. Ask(t, r)
    BY <2>2, <2>3
  <2> QED
    BY <2>4, <2>5, <2>6, <2>7
<1>4. ASSUME NEW a \in People, NEW raw \in Typed, updateApplicant(t, a, raw)
      PROVE  \E r : Ask(t, r) /\ AppReqOK(r) /\ r.op = "update"
  <2> DEFINE r == [op |-> "update", a |-> a, phone |-> normalizePhone(raw)]
  <2>1. AppReqOK(r) /\ r.op = "update"
    BY <1>4, NormalIsNormal DEF AppReqOK, updateApplicant, StandingApplicant, Exists
  <2> QED
    BY <1>4, <2>1 DEF updateApplicant
<1>5. ASSUME NEW a \in People, NEW b \in People, merge(t, a, b)
      PROVE  \E r : /\ Ask(t, r) /\ AppReqOK(r) /\ r.op = "merge"
                    /\ r.survivor \in Live /\ r.merged \in Live
  <2> DEFINE r == [op |-> "merge", survivor |-> a, merged |-> b]
  <2>1. AppReqOK(r) /\ r.op = "merge" /\ r.survivor \in Live /\ r.merged \in Live
    BY <1>5 DEF AppReqOK, merge, Mergeable, StandingApplicant, Exists, Live
  <2> QED
    BY <1>5, <2>1 DEF merge
<1> QED
  BY <1>1, <1>2, <1>3, <1>4, <1>5

\* A commit or a refusal ends one open request.
AppEnds(t) ==
    \/ ApplicantCommit(t) \/ ApplicantInquiryCommit(t) \/ PlaceCommit(t)
    \/ PhoneCommit(t) \/ MergeCommit(t) \/ AppRefuse(t)

\* What an import of one row does, in the words of PlaceLead.
LEMMA ImportPlaces ==
    ASSUME AppInv, NEW raw \in Typed, importRow(raw)
    PROVE  \E i \in Inquiries, a \in Live \cup {NULL}, phone \in NormalPhones :
             /\ PlaceLead(i, a, phone)
             /\ autoLink /\ a = NULL => findDuplicates(phone) = {}
<1>1. PICK phone : phone = normalizePhone(raw)
  OBVIOUS
<1>2. PICK i \in Inquiries, a \in IF findDuplicates(phone) = {} THEN {NULL} ELSE findDuplicates(phone) :
        PlaceLead(i, IF autoLink THEN a ELSE NULL, phone)
  BY <1>1 DEF importRow
<1>3. PICK b : b = IF autoLink THEN a ELSE NULL
  OBVIOUS
<1>4. b \in Live \cup {NULL}
  BY <1>2, <1>3 DEF findDuplicates
<1>5. autoLink /\ b = NULL => findDuplicates(phone) = {}
  BY <1>2, <1>3, LiveIsTyped DEF findDuplicates
<1>6. phone \in NormalPhones
  BY <1>1, NormalIsNormal
<1> QED
  BY <1>2, <1>3, <1>4, <1>5, <1>6

LEMMA AppStep == AppInv /\ [AppNext]_appVars => AppInv'
<1> SUFFICES ASSUME AppInv, [AppNext]_appVars PROVE AppInv'
  OBVIOUS
<1>1. CASE UNCHANGED appVars
  BY <1>1 DEF appVars, AppInv, AppReqOK, Exists
<1>2. ASSUME NEW t \in AppTxs, NEW r, Ask(t, r), AppReqOK(r) PROVE AppInv'
  BY <1>2, AskKeepsInv
<1>3. ASSUME NEW t \in AppTxs, AppEnds(t) PROVE AppInv'
  BY <1>3, AppCommits DEF AppEnds
<1>4. ASSUME NEW raw \in Typed, importRow(raw) PROVE AppInv'
  <2>1. PICK i \in Inquiries, a \in Live \cup {NULL}, phone \in NormalPhones : PlaceLead(i, a, phone)
    BY <1>4, ImportPlaces
  <2>2. a \in People \cup {NULL}
    BY <2>1, LiveIsTyped
  <2>3. /\ person' \in [People -> StoredRow \cup {NULL}]
        /\ \A b \in People : person[b] # NULL => person'[b] = person[b]
        /\ inquiryOf' \in [Inquiries -> People \cup {NULL}]
    BY <2>1, <2>2, PlacedLead
  <2>4. UNCHANGED <<autoLink, appReq>> /\ \A t \in AppTxs : appReq[t] = NULL
    BY <1>4 DEF importRow
  <2> QED
    BY <2>3, <2>4 DEF AppInv
<1>5. ASSUME NEW a \in People, NEW b \in People, confirmDistinct(a, b) PROVE AppInv'
  BY <1>5 DEF confirmDistinct, AppInv, AppReqOK, Exists
<1>6. CASE AppNext
  <2>1. ASSUME NEW t \in AppTxs,
               \/ \E raw \in Typed : \/ createApplicant(t, raw)
                                     \/ leadIntake(t, raw)
                                     \/ \E a \in People : updateApplicant(t, a, raw)
               \/ \E a \in People : createInquiry(t, a)
               \/ \E a, b \in People : merge(t, a, b)
        PROVE  AppInv'
    <3>1. \E r : Ask(t, r) /\ AppReqOK(r)
      BY <2>1, AppAsks
    <3> QED
      BY <3>1, <1>2
  <2> QED
    BY <1>6, <1>3, <1>4, <1>5, <2>1 DEF AppNext, AppEnds
<1> QED
  BY <1>1, <1>6

\* With intakes of leads one at a time: the duplicates an intake has read are still
\* all there are when it commits.
IntakesAlone ==
    \A t \in AppTxs : appReq[t] # NULL /\ appReq[t].op = "lead" =>
        /\ \A o \in AppTxs \ {t} : appReq[o] = NULL
        /\ autoLink /\ appReq[t].a = NULL => findDuplicates(appReq[t].phone) = {}

LEMMA IntakesAloneStep ==
    ASSUME "lead" \notin AppTogether, AppInv, IntakesAlone, [AppNext]_appVars
    PROVE  IntakesAlone'
<1>1. CASE UNCHANGED <<person, autoLink, appReq>>
  BY <1>1 DEF IntakesAlone, findDuplicates, Live
<1>2. ASSUME NEW t \in AppTxs, NEW r, Ask(t, r), AppReqOK(r),
             r.op = "lead" /\ autoLink /\ r.a = NULL => findDuplicates(r.phone) = {}
      PROVE  IntakesAlone'
  <2>1. /\ appReq' = [appReq EXCEPT ![t] = r] /\ appReq[t] = NULL
        /\ UNCHANGED <<person, autoLink>>
        /\ \A o \in AppTxs : appReq[o] # NULL => r.op \in AppTogether /\ appReq[o].op \in AppTogether
    BY <1>2 DEF Ask
  <2>2. \A p : findDuplicates(p)' = findDuplicates(p)
    BY <2>1 DEF findDuplicates, Live
  <2>3. appReq'[t] = r /\ \A o \in AppTxs \ {t} : appReq'[o] = appReq[o]
    BY <2>1 DEF AppInv
  <2>4. SUFFICES ASSUME NEW o \in AppTxs, appReq'[o] # NULL, appReq'[o].op = "lead"
                 PROVE  /\ \A q \in AppTxs \ {o} : appReq'[q] = NULL
                        /\ autoLink /\ appReq'[o].a = NULL => findDuplicates(appReq[o].phone)' = {}
    BY <2>1 DEF IntakesAlone
  <2>5. CASE o = t
    <3>1. \A q \in AppTxs \ {o} : appReq'[q] = NULL
      BY <2>1, <2>3, <2>4, <2>5
    <3>2. autoLink /\ r.a = NULL => findDuplicates(r.phone) = {}
      BY <1>2, <2>3, <2>4, <2>5
    <3> QED
      BY <2>1, <2>3, <2>5, <3>1, <3>2 DEF findDuplicates, Live
  <2>6. CASE o # t
    <3>1. appReq[o] # NULL /\ appReq[o].op = "lead"
      BY <2>3, <2>4, <2>6
    <3> QED
      BY <2>1, <3>1
  <2> QED
    BY <2>5, <2>6
<1>3. ASSUME NEW t \in AppTxs, AppEnds(t) PROVE IntakesAlone'
  <2>1. appReq[t] # NULL /\ appReq' = [appReq EXCEPT ![t] = NULL]
    BY <1>3 DEF AppEnds, ApplicantCommit, ApplicantInquiryCommit, PlaceCommit, PhoneCommit, MergeCommit,
                AppRefuse, Answer
  <2>2. \A o \in AppTxs : appReq'[o] = NULL \/ appReq'[o].op # "lead"
    BY <2>1 DEF IntakesAlone, AppInv
  <2> QED
    BY <2>2 DEF IntakesAlone
<1>4. ASSUME NEW raw \in Typed, importRow(raw) PROVE IntakesAlone'
  <2>1. \A t \in AppTxs : appReq'[t] = NULL
    BY <1>4 DEF importRow
  <2> QED
    BY <2>1 DEF IntakesAlone
<1>5. CASE AppNext
  <2>1. ASSUME NEW t \in AppTxs,
               \/ \E raw \in Typed : \/ createApplicant(t, raw)
                                     \/ leadIntake(t, raw)
                                     \/ \E a \in People : updateApplicant(t, a, raw)
               \/ \E a \in People : createInquiry(t, a)
               \/ \E a, b \in People : merge(t, a, b)
        PROVE  IntakesAlone'
    <3>1. \E r : /\ Ask(t, r) /\ AppReqOK(r)
                 /\ r.op = "lead" /\ autoLink /\ r.a = NULL => findDuplicates(r.phone) = {}
      BY <2>1, AppAsks
    <3> QED
      BY <3>1, <1>2
  <2> QED
    BY <1>5, <1>1, <1>3, <1>4, <2>1 DEF AppNext, AppEnds, confirmDistinct
<1> QED
  BY <1>1, <1>5 DEF appVars

\* Nobody with the same line is live when a lead makes its applicant.
LEMMA NewApplicantIsNew ==
    ASSUME AppInv, NEW phone \in NormalPhones, findDuplicates(phone) = {}, NEW b \in Live
    PROVE  ~SameLine(person[b].phone, phone)
<1>1. person[b].phone \in NormalPhones
  BY LiveIsTyped DEF StoredRow
<1>2. person[b].phone # phone
  BY DEF findDuplicates
<1> QED
  BY <1>1, <1>2, SameLineIsSamePhone

LEMMA PlacedIsNew ==
    ASSUME AppInv, NEW i \in Inquiries, NEW a \in People \cup {NULL}, NEW phone \in NormalPhones,
           PlaceLead(i, a, phone), autoLink /\ a = NULL => findDuplicates(phone) = {},
           NEW n \in People, autoLink, person[n] = NULL, person'[n] # NULL,
           NEW b \in Live
    PROVE  ~SameLine(person[b].phone, person'[n].phone)
<1>1. a = NULL
  BY PlacedLead
<1>2. PICK c \in People : person' = [person EXCEPT ![c] = [phone |-> phone, mergedInto |-> NULL]]
  BY <1>1, PlacedLead
<1>3. c = n /\ person'[n].phone = phone
  BY <1>2 DEF AppInv
<1> QED
  BY <1>1, <1>3, NewApplicantIsNew

LEMMA IntakeLinksStep ==
    ASSUME AppInv, IntakesAlone, [AppNext]_appVars,
           NEW n \in People, autoLink, person[n] = NULL, person'[n] # NULL,
           \A t \in AppTxs : appReq[t] # NULL => appReq[t].op # "create",
           NEW b \in Live
    PROVE  ~SameLine(person[b].phone, person'[n].phone)
<1>1. ASSUME NEW raw \in Typed, importRow(raw) PROVE ~SameLine(person[b].phone, person'[n].phone)
  <2>1. PICK i \in Inquiries, a \in Live \cup {NULL}, phone \in NormalPhones :
          /\ PlaceLead(i, a, phone)
          /\ autoLink /\ a = NULL => findDuplicates(phone) = {}
    BY <1>1, ImportPlaces
  <2>2. a \in People \cup {NULL}
    BY <2>1, LiveIsTyped
  <2> QED
    BY <2>1, <2>2, PlacedIsNew
<1>2. ASSUME NEW t \in AppTxs, PlaceCommit(t) PROVE ~SameLine(person[b].phone, person'[n].phone)
  <2>1. appReq[t].a \in People \cup {NULL} /\ appReq[t].phone \in NormalPhones
    BY <1>2 DEF PlaceCommit, AppInv, AppReqOK, Exists
  <2>2. PICK i \in Inquiries : PlaceLead(i, appReq[t].a, appReq[t].phone)
    BY <1>2 DEF PlaceCommit
  <2>3. PICK a, phone : a = appReq[t].a /\ phone = appReq[t].phone
    OBVIOUS
  <2>4. autoLink /\ a = NULL => findDuplicates(phone) = {}
    BY <1>2, <2>3 DEF PlaceCommit, IntakesAlone
  <2> QED
    BY <2>1, <2>2, <2>3, <2>4, PlacedIsNew
<1>3. ASSUME NEW t \in AppTxs, ApplicantCommit(t) PROVE FALSE
  BY <1>3 DEF ApplicantCommit
<1>4. ASSUME NEW t \in AppTxs, PhoneCommit(t) PROVE FALSE
  <2>1. PICK a, phone : a = appReq[t].a /\ phone = appReq[t].phone
    OBVIOUS
  <2>2. a \in People /\ person[a] # NULL
    BY <1>4, <2>1 DEF PhoneCommit, AppInv, AppReqOK, Exists
  <2>3. person' = [person EXCEPT ![a] = [person[a] EXCEPT !.phone = phone]]
    BY <1>4, <2>1, <2>2 DEF PhoneCommit, AppInv
  <2> QED
    BY <2>2, <2>3 DEF AppInv
<1>5. ASSUME NEW t \in AppTxs, MergeCommit(t) PROVE FALSE
  <2>1. PICK a, c : a = appReq[t].merged /\ c = appReq[t].survivor
    OBVIOUS
  <2>2. a \in People /\ person[a] # NULL
    BY <1>5, <2>1 DEF MergeCommit, AppInv, AppReqOK, Exists
  <2>3. person' = [person EXCEPT ![a] = [person[a] EXCEPT !.mergedInto = c]]
    BY <1>5, <2>1, <2>2 DEF MergeCommit, AppInv
  <2> QED
    BY <2>2, <2>3 DEF AppInv
<1>6. ASSUME NEW t \in AppTxs, ApplicantInquiryCommit(t) \/ AppRefuse(t) PROVE FALSE
  BY <1>6 DEF ApplicantInquiryCommit, AppRefuse
<1>7. ASSUME NEW t \in AppTxs,
             \/ \E raw \in Typed : \/ createApplicant(t, raw)
                                   \/ leadIntake(t, raw)
                                   \/ \E a \in People : updateApplicant(t, a, raw)
             \/ \E a \in People : createInquiry(t, a)
             \/ \E a, c \in People : merge(t, a, c)
      PROVE  FALSE
  <2>1. \E r : Ask(t, r)
    BY <1>7, AppAsks
  <2> QED
    BY <2>1 DEF Ask
<1>8. AppNext /\ \A a, c \in People : ~confirmDistinct(a, c)
  BY DEF appVars, confirmDistinct
<1> QED
  BY <1>1, <1>2, <1>3, <1>4, <1>5, <1>6, <1>7, <1>8 DEF AppNext

\* When no other operation comes between the look for duplicates and the
\* transaction of createFromLead, a lead that no human takes in never adds a
\* second live applicant for a number while linking is on, for any numbers,
\* applicants and connections, whatever the other operations overlap with
\* (createFromLead, importInquiries, normalizePhone).
THEOREM MachineIntakeLinksHolds ==
    ASSUME "lead" \notin AppTogether
    PROVE  AppSpec => MachineIntakeLinks
<1> DEFINE Links == \A a \in People :
          /\ autoLink /\ person[a] = NULL /\ person'[a] # NULL
          /\ \A t \in AppTxs : appReq[t] # NULL => appReq[t].op # "create"
          => \A b \in Live : ~SameLine(person[b].phone, person'[a].phone)
<1>1. AppInit => IntakesAlone
  BY DEF AppInit, IntakesAlone
<1>2. AppInv /\ IntakesAlone /\ [AppNext]_appVars => (AppInv /\ IntakesAlone)'
  BY AppStep, IntakesAloneStep
<1>3. AppInv /\ IntakesAlone /\ [AppNext]_appVars => [Links]_appVars
  BY IntakeLinksStep
<1> QED
  BY <1>1, <1>2, <1>3, AppInitOK, PTL DEF AppSpec, MachineIntakeLinks

-----------------------------------------------------------------------------
(* Merging.                                                                *)

\* With merges one at a time: whom a request names stays live until it commits.
MergesAlone ==
    \A t \in AppTxs : appReq[t] # NULL =>
        /\ appReq[t].op = "inquiry" => appReq[t].a \in Live
        /\ appReq[t].op = "lead" => appReq[t].a \in Live \cup {NULL}
        /\ appReq[t].op = "merge" =>
              /\ appReq[t].survivor \in Live /\ appReq[t].merged \in Live
              /\ \A o \in AppTxs \ {t} : appReq[o] = NULL

\* No pointer moves, and whoever is new is live.
KeepsPointers ==
    \A a \in People :
        /\ person[a] # NULL => person'[a] # NULL /\ person'[a].mergedInto = person[a].mergedInto
        /\ person[a] = NULL /\ person'[a] # NULL => person'[a].mergedInto = NULL

LEMMA KeptLive ==
    ASSUME KeepsPointers
    PROVE  /\ \A a \in Live : a \in Live'
           /\ Tombstones' = Tombstones /\ \A a \in Tombstones : person'[a].mergedInto = person[a].mergedInto
           /\ \A a \in People : person[a] = NULL /\ person'[a] # NULL => a \in Live'
  BY DEF KeepsPointers, Live, Tombstones

LEMMA KeptMergesFollow ==
    ASSUME LeadsFollowMerges, KeepsPointers,
           \A i \in Inquiries : inquiryOf'[i] \in {NULL, inquiryOf[i]} \cup Live'
    PROVE  LeadsFollowMerges'
<1>1. \A i \in Inquiries : inquiryOf'[i] # NULL => inquiryOf'[i] \in Live'
  BY KeptLive DEF LeadsFollowMerges
<1>2. ASSUME NEW S \in SUBSET Tombstones', S # {}
      PROVE  \E a \in S : person'[a].mergedInto \in (Live' \cup Tombstones') \ S
  <2>1. S \in SUBSET Tombstones
    BY <1>2, KeptLive
  <2>2. PICK a \in S : person[a].mergedInto \in (Live \cup Tombstones) \ S
    BY <1>2, <2>1 DEF LeadsFollowMerges
  <2> QED
    BY <2>1, <2>2, KeptLive
<1> QED
  BY <1>1, <1>2 DEF LeadsFollowMerges

LEMMA PlacedKeepsPointers ==
    ASSUME AppInv, NEW i \in Inquiries, NEW a \in Live \cup {NULL}, NEW phone \in NormalPhones,
           PlaceLead(i, a, phone)
    PROVE  KeepsPointers /\ \A j \in Inquiries : inquiryOf'[j] \in {NULL, inquiryOf[j]} \cup Live'
<1>0. a \in People \cup {NULL}
  BY LiveIsTyped
<1>1. CASE a # NULL
  <2>1. person' = person /\ inquiryOf' = [inquiryOf EXCEPT ![i] = a]
    BY <1>0, <1>1, PlacedLead
  <2> QED
    BY <1>1, <2>1 DEF KeepsPointers, Live, AppInv
<1>2. CASE a = NULL
  <2>1. PICK b \in People :
          /\ person[b] = NULL
          /\ person' = [person EXCEPT ![b] = [phone |-> phone, mergedInto |-> NULL]]
          /\ inquiryOf' = [inquiryOf EXCEPT ![i] = b]
    BY <1>0, <1>2, PlacedLead
  <2>2. [phone |-> phone, mergedInto |-> NULL] # NULL
    BY StoredIsNotNull DEF StoredRow
  <2>3. KeepsPointers /\ person'[b] # NULL
    BY <2>1, <2>2 DEF KeepsPointers, AppInv
  <2>4. b \in Live'
    BY <2>1, <2>3, KeptLive
  <2> QED
    BY <2>1, <2>3, <2>4 DEF AppInv
<1> QED
  BY <1>1, <1>2

\* Every end of a request but a merge.
LEMMA EndsKeepPointers ==
    ASSUME AppInv, MergesAlone, NEW t \in AppTxs, AppEnds(t), ~MergeCommit(t)
    PROVE  KeepsPointers /\ \A j \in Inquiries : inquiryOf'[j] \in {NULL, inquiryOf[j]} \cup Live'
<1>r. appReq[t] # NULL => AppReqOK(appReq[t])
  BY DEF AppInv
<1>1. CASE ApplicantCommit(t)
  <2>1. appReq[t].phone \in NormalPhones
    BY <1>r, <1>1 DEF ApplicantCommit, AppReqOK
  <2>2. PICK phone : phone = appReq[t].phone
    OBVIOUS
  <2>3. PICK a \in People :
          /\ person[a] = NULL
          /\ person' = [person EXCEPT ![a] = [phone |-> phone, mergedInto |-> NULL]]
          /\ \/ UNCHANGED inquiryOf
             \/ \E i \in Inquiries : inquiryOf' = [inquiryOf EXCEPT ![i] = a]
    BY <1>1, <2>2 DEF ApplicantCommit
  <2>4. [phone |-> phone, mergedInto |-> NULL] # NULL
    BY <2>1, <2>2, StoredIsNotNull DEF StoredRow
  <2>5. KeepsPointers /\ person'[a] # NULL
    BY <2>3, <2>4 DEF KeepsPointers, AppInv
  <2>6. a \in Live'
    BY <2>3, <2>5, KeptLive
  <2> QED
    BY <2>3, <2>5, <2>6 DEF AppInv
<1>2. CASE ApplicantInquiryCommit(t)
  <2>1. appReq[t].a \in Live /\ person' = person
    BY <1>2 DEF ApplicantInquiryCommit, MergesAlone
  <2>2. PICK a, i : i \in Inquiries /\ a = appReq[t].a /\ inquiryOf' = [inquiryOf EXCEPT ![i] = a]
    BY <1>2 DEF ApplicantInquiryCommit
  <2>3. a \in Live' /\ KeepsPointers
    BY <2>1, <2>2 DEF Live, KeepsPointers
  <2> QED
    BY <2>2, <2>3 DEF AppInv
<1>3. CASE PlaceCommit(t)
  <2>1. appReq[t].a \in Live \cup {NULL} /\ appReq[t].phone \in NormalPhones
    BY <1>r, <1>3 DEF PlaceCommit, AppReqOK, MergesAlone
  <2>2. PICK i \in Inquiries : PlaceLead(i, appReq[t].a, appReq[t].phone)
    BY <1>3 DEF PlaceCommit
  <2> QED
    BY <2>1, <2>2, PlacedKeepsPointers
<1>4. CASE PhoneCommit(t)
  <2>1. PICK a, phone : a = appReq[t].a /\ phone = appReq[t].phone
    OBVIOUS
  <2>2. a \in People /\ person[a] # NULL /\ phone \in NormalPhones
    BY <1>r, <1>4, <2>1 DEF PhoneCommit, AppReqOK, Exists
  <2>3. person' = [person EXCEPT ![a] = [person[a] EXCEPT !.phone = phone]] /\ inquiryOf' = inquiryOf
    BY <1>4, <2>1, <2>2 DEF PhoneCommit, AppInv
  <2>4. [person[a] EXCEPT !.phone = phone] \in StoredRow
        /\ [person[a] EXCEPT !.phone = phone].mergedInto = person[a].mergedInto
    BY <2>2 DEF AppInv, StoredRow
  <2> QED
    BY <2>2, <2>3, <2>4, StoredIsNotNull DEF KeepsPointers, AppInv
<1>5. CASE AppRefuse(t)
  BY <1>5 DEF AppRefuse, KeepsPointers
<1> QED
  BY <1>1, <1>2, <1>3, <1>4, <1>5 DEF AppEnds

\* A merge: the survivor and the merged one were live, and only the latter's
\* pointer and its leads move.
LEMMA MergeFollows ==
    ASSUME AppInv, MergesAlone, LeadsFollowMerges, NEW t \in AppTxs, MergeCommit(t)
    PROVE  LeadsFollowMerges'
<1>1. PICK s, m : s = appReq[t].survivor /\ m = appReq[t].merged
  OBVIOUS
<1>2. s \in Live /\ m \in Live /\ s # m /\ s \in People /\ m \in People /\ s # NULL
  BY <1>1, LiveIsTyped DEF MergeCommit, MergesAlone, AppInv, AppReqOK
<1>3. person' = [person EXCEPT ![m] = [person[m] EXCEPT !.mergedInto = s]]
  BY <1>1, <1>2 DEF MergeCommit, AppInv
<1>4. inquiryOf' = LeadsMoved(s, m)
  BY <1>1 DEF MergeCommit
<1>5. /\ [person[m] EXCEPT !.mergedInto = s] \in StoredRow
      /\ [person[m] EXCEPT !.mergedInto = s].mergedInto = s
  BY <1>2, LiveIsTyped DEF StoredRow
<1>6. Live' = Live \ {m} /\ Tombstones' = Tombstones \cup {m}
  BY <1>2, <1>3, <1>5, StoredIsNotNull DEF Live, Tombstones, AppInv
<1>7. \A i \in Inquiries : inquiryOf'[i] # NULL => inquiryOf'[i] \in Live'
  BY <1>2, <1>4, <1>6 DEF LeadsMoved, LeadsFollowMerges
<1>8. ASSUME NEW S \in SUBSET Tombstones', S # {}
      PROVE  \E a \in S : person'[a].mergedInto \in (Live' \cup Tombstones') \ S
  <2>1. CASE m \in S
    <3>1. s \in Live' /\ s \notin S
      BY <1>2, <1>6, <1>8 DEF Live, Tombstones
    <3>2. person'[m].mergedInto = s
      BY <1>2, <1>3, <1>5 DEF AppInv
    <3> QED
      BY <2>1, <3>1, <3>2
  <2>2. CASE m \notin S
    <3>1. S \in SUBSET Tombstones
      BY <1>6, <1>8, <2>2
    <3>2. PICK a \in S : person[a].mergedInto \in (Live \cup Tombstones) \ S
      BY <1>8, <3>1 DEF LeadsFollowMerges
    <3>3. person'[a] = person[a]
      BY <1>3, <2>2, <3>1, <3>2 DEF AppInv, Tombstones
    <3> QED
      BY <1>2, <1>6, <3>2, <3>3
  <2> QED
    BY <2>1, <2>2
<1> QED
  BY <1>7, <1>8 DEF LeadsFollowMerges

LEMMA MergesStep ==
    ASSUME "merge" \notin AppTogether, AppInv, MergesAlone, LeadsFollowMerges, [AppNext]_appVars
    PROVE  MergesAlone' /\ LeadsFollowMerges'
<1>1. CASE UNCHANGED <<person, inquiryOf, appReq>>
  BY <1>1 DEF MergesAlone, LeadsFollowMerges, Live, Tombstones
<1>2. ASSUME NEW t \in AppTxs, NEW r, Ask(t, r),
             /\ r.op = "inquiry" => r.a \in Live
             /\ r.op = "lead" => r.a \in Live \cup {NULL}
             /\ r.op = "merge" => r.survivor \in Live /\ r.merged \in Live
      PROVE  MergesAlone' /\ LeadsFollowMerges'
  <2>1. /\ appReq' = [appReq EXCEPT ![t] = r] /\ appReq[t] = NULL
        /\ UNCHANGED <<person, inquiryOf>>
        /\ \A o \in AppTxs : appReq[o] # NULL => r.op \in AppTogether /\ appReq[o].op \in AppTogether
    BY <1>2 DEF Ask
  <2>2. Live' = Live /\ Tombstones' = Tombstones
    BY <2>1 DEF Live, Tombstones
  <2>3. appReq'[t] = r /\ \A o \in AppTxs \ {t} : appReq'[o] = appReq[o]
    BY <2>1 DEF AppInv
  <2>4. LeadsFollowMerges'
    BY <2>1, <2>2 DEF LeadsFollowMerges
  <2>5. MergesAlone'
    BY <1>2, <2>1, <2>2, <2>3 DEF MergesAlone
  <2> QED
    BY <2>4, <2>5
<1>3. ASSUME NEW t \in AppTxs, AppEnds(t) PROVE MergesAlone' /\ LeadsFollowMerges'
  <2>1. appReq[t] # NULL /\ appReq' = [appReq EXCEPT ![t] = NULL]
    BY <1>3 DEF AppEnds, ApplicantCommit, ApplicantInquiryCommit, PlaceCommit, PhoneCommit, MergeCommit,
                AppRefuse, Answer
  <2>2. CASE MergeCommit(t)
    <3>1. \A o \in AppTxs : appReq'[o] = NULL
      BY <2>1, <2>2 DEF MergeCommit, MergesAlone, AppInv
    <3> QED
      BY <2>2, <3>1, MergeFollows DEF MergesAlone
  <2>3. CASE ~MergeCommit(t)
    <3>1. KeepsPointers /\ \A j \in Inquiries : inquiryOf'[j] \in {NULL, inquiryOf[j]} \cup Live'
      BY <1>3, <2>3, EndsKeepPointers
    <3>2. LeadsFollowMerges'
      BY <3>1, KeptMergesFollow
    <3>3. \A a \in Live : a \in Live'
      BY <3>1, KeptLive
    <3>4. \A o \in AppTxs : appReq'[o] # NULL => appReq'[o] = appReq[o]
      BY <2>1 DEF AppInv
    <3>5. \A o \in AppTxs : appReq'[o] # NULL => appReq[o].op # "merge"
      BY <2>1, <3>4 DEF AppInv, MergesAlone
    <3>6. MergesAlone'
      BY <3>3, <3>4, <3>5 DEF MergesAlone
    <3> QED
      BY <3>2, <3>6
  <2> QED
    BY <2>2, <2>3
<1>4. ASSUME NEW raw \in Typed, importRow(raw) PROVE MergesAlone' /\ LeadsFollowMerges'
  <2>1. PICK i \in Inquiries, a \in Live \cup {NULL}, phone \in NormalPhones : PlaceLead(i, a, phone)
    BY <1>4, ImportPlaces
  <2>2. LeadsFollowMerges'
    BY <2>1, PlacedKeepsPointers, KeptMergesFollow
  <2>3. \A t \in AppTxs : appReq'[t] = NULL
    BY <1>4 DEF importRow
  <2> QED
    BY <2>2, <2>3 DEF MergesAlone
<1>5. CASE AppNext
  <2>1. ASSUME NEW t \in AppTxs,
               \/ \E raw \in Typed : \/ createApplicant(t, raw)
                                     \/ leadIntake(t, raw)
                                     \/ \E a \in People : updateApplicant(t, a, raw)
               \/ \E a \in People : createInquiry(t, a)
               \/ \E a, b \in People : merge(t, a, b)
        PROVE  MergesAlone' /\ LeadsFollowMerges'
    <3>1. \E r : /\ Ask(t, r)
                 /\ r.op = "inquiry" => r.a \in Live
                 /\ r.op = "lead" => r.a \in Live \cup {NULL}
                 /\ r.op = "merge" => r.survivor \in Live /\ r.merged \in Live
      BY <2>1, AppAsks
    <3> QED
      BY <3>1, <1>2
  <2> QED
    BY <1>5, <1>1, <1>3, <1>4, <2>1 DEF AppNext, AppEnds, confirmDistinct
<1> QED
  BY <1>1, <1>5 DEF appVars

\* When no other operation comes between a merge's checks and its transaction,
\* merging loses nobody, for any applicants, leads and chains of merges: every lead
\* belongs to a live applicant and the pointers of tombstones never close a circle
\* (ApplicantService.merge, InquiryService.create, createFromLead).
THEOREM LeadsFollowMergesHolds ==
    ASSUME "merge" \notin AppTogether
    PROVE  AppSpec => []LeadsFollowMerges
<1>1. AppInit => MergesAlone /\ LeadsFollowMerges
  BY DEF AppInit, MergesAlone, LeadsFollowMerges, Tombstones
<1>2. AppInv /\ MergesAlone /\ LeadsFollowMerges /\ [AppNext]_appVars
        => (AppInv /\ MergesAlone /\ LeadsFollowMerges)'
  BY AppStep, MergesStep
<1> QED
  BY <1>1, <1>2, AppInitOK, PTL DEF AppSpec

-----------------------------------------------------------------------------
(* Contact details a customer asks to change.                              *)

ContactFields == {"email", "alternatePhones"}

\* An open approval: it holds the changes as they stand in the request, and once it
\* has compared them the applicant's row still has the values the customer saw.
ApprovalOK(r) ==
    /\ r = [op |-> "approve", id |-> r.id, changes |-> r.changes, compared |-> r.compared]
    /\ r.id \in ChangeIds /\ Pending(r.id) /\ r.changes = change[r.id].changes
    /\ r.compared = TRUE => Undrifted(r.changes)

RejectionOK(r) == r.id \in ChangeIds /\ Pending(r.id)

ReviewsAlone(t) == \A o \in ReviewTxs \ {t} : review[o] = NULL

ChangeInv ==
    /\ DOMAIN contact = ContactFields
    /\ change = [c \in ChangeIds |-> change[c]]
    /\ review = [t \in ReviewTxs |-> review[t]]
    /\ \A c \in ChangeIds : Pending(c) => DOMAIN change[c].changes \subseteq ContactFields
    /\ \A t \in ReviewTxs : review[t] # NULL =>
        /\ review[t].op \in {"approve", "reject"} => ReviewsAlone(t)
        /\ review[t].op = "approve" => ApprovalOK(review[t])
        /\ review[t].op = "reject" => RejectionOK(review[t])

LEMMA EditsNameFields == \A to \in Edits : DOMAIN to \subseteq ContactFields
  BY DEF Edits, ContactFields

LEMMA ChangeInitOK == ChangeInit => ChangeInv
  BY DEF ChangeInit, ChangeInv, ContactFields, Pending

\* Requests and applicant stay as they are while no review is open.
LEMMA QuietReviews ==
    ASSUME ChangeInv, NEW t \in ReviewTxs, review[t] # NULL, review[t].op \in {"approve", "reject"}
    PROVE  \A o \in ReviewTxs : o # t => review[o] = NULL
  BY DEF ChangeInv, ReviewsAlone

\* A review opens.
LEMMA OpenKeepsInv ==
    ASSUME {"approve", "reject"} \cap ReviewsTogether = {},
           ChangeInv, NEW t \in ReviewTxs, NEW r, Open(t, r),
           r.op = "approve" => ApprovalOK(r), r.op = "reject" => RejectionOK(r)
    PROVE  ChangeInv'
<1>1. /\ review[t] = NULL /\ review' = [review EXCEPT ![t] = r]
      /\ UNCHANGED <<contact, change>>
      /\ \A o \in ReviewTxs : review[o] # NULL =>
            r.op \in ReviewsTogether /\ review[o].op \in ReviewsTogether
  BY DEF Open
<1>2. review'[t] = r /\ \A o \in ReviewTxs \ {t} : review'[o] = review[o]
  BY <1>1 DEF ChangeInv
<1>3. ASSUME NEW o \in ReviewTxs, review'[o] # NULL, review'[o].op \in {"approve", "reject"}
      PROVE  o = t /\ \A q \in ReviewTxs \ {t} : review'[q] = NULL
  BY <1>1, <1>2, <1>3
<1>4. r.op = "approve" => ApprovalOK(r)'
  BY <1>1 DEF ApprovalOK, Pending, Undrifted
<1>5. r.op = "reject" => RejectionOK(r)'
  BY <1>1 DEF RejectionOK, Pending
<1>6. ASSUME NEW o \in ReviewTxs, review'[o] # NULL
      PROVE  (/\ review[o].op \in {"approve", "reject"} => ReviewsAlone(o)
              /\ review[o].op = "approve" => ApprovalOK(review[o])
              /\ review[o].op = "reject" => RejectionOK(review[o]))'
  <2>1. CASE o = t
    BY <1>2, <1>3, <1>4, <1>5, <1>6, <2>1 DEF ReviewsAlone, ApprovalOK, RejectionOK, Pending, Undrifted
  <2>2. CASE o # t
    BY <1>3, <1>6, <2>2
  <2> QED
    BY <2>1, <2>2
<1> QED
  BY <1>1, <1>6 DEF ChangeInv, Pending

\* A review ends, whatever it wrote.
LEMMA CloseKeepsInv ==
    ASSUME ChangeInv, NEW t \in ReviewTxs, review[t] # NULL, Close(t),
           DOMAIN contact' = ContactFields,
           change' = [c \in ChangeIds |-> change'[c]],
           \A c \in ChangeIds : Pending(c)' => Pending(c) /\ change'[c] = change[c]
    PROVE  ChangeInv'
<1>1. review' = [review EXCEPT ![t] = NULL]
  BY DEF Close
<1>2. \A o \in ReviewTxs : review'[o] # NULL => review'[o] = review[o] /\ o # t
  BY <1>1 DEF ChangeInv
<1>3. \A o \in ReviewTxs : review'[o] # NULL => review'[o].op \notin {"approve", "reject"}
  BY <1>2, QuietReviews
<1>4. review' = [o \in ReviewTxs |-> review'[o]]
  BY <1>1 DEF ChangeInv
<1>5. \A c \in ChangeIds : Pending(c)' => DOMAIN change'[c].changes \subseteq ContactFields
  BY DEF ChangeInv
<1> QED
  BY <1>3, <1>4, <1>5 DEF ChangeInv

LEMMA ChangeStep ==
    ASSUME {"approve", "reject"} \cap ReviewsTogether = {}, ChangeInv, [ChangeNext]_changeVars
    PROVE  ChangeInv'
<1>1. CASE UNCHANGED <<contact, change, review>>
  BY <1>1 DEF ChangeInv, Pending, ReviewsAlone, ApprovalOK, RejectionOK, Undrifted
<1>2. ASSUME NEW c \in ChangeIds, NEW to \in Edits, submit(c, to) PROVE ChangeInv'
  <2> DEFINE ch == [f \in DOMAIN to |-> [from |-> contact[f], to |-> to[f]]]
  <2>1. /\ change[c] = NULL /\ UNCHANGED <<contact, review>>
        /\ change' = [change EXCEPT ![c] = [status |-> "PENDING", changes |-> ch]]
    BY <1>2 DEF submit
  <2>2. DOMAIN ch \subseteq ContactFields
    BY EditsNameFields
  <2> HIDE DEF ch
  <2>3. \A d \in ChangeIds : Pending(d)' => DOMAIN change'[d].changes \subseteq ContactFields
    BY <2>1, <2>2 DEF ChangeInv, Pending
  <2>4. \A d \in ChangeIds : Pending(d) => Pending(d)' /\ change'[d] = change[d]
    BY <2>1 DEF ChangeInv, Pending
  <2>5. ASSUME NEW o \in ReviewTxs, review'[o] # NULL
        PROVE  (/\ review[o].op \in {"approve", "reject"} => ReviewsAlone(o)
                /\ review[o].op = "approve" => ApprovalOK(review[o])
                /\ review[o].op = "reject" => RejectionOK(review[o]))'
    <3>1. /\ review[o].op \in {"approve", "reject"} => ReviewsAlone(o)
          /\ review[o].op = "approve" => ApprovalOK(review[o])
          /\ review[o].op = "reject" => RejectionOK(review[o])
      BY <2>1, <2>5 DEF ChangeInv
    <3>2. (review[o].op \in {"approve", "reject"} => ReviewsAlone(o))'
      BY <2>1, <3>1 DEF ReviewsAlone
    <3>3. (review[o].op = "reject" => RejectionOK(review[o]))'
      BY <2>1, <2>4, <3>1 DEF RejectionOK
    <3>4. (review[o].op = "approve" => ApprovalOK(review[o]))'
      BY <2>1, <2>4, <3>1 DEF ApprovalOK, Undrifted
    <3> QED
      BY <3>2, <3>3, <3>4
  <2> QED
    BY <2>1, <2>3, <2>5 DEF ChangeInv
<1>3. ASSUME NEW t \in ReviewTxs, NEW to \in Edits, edit(t, to) PROVE ChangeInv'
  BY <1>3, OpenKeepsInv DEF edit
<1>4. ASSUME NEW t \in ReviewTxs, NEW c \in ChangeIds, approve(t, c) PROVE ChangeInv'
  <2> DEFINE r == [op |-> "approve", id |-> c, changes |-> change[c].changes, compared |-> FALSE]
  <2>1. ApprovalOK(r) /\ Open(t, r) /\ r.op = "approve"
    BY <1>4 DEF ApprovalOK, approve
  <2> QED
    BY <2>1, OpenKeepsInv
<1>5. ASSUME NEW t \in ReviewTxs, NEW c \in ChangeIds, reject(t, c) PROVE ChangeInv'
  <2> DEFINE r == [op |-> "reject", id |-> c]
  <2>1. RejectionOK(r) /\ Open(t, r) /\ r.op = "reject"
    BY <1>5 DEF RejectionOK, reject
  <2> QED
    BY <2>1, OpenKeepsInv
<1>6. ASSUME NEW t \in ReviewTxs, EditCommit(t) PROVE ChangeInv'
  <2>1. DOMAIN contact' = ContactFields /\ UNCHANGED change /\ Close(t) /\ review[t] # NULL
    BY <1>6 DEF EditCommit, Merged, ChangeInv
  <2>2. change' = [c \in ChangeIds |-> change'[c]]
    BY <2>1 DEF ChangeInv
  <2> QED
    BY <2>1, <2>2, CloseKeepsInv DEF Pending
<1>7. ASSUME NEW t \in ReviewTxs, Compare(t) PROVE ChangeInv'
  <2>0. review[t] # NULL /\ review[t].op = "approve" /\ ApprovalOK(review[t]) /\ UNCHANGED <<contact, change>>
    BY <1>7 DEF Compare, ChangeInv
  <2>1. CASE Undrifted(review[t].changes)
    <3>1. PICK i, ch, b : review[t] = [op |-> "approve", id |-> i, changes |-> ch, compared |-> b]
      BY <2>0 DEF ApprovalOK
    <3> DEFINE r == [op |-> "approve", id |-> i, changes |-> ch, compared |-> TRUE]
    <3>2. review' = [review EXCEPT ![t] = r]
      BY <1>7, <2>1, <3>1 DEF Compare, ChangeInv
    <3>3. i \in ChangeIds /\ Pending(i) /\ ch = change[i].changes /\ Undrifted(ch)
      BY <2>0, <2>1, <3>1 DEF ApprovalOK
    <3>4. ApprovalOK(r)'
      BY <2>0, <3>3 DEF ApprovalOK, Undrifted, Pending
    <3>5. review'[t] = r /\ \A o \in ReviewTxs \ {t} : review'[o] = NULL
      BY <2>0, <3>2, QuietReviews DEF ChangeInv
    <3>6. ASSUME NEW o \in ReviewTxs, review'[o] # NULL
          PROVE  (/\ review[o].op \in {"approve", "reject"} => ReviewsAlone(o)
                  /\ review[o].op = "approve" => ApprovalOK(review[o])
                  /\ review[o].op = "reject" => RejectionOK(review[o]))'
      BY <3>4, <3>5, <3>6 DEF ReviewsAlone, ApprovalOK, Undrifted, Pending
    <3> QED
      BY <2>0, <3>2, <3>6 DEF ChangeInv, Pending
  <2>2. CASE ~Undrifted(review[t].changes)
    <3>1. Close(t)
      BY <1>7, <2>2 DEF Compare
    <3>2. DOMAIN contact' = ContactFields /\ change' = [c \in ChangeIds |-> change'[c]]
      BY <2>0 DEF ChangeInv
    <3> QED
      BY <2>0, <3>1, <3>2, CloseKeepsInv DEF Pending
  <2> QED
    BY <2>1, <2>2
<1>8. ASSUME NEW t \in ReviewTxs, ApproveCommit(t) PROVE ChangeInv'
  <2>1. PICK i : i = review[t].id
    OBVIOUS
  <2>2. change' = [change EXCEPT ![i] = Reviewed("APPROVED")] /\ Close(t) /\ review[t] # NULL
    BY <1>8, <2>1 DEF ApproveCommit
  <2>3. DOMAIN contact' = ContactFields
    BY <1>8 DEF ApproveCommit, Merged, ChangeInv
  <2>4. \A c \in ChangeIds : Pending(c)' => Pending(c) /\ change'[c] = change[c]
    BY <2>2 DEF ChangeInv, Pending, Reviewed
  <2>5. change' = [c \in ChangeIds |-> change'[c]]
    BY <2>2 DEF ChangeInv
  <2> QED
    BY <2>2, <2>3, <2>4, <2>5, CloseKeepsInv
<1>9. ASSUME NEW t \in ReviewTxs, RejectCommit(t) PROVE ChangeInv'
  <2>1. PICK i : i = review[t].id
    OBVIOUS
  <2>2. change' = [change EXCEPT ![i] = Reviewed("REJECTED")] /\ Close(t) /\ review[t] # NULL
    BY <1>9, <2>1 DEF RejectCommit
  <2>3. DOMAIN contact' = ContactFields
    BY <1>9 DEF RejectCommit, ChangeInv
  <2>4. \A c \in ChangeIds : Pending(c)' => Pending(c) /\ change'[c] = change[c]
    BY <2>2 DEF ChangeInv, Pending, Reviewed
  <2>5. change' = [c \in ChangeIds |-> change'[c]]
    BY <2>2 DEF ChangeInv
  <2> QED
    BY <2>2, <2>3, <2>4, <2>5, CloseKeepsInv
<1>10. ASSUME NEW t \in ReviewTxs, ReviewFails(t) PROVE ChangeInv'
  <2>1. review[t] # NULL /\ Close(t) /\ UNCHANGED <<contact, change>>
    BY <1>10 DEF ReviewFails
  <2>2. DOMAIN contact' = ContactFields /\ change' = [c \in ChangeIds |-> change'[c]]
    BY <2>1 DEF ChangeInv
  <2> QED
    BY <2>1, <2>2, CloseKeepsInv DEF Pending
<1> QED
  BY <1>1, <1>2, <1>3, <1>4, <1>5, <1>6, <1>7, <1>8, <1>9, <1>10 DEF ChangeNext, changeVars, mergeAway

LEMMA ReviewedOnceStep ==
    ASSUME ChangeInv, [ChangeNext]_changeVars,
           NEW c \in ChangeIds, change[c] # NULL, change'[c] # change[c]
    PROVE  /\ change[c].status = "PENDING"
           /\ Approved(c)' =>
                /\ AsSeen(c)
                /\ \A f \in DOMAIN change[c].changes : contact'[f] = change[c].changes[f].to
<1>1. ASSUME NEW t \in ReviewTxs, ApproveCommit(t)
      PROVE  /\ Pending(c) /\ AsSeen(c)
             /\ \A f \in DOMAIN change[c].changes : contact'[f] = change[c].changes[f].to
  <2>1. review[t] # NULL /\ review[t].op = "approve" /\ review[t].compared /\ ApprovalOK(review[t])
    BY <1>1 DEF ApproveCommit, ChangeInv
  <2>2. PICK i, ch : i = review[t].id /\ ch = review[t].changes
    OBVIOUS
  <2>3. change' = [change EXCEPT ![i] = Reviewed("APPROVED")]
    BY <1>1, <2>2 DEF ApproveCommit
  <2>4. i = c
    BY <2>3 DEF ChangeInv
  <2>5. review[t].compared = TRUE
    BY <2>1
  <2>6. Pending(c) /\ ch = change[c].changes /\ Undrifted(ch)
    BY <2>1, <2>2, <2>4, <2>5 DEF ApprovalOK
  <2>7. contact' = Merged([f \in DOMAIN ch |-> ch[f].to])
    BY <1>1, <2>2 DEF ApproveCommit
  <2>8. DOMAIN ch \subseteq DOMAIN contact
    BY <2>6 DEF ChangeInv
  <2>9. \A f \in DOMAIN ch : contact'[f] = ch[f].to
    BY <2>7, <2>8 DEF Merged
  <2> QED
    BY <2>6, <2>9 DEF AsSeen, Undrifted
<1>2. ASSUME NEW t \in ReviewTxs, RejectCommit(t) PROVE Pending(c) /\ ~Approved(c)'
  <2>1. PICK i : i = review[t].id
    OBVIOUS
  <2>2. change' = [change EXCEPT ![i] = Reviewed("REJECTED")]
    BY <1>2, <2>1 DEF RejectCommit
  <2>3. i = c
    BY <2>2 DEF ChangeInv
  <2>4. RejectionOK(review[t])
    BY <1>2 DEF RejectCommit, ChangeInv
  <2> QED
    BY <2>1, <2>2, <2>3, <2>4 DEF ChangeInv, RejectionOK, Approved, Reviewed
<1>3. ASSUME NEW d \in ChangeIds, NEW to \in Edits, submit(d, to) PROVE FALSE
  BY <1>3 DEF submit, ChangeInv
<1>4. \/ \E t \in ReviewTxs : ApproveCommit(t) \/ RejectCommit(t)
      \/ \E d \in ChangeIds, to \in Edits : submit(d, to)
  BY DEF ChangeNext, changeVars, mergeAway, edit, approve, reject, Open, EditCommit, Compare, ReviewFails
<1> QED
  BY <1>1, <1>2, <1>3, <1>4 DEF Pending

\* When approvals and rejections run one at a time, though edits and merges overlap
\* as they like with each other and submissions come at any moment, a request is
\* decided once, an approval overwrites nothing the customer had not seen, and what
\* is approved is applied in whole, for any number of requests, mailboxes and
\* phone lists (approve, reject, submit).
THEOREM ReviewedOnceOnWhatWasSeenHolds ==
    ASSUME {"approve", "reject"} \cap ReviewsTogether = {}
    PROVE  ChangeSpec => ReviewedOnceOnWhatWasSeen
<1> DEFINE Once == \A c \in ChangeIds : change[c] # NULL /\ change'[c] # change[c] =>
          /\ change[c].status = "PENDING"
          /\ Approved(c)' =>
                /\ AsSeen(c)
                /\ \A f \in DOMAIN change[c].changes : contact'[f] = change[c].changes[f].to
<1>1. ChangeInv /\ [ChangeNext]_changeVars => ChangeInv'
  BY ChangeStep
<1>2. ChangeInv /\ [ChangeNext]_changeVars => [Once]_changeVars
  BY ReviewedOnceStep
<1> QED
  BY <1>1, <1>2, ChangeInitOK, PTL DEF ChangeSpec, ReviewedOnceOnWhatWasSeen
=============================================================================
