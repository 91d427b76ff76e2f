---------------------------- MODULE OutboxProofs ----------------------------
(***************************************************************************)
(* What the outbox's clocks buy, for every table, every number of          *)
(* invocations and every choice of the times with MaxDuration < Lease.     *)
(*                                                                         *)
(* LeaseIsHeld is not inductive: that nobody else claims a held row has to *)
(* come from its lease outlasting its holder, so the invariant carries     *)
(* the race of the two countdowns (LeaseOutlivesHolder), and the same race *)
(* for the rows a ghost may still be running (GhostsAreParked).            *)
(***************************************************************************)
EXTENDS Outbox, TLAPS

(* An invocation starts what it took out of its batch; a dead one has
   nothing. *)
Shape ==
    \A w \in Workers :
        /\ inv[w].run \notin inv[w].batch
        /\ inv[w].left = 0 =>
              inv[w].batch = {} /\ inv[w].run = NoRow /\ inv[w].ghosts = {}

LeaseOutlivesHolder ==
    \A w \in Workers : \A r \in Held(w) :
        \/ row[r].st = "processing" /\ row[r].lease = w /\ wait[r] > inv[w].left
        \/ r \in revived /\ row[r].st = "done"

GhostsAreParked ==
    \A w \in Workers : \A r \in inv[w].ghosts \ revived :
        \/ row[r].st = "failed" /\ wait[r] > inv[w].left
        \/ row[r].st \in {"dead", "done"}

OneGhost ==
    \A w, v \in Workers : \A r \in (inv[w].ghosts \cap inv[v].ghosts) \ revived : w = v

DoneIsUnleased == \A r \in Rows : row[r].st = "done" => row[r].lease = NoOwner

Safety == Shape /\ LeaseOutlivesHolder /\ GhostsAreParked /\ OneGhost
IInv == TypeOK /\ Safety /\ DoneIsUnleased

USE OutboxAssumption
USE DEF NoRow

-----------------------------------------------------------------------------
(* The row operations stay in the table. *)
LEMMA RowTypes ==
    ASSUME NEW x \in OutboxRows
    PROVE  /\ Enqueue(x) \in OutboxRows /\ MarkDone(x) \in OutboxRows
           /\ \A w \in Workers : Claimed(x, w) \in OutboxRows
           /\ \A n \in Nat : MarkFailed(x, n) \in OutboxRows
           /\ ReleaseUnstarted(x) \in OutboxRows
           /\ DeferUncharged(x) \in OutboxRows /\ RetryDead(x) \in OutboxRows
<1> USE DEF OutboxRows, RowState
<1>1. Enqueue(x) \in OutboxRows BY DEF Enqueue, Queued, Absent
<1>2. \A w \in Workers : Claimed(x, w) \in OutboxRows BY DEF Claimed
<1>3. MarkDone(x) \in OutboxRows BY DEF MarkDone
<1>4. ASSUME NEW n \in Nat PROVE MarkFailed(x, n) \in OutboxRows
  <2>1. CASE x.attempts >= n BY <2>1 DEF MarkFailed
  <2>2. CASE ~(x.attempts >= n) BY <2>2 DEF MarkFailed
  <2> QED BY <2>1, <2>2
<1>5. Refunded(x) \in OutboxRows
  <2>1. CASE x.attempts = 0 BY <2>1 DEF Refunded
  <2>2. CASE x.attempts # 0
    <3>1. x.attempts - 1 \in Nat BY <2>2
    <3> QED BY <2>2, <3>1 DEF Refunded
  <2> QED BY <2>1, <2>2
<1>6. ReleaseUnstarted(x) \in OutboxRows BY <1>5 DEF ReleaseUnstarted
<1>7. DeferUncharged(x) \in OutboxRows BY <1>5 DEF DeferUncharged
<1>8. RetryDead(x) \in OutboxRows BY DEF RetryDead
<1> QED BY <1>1, <1>2, <1>3, <1>4, <1>6, <1>7, <1>8

(* An invocation stays one. *)
LEMMA InvocationTypes ==
    ASSUME NEW i \in Invocation
    PROVE  /\ Gone \in Invocation /\ Left(i) \in Invocation
           /\ \A left \in 0 .. MaxDuration, batch \in SUBSET Rows :
                 Holding(i, left, batch) \in Invocation
           /\ \A r \in Rows : /\ Without(i, r) \in Invocation
                              /\ Running(i, r) \in Invocation
                              /\ Rid(i, r) \in Invocation
           /\ i.run \in Rows => Haunting(i) \in Invocation
           /\ i.run = NoRow \/ i.age < RowDeadline => Older(i) \in Invocation
<1> USE DEF Invocation
<1>1. 0 \in 0 .. RowDeadline /\ Gone \in Invocation BY DEF Gone
<1>2. ASSUME NEW r \in Rows PROVE Without(i, r) \in Invocation
  <2>1. i.batch \ {r} \in SUBSET Rows OBVIOUS
  <2> QED BY <2>1 DEF Without
<1>3. Left(i) \in Invocation BY <1>1 DEF Left
<1>4. ASSUME NEW r \in Rows PROVE Rid(i, r) \in Invocation
  <2>1. i.ghosts \ {r} \in SUBSET Rows OBVIOUS
  <2> QED BY <2>1 DEF Rid
<1>5. ASSUME NEW r \in Rows PROVE Running(i, r) \in Invocation
  BY <1>1, <1>2 DEF Running
<1>6. \A left \in 0 .. MaxDuration, batch \in SUBSET Rows :
          Holding(i, left, batch) \in Invocation
  BY DEF Holding
<1>7. ASSUME i.run \in Rows PROVE Haunting(i) \in Invocation
  <2>1. i.ghosts \cup {i.run} \in SUBSET Rows BY <1>7
  <2> QED BY <1>3, <2>1 DEF Haunting
<1>8. ASSUME i.run = NoRow \/ i.age < RowDeadline PROVE Older(i) \in Invocation
  <2>1. CASE i.left <= 1 BY <1>1, <2>1 DEF Older
  <2>2. CASE ~(i.left <= 1)
    <3>1. i.left - 1 \in 0 .. MaxDuration BY <2>2
    <3>2. (IF i.run = NoRow THEN 0 ELSE i.age + 1) \in 0 .. RowDeadline BY <1>8
    <3> QED BY <2>2, <3>1, <3>2 DEF Older
  <2> QED BY <2>1, <2>2
<1> QED BY <1>1, <1>2, <1>3, <1>4, <1>5, <1>6, <1>7, <1>8

(* A batch is made of claimable rows. *)
LEMMA BatchIsClaimable == Oldest(Claimable) \subseteq Claimable /\ Claimable \subseteq Rows
  BY DEF Oldest, Claimable

(* Every table starts well-formed, and every step keeps it so. *)
LEMMA TypeInit == Init => TypeOK
  BY DEF Init, TypeOK, OutboxRows, RowState, Absent, Gone, Invocation

(* Every step of the drain, of time and of staff keeps the types. *)
LEMMA TypeStep == TypeOK /\ [Next]_vars => TypeOK'
<1> SUFFICES ASSUME TypeOK, [Next]_vars PROVE TypeOK' OBVIOUS
<1> USE DEF TypeOK
<1>1. ASSUME NEW r \in Rows, EnqueueRow(r) PROVE TypeOK'
  <2>1. Enqueue(row[r]) \in OutboxRows
    BY <1>1, RowTypes
  <2> QED BY <1>1, <2>1 DEF EnqueueRow
<1>2. ASSUME NEW r \in Rows, OpsRetry(r) PROVE TypeOK'
  <2>1. RetryDead(row[r]) \in OutboxRows
    BY <1>2, RowTypes
  <2> QED BY <1>2, <2>1 DEF OpsRetry
<1>3. ASSUME NEW r \in Rows, OpsDismiss(r) PROVE TypeOK'
  <2>1. MarkDone(row[r]) \in OutboxRows
    BY <1>3, RowTypes
  <2> QED BY <1>3, <2>1 DEF OpsDismiss
<1>4. ASSUME NEW w \in Workers, NEW left \in 0 .. MaxDuration,
             TakeBatch(w, left) PROVE TypeOK'
  <2>1. Oldest(Claimable) \in SUBSET Rows BY BatchIsClaimable
  <2>2. row' \in [Rows -> OutboxRows] BY <1>4, RowTypes DEF TakeBatch
  <2>3. wait' \in [Rows -> Nat] BY <1>4 DEF TakeBatch
  <2>4. Holding(inv[w], left, Oldest(Claimable)) \in Invocation
    BY <2>1, InvocationTypes
  <2>5. inv' \in [Workers -> Invocation] BY <1>4, <2>4 DEF TakeBatch
  <2> QED BY <1>4, <2>2, <2>3, <2>5 DEF TakeBatch
<1>5. ASSUME NEW w \in Workers, FirstBatch(w) \/ NextBatch(w) PROVE TypeOK'
  <2>1. inv[w].left \in 0 .. MaxDuration BY DEF Invocation
  <2> QED BY <1>5, <2>1, <1>4 DEF FirstBatch, NextBatch
<1>6. ASSUME NEW w \in Workers, HandBackRest(w) PROVE TypeOK'
  <2>1. row' \in [Rows -> OutboxRows] BY <1>6, RowTypes DEF HandBackRest
  <2>2. wait' \in [Rows -> Nat] BY <1>6 DEF HandBackRest
  <2>3. Holding(inv[w], inv[w].left, {}) \in Invocation BY ZenonT(60) DEF Invocation, Holding
  <2>4. inv' \in [Workers -> Invocation] BY <1>6, <2>3 DEF HandBackRest
  <2> QED BY <1>6, <2>1, <2>2, <2>4 DEF HandBackRest
<1>7. ASSUME NEW w \in Workers, NEW r \in Rows, BuryPoison(w, r) PROVE TypeOK'
  <2>1. MarkFailed(row[r], Ceiling) \in OutboxRows
    BY <1>7, RowTypes
  <2>2. Without(inv[w], r) \in Invocation BY <1>7, InvocationTypes
  <2> QED BY <1>7, <2>1, <2>2 DEF BuryPoison, Drop
<1>8. ASSUME NEW w \in Workers, NEW r \in Rows, HandBackOne(w, r) PROVE TypeOK'
  <2>1. ReleaseUnstarted(row[r]) \in OutboxRows
    BY <1>8, RowTypes
  <2>2. Without(inv[w], r) \in Invocation BY <1>8, InvocationTypes
  <2> QED BY <1>8, <2>1, <2>2 DEF HandBackOne, Drop
<1>9. ASSUME NEW w \in Workers, NEW r \in Rows, Start(w, r) PROVE TypeOK'
  <2>2. Running(inv[w], r) \in Invocation BY <1>9, InvocationTypes
  <2> QED BY <1>9, <2>2 DEF Start
<1>10. ASSUME NEW w \in Workers, NEW r \in Rows, Succeed(w, r) PROVE TypeOK'
  <2>1. MarkDone(row[r]) \in OutboxRows
    BY <1>10, RowTypes
  <2>2. Left(inv[w]) \in Invocation BY <1>10, InvocationTypes
  <2> QED BY <1>10, <2>1, <2>2 DEF Succeed, Record, Leaves
<1>11. ASSUME NEW w \in Workers, NEW r \in Rows, Fail(w, r) PROVE TypeOK'
  <2>1. \A c \in {0, Ceiling} : MarkFailed(row[r], c) \in OutboxRows
    BY <1>11, RowTypes
  <2>2. Left(inv[w]) \in Invocation BY <1>11, InvocationTypes
  <2> QED BY <1>11, <2>1, <2>2 DEF Fail, Record, Leaves
<1>12. ASSUME NEW w \in Workers, NEW r \in Rows, Defer(w, r) PROVE TypeOK'
  <2>1. DeferUncharged(row[r]) \in OutboxRows
    BY <1>12, RowTypes
  <2>2. Left(inv[w]) \in Invocation BY <1>12, InvocationTypes
  <2> QED BY <1>12, <2>1, <2>2 DEF Defer, Record, Leaves
<1>13. ASSUME NEW w \in Workers, NEW r \in Rows, Deadline(w, r) PROVE TypeOK'
  <2>1. \A c \in {0, Ceiling} : MarkFailed(row[r], c) \in OutboxRows
    BY <1>13, RowTypes
  <2>2. Haunting(inv[w]) \in Invocation BY <1>13, InvocationTypes DEF Deadline
  <2>3. row' \in [Rows -> OutboxRows] /\ wait' \in [Rows -> Nat]
    BY <1>13, <2>1 DEF Deadline, Record
  <2> QED BY <1>13, <2>2, <2>3 DEF Deadline
<1>14. ASSUME NEW w \in Workers, NEW r \in Rows, GhostEnds(w, r) PROVE TypeOK'
  <2>2. Rid(inv[w], r) \in Invocation BY <1>14, InvocationTypes
  <2> QED BY <1>14, <2>2 DEF GhostEnds
<1>15. ASSUME Tick PROVE TypeOK'
  <2>1. wait' \in [Rows -> Nat] BY <1>15 DEF Tick, Less
  <2>2. ASSUME NEW w \in Workers PROVE Older(inv[w]) \in Invocation
    <3>1. inv[w].run = NoRow \/ inv[w].age < RowDeadline BY <1>15 DEF Tick
    <3> QED BY <3>1, InvocationTypes
  <2>3. inv' \in [Workers -> Invocation] BY <1>15, <2>2 DEF Tick
  <2> QED BY <1>15, <2>1, <2>3 DEF Tick
<1>16. ASSUME NEW w \in Workers, Crash(w) PROVE TypeOK'
  <2>2. Gone \in Invocation BY <1>16, InvocationTypes
  <2> QED BY <1>16, <2>2 DEF Crash
<1>17. CASE UNCHANGED vars BY <1>17 DEF vars
<1> QED
  BY <1>1, <1>2, <1>3, <1>5, <1>6, <1>7, <1>8, <1>9, <1>10, <1>11, <1>12, <1>13, <1>14, <1>15, <1>16, <1>17
     DEF Next, DrainStep

-----------------------------------------------------------------------------
(* The owner of a row is the only one that holds it. *)
LEMMA OwnerHoldsAlone ==
    ASSUME TypeOK, LeaseOutlivesHolder, DoneIsUnleased, NEW w \in Workers,
           NEW v \in Workers, NEW r \in Held(v), row[r].lease = w
    PROVE  v = w /\ row[r].st = "processing" /\ wait[r] > inv[v].left
<1>1. r \in Rows BY DEF Held, TypeOK, Invocation
<1> QED BY <1>1 DEF LeaseOutlivesHolder, DoneIsUnleased

(* What a record of w keeps of another: its fields, one by one. *)
LEMMA Fields ==
    ASSUME NEW i \in Invocation
    PROVE  /\ Left(i).left = i.left /\ Left(i).batch = i.batch
           /\ Left(i).run = NoRow /\ Left(i).ghosts = i.ghosts
           /\ Haunting(i).left = i.left /\ Haunting(i).batch = i.batch
           /\ Haunting(i).run = NoRow /\ Haunting(i).ghosts = i.ghosts \cup {i.run}
           /\ Holding(i, i.left, {}).left = i.left /\ Holding(i, i.left, {}).run = i.run
           /\ Holding(i, i.left, {}).batch = {}
           /\ Holding(i, i.left, {}).ghosts = i.ghosts
  BY DEF Invocation, Left, Haunting, Holding

(* The end of a run touches no row that is still held: the run's own row
   only if the lease was never lost, and then nobody else holds it. *)
LEMMA OutcomeKeepsLeases ==
    ASSUME IInv, NEW w \in Workers, NEW r \in Rows, inv[w].run = r,
           NEW new, NEW delay, Record(w, r, new, delay), revived' = revived,
           \/ inv' = [inv EXCEPT ![w] = Left(@)]
           \/ inv' = [inv EXCEPT ![w] = Haunting(@)]
    PROVE  LeaseOutlivesHolder'
<1> USE DEF IInv, Safety, TypeOK
<1> SUFFICES ASSUME NEW v \in Workers, NEW s \in Held(v)'
             PROVE  \/ row'[s].st = "processing" /\ row'[s].lease = v
                          /\ wait'[s] > inv'[v].left
                    \/ s \in revived' /\ row'[s].st = "done"
  BY DEF LeaseOutlivesHolder
<1>1. inv[w] \in Invocation OBVIOUS
<1>2. s \in Held(v) /\ inv'[v].left = inv[v].left /\ (v = w => s # r)
  BY <1>1, Fields DEF Held, Shape
<1>3. s \in Rows BY <1>2 DEF Held, Invocation
<1>4. row'[s] = row[s] /\ wait'[s] = wait[s]
  <2>1. CASE s = r /\ Owns(row[r], w)
    BY <1>2, <2>1, OwnerHoldsAlone DEF Owns
  <2>2. CASE ~(s = r /\ Owns(row[r], w)) BY <1>3, <2>2 DEF Record
  <2> QED BY <2>1, <2>2
<1> QED BY <1>2, <1>4 DEF LeaseOutlivesHolder

(* Every step keeps the leases longer than their holders, ghosts' included. *)
LEMMA SafetyStep == IInv /\ [Next]_vars => Safety'
<1> SUFFICES ASSUME IInv, [Next]_vars PROVE Safety' OBVIOUS
<1> USE DEF IInv, Safety
<1>1. ASSUME NEW r \in Rows, EnqueueRow(r) PROVE Safety'
  <2>1. Shape'
    BY <1>1, OwnerHoldsAlone
    DEF Shape, Held, TypeOK, Invocation, OutboxRows,
        EnqueueRow, Enqueue, Queued, Absent
  <2>2. LeaseOutlivesHolder'
    BY <1>1, OwnerHoldsAlone
    DEF LeaseOutlivesHolder, Held, TypeOK, Invocation, OutboxRows,
        EnqueueRow, Enqueue, Queued, Absent
  <2>3. GhostsAreParked'
    BY <1>1, OwnerHoldsAlone
    DEF GhostsAreParked, Held, TypeOK, Invocation, OutboxRows,
        EnqueueRow, Enqueue, Queued, Absent
  <2>4. OneGhost'
    BY <1>1, OwnerHoldsAlone
    DEF OneGhost, Held, TypeOK, Invocation, OutboxRows,
        EnqueueRow, Enqueue, Queued, Absent
  <2> QED BY <2>1, <2>2, <2>3, <2>4
<1>2. ASSUME NEW r \in Rows, OpsRetry(r) PROVE Safety'
  <2>1. Shape'
    BY <1>2, OwnerHoldsAlone
    DEF Shape, Held, TypeOK, Invocation, OutboxRows,
        OpsRetry, MayRetryDead, RetryDead
  <2>2. LeaseOutlivesHolder'
    BY <1>2, OwnerHoldsAlone
    DEF LeaseOutlivesHolder, Held, TypeOK, Invocation, OutboxRows,
        OpsRetry, MayRetryDead, RetryDead
  <2>3. GhostsAreParked'
    BY <1>2, OwnerHoldsAlone
    DEF GhostsAreParked, Held, TypeOK, Invocation, OutboxRows,
        OpsRetry, MayRetryDead, RetryDead
  <2>4. OneGhost'
    BY <1>2, OwnerHoldsAlone
    DEF OneGhost, Held, TypeOK, Invocation, OutboxRows,
        OpsRetry, MayRetryDead, RetryDead
  <2> QED BY <2>1, <2>2, <2>3, <2>4
<1>3. ASSUME NEW r \in Rows, OpsDismiss(r) PROVE Safety'
  <2>1. Shape'
    BY <1>3, OwnerHoldsAlone
    DEF Shape, Held, TypeOK, Invocation, OutboxRows,
        OpsDismiss, MarkDone
  <2>2. LeaseOutlivesHolder'
    BY <1>3, OwnerHoldsAlone
    DEF LeaseOutlivesHolder, Held, TypeOK, Invocation, OutboxRows,
        OpsDismiss, MarkDone
  <2>3. GhostsAreParked'
    BY <1>3, OwnerHoldsAlone
    DEF GhostsAreParked, Held, TypeOK, Invocation, OutboxRows,
        OpsDismiss, MarkDone
  <2>4. OneGhost'
    BY <1>3, OwnerHoldsAlone
    DEF OneGhost, Held, TypeOK, Invocation, OutboxRows,
        OpsDismiss, MarkDone
  <2> QED BY <2>1, <2>2, <2>3, <2>4
<1>4. ASSUME NEW w \in Workers, NEW r \in Rows, BuryPoison(w, r) PROVE Safety'
  <2>1. Shape'
    BY <1>4, OwnerHoldsAlone
    DEF Shape, Held, TypeOK, Invocation, OutboxRows,
        BuryPoison, NextUp, Drop, Without, Owns, MarkFailed, Poisoned
  <2>2. LeaseOutlivesHolder'
    BY <1>4, OwnerHoldsAlone
    DEF LeaseOutlivesHolder, Held, TypeOK, Invocation, OutboxRows,
        BuryPoison, NextUp, Drop, Without, Owns, MarkFailed, Poisoned
  <2>3. GhostsAreParked'
    BY <1>4, OwnerHoldsAlone
    DEF GhostsAreParked, Held, TypeOK, Invocation, OutboxRows,
        BuryPoison, NextUp, Drop, Without, Owns, MarkFailed, Poisoned
  <2>4. OneGhost'
    BY <1>4, OwnerHoldsAlone
    DEF OneGhost, Held, TypeOK, Invocation, OutboxRows,
        BuryPoison, NextUp, Drop, Without, Owns, MarkFailed, Poisoned
  <2> QED BY <2>1, <2>2, <2>3, <2>4
<1>5. ASSUME NEW w \in Workers, NEW r \in Rows, HandBackOne(w, r) PROVE Safety'
  <2>1. Shape'
    BY <1>5, OwnerHoldsAlone
    DEF Shape, Held, TypeOK, Invocation, OutboxRows,
        HandBackOne, NextUp, Drop, Without, MayHandBack, Owns,
       ReleaseUnstarted, Refunded
  <2>2. LeaseOutlivesHolder'
    BY <1>5, OwnerHoldsAlone
    DEF LeaseOutlivesHolder, Held, TypeOK, Invocation, OutboxRows,
        HandBackOne, NextUp, Drop, Without, MayHandBack, Owns,
       ReleaseUnstarted, Refunded
  <2>3. GhostsAreParked'
    <3> SUFFICES ASSUME NEW v \in Workers, NEW s \in inv'[v].ghosts \ revived'
                 PROVE  \/ row'[s].st = "failed" /\ wait'[s] > inv'[v].left
                        \/ row'[s].st \in {"dead", "done"}
      BY DEF GhostsAreParked
    <3>1. inv'[v].ghosts = inv[v].ghosts /\ inv'[v].left = inv[v].left /\ s \in Rows
      BY <1>5 DEF HandBackOne, Drop, Without, TypeOK, Invocation
    <3>2. row[s].st # "processing" BY <1>5, <3>1 DEF GhostsAreParked, HandBackOne
    <3>3. row'[s] = row[s] /\ wait'[s] = wait[s]
      BY <1>5, <3>1, <3>2 DEF HandBackOne, MayHandBack, TypeOK
    <3> QED BY <1>5, <3>1, <3>3 DEF GhostsAreParked, HandBackOne
  <2>4. OneGhost'
    BY <1>5, OwnerHoldsAlone
    DEF OneGhost, Held, TypeOK, Invocation, OutboxRows,
        HandBackOne, NextUp, Drop, Without, MayHandBack, Owns,
       ReleaseUnstarted, Refunded
  <2> QED BY <2>1, <2>2, <2>3, <2>4
<1>6. ASSUME NEW w \in Workers, NEW r \in Rows, Start(w, r) PROVE Safety'
  <2>1. Shape'
    BY <1>6, OwnerHoldsAlone
    DEF Shape, Held, TypeOK, Invocation, OutboxRows,
        Start, NextUp, Running, Without
  <2>2. LeaseOutlivesHolder'
    BY <1>6, OwnerHoldsAlone
    DEF LeaseOutlivesHolder, Held, TypeOK, Invocation, OutboxRows,
        Start, NextUp, Running, Without
  <2>3. GhostsAreParked'
    BY <1>6, OwnerHoldsAlone
    DEF GhostsAreParked, Held, TypeOK, Invocation, OutboxRows,
        Start, NextUp, Running, Without
  <2>4. OneGhost'
    BY <1>6, OwnerHoldsAlone
    DEF OneGhost, Held, TypeOK, Invocation, OutboxRows,
        Start, NextUp, Running, Without
  <2> QED BY <2>1, <2>2, <2>3, <2>4
<1>7. ASSUME NEW w \in Workers, NEW r \in Rows, Succeed(w, r) PROVE Safety'
  <2>1. Shape'
    BY <1>7, OwnerHoldsAlone
    DEF Shape, Held, TypeOK, Invocation, OutboxRows,
        Succeed, Record, Leaves, Left, Owns, MarkDone
  <2>2. LeaseOutlivesHolder'
    BY <1>7, OutcomeKeepsLeases DEF Succeed, Leaves
  <2>3. GhostsAreParked'
    BY <1>7, OwnerHoldsAlone, SMTT(30)
    DEF GhostsAreParked, Held, TypeOK, Invocation, OutboxRows,
        Succeed, Record, Leaves, Left, Owns, MarkDone
  <2>4. OneGhost'
    BY <1>7, OwnerHoldsAlone
    DEF OneGhost, Held, TypeOK, Invocation, OutboxRows,
        Succeed, Record, Leaves, Left, Owns, MarkDone
  <2> QED BY <2>1, <2>2, <2>3, <2>4
<1>8. ASSUME NEW w \in Workers, NEW r \in Rows, Fail(w, r) PROVE Safety'
  <2>1. Shape'
    BY <1>8, OwnerHoldsAlone
    DEF Shape, Held, TypeOK, Invocation, OutboxRows,
        Fail, Record, Leaves, Left, Owns, MarkFailed
  <2>2. LeaseOutlivesHolder'
    BY <1>8, OutcomeKeepsLeases DEF Fail, Leaves
  <2>3. GhostsAreParked'
    BY <1>8, OwnerHoldsAlone, SMTT(30)
    DEF GhostsAreParked, Held, TypeOK, Invocation, OutboxRows,
        Fail, Record, Leaves, Left, Owns, MarkFailed
  <2>4. OneGhost'
    BY <1>8, OwnerHoldsAlone
    DEF OneGhost, Held, TypeOK, Invocation, OutboxRows,
        Fail, Record, Leaves, Left, Owns, MarkFailed
  <2> QED BY <2>1, <2>2, <2>3, <2>4
<1>9. ASSUME NEW w \in Workers, NEW r \in Rows, Defer(w, r) PROVE Safety'
  <2>1. Shape'
    BY <1>9, OwnerHoldsAlone
    DEF Shape, Held, TypeOK, Invocation, OutboxRows,
        Defer, Record, Leaves, Left, Owns, DeferUncharged, Refunded
  <2>2. LeaseOutlivesHolder'
    BY <1>9, OutcomeKeepsLeases DEF Defer, Leaves
  <2>3. GhostsAreParked'
    BY <1>9, OwnerHoldsAlone
    DEF GhostsAreParked, Held, TypeOK, Invocation, OutboxRows,
        Defer, Record, Leaves, Left, Owns, DeferUncharged, Refunded
  <2>4. OneGhost'
    BY <1>9, OwnerHoldsAlone
    DEF OneGhost, Held, TypeOK, Invocation, OutboxRows,
        Defer, Record, Leaves, Left, Owns, DeferUncharged, Refunded
  <2> QED BY <2>1, <2>2, <2>3, <2>4
<1>10. ASSUME NEW w \in Workers, NEW r \in Rows, Deadline(w, r) PROVE Safety'
  <2>1. Shape'
    BY <1>10, OwnerHoldsAlone
    DEF Shape, Held, TypeOK, Invocation, OutboxRows,
        Deadline, Record, Haunting, Left, Owns, MarkFailed
  <2>2. LeaseOutlivesHolder'
    BY <1>10, OutcomeKeepsLeases DEF Deadline
  <2>3. GhostsAreParked'
    <3> SUFFICES ASSUME NEW v \in Workers, NEW s \in inv'[v].ghosts \ revived'
                 PROVE  \/ row'[s].st = "failed" /\ wait'[s] > inv'[v].left
                        \/ row'[s].st \in {"dead", "done"}
      BY DEF GhostsAreParked
    <3>1. inv[w] \in Invocation BY DEF TypeOK
    <3>2. inv'[v].left = inv[v].left /\ s \in Rows
      BY <1>10, <3>1, Fields DEF Deadline, TypeOK, Invocation
    <3>3. CASE s = r /\ Owns(row[r], w)
      <4>0. PICK c \in {0, Ceiling} : row' = [row EXCEPT ![r] = MarkFailed(@, c)]
        BY <1>10, <3>3 DEF Deadline, Record
      <4>1. row'[s].st \in {"failed", "dead"} /\ wait'[s] = Lease
        BY <1>10, <3>3, <4>0 DEF Deadline, Record, MarkFailed, TypeOK, OutboxRows
      <4>2. inv[v].left \in 0 .. MaxDuration BY DEF TypeOK, Invocation
      <4> QED BY <3>2, <4>1, <4>2
    <3>4. CASE s = r /\ ~Owns(row[r], w)
      BY <1>10, <3>4 DEF LeaseOutlivesHolder, Held, Owns, Deadline
    <3>5. CASE s # r
      <4>1. s \in inv[v].ghosts \ revived
        BY <1>10, <3>1, <3>5, Fields DEF Deadline, TypeOK
      <4>2. row'[s] = row[s] /\ wait'[s] = wait[s]
        BY <1>10, <3>2, <3>5 DEF Deadline, Record, TypeOK
      <4> QED BY <3>2, <4>1, <4>2 DEF GhostsAreParked
    <3> QED BY <3>3, <3>4, <3>5
  <2>4. OneGhost'
    <3>1. \A v \in Workers : r \in inv[v].ghosts => r \in revived
      BY <1>10 DEF Deadline, GhostsAreParked, LeaseOutlivesHolder, Held
    <3>2. \A v \in Workers : \A s \in inv'[v].ghosts :
              s \in inv[v].ghosts \/ (v = w /\ s = r)
      <4>1. inv[w] \in Invocation BY DEF TypeOK
      <4> QED BY <1>10, <4>1, Fields DEF Deadline, TypeOK
    <3> QED BY <1>10, <3>1, <3>2 DEF OneGhost, Deadline
  <2> QED BY <2>1, <2>2, <2>3, <2>4
<1>11. ASSUME NEW w \in Workers, NEW r \in Rows, GhostEnds(w, r) PROVE Safety'
  <2>1. Shape'
    BY <1>11, OwnerHoldsAlone
    DEF Shape, Held, TypeOK, Invocation, OutboxRows,
        GhostEnds, Rid
  <2>2. LeaseOutlivesHolder'
    BY <1>11, OwnerHoldsAlone
    DEF LeaseOutlivesHolder, Held, TypeOK, Invocation, OutboxRows,
        GhostEnds, Rid
  <2>3. GhostsAreParked'
    BY <1>11, OwnerHoldsAlone
    DEF GhostsAreParked, Held, TypeOK, Invocation, OutboxRows,
        GhostEnds, Rid
  <2>4. OneGhost'
    BY <1>11, OwnerHoldsAlone
    DEF OneGhost, Held, TypeOK, Invocation, OutboxRows,
        GhostEnds, Rid
  <2> QED BY <2>1, <2>2, <2>3, <2>4
<1>12. ASSUME NEW w \in Workers, HandBackRest(w) PROVE Safety'
  <2>0. inv[w] \in Invocation /\ inv[w].run = NoRow
    BY <1>12 DEF HandBackRest, NextUp, TypeOK
  <2>1. Shape'
    <3>1. \A v \in Workers \ {w} : inv'[v] = inv[v]
      BY <1>12 DEF HandBackRest, TypeOK
    <3>2. /\ inv'[w].batch = {} /\ inv'[w].run = NoRow
          /\ inv'[w].left = inv[w].left /\ inv'[w].ghosts = inv[w].ghosts
      BY <1>12, <2>0, Fields, ZenonT(60) DEF HandBackRest, TypeOK
    <3> QED BY <3>1, <3>2 DEF Shape
  <2>2. LeaseOutlivesHolder'
    <3> SUFFICES ASSUME NEW v \in Workers, NEW s \in Held(v)'
                 PROVE  \/ row'[s].st = "processing" /\ row'[s].lease = v
                              /\ wait'[s] > inv'[v].left
                        \/ s \in revived' /\ row'[s].st = "done"
      BY DEF LeaseOutlivesHolder
    <3>1. v # w /\ s \in Held(v) /\ inv'[v].left = inv[v].left
      BY <1>12, <2>0, Fields DEF HandBackRest, Held, TypeOK
    <3>2. s \in Rows BY <3>1 DEF Held, TypeOK, Invocation
    <3>3. row'[s] = row[s] /\ wait'[s] = wait[s]
      BY <1>12, <3>1, <3>2, OwnerHoldsAlone DEF HandBackRest, MayHandBack, Owns
    <3> QED BY <1>12, <3>1, <3>3 DEF LeaseOutlivesHolder, HandBackRest
  <2>3. GhostsAreParked'
    <3> SUFFICES ASSUME NEW v \in Workers, NEW s \in inv'[v].ghosts \ revived'
                 PROVE  \/ row'[s].st = "failed" /\ wait'[s] > inv'[v].left
                        \/ row'[s].st \in {"dead", "done"}
      BY DEF GhostsAreParked
    <3>1. s \in inv[v].ghosts \ revived /\ inv'[v].left = inv[v].left /\ s \in Rows
      BY <1>12, <2>0, Fields DEF HandBackRest, TypeOK, Invocation
    <3>2. row'[s] = row[s] /\ wait'[s] = wait[s]
      BY <1>12, <3>1 DEF GhostsAreParked, HandBackRest, MayHandBack
    <3> QED BY <3>1, <3>2 DEF GhostsAreParked
  <2>4. OneGhost'
    <3> QED BY <1>12, <2>0, Fields DEF OneGhost, HandBackRest, TypeOK
  <2> QED BY <2>1, <2>2, <2>3, <2>4
<1>13. ASSUME NEW w \in Workers, Crash(w) PROVE Safety'
  <2>1. Shape'
    BY <1>13, OwnerHoldsAlone
    DEF Shape, Held, TypeOK, Invocation, OutboxRows,
        Crash, Gone
  <2>2. LeaseOutlivesHolder'
    BY <1>13, OwnerHoldsAlone
    DEF LeaseOutlivesHolder, Held, TypeOK, Invocation, OutboxRows,
        Crash, Gone
  <2>3. GhostsAreParked'
    BY <1>13, OwnerHoldsAlone
    DEF GhostsAreParked, Held, TypeOK, Invocation, OutboxRows,
        Crash, Gone
  <2>4. OneGhost'
    BY <1>13, OwnerHoldsAlone
    DEF OneGhost, Held, TypeOK, Invocation, OutboxRows,
        Crash, Gone
  <2> QED BY <2>1, <2>2, <2>3, <2>4
<1>14. ASSUME Tick PROVE Safety'
  <2>0. \A v \in Workers :
            \/ inv[v].left <= 1 /\ inv'[v] = Gone
            \/ /\ inv[v].left > 1 /\ inv'[v].left = inv[v].left - 1
               /\ inv'[v].batch = inv[v].batch /\ inv'[v].run = inv[v].run
               /\ inv'[v].ghosts = inv[v].ghosts
    <3> SUFFICES ASSUME NEW v \in Workers
                 PROVE  \/ inv[v].left <= 1 /\ inv'[v] = Gone
                        \/ /\ inv[v].left > 1 /\ inv'[v].left = inv[v].left - 1
                           /\ inv'[v].batch = inv[v].batch
                           /\ inv'[v].run = inv[v].run
                           /\ inv'[v].ghosts = inv[v].ghosts
      OBVIOUS
    <3>1. inv[v] \in Invocation /\ inv'[v] = Older(inv[v])
      BY <1>14 DEF Tick, TypeOK
    <3>2. CASE inv[v].left <= 1 BY <3>1, <3>2 DEF Older
    <3>3. CASE inv[v].left > 1 BY <3>1, <3>3 DEF Older, Invocation
    <3> QED BY <3>1, <3>2, <3>3 DEF Invocation
  <2>1. Shape'
    <3> QED BY <2>0 DEF Shape, Gone, TypeOK, Invocation
  <2>2. LeaseOutlivesHolder'
    <3> SUFFICES ASSUME NEW v \in Workers, NEW s \in Held(v)'
                 PROVE  \/ row'[s].st = "processing" /\ row'[s].lease = v
                              /\ wait'[s] > inv'[v].left
                        \/ s \in revived' /\ row'[s].st = "done"
      BY DEF LeaseOutlivesHolder
    <3>1. inv[v].left > 1 /\ inv'[v].left = inv[v].left - 1 /\ s \in Held(v)
      BY <2>0 DEF Held, Gone
    <3>2. s \in Rows /\ inv[v].left \in Nat BY <3>1 DEF Held, TypeOK, Invocation
    <3>3. row'[s] = row[s] /\ revived' = revived BY <1>14 DEF Tick
    <3>4. wait[s] > inv[v].left => wait'[s] > inv'[v].left
      <4>1. wait[s] \in Nat /\ wait'[s] = Less(wait[s])
        BY <1>14, <3>2 DEF Tick, TypeOK
      <4> QED BY <3>1, <3>2, <4>1 DEF Less
    <3> QED BY <3>1, <3>3, <3>4 DEF LeaseOutlivesHolder
  <2>3. GhostsAreParked'
    <3> SUFFICES ASSUME NEW v \in Workers, NEW s \in inv'[v].ghosts \ revived'
                 PROVE  \/ row'[s].st = "failed" /\ wait'[s] > inv'[v].left
                        \/ row'[s].st \in {"dead", "done"}
      BY DEF GhostsAreParked
    <3>1. inv[v].left > 1 /\ inv'[v].left = inv[v].left - 1 /\ s \in inv[v].ghosts
      BY <2>0 DEF Gone
    <3>2. s \in Rows /\ inv[v].left \in Nat BY <3>1 DEF TypeOK, Invocation
    <3>3. row'[s] = row[s] /\ revived' = revived BY <1>14 DEF Tick
    <3>4. wait[s] > inv[v].left => wait'[s] > inv'[v].left
      <4>1. wait[s] \in Nat /\ wait'[s] = Less(wait[s])
        BY <1>14, <3>2 DEF Tick, TypeOK
      <4> QED BY <3>1, <3>2, <4>1 DEF Less
    <3> QED BY <3>1, <3>3, <3>4 DEF GhostsAreParked
  <2>4. OneGhost'
    <3> QED BY <1>14, <2>0 DEF OneGhost, Gone, Tick
  <2> QED BY <2>1, <2>2, <2>3, <2>4
<1>15. ASSUME NEW w \in Workers, NEW left \in 1 .. MaxDuration,
             inv[w].batch = {}, inv[w].run = NoRow, TakeBatch(w, left),
             inv[w].left # 0 => inv[w].left = left
      PROVE  Safety'
  <2>0. /\ \A v \in Workers \ {w} : inv'[v] = inv[v]
        /\ inv'[w].left = left /\ inv'[w].batch = Oldest(Claimable)
        /\ inv'[w].run = NoRow /\ inv'[w].ghosts = inv[w].ghosts
    BY <1>15 DEF TakeBatch, Holding, TypeOK, Invocation
  <2>1. Shape'
    <3> QED BY <1>15, <2>0, BatchIsClaimable DEF Shape
  <2>2. LeaseOutlivesHolder'
    <3> SUFFICES ASSUME NEW v \in Workers, NEW s \in Held(v)'
                 PROVE  \/ row'[s].st = "processing" /\ row'[s].lease = v
                              /\ wait'[s] > inv'[v].left
                        \/ s \in revived' /\ row'[s].st = "done"
      BY DEF LeaseOutlivesHolder
    <3>1. CASE v = w
      <4>1. s \in Oldest(Claimable) /\ s \in Rows
        BY <2>0, <3>1, BatchIsClaimable DEF Held
      <4>2. row'[s] = Claimed(row[s], w) /\ wait'[s] = Lease
        BY <1>15, <4>1 DEF TakeBatch
      <4> QED BY <2>0, <3>1, <4>2 DEF Claimed
    <3>2. CASE v # w
      <4>1. s \in Held(v) /\ inv'[v].left = inv[v].left BY <2>0, <3>2 DEF Held
      <4>2. s \in Rows /\ inv[v].left \in Nat BY <4>1 DEF Held, TypeOK, Invocation
      <4>3. s \notin Claimable BY <4>1, <4>2 DEF LeaseOutlivesHolder, Claimable, Live
      <4>4. row'[s] = row[s] /\ wait'[s] = wait[s] /\ revived' = revived
        BY <1>15, <4>2, <4>3, BatchIsClaimable DEF TakeBatch
      <4> QED BY <4>1, <4>4 DEF LeaseOutlivesHolder
    <3> QED BY <3>1, <3>2
  <2>3. GhostsAreParked'
    <3> SUFFICES ASSUME NEW v \in Workers, NEW s \in inv'[v].ghosts \ revived'
                 PROVE  \/ row'[s].st = "failed" /\ wait'[s] > inv'[v].left
                        \/ row'[s].st \in {"dead", "done"}
      BY DEF GhostsAreParked
    <3>1. s \in inv[v].ghosts \ revived /\ s \in Rows /\ inv[v].left \in Nat
      BY <1>15, <2>0 DEF TakeBatch, TypeOK, Invocation
    <3>2. inv'[v].left = inv[v].left
      BY <1>15, <2>0, <3>1 DEF Shape
    <3>3. s \notin Claimable BY <3>1 DEF GhostsAreParked, Claimable, Live
    <3>4. row'[s] = row[s] /\ wait'[s] = wait[s]
      BY <1>15, <3>1, <3>3, BatchIsClaimable DEF TakeBatch
    <3> QED BY <3>1, <3>2, <3>4 DEF GhostsAreParked
  <2>4. OneGhost'
    <3> QED BY <1>15, <2>0 DEF OneGhost, TakeBatch
  <2> QED BY <2>1, <2>2, <2>3, <2>4
<1>16. CASE UNCHANGED vars BY <1>16 DEF vars, Shape, LeaseOutlivesHolder, GhostsAreParked, OneGhost, Held
<1> QED
  BY <1>1, <1>2, <1>3, <1>4, <1>5, <1>6, <1>7, <1>8, <1>9, <1>10, <1>11, <1>12, <1>13, <1>14, <1>15, <1>16
     DEF Next, DrainStep, FirstBatch, NextBatch, Shape, TypeOK, Invocation
-----------------------------------------------------------------------------
(* Nobody owns a row that is done. *)
LEMMA DoneIsUnowned ==
    ASSUME DoneIsUnleased, NEW r \in Rows, row[r].st = "done", NEW w \in Workers
    PROVE  ~Owns(row[r], w)
  BY DEF DoneIsUnleased, Owns

(* A row that is done is left alone by every step: claims take live rows,
   outcomes and hand-backs need the lease, a retry needs a dead row. *)
LEMMA DoneStep ==
    ASSUME TypeOK, DoneIsUnleased, [Next]_vars
    PROVE  /\ \A r \in Rows : row[r].st = "done" => row'[r].st = "done"
           /\ DoneIsUnleased'
<1> DEFINE Kept(old, new) == /\ old.st = "done" => new.st = "done"
                             /\ new.st = "done" => \/ new.lease = NoOwner
                                                  \/ new = old
<1> SUFFICES ASSUME NEW s \in Rows PROVE Kept(row[s], row'[s])
  BY DEF DoneIsUnleased
<1> USE DEF TypeOK, OutboxRows
<1>1. ASSUME NEW r \in Rows, EnqueueRow(r) PROVE Kept(row[s], row'[s])
  BY <1>1 DEF EnqueueRow, Enqueue, Queued
<1>2. ASSUME NEW r \in Rows, OpsRetry(r) PROVE Kept(row[s], row'[s])
  BY <1>2 DEF OpsRetry, MayRetryDead, RetryDead
<1>3. ASSUME NEW r \in Rows, OpsDismiss(r) PROVE Kept(row[s], row'[s])
  BY <1>3 DEF OpsDismiss, MarkDone
<1>4. ASSUME NEW w \in Workers, NEW left, TakeBatch(w, left)
      PROVE  Kept(row[s], row'[s])
  BY <1>4, BatchIsClaimable DEF TakeBatch, Claimed, Claimable, Live
<1>5. ASSUME NEW w \in Workers, HandBackRest(w) PROVE Kept(row[s], row'[s])
  BY <1>5, ZenonT(60) DEF HandBackRest, MayHandBack, Owns, ReleaseUnstarted, Refunded
<1>6. ASSUME NEW w \in Workers, NEW r \in Rows, HandBackOne(w, r)
      PROVE  Kept(row[s], row'[s])
  <2>1. CASE MayHandBack(row[r], w)
    <3>1. ReleaseUnstarted(row[r]).st = "pending" BY DEF ReleaseUnstarted, Refunded
    <3> QED BY <1>6, <2>1, <3>1 DEF HandBackOne, MayHandBack
  <2>2. CASE ~MayHandBack(row[r], w) BY <1>6, <2>2 DEF HandBackOne
  <2> QED BY <2>1, <2>2
<1>7. ASSUME NEW w \in Workers, NEW r \in Rows, BuryPoison(w, r)
      PROVE  Kept(row[s], row'[s])
  BY <1>7, DoneIsUnowned DEF BuryPoison, MarkFailed
<1>8. ASSUME NEW w \in Workers, NEW r \in Rows, NEW new, NEW delay,
             Record(w, r, new, delay), new.st # "done" \/ new.lease = NoOwner
      PROVE  Kept(row[s], row'[s])
  BY <1>8, DoneIsUnowned DEF Record
<1>9. ASSUME NEW w \in Workers, NEW r \in Rows,
             Succeed(w, r) \/ Fail(w, r) \/ Defer(w, r) \/ Deadline(w, r)
      PROVE  Kept(row[s], row'[s])
  <2>1. MarkDone(row[r]).lease = NoOwner BY DEF MarkDone
  <2>2. \A c \in {0, Ceiling} : MarkFailed(row[r], c).st # "done" BY DEF MarkFailed
  <2>3. DeferUncharged(row[r]).st # "done" BY DEF DeferUncharged, Refunded
  <2> QED BY <1>8, <1>9, <2>1, <2>2, <2>3 DEF Succeed, Fail, Defer, Deadline
<1>10. CASE UNCHANGED row BY <1>10
<1> QED
  BY <1>1, <1>2, <1>3, <1>4, <1>5, <1>6, <1>7, <1>9, <1>10
     DEF Next, DrainStep, FirstBatch, NextBatch, Start, GhostEnds, Tick, Crash, vars

(* The empty table satisfies the invariant. *)
LEMMA InvariantInit == Init => IInv
<1> SUFFICES ASSUME Init PROVE IInv OBVIOUS
<1>1. Safety
  BY DEF Init, Safety, Shape, LeaseOutlivesHolder, GhostsAreParked, OneGhost,
         Held, Gone
<1>2. DoneIsUnleased BY DEF Init, DoneIsUnleased, Absent
<1> QED BY <1>1, <1>2, TypeInit DEF IInv

(* The inductive invariant: a lease outlasts whoever holds the row. *)
THEOREM OutboxInvariant == Spec => []IInv
<1>1. IInv /\ [Next]_vars => IInv' BY TypeStep, SafetyStep, DoneStep DEF IInv
<1> QED BY <1>1, InvariantInit, PTL DEF Spec

(* The outbox table, the countdowns and the invocations stay well-formed. *)
THEOREM OutboxTypeCorrect == Spec => []TypeOK
<1>1. IInv => TypeOK BY DEF IInv
<1> QED BY <1>1, OutboxInvariant, PTL

(* A worker that is still running never has a row it holds claimed by another
   worker, however the batches, kills and ghosts fall out. *)
THEOREM LeaseIsNeverLost == Spec => []LeaseIsHeld
<1>1. IInv => LeaseIsHeld BY DEF IInv, Safety, LeaseOutlivesHolder, LeaseIsHeld
<1> QED BY <1>1, OutboxInvariant, PTL

(* No row runs beside itself or beside its own ghost, unless staff revived it. *)
THEOREM NobodyRunsBesideItself == Spec => []OneRunner
<1>1. IInv => OneRunner
  <2> SUFFICES ASSUME IInv, NEW r \in Rows \ revived
               PROVE  /\ Runners(r) = {} \/ Haunted(r) = {}
                      /\ \A w, v \in Runners(r) \cup Haunted(r) : w = v
    BY DEF OneRunner
  <2> USE DEF IInv, Safety
  <2>1. \A w \in Runners(r) : row[r].st = "processing" /\ row[r].lease = w
    BY DEF Runners, Held, LeaseOutlivesHolder
  <2>2. \A w \in Haunted(r) : row[r].st \in {"failed", "dead", "done"}
    BY DEF Haunted, GhostsAreParked
  <2>3. \A w, v \in Haunted(r) : w = v BY DEF Haunted, OneGhost
  <2> QED BY <2>1, <2>2, <2>3
<1> QED BY <1>1, OutboxInvariant, PTL

(* No late outcome, hand-back, reclaim or retry brings a finished row back. *)
THEOREM DoneStaysDone == Spec => DoneIsFinal
<1>1. IInv /\ [Next]_vars =>
          [\A r \in Rows : row[r].st = "done" => row'[r].st = "done"]_vars
  BY DoneStep DEF IInv
<1> QED BY <1>1, OutboxInvariant, PTL DEF Spec, DoneIsFinal
-----------------------------------------------------------------------------
(* Charges.  A row that waits in somebody's batch has been charged for a   *)
(* run it has not had, and nobody else holds it, so neither its start nor  *)
(* a refund of that charge brings its runs above its charges.              *)
HeldOnce == \A w, v \in Workers : \A r \in Held(w) \cap Held(v) : w = v
ChargedRow(r) ==
    /\ ran[r] <= Ceiling
    /\ Live(row[r]) => ran[r] <= row[r].attempts
    /\ row[r].st = "absent" => ran[r] = 0
    /\ \A w \in Workers : r \in inv[w].batch => ran[r] < row[r].attempts
Charged == \A r \in Rows : ChargedRow(r)
CInv == IInv /\ HeldOnce /\ Charged

(* What an invocation holds it held before, unless it has just claimed it. *)
LEMMA HeldBefore ==
    ASSUME IInv, [Next]_vars, NEW v \in Workers
    PROVE  \/ inv'[v].batch \subseteq inv[v].batch /\ Held(v)' \subseteq Held(v)
           \/ /\ \E left \in 1 .. MaxDuration : TakeBatch(v, left)
              /\ Held(v)' = Oldest(Claimable) /\ inv'[v].batch = Oldest(Claimable)
<1> DEFINE Kept == inv'[v].batch \subseteq inv[v].batch /\ Held(v)' \subseteq Held(v)
<1> USE DEF IInv, TypeOK
<1>0. inv[v] \in Invocation OBVIOUS
<1>1. CASE inv'[v] = inv[v] BY <1>1 DEF Held
<1>2. ASSUME NEW w \in Workers, FirstBatch(w) \/ NextBatch(w), w = v
      PROVE  /\ \E left \in 1 .. MaxDuration : TakeBatch(v, left)
             /\ Held(v)' = Oldest(Claimable) /\ inv'[v].batch = Oldest(Claimable)
  <2>1. PICK left \in 1 .. MaxDuration : TakeBatch(v, left)
    BY <1>0, <1>2 DEF FirstBatch, NextBatch, Invocation
  <2>2. inv[v].run = NoRow BY <1>2 DEF FirstBatch, NextBatch, Safety, Shape
  <2>3. inv'[v].batch = Oldest(Claimable) /\ inv'[v].run = NoRow
    BY <1>0, <2>1, <2>2 DEF TakeBatch, Holding, Invocation
  <2> QED BY <2>1, <2>3 DEF Held
<1>3. ASSUME NEW w \in Workers, HandBackRest(w) PROVE Kept
  <2>1. inv'[v] = inv[v] \/ inv'[v] = Holding(inv[v], inv[v].left, {})
    BY <1>3 DEF HandBackRest
  <2>2. /\ Holding(inv[v], inv[v].left, {}).batch = {}
        /\ Holding(inv[v], inv[v].left, {}).run = inv[v].run
    BY <1>0, Fields
  <2> QED BY <2>1, <2>2 DEF Held
<1>4. ASSUME NEW w \in Workers, NEW r \in Rows, BuryPoison(w, r) \/ HandBackOne(w, r)
      PROVE  Kept
  <2>1. inv'[v] = inv[v] \/ inv'[v] = Without(inv[v], r)
    BY <1>4 DEF BuryPoison, HandBackOne, Drop
  <2> QED BY <1>0, <2>1 DEF Without, Held, Invocation
<1>5. ASSUME NEW w \in Workers, NEW r \in Rows, Start(w, r) PROVE Kept
  <2>1. inv'[v] = inv[v] \/ (v = w /\ inv'[v] = Running(inv[v], r)) BY <1>5 DEF Start
  <2>2. v = w => r \in inv[v].batch BY <1>5 DEF Start, NextUp
  <2>3. /\ Running(inv[v], r).batch = inv[v].batch \ {r}
        /\ Running(inv[v], r).run = r
    BY <1>0 DEF Running, Without, Invocation
  <2> QED BY <2>1, <2>2, <2>3 DEF Held
<1>6. ASSUME NEW w \in Workers, NEW r \in Rows,
             Succeed(w, r) \/ Fail(w, r) \/ Defer(w, r) \/ Deadline(w, r)
      PROVE  Kept
  <2>1. inv'[v] = inv[v] \/ inv'[v] = Left(inv[v]) \/ inv'[v] = Haunting(inv[v])
    BY <1>6 DEF Succeed, Fail, Defer, Deadline, Leaves
  <2> QED BY <1>0, <2>1, Fields DEF Held
<1>7. ASSUME NEW w \in Workers, NEW r \in Rows, GhostEnds(w, r) PROVE Kept
  <2>1. inv'[v] = inv[v] \/ inv'[v] = Rid(inv[v], r) BY <1>7 DEF GhostEnds
  <2> QED BY <1>0, <2>1 DEF Rid, Held, Invocation
<1>8. ASSUME NEW w \in Workers, Crash(w) PROVE Kept
  BY <1>8 DEF Crash, Gone, Held
<1>9. CASE Tick
  <2>1. inv'[v] = Older(inv[v]) BY <1>9 DEF Tick
  <2>2. Older(inv[v]).batch \in {{}, inv[v].batch}
        /\ Older(inv[v]).run \in {NoRow, inv[v].run}
    BY <1>0 DEF Older, Gone, Invocation
  <2> QED BY <2>1, <2>2 DEF Held
<1>10. ASSUME NEW w \in Workers, w # v, FirstBatch(w) \/ NextBatch(w)
       PROVE  inv'[v] = inv[v]
  BY <1>10 DEF FirstBatch, NextBatch, TakeBatch
<1>11. ASSUME NEW r \in Rows, EnqueueRow(r) \/ OpsRetry(r) \/ OpsDismiss(r)
       PROVE  inv'[v] = inv[v]
  BY <1>11 DEF EnqueueRow, OpsRetry, OpsDismiss
<1> QED
  BY <1>1, <1>2, <1>3, <1>4, <1>5, <1>6, <1>7, <1>8, <1>9, <1>10, <1>11
     DEF Next, DrainStep, vars

(* A row that somebody holds is in nobody's next batch. *)
LEMMA HeldIsNotClaimable ==
    ASSUME IInv, NEW w \in Workers, NEW r \in Held(w)
    PROVE  r \in Rows /\ r \notin Claimable
<1>1. r \in Rows /\ inv[w].left \in Nat BY DEF Held, IInv, TypeOK, Invocation
<1> QED BY <1>1 DEF IInv, Safety, LeaseOutlivesHolder, Claimable, Live, TypeOK

(* No step makes two invocations hold one row. *)
LEMMA HeldOnceStep == IInv /\ HeldOnce /\ [Next]_vars => HeldOnce'
<1> SUFFICES ASSUME IInv, HeldOnce, [Next]_vars, NEW w \in Workers, NEW v \in Workers,
                    NEW r \in Held(w)' \cap Held(v)', w # v
             PROVE  FALSE
  BY DEF HeldOnce
<1>1. ASSUME NEW a \in Workers, NEW b \in Workers, NEW left \in 1 .. MaxDuration,
             TakeBatch(a, left), a # b
      PROVE  Held(b)' = Held(b)
  BY <1>1 DEF TakeBatch, Held, IInv, TypeOK
<1>2. ASSUME NEW a \in Workers, NEW b \in Workers, NEW left \in 1 .. MaxDuration,
             TakeBatch(a, left), a # b, r \in Oldest(Claimable)
      PROVE  r \notin Held(b)'
  BY <1>1, <1>2, HeldIsNotClaimable, BatchIsClaimable
<1>3. CASE Held(w)' \subseteq Held(w) /\ Held(v)' \subseteq Held(v)
  BY <1>3 DEF HeldOnce
<1> QED BY <1>2, <1>3, HeldBefore

(* A row that is neither charged, refunded nor run stays covered. *)
LEMMA QuietStep ==
    ASSUME Charged, NEW s \in Rows, ran'[s] = ran[s],
           row'[s].attempts = row[s].attempts,
           Live(row'[s]) => Live(row[s]),
           row'[s].st = "absent" => row[s].st = "absent",
           \A v \in Workers : inv'[v].batch \subseteq inv[v].batch
    PROVE  ChargedRow(s)'
  BY DEF Charged, ChargedRow

(* What each operation on a row does to its charge and its status. *)
LEMMA Charges ==
    ASSUME NEW x \in OutboxRows
    PROVE  /\ MarkDone(x).attempts = x.attempts /\ MarkDone(x).st = "done"
           /\ \A n \in Nat : /\ MarkFailed(x, n).attempts = x.attempts
                             /\ MarkFailed(x, n).st \in {"failed", "dead"}
           /\ \A w \in Workers : /\ Claimed(x, w).attempts = x.attempts + 1
                                 /\ Claimed(x, w).st = "processing"
           /\ Refunded(x).attempts = IF x.attempts = 0 THEN 0 ELSE x.attempts - 1
           /\ ReleaseUnstarted(x).attempts = Refunded(x).attempts
           /\ ReleaseUnstarted(x).st = "pending"
           /\ DeferUncharged(x).attempts = Refunded(x).attempts
           /\ DeferUncharged(x).st = "pending"
<1>1. Refunded(x).attempts = IF x.attempts = 0 THEN 0 ELSE x.attempts - 1
  BY DEF OutboxRows, Refunded
<1>2. Refunded(x).st = "pending" BY DEF OutboxRows, Refunded
<1>3. ReleaseUnstarted(x) = Refunded(x) BY DEF ReleaseUnstarted
<1>4. /\ DeferUncharged(x).attempts = Refunded(x).attempts
      /\ DeferUncharged(x).st = Refunded(x).st
  BY DEF OutboxRows, DeferUncharged, Refunded
<1>5. MarkDone(x).attempts = x.attempts /\ MarkDone(x).st = "done"
  BY DEF OutboxRows, MarkDone
<1>6. \A n \in Nat : /\ MarkFailed(x, n).attempts = x.attempts
                    /\ MarkFailed(x, n).st \in {"failed", "dead"}
  BY DEF OutboxRows, MarkFailed
<1>7. \A w \in Workers : /\ Claimed(x, w).attempts = x.attempts + 1
                        /\ Claimed(x, w).st = "processing"
  BY DEF Claimed
<1> QED BY <1>1, <1>2, <1>3, <1>4, <1>5, <1>6, <1>7

(* A run is charged before it starts, a refund reaches only a charge that was
   not used, and a claim beyond the ceiling is buried unrun. *)
LEMMA ChargeStep == IInv /\ HeldOnce /\ Charged /\ [Next]_vars => Charged'
<1> SUFFICES ASSUME IInv, HeldOnce, Charged, [Next]_vars, NEW s \in Rows
             PROVE  ChargedRow(s)'
  BY DEF Charged
<1> USE DEF IInv, TypeOK
<1>0. /\ row[s] \in OutboxRows /\ row[s].attempts \in Nat /\ ran[s] \in Nat
      /\ ChargedRow(s)
  BY DEF OutboxRows, Charged
<1>1. ASSUME NEW r \in Rows, EnqueueRow(r) PROVE ChargedRow(s)'
  <2>1. \A v \in Workers : inv'[v] = inv[v] BY <1>1 DEF EnqueueRow
  <2>2. CASE s = r
    <3>1. row'[s].attempts = 0 /\ row'[s].st = "pending"
      BY <1>0, <1>1, <2>2 DEF EnqueueRow, Enqueue, Queued, Absent
    <3>2. ran'[s] = 0 BY <1>0, <1>1, <2>2 DEF EnqueueRow, ChargedRow
    <3>3. ASSUME NEW v \in Workers PROVE s \notin inv'[v].batch
      BY <1>1, <2>1, <2>2 DEF EnqueueRow, Safety, LeaseOutlivesHolder, Held
    <3> QED BY <3>1, <3>2, <3>3 DEF ChargedRow
  <2>3. CASE s # r
    BY <1>1, <2>1, <2>3, QuietStep DEF EnqueueRow
  <2> QED BY <2>2, <2>3
<1>2. ASSUME NEW r \in Rows, OpsRetry(r) PROVE ChargedRow(s)'
  <2>1. \A v \in Workers : inv'[v] = inv[v] BY <1>2 DEF OpsRetry
  <2>2. CASE s = r
    <3>1. row'[s].attempts = 0 /\ ran'[s] = 0
      BY <1>0, <1>2, <2>2 DEF OpsRetry, RetryDead, OutboxRows
    <3>2. ASSUME NEW v \in Workers PROVE s \notin inv'[v].batch
      BY <1>2, <2>1, <2>2
         DEF OpsRetry, MayRetryDead, Safety, LeaseOutlivesHolder, Held
    <3> QED BY <3>1, <3>2 DEF ChargedRow
  <2>3. CASE s # r
    BY <1>2, <2>1, <2>3, QuietStep DEF OpsRetry
  <2> QED BY <2>2, <2>3
<1>3. ASSUME NEW r \in Rows, OpsDismiss(r) PROVE ChargedRow(s)'
  <2>1. \A v \in Workers : inv'[v] = inv[v] BY <1>3 DEF OpsDismiss
  <2>2. row'[s] = row[s] \/ row'[s] = MarkDone(row[s]) BY <1>3 DEF OpsDismiss
  <2>3. /\ row'[s].attempts = row[s].attempts
        /\ row'[s].st \in {row[s].st, "done"}
    BY <1>0, <2>2, Charges
  <2> QED BY <1>3, <2>1, <2>3, QuietStep DEF OpsDismiss, Live
<1>4. ASSUME NEW w \in Workers, NEW left \in 1 .. MaxDuration, TakeBatch(w, left)
      PROVE  ChargedRow(s)'
  <2>1. /\ \A v \in Workers \ {w} : inv'[v] = inv[v]
        /\ inv'[w].batch = Oldest(Claimable)
    BY <1>4 DEF TakeBatch, Holding, Invocation
  <2>2. CASE s \in Oldest(Claimable)
    <3>1. Live(row[s]) BY <2>2, BatchIsClaimable DEF Claimable
    <3>2. row'[s] = Claimed(row[s], w) BY <1>4, <2>2 DEF TakeBatch
    <3>3. row'[s].attempts = row[s].attempts + 1 /\ row'[s].st = "processing"
      BY <1>0, <3>2, Charges
    <3>4. ran[s] <= row[s].attempts /\ ran[s] <= Ceiling BY <1>0, <3>1 DEF ChargedRow
    <3>5. ran'[s] = ran[s] BY <1>4 DEF TakeBatch
    <3> QED BY <1>0, <3>3, <3>4, <3>5 DEF ChargedRow
  <2>3. CASE s \notin Oldest(Claimable)
    <3>1. row'[s] = row[s] /\ ran'[s] = ran[s] BY <1>4, <2>3 DEF TakeBatch
    <3>2. \A v \in Workers : s \in inv'[v].batch => s \in inv[v].batch
      BY <2>1, <2>3
    <3> QED BY <1>0, <3>1, <3>2 DEF ChargedRow
  <2> QED BY <2>2, <2>3
<1> DEFINE Given == \E w \in Workers, left \in 1 .. MaxDuration : TakeBatch(w, left)
<1>5. ASSUME ~Given PROVE \A v \in Workers : inv'[v].batch \subseteq inv[v].batch
  BY <1>5, HeldBefore DEF Given
<1> HIDE DEF Given
<1>6. CASE Given BY <1>6, <1>4 DEF Given
<1>7. ASSUME NEW w \in Workers, s \in Held(w), s \notin inv'[w].batch, ~Given
      PROVE  \A v \in Workers : s \notin inv'[v].batch
  <2> SUFFICES ASSUME NEW v \in Workers, s \in inv'[v].batch PROVE FALSE OBVIOUS
  <2>1. s \in Held(v) BY <1>5, <1>7 DEF Held
  <2> QED BY <1>7, <2>1 DEF HeldOnce
<1>8. ASSUME NEW w \in Workers, NEW r \in Rows, BuryPoison(w, r), ~Given
      PROVE  ChargedRow(s)'
  <2>1. row'[s] = row[s] \/ (s = r /\ row'[s] = MarkFailed(row[s], Ceiling))
    BY <1>8 DEF BuryPoison
  <2>2. s = r /\ Owns(row[s], w) => Live(row[s])
    BY <1>8, OwnerHoldsAlone DEF BuryPoison, NextUp, Safety, Held, Live, Owns
  <2>3. row'[s] = row[s] \/ Live(row[s]) BY <1>8, <2>2 DEF BuryPoison
  <2>4. row'[s].attempts = row[s].attempts /\ (row'[s].st = "absent" => row[s].st = "absent")
    BY <1>0, <2>1, Charges
  <2> QED BY <1>5, <1>8, <2>3, <2>4, QuietStep DEF BuryPoison
<1>9. ASSUME NEW w \in Workers, HandBackRest(w), ~Given PROVE ChargedRow(s)'
  <2>1. CASE s \in inv[w].batch /\ MayHandBack(row[s], w)
    <3>1. row'[s] = ReleaseUnstarted(row[s]) BY <1>9, <2>1 DEF HandBackRest
    <3>2. /\ row'[s].st = "pending"
          /\ row'[s].attempts = IF row[s].attempts = 0 THEN 0 ELSE row[s].attempts - 1
      BY <1>0, <3>1, Charges
    <3>3. ran'[s] = ran[s] /\ ran[s] < row[s].attempts /\ ran[s] <= Ceiling
      BY <1>0, <1>9, <2>1 DEF HandBackRest, ChargedRow
    <3>4. s \notin inv'[w].batch
      BY <1>0, <1>9, Fields, ZenonT(60) DEF HandBackRest
    <3>5. \A v \in Workers : s \notin inv'[v].batch BY <1>7, <1>9, <2>1, <3>4 DEF Held
    <3> QED BY <1>0, <3>2, <3>3, <3>5 DEF ChargedRow
  <2>2. CASE ~(s \in inv[w].batch /\ MayHandBack(row[s], w))
    BY <1>5, <1>9, <2>2, QuietStep DEF HandBackRest
  <2> QED BY <2>1, <2>2
<1>10. ASSUME NEW w \in Workers, NEW r \in Rows, HandBackOne(w, r), ~Given
       PROVE  ChargedRow(s)'
  <2>1. CASE s = r /\ MayHandBack(row[s], w)
    <3>1. row'[s] = ReleaseUnstarted(row[s]) BY <1>10, <2>1 DEF HandBackOne
    <3>2. /\ row'[s].st = "pending"
          /\ row'[s].attempts = IF row[s].attempts = 0 THEN 0 ELSE row[s].attempts - 1
      BY <1>0, <3>1, Charges
    <3>3. s \in inv[w].batch BY <1>10, <2>1 DEF HandBackOne, NextUp
    <3>4. ran'[s] = ran[s] /\ ran[s] < row[s].attempts /\ ran[s] <= Ceiling
      BY <1>0, <1>10, <3>3 DEF HandBackOne, ChargedRow
    <3>5. s \notin inv'[w].batch
      BY <1>10, <2>1 DEF HandBackOne, Drop, Without, Invocation
    <3>6. \A v \in Workers : s \notin inv'[v].batch BY <1>7, <1>10, <3>3, <3>5 DEF Held
    <3> QED BY <1>0, <3>2, <3>4, <3>6 DEF ChargedRow
  <2>2. CASE ~(s = r /\ MayHandBack(row[s], w))
    BY <1>5, <1>10, <2>2, QuietStep DEF HandBackOne
  <2> QED BY <2>1, <2>2
<1>11. ASSUME NEW w \in Workers, NEW r \in Rows, Start(w, r), ~Given
       PROVE  ChargedRow(s)'
  <2>1. CASE s = r
    <3>1. s \in inv[w].batch /\ row[s].attempts <= Ceiling
      BY <1>0, <1>11, <2>1 DEF Start, NextUp, Poisoned
    <3>2. ran[s] < row[s].attempts BY <1>0, <3>1 DEF ChargedRow
    <3>3. ran'[s] = ran[s] + 1 /\ row'[s] = row[s] BY <1>11, <2>1 DEF Start
    <3>4. row[s].st # "absent"
      BY <3>1 DEF Safety, LeaseOutlivesHolder, Held
    <3>5. s \notin inv'[w].batch
      BY <1>11, <2>1 DEF Start, Running, Without, Invocation
    <3>6. \A v \in Workers : s \notin inv'[v].batch BY <1>7, <1>11, <3>1, <3>5 DEF Held
    <3> QED BY <1>0, <3>1, <3>2, <3>3, <3>4, <3>6 DEF ChargedRow
  <2>2. CASE s # r BY <1>5, <1>11, <2>2, QuietStep DEF Start
  <2> QED BY <2>1, <2>2
<1>12. ASSUME NEW w \in Workers, NEW r \in Rows,
              Succeed(w, r) \/ Fail(w, r) \/ Deadline(w, r), ~Given
       PROVE  ChargedRow(s)'
  <2>1. r \in Held(w) BY <1>12 DEF Succeed, Fail, Deadline, Held
  <2>2. s = r /\ Owns(row[s], w) => Live(row[s])
    BY <2>1, OwnerHoldsAlone DEF Safety, Live, Owns
  <2>3. \/ row'[s] = row[s]
        \/ /\ s = r /\ Owns(row[s], w)
           /\ \/ row'[s] = MarkDone(row[s])
              \/ \E ceiling \in {0, Ceiling} : row'[s] = MarkFailed(row[s], ceiling)
    BY <1>12 DEF Succeed, Fail, Deadline, Record
  <2>4. /\ row'[s].attempts = row[s].attempts
        /\ row'[s].st = "absent" => row[s].st = "absent"
        /\ Live(row'[s]) => Live(row[s])
    BY <1>0, <2>2, <2>3, Charges
  <2> QED BY <1>5, <1>12, <2>4, QuietStep DEF Succeed, Fail, Deadline
<1>13. ASSUME NEW w \in Workers, NEW r \in Rows, Defer(w, r), ~Given
       PROVE  ChargedRow(s)'
  <2>1. CASE s = r
    <3>1. s \in Held(w) /\ s \notin inv[w].batch
      BY <1>13, <2>1 DEF Defer, Held, Safety, Shape
    <3>2. Live(row[s])
      BY <1>13, <2>1, <3>1, OwnerHoldsAlone DEF Defer, Owns, Safety, Live
    <3>3. row'[s] = DeferUncharged(row[s]) BY <1>13, <2>1 DEF Defer, Record
    <3>4. /\ row'[s].st = "pending"
          /\ row'[s].attempts = IF row[s].attempts = 0 THEN 0 ELSE row[s].attempts - 1
      BY <1>0, <3>3, Charges
    <3>5. ran'[s] = IF ran[s] = 0 THEN 0 ELSE ran[s] - 1 BY <1>13, <2>1 DEF Defer
    <3>6. ran[s] <= row[s].attempts /\ ran[s] <= Ceiling BY <1>0, <3>2 DEF ChargedRow
    <3>7. \A v \in Workers : s \notin inv'[v].batch
      BY <1>5, <1>7, <1>13, <3>1
    <3> QED BY <1>0, <3>4, <3>5, <3>6, <3>7 DEF ChargedRow
  <2>2. CASE s # r BY <1>5, <1>13, <2>2, QuietStep DEF Defer, Record
  <2> QED BY <2>1, <2>2
<1>14. ASSUME ~Given, UNCHANGED <<row, ran>> PROVE ChargedRow(s)'
  BY <1>5, <1>14, QuietStep
<1>15. ASSUME NEW w \in Workers, FirstBatch(w) \/ NextBatch(w) PROVE Given
  BY <1>15 DEF FirstBatch, NextBatch, Invocation, Given
<1>16. ASSUME NEW w \in Workers, Crash(w) \/ \E r \in Rows : GhostEnds(w, r)
       PROVE  UNCHANGED <<row, ran>>
  BY <1>16 DEF Crash, GhostEnds
<1>17. Tick \/ UNCHANGED vars => UNCHANGED <<row, ran>> BY DEF Tick, vars
<1> QED
  BY <1>1, <1>2, <1>3, <1>6, <1>8, <1>9, <1>10, <1>11, <1>12, <1>13, <1>14, <1>15,
     <1>16, <1>17
     DEF Next, DrainStep

(* However often a row is claimed, killed, handed back, deferred or parked, its
   runs never exceed its charges, nor its ceiling. *)
THEOREM RunsNeverExceedCharges == Spec => []RunsAreCharged
<1>1. Init => CInv
  BY InvariantInit
     DEF Init, CInv, HeldOnce, Charged, ChargedRow, Held, Gone, Absent, Live
<1>2. CInv /\ [Next]_vars => CInv'
  BY TypeStep, SafetyStep, DoneStep, HeldOnceStep, ChargeStep DEF CInv, IInv
<1>3. CInv => RunsAreCharged BY DEF CInv, Charged, ChargedRow, RunsAreCharged
<1> QED BY <1>1, <1>2, <1>3, PTL DEF Spec

-----------------------------------------------------------------------------
(* The promise of a row.  The four facts about clocks and holders become    *)
(* one: whoever holds a row, holds it alone, and its row says so.           *)
RevivedIsKnown == \A r \in revived : row[r].st # "absent"
PInv == IInv /\ HeldOnce /\ RevivedIsKnown

(* A row that staff revived was queued once, and no row is ever unqueued. *)
LEMMA RevivedStep ==
    ASSUME TypeOK, DoneIsUnleased, RevivedIsKnown, [Next]_vars PROVE RevivedIsKnown'
<1> SUFFICES ASSUME NEW s \in revived' PROVE row'[s].st # "absent"
  BY DEF RevivedIsKnown
<1> USE DEF TypeOK, RevivedIsKnown
<1>1. s \in Rows
  BY DEF Next, DrainStep, EnqueueRow, OpsRetry, OpsDismiss, FirstBatch, NextBatch, TakeBatch,
         HandBackRest, BuryPoison, HandBackOne, Start, Succeed, Fail, Defer, Deadline,
         GhostEnds, Tick, Crash, vars
<1>2. row[s] \in OutboxRows BY <1>1
<1>3. ASSUME NEW r \in Rows, EnqueueRow(r) PROVE row'[s].st # "absent"
  BY <1>1, <1>3 DEF EnqueueRow, Enqueue, Queued, Absent
<1>4. ASSUME NEW r \in Rows, OpsRetry(r) PROVE row'[s].st # "absent"
  <2>1. CASE s = r
    BY <1>1, <1>2, <1>4, <2>1 DEF OpsRetry, MayRetryDead, RetryDead, OutboxRows
  <2>2. CASE s # r BY <1>1, <1>4, <2>2 DEF OpsRetry
  <2> QED BY <2>1, <2>2
<1>5. ASSUME s \in revived,
             \/ row'[s] = row[s] \/ row'[s] = MarkDone(row[s])
             \/ (\E n \in Nat : row'[s] = MarkFailed(row[s], n))
             \/ (\E w \in Workers : row'[s] = Claimed(row[s], w))
             \/ row'[s] = ReleaseUnstarted(row[s]) \/ row'[s] = DeferUncharged(row[s])
      PROVE  row'[s].st # "absent"
  BY <1>2, <1>5, Charges
<1>6. ASSUME NEW w \in Workers, FirstBatch(w) \/ NextBatch(w) PROVE row'[s].st # "absent"
  BY <1>1, <1>5, <1>6 DEF FirstBatch, NextBatch, TakeBatch
<1>7. ASSUME NEW w \in Workers, HandBackRest(w) PROVE row'[s].st # "absent"
  BY <1>1, <1>5, <1>7 DEF HandBackRest
<1>8. ASSUME NEW w \in Workers, NEW r \in Rows,
             BuryPoison(w, r) \/ HandBackOne(w, r) \/ Succeed(w, r) \/ Defer(w, r)
      PROVE  row'[s].st # "absent"
  BY <1>1, <1>5, <1>8 DEF BuryPoison, HandBackOne, Succeed, Defer, Record
<1>9. ASSUME NEW w \in Workers, NEW r \in Rows, Fail(w, r) \/ Deadline(w, r)
      PROVE  row'[s].st # "absent"
  <2>1. 0 \in Nat /\ Ceiling \in Nat OBVIOUS
  <2>2. s \in revived BY <1>9 DEF Fail, Deadline
  <2>3. row'[s] = row[s] \/ \E n \in {0, Ceiling} : row'[s] = MarkFailed(row[s], n)
    BY <1>1, <1>9 DEF Fail, Deadline, Record
  <2> QED BY <1>5, <2>1, <2>2, <2>3
<1>10. ASSUME UNCHANGED <<row, revived>> \/ (\E r \in Rows : OpsDismiss(r))
       PROVE  row'[s].st # "absent"
  BY <1>1, <1>5, <1>10 DEF OpsDismiss
<1> QED
  BY <1>3, <1>4, <1>6, <1>7, <1>8, <1>9, <1>10
     DEF Next, DrainStep, Start, GhostEnds, Tick, Crash, vars

(* A holder's row: processing under its lease, dismissed, or given up. *)
LEMMA HolderState ==
    ASSUME PInv, NEW r \in Rows, NEW w \in Holders(r)
    PROVE  /\ w \in Workers
           /\ r \in Held(w) => \/ row[r].st = "processing" /\ row[r].lease = w
                               \/ r \in revived /\ row[r].st = "done"
           /\ r \notin Held(w) => /\ r \in inv[w].ghosts \ revived
                                  /\ row[r].st \in {"failed", "dead", "done"}
           /\ row[r].st \in {"processing", "failed", "dead", "done"}
           /\ Live(row[r]) => wait[r] > 0
<1>1. w \in Workers /\ inv[w].left \in Nat /\ wait[r] \in Nat
  BY DEF Holders, Haunted, PInv, IInv, TypeOK, Invocation
<1>2. CASE r \in Held(w)
  BY <1>1, <1>2 DEF PInv, IInv, Safety, LeaseOutlivesHolder, Live
<1>3. CASE r \notin Held(w)
  <2>1. r \in inv[w].ghosts \ revived BY <1>3 DEF Holders, Haunted
  <2> QED BY <1>1, <1>3, <2>1 DEF PInv, IInv, Safety, GhostsAreParked, Live
<1> QED BY <1>1, <1>2, <1>3

(* Nobody holds a row beside another, ghosts included. *)
LEMMA OneHolder ==
    ASSUME PInv, NEW r \in Rows, NEW w \in Holders(r), NEW v \in Holders(r)
    PROVE  w = v
<1>1. CASE r \in Held(w) /\ r \in Held(v)
  BY <1>1, HolderState DEF PInv, HeldOnce
<1>2. CASE r \notin Held(w) /\ r \notin Held(v)
  BY <1>2, HolderState DEF PInv, IInv, Safety, OneGhost
<1>3. CASE (r \in Held(w)) # (r \in Held(v))
  <2>1. r \notin revived BY <1>3, HolderState
  <2> QED
    BY <1>3, <2>1, HolderState
<1> QED BY <1>1, <1>2, <1>3

(* A claim takes a row out of nobody's hands. *)
LEMMA ClaimableIsUnheld ==
    ASSUME PInv, NEW r \in Claimable PROVE Holders(r) = {}
<1>1. r \in Rows /\ Live(row[r]) /\ wait[r] = 0 BY DEF Claimable
<1>2. ASSUME NEW w \in Holders(r) PROVE FALSE
  BY <1>1, <1>2, HolderState
<1> QED BY <1>2

(* Only a claim puts a row into new hands; a deadline leaves it in the same
   hands, as a ghost. *)
LEMMA HoldersShrink ==
    ASSUME PInv, [Next]_vars, NEW r \in Rows,
           ~ \E w \in Workers, left \in 1 .. MaxDuration : TakeBatch(w, left)
    PROVE  Holders(r)' \subseteq Holders(r)
<1> USE DEF PInv, IInv, TypeOK
<1>1. revived \subseteq revived'
  BY DEF Next, DrainStep, EnqueueRow, OpsRetry, OpsDismiss, FirstBatch, NextBatch, TakeBatch,
         HandBackRest, BuryPoison, HandBackOne, Start, Succeed, Fail, Defer, Deadline,
         GhostEnds, Tick, Crash, vars
<1>2. ASSUME NEW v \in Workers PROVE Held(v)' \subseteq Held(v)
  BY HeldBefore
<1>3. ASSUME NEW v \in Workers PROVE inv'[v].ghosts \subseteq inv[v].ghosts \cup Held(v)
  <2>0. inv[v] \in Invocation OBVIOUS
  <2> DEFINE Same == inv'[v].ghosts = inv[v].ghosts
             Goes == inv'[v].ghosts \subseteq inv[v].ghosts \cup Held(v)
  <2>1. ASSUME NEW w \in Workers, HandBackRest(w) PROVE Same
    <3>1. inv'[v] = inv[v] \/ inv'[v] = Holding(inv[v], inv[v].left, {})
      BY <2>1 DEF HandBackRest
    <3> QED BY <2>0, <3>1, Fields
  <2>2. ASSUME NEW w \in Workers, NEW s \in Rows, BuryPoison(w, s) \/ HandBackOne(w, s)
        PROVE  Same
    <3>1. inv'[v] = inv[v] \/ inv'[v] = Without(inv[v], s)
      BY <2>2 DEF BuryPoison, HandBackOne, Drop
    <3> QED BY <2>0, <3>1 DEF Without, Invocation
  <2>3. ASSUME NEW w \in Workers, NEW s \in Rows, Start(w, s) PROVE Same
    <3>1. inv'[v] = inv[v] \/ inv'[v] = Running(inv[v], s) BY <2>3 DEF Start
    <3> QED BY <2>0, <3>1 DEF Running, Without, Invocation
  <2>4. ASSUME NEW w \in Workers, NEW s \in Rows, Succeed(w, s) \/ Fail(w, s) \/ Defer(w, s)
        PROVE  Same
    <3>1. inv'[v] = inv[v] \/ inv'[v] = Left(inv[v])
      BY <2>4 DEF Succeed, Fail, Defer, Leaves
    <3> QED BY <2>0, <3>1, Fields
  <2>5. ASSUME NEW w \in Workers, NEW s \in Rows, Deadline(w, s) PROVE Goes
    <3>1. inv'[v] = inv[v] \/ (inv'[v] = Haunting(inv[v]) /\ inv[v].run = s)
      BY <2>5 DEF Deadline
    <3>2. inv[v].run = s => s \in Held(v) BY DEF Held
    <3> QED BY <2>0, <3>1, <3>2, Fields
  <2>6. ASSUME NEW w \in Workers, NEW s \in Rows, GhostEnds(w, s) PROVE Goes
    <3>1. inv'[v] = inv[v] \/ inv'[v] = Rid(inv[v], s) BY <2>6 DEF GhostEnds
    <3> QED BY <2>0, <3>1 DEF Rid, Invocation
  <2>7. ASSUME NEW w \in Workers, Crash(w) PROVE Goes
    BY <2>7 DEF Crash, Gone
  <2>8. CASE Tick
    <3>1. inv'[v] = Older(inv[v]) BY <2>8 DEF Tick
    <3> QED BY <2>0, <3>1 DEF Older, Gone, Invocation
  <2>9. CASE UNCHANGED inv BY <2>9
  <2>10. ASSUME NEW w \in Workers, FirstBatch(w) \/ NextBatch(w) PROVE FALSE
    BY <2>10 DEF FirstBatch, NextBatch, Invocation
  <2> QED
    BY <2>1, <2>2, <2>3, <2>4, <2>5, <2>6, <2>7, <2>8, <2>9, <2>10
       DEF Next, DrainStep, EnqueueRow, OpsRetry, OpsDismiss, vars
<1> QED BY <1>1, <1>2, <1>3 DEF Holders, Haunted

(* RowPromise has the row's operations from OutboxRow, as Outbox has. *)
LEMMA SameRow ==
    ASSUME NEW r \in Rows, NEW x, NEW owner, NEW ceiling
    PROVE  /\ RowLife(r)!Absent = Absent /\ RowLife(r)!Queued = Queued
           /\ RowLife(r)!Live(x) <=> Live(x)
           /\ RowLife(r)!Claimed(x, owner) = Claimed(x, owner)
           /\ RowLife(r)!MayHandBack(x, owner) <=> MayHandBack(x, owner)
           /\ RowLife(r)!MarkDone(x) = MarkDone(x)
           /\ RowLife(r)!MarkFailed(x, ceiling) = MarkFailed(x, ceiling)
           /\ RowLife(r)!ReleaseUnstarted(x) = ReleaseUnstarted(x)
           /\ RowLife(r)!DeferUncharged(x) = DeferUncharged(x)
           /\ RowLife(r)!MayRetryDead(x) <=> MayRetryDead(x)
           /\ RowLife(r)!RetryDead(x) = RetryDead(x)
BY DEF RowLife!Absent, Absent, RowLife!NoOwner, NoOwner, RowLife!Queued, Queued,
       RowLife!Live, Live, RowLife!Claimed, Claimed, RowLife!MayHandBack, MayHandBack,
       RowLife!Owns, Owns, RowLife!MarkDone, MarkDone, RowLife!MarkFailed, MarkFailed,
       RowLife!ReleaseUnstarted, ReleaseUnstarted, RowLife!Refunded, Refunded,
       RowLife!DeferUncharged, DeferUncharged, RowLife!MayRetryDead, MayRetryDead,
       RowLife!RetryDead, RetryDead

(* A step that leaves a row as it is at most empties the hands it is in. *)
LEMMA QuietRow ==
    ASSUME PInv, NEW r \in Rows, row'[r] = row[r], Holders(r)' \subseteq Holders(r)
    PROVE  [RowLife(r)!Next]_(RowLife(r)!vars)
<1> USE DEF RowLife!vars, RowLife!Next
<1>1. CASE Holders(r)' = Holders(r) BY <1>1
<1>2. CASE Holders(r)' # Holders(r)
  <2>1. PICK w \in Holders(r) : w \notin Holders(r)' BY <1>2
  <2>2. Holders(r) = {w} BY <2>1, OneHolder
  <2>3. Holders(r)' = {} BY <2>1, <2>2
  <2>4. RowLife(r)!Lose BY <2>2, <2>3 DEF RowLife!Lose
  <2> QED BY <2>4
<1> QED BY <1>1, <1>2

(* The row a worker may write is in that worker's hands alone. *)
LEMMA WriterHoldsAlone ==
    ASSUME PInv, NEW w \in Workers, NEW r \in Held(w), Owns(row[r], w)
    PROVE  /\ r \in Rows /\ Holders(r) = {w}
           /\ MayHandBack(row[r], w)
           /\ r \notin inv[w].ghosts \ revived
<1>1. r \in Rows BY DEF Held, PInv, IInv, TypeOK, Invocation
<1>2. row[r].st = "processing"
  BY <1>1, DoneIsUnowned, HolderState DEF Holders, PInv, IInv
<1>3. w \in Holders(r) BY DEF Holders
<1>4. Holders(r) = {w} BY <1>1, <1>3, OneHolder
<1>5. r \notin inv[w].ghosts \ revived
  BY <1>2 DEF PInv, IInv, Safety, GhostsAreParked
<1> QED BY <1>1, <1>2, <1>4, <1>5 DEF MayHandBack

(* What a worker writes into a row it lets go is an end or a refund. *)
LEMMA WrittenRow ==
    ASSUME PInv, NEW w \in Workers, NEW r \in Held(w), Owns(row[r], w),
           Holders(r)' \subseteq Holders(r),
           \/ row'[r] = row[r]
           \/ /\ Holders(r)' = {}
              /\ row'[r] \in {MarkDone(row[r]), ReleaseUnstarted(row[r]),
                             DeferUncharged(row[r])}
           \/ \E ceiling \in {0, Ceiling} : row'[r] = MarkFailed(row[r], ceiling)
    PROVE  [RowLife(r)!Next]_(RowLife(r)!vars)
<1>1. /\ r \in Rows /\ Holders(r) = {w} /\ MayHandBack(row[r], w)
  BY WriterHoldsAlone
<1>2. CASE row'[r] = row[r] BY <1>1, <1>2, QuietRow
<1>3. CASE \/ Holders(r)' = {} /\ row'[r] = MarkDone(row[r])
           \/ \E ceiling \in {0, Ceiling} : row'[r] = MarkFailed(row[r], ceiling)
  <2>1. RowLife(r)!MayHandBack(row[r], w) BY <1>1, SameRow
  <2>2. \/ row'[r] = RowLife(r)!MarkDone(row[r]) /\ Holders(r)' = {}
        \/ \E ceiling \in {0, Ceiling} :
              row'[r] = RowLife(r)!MarkFailed(row[r], ceiling)
    BY <1>1, <1>3, SameRow
  <2>3. RowLife(r)!Settle(w) BY <1>1, <2>1, <2>2 DEF RowLife!Settle
  <2> QED BY <2>3 DEF RowLife!Next
<1>4. CASE /\ Holders(r)' = {}
           /\ row'[r] \in {ReleaseUnstarted(row[r]), DeferUncharged(row[r])}
  <2>1. RowLife(r)!MayHandBack(row[r], w) BY <1>1, SameRow
  <2>2. row'[r] \in {RowLife(r)!ReleaseUnstarted(row[r]), RowLife(r)!DeferUncharged(row[r])}
    BY <1>1, <1>4, SameRow
  <2>3. RowLife(r)!Return(w) BY <1>1, <1>4, <2>1, <2>2 DEF RowLife!Return
  <2> QED BY <2>3 DEF RowLife!Next
<1> QED BY <1>1, <1>2, <1>3, <1>4

(* Nobody holds a row that its one holder has left. *)
LEMMA LeftAlone ==
    ASSUME PInv, NEW w \in Workers, NEW r \in Held(w), Owns(row[r], w),
           Holders(r)' \subseteq Holders(r), r \notin Held(w)',
           inv'[w].ghosts = inv[w].ghosts, revived' = revived
    PROVE  Holders(r)' = {}
BY WriterHoldsAlone DEF Holders, Haunted

(* Every step is a move of the life of every row, or none of its business. *)
LEMMA PromiseStep ==
    ASSUME PInv, [Next]_vars, NEW s \in Rows
    PROVE  [RowLife(s)!Next]_(RowLife(s)!vars)
<1> DEFINE Goal == [RowLife(s)!Next]_(RowLife(s)!vars)
           Given == \E w \in Workers, left \in 1 .. MaxDuration : TakeBatch(w, left)
<1> USE DEF PInv, IInv, TypeOK
<1>0. row[s] \in OutboxRows OBVIOUS
<1>1. ASSUME NEW w \in Workers, NEW left \in 1 .. MaxDuration, TakeBatch(w, left)
      PROVE  Goal
  <2>1. /\ \A v \in Workers : inv'[v].ghosts = inv[v].ghosts
        /\ \A v \in Workers \ {w} : Held(v)' = Held(v)
        /\ revived' = revived
        /\ inv'[w].batch = Oldest(Claimable) /\ inv'[w].run = inv[w].run
    BY <1>1 DEF TakeBatch, Holding, Held, Invocation
  <2>2. CASE s \in Oldest(Claimable)
    <3>1. Holders(s) = {} /\ Live(row[s])
      BY <2>2, BatchIsClaimable, ClaimableIsUnheld DEF Claimable
    <3>2. row'[s] = Claimed(row[s], w) BY <1>1, <2>2 DEF TakeBatch
    <3>3. Holders(s)' = {w}
      BY <2>1, <2>2, <3>1 DEF Holders, Haunted, Held
    <3>4. RowLife(s)!Take(w) BY <3>1, <3>2, <3>3, SameRow DEF RowLife!Take
    <3> QED BY <3>4 DEF RowLife!Next
  <2>3. CASE s \notin Oldest(Claimable)
    <3>1. row'[s] = row[s] BY <1>1, <2>3 DEF TakeBatch
    <3>2. Holders(s)' \subseteq Holders(s)
      BY <2>1, <2>3 DEF Holders, Haunted, Held
    <3> QED BY <3>1, <3>2, QuietRow
  <2> QED BY <2>2, <2>3
<1>2. ASSUME ~Given PROVE Holders(s)' \subseteq Holders(s)
  BY <1>2, HoldersShrink DEF Given
<1> HIDE DEF Given
<1>3. CASE Given BY <1>3, <1>1 DEF Given
<1>4. ASSUME ~Given, row'[s] = row[s] PROVE Goal BY <1>2, <1>4, QuietRow
<1>5. ASSUME ~Given, NEW r \in Rows, EnqueueRow(r) PROVE Goal
  <2>1. CASE s = r
    <3>1. row[s].st = "absent" /\ row'[s] = Queued
      BY <1>5, <2>1 DEF EnqueueRow, Enqueue
    <3>2. Holders(s) = {} BY <3>1, HolderState
    <3>3. Holders(s)' = {} BY <1>2, <1>5, <3>2
    <3> QED BY <3>1, <3>2, <3>3, SameRow DEF RowLife!Add, RowLife!Next
  <2>2. CASE s # r BY <1>4, <1>5, <2>2 DEF EnqueueRow
  <2> QED BY <2>1, <2>2
<1>6. ASSUME ~Given, NEW r \in Rows, OpsRetry(r) PROVE Goal
  <2>1. CASE s = r
    <3>1. row'[s] = RetryDead(row[s]) /\ row[s].st = "dead" /\ s \in revived'
      BY <1>6, <2>1 DEF OpsRetry, MayRetryDead
    <3>2. \A v \in Workers : s \notin Held(v)
      BY <3>1 DEF Safety, LeaseOutlivesHolder
    <3>3. Holders(s)' = {}
      BY <1>6, <3>1, <3>2 DEF Holders, Held, OpsRetry
    <3> QED BY <3>1, <3>3, SameRow DEF RowLife!Revive, RowLife!Next, MayRetryDead
  <2>2. CASE s # r BY <1>4, <1>6, <2>2 DEF OpsRetry
  <2> QED BY <2>1, <2>2
<1>7. ASSUME ~Given, NEW r \in Rows, OpsDismiss(r) PROVE Goal
  <2>1. CASE s = r
    <3>1. row'[s] = MarkDone(row[s]) /\ row[s].st # "absent"
      BY <1>7, <2>1 DEF OpsDismiss, RevivedIsKnown
    <3>2. Holders(s)' = Holders(s)
      BY <1>7 DEF OpsDismiss, Holders, Haunted, Held
    <3> QED BY <3>1, <3>2, SameRow DEF RowLife!Close, RowLife!Next
  <2>2. CASE s # r BY <1>4, <1>7, <2>2 DEF OpsDismiss
  <2> QED BY <2>1, <2>2
<1>8. ASSUME ~Given, NEW w \in Workers, HandBackRest(w) PROVE Goal
  <2>1. CASE s \in inv[w].batch /\ MayHandBack(row[s], w)
    <3>1. row'[s] = ReleaseUnstarted(row[s]) BY <1>8, <2>1 DEF HandBackRest
    <3>2. s \in Held(w) /\ Owns(row[s], w) BY <2>1 DEF Held, MayHandBack
    <3>3. /\ inv'[w].batch = {} /\ inv'[w].run = NoRow
          /\ inv'[w].ghosts = inv[w].ghosts /\ revived' = revived
      <4>1. inv[w].run = NoRow BY <1>8 DEF HandBackRest, NextUp
      <4>2. inv'[w] = Holding(inv[w], inv[w].left, {}) BY <1>8 DEF HandBackRest
      <4>3. inv[w] \in Invocation OBVIOUS
      <4>4. revived' = revived BY <1>8 DEF HandBackRest
      <4> QED BY <4>1, <4>2, <4>3, <4>4, Fields
    <3>4. s \notin Held(w)' BY <3>3 DEF Held
    <3>5. Holders(s)' = {} BY <1>2, <1>8, <3>2, <3>3, <3>4, LeftAlone
    <3> QED BY <1>2, <1>8, <3>1, <3>2, <3>5, WrittenRow
  <2>2. CASE ~(s \in inv[w].batch /\ MayHandBack(row[s], w))
    BY <1>4, <1>8, <2>2 DEF HandBackRest
  <2> QED BY <2>1, <2>2
<1>9. ASSUME ~Given, NEW w \in Workers, NEW r \in Rows,
             BuryPoison(w, r) \/ HandBackOne(w, r)
      PROVE  Goal
  <2>1. CASE s = r /\ Owns(row[s], w)
    <3>1. s \in Held(w) /\ s \notin Held(w)' /\ revived' = revived
          /\ inv'[w].ghosts = inv[w].ghosts
      BY <1>9, <2>1 DEF BuryPoison, HandBackOne, NextUp, Drop, Without, Held, Invocation
    <3>2. Holders(s)' = {} BY <1>2, <1>9, <2>1, <3>1, LeftAlone
    <3>3. \/ row'[s] \in {row[s], ReleaseUnstarted(row[s])}
          \/ row'[s] = MarkFailed(row[s], Ceiling)
      BY <1>9, <2>1 DEF BuryPoison, HandBackOne
    <3> QED BY <1>2, <1>9, <2>1, <3>1, <3>2, <3>3, WrittenRow
  <2>2. CASE ~(s = r /\ Owns(row[s], w))
    BY <1>4, <1>9, <2>2 DEF BuryPoison, HandBackOne, MayHandBack
  <2> QED BY <2>1, <2>2
<1>10. ASSUME ~Given, NEW w \in Workers, NEW r \in Rows,
              Succeed(w, r) \/ Fail(w, r) \/ Defer(w, r) \/ Deadline(w, r)
       PROVE  Goal
  <2>1. CASE s = r /\ Owns(row[s], w)
    <3>1. s \in Held(w) /\ revived' = revived
      BY <1>10, <2>1 DEF Succeed, Fail, Defer, Deadline, Held
    <3>2. ASSUME ~Deadline(w, r) PROVE Holders(s)' = {}
      <4>1. inv[w] \in Invocation OBVIOUS
      <4>2. inv[w].run = s /\ inv'[w] = Left(inv[w])
        BY <1>10, <2>1, <3>2 DEF Succeed, Fail, Defer, Leaves
      <4>3. s \notin Held(w)' /\ inv'[w].ghosts = inv[w].ghosts
        BY <4>1, <4>2, Fields DEF Held, Safety, Shape
      <4> QED BY <1>2, <1>10, <2>1, <3>1, <4>3, LeftAlone
    <3>3. \/ /\ ~Deadline(w, r)
             /\ row'[s] \in {MarkDone(row[s]), DeferUncharged(row[s])}
          \/ \E ceiling \in {0, Ceiling} : row'[s] = MarkFailed(row[s], ceiling)
      <4>1. row[r].st = "processing" BY <2>1, <3>1, WriterHoldsAlone DEF MayHandBack
      <4>2. CASE Succeed(w, r) \/ Defer(w, r)
        <5>1. row'[s] \in {MarkDone(row[s]), DeferUncharged(row[s])}
          BY <2>1, <4>2 DEF Succeed, Defer, Record
        <5>2. ASSUME Deadline(w, r)
              PROVE  \E ceiling \in {0, Ceiling} : row'[s] = MarkFailed(row[s], ceiling)
          BY <2>1, <5>2 DEF Deadline, Record
        <5> QED BY <5>1, <5>2
      <4>3. CASE Fail(w, r) \/ Deadline(w, r)
        BY <2>1, <4>3 DEF Fail, Deadline, Record
      <4> QED BY <1>10, <4>2, <4>3
    <3> QED BY <1>2, <1>10, <2>1, <3>1, <3>2, <3>3, WrittenRow
  <2>2. CASE ~(s = r /\ Owns(row[s], w))
    BY <1>4, <1>10, <2>2 DEF Succeed, Fail, Defer, Deadline, Record
  <2> QED BY <2>1, <2>2
<1>11. ASSUME NEW w \in Workers, FirstBatch(w) \/ NextBatch(w) PROVE Given
  BY <1>11 DEF FirstBatch, NextBatch, Invocation, Given
<1>12. ASSUME \/ Tick \/ UNCHANGED vars
              \/ \E w \in Workers : Crash(w) \/ \E r \in Rows : Start(w, r) \/ GhostEnds(w, r)
       PROVE  row'[s] = row[s]
  BY <1>12 DEF Tick, vars, Crash, Start, GhostEnds
<1> QED
  BY <1>3, <1>4, <1>5, <1>6, <1>7, <1>8, <1>9, <1>10, <1>11, <1>12 DEF Next, DrainStep

(* Each row of the outbox lives the life RowPromise describes: for any number of
   rows and invocations, and any times with MaxDuration < Lease, a handler is
   never run on a row beside another run of it, its charge is counted, and only
   its holder, or staff, end it. *)
THEOREM OutboxKeepsRowPromise == Spec => KeepsRowPromise
<1>1. Init => PInv /\ \A r \in Rows : RowLife(r)!Init
  <2> SUFFICES ASSUME Init PROVE PInv /\ \A r \in Rows : RowLife(r)!Init OBVIOUS
  <2>1. \A w \in Workers : Held(w) = {} BY DEF Init, Held, Gone
  <2>2. \A r \in Rows : Holders(r) = {} BY <2>1 DEF Init, Holders, Haunted, Gone
  <2>3. HeldOnce /\ RevivedIsKnown BY <2>1 DEF HeldOnce, RevivedIsKnown, Init
  <2> QED BY <2>2, <2>3, InvariantInit, SameRow DEF PInv, Init, RowLife!Init
<1>2. PInv /\ [Next]_vars => PInv'
  BY TypeStep, SafetyStep, DoneStep, HeldOnceStep, RevivedStep DEF PInv, IInv
<1>3. PInv /\ [Next]_vars
          => [\A r \in Rows : [RowLife(r)!Next]_(RowLife(r)!vars)]_vars
  BY PromiseStep
<1> QED BY <1>1, <1>2, <1>3, PTL DEF Spec, KeepsRowPromise
=============================================================================
