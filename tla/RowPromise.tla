----------------------------- MODULE RowPromise -----------------------------
(***************************************************************************)
(* What the outbox promises of one row to whoever writes the handler that  *)
(* will run it: one life, from enqueue to done or dead, in one pair of     *)
(* hands at a time.  No clock, no batch, no sibling row: a handler never   *)
(* sees those.                                                             *)
(*                                                                         *)
(* Outbox, where only leases and deadlines keep workers apart, is shown to *)
(* implement this module row by row.  Payout, whose workers take and leave *)
(* rows by these moves, is shown to implement it for each of its rows.     *)
(***************************************************************************)
EXTENDS OutboxRow

CONSTANTS Workers,
          Ceilings    \* attempts at which a failure is final, by outcome

VARIABLES
    row,      \* the outbox row
    holders   \* the invocations that hold it, run it, or run on after
              \* they gave it up

vars == <<row, holders>>

(* It comes under observation before it is queued, or just queued. *)
Init == row \in {Absent, Queued} /\ holders = {}

Add ==
    /\ row.st = "absent"
    /\ row' = Queued
    /\ UNCHANGED holders

(* Only a row in nobody's hands is taken, and every taking is charged. *)
Take(w) ==
    /\ holders = {}
    /\ Live(row)
    /\ row' = Claimed(row, w)
    /\ holders' = {w}

(* Its one holder ends it.  One that gave up on it may go on in the
   background, but not beside another. *)
Settle(w) ==
    /\ holders = {w}
    /\ MayHandBack(row, w)
    /\ \/ row' = MarkDone(row) /\ holders' = {}
       \/ \E ceiling \in Ceilings :
             row' = MarkFailed(row, ceiling) /\ holders' \subseteq holders

(* Not started, or not ready to: the charge is refunded. *)
Return(w) ==
    /\ holders = {w}
    /\ MayHandBack(row, w)
    /\ row' \in {ReleaseUnstarted(row), DeferUncharged(row)}
    /\ holders' = {}

(* Its holder dies, or ends without the row: nothing is written. *)
Lose ==
    /\ holders # {}
    /\ holders' = {}
    /\ UNCHANGED row

(* Staff start its life over; what its old run still does is not counted. *)
Revive ==
    /\ MayRetryDead(row)
    /\ row' = RetryDead(row)
    /\ holders' = {}

(* Staff dismiss it, or the sender's cancel withdraws it. *)
Close ==
    /\ row.st # "absent"
    /\ row' = MarkDone(row)
    /\ UNCHANGED holders

Next == \/ Add \/ Lose \/ Revive \/ Close
        \/ \E w \in Workers : Take(w) \/ Settle(w) \/ Return(w)

Spec == Init /\ [][Next]_vars
=============================================================================
