----------------------------- MODULE OutboxRow -----------------------------
(***************************************************************************)
(* One row of the durable outbox and the guarded UPDATEs of                *)
(* src/db/repos/outbox-repo.ts, in the style of Ledger.  A row keeps       *)
(*   st        absent (never enqueued), pending, processing, failed        *)
(*             (backing off), dead, done                                   *)
(*   attempts  charged by every claim, refunded by release and defer       *)
(*   locked    locked_at IS NOT NULL: the "was ever claimed" evidence      *)
(*   lease     lease_owner                                                 *)
(* Retry ceilings differ by kind (retryPolicy); callers pass the ceiling.  *)
(***************************************************************************)
EXTENDS Naturals

NoOwner == "nobody"
RowState == {"absent", "pending", "processing", "failed", "dead", "done"}

Absent == [st |-> "absent", attempts |-> 0, locked |-> FALSE, lease |-> NoOwner]
Queued == [Absent EXCEPT !.st = "pending"]

(* enqueue: a dedupe collision is a silent no-op. *)
Enqueue(row) == IF row.st = "absent" THEN Queued ELSE row

Live(row) == row.st \in {"pending", "processing", "failed"}
Waiting(row) == row.st \in {"pending", "failed"}

Claimed(row, owner) ==
    [st |-> "processing", attempts |-> row.attempts + 1, locked |-> TRUE,
     lease |-> owner]

(* Every outcome of a run is a compare-and-set on the lease. *)
Owns(row, owner) == row.lease = owner
MarkDone(row) == [row EXCEPT !.st = "done", !.lease = NoOwner]
(* Mutant: a failure refunds its attempt. *)
MarkFailedRefunding(row, ceiling) ==
    [row EXCEPT !.st = "failed", !.attempts = @ - 1, !.lease = NoOwner]
MarkFailed(row, ceiling) ==
    [row EXCEPT !.st = IF row.attempts >= ceiling THEN "dead" ELSE "failed",
                !.lease = NoOwner]

MayHandBack(row, owner) == row.st = "processing" /\ Owns(row, owner)
Refunded(row) == [row EXCEPT !.st = "pending", !.lease = NoOwner,
                             !.attempts = IF @ = 0 THEN 0 ELSE @ - 1]
(* Claimed, never started: locked_at stays, as evidence. *)
ReleaseUnstarted(row) == Refunded(row)
(* Started, but it must wait (paused, busy): locked_at is cleared. *)
DeferUncharged(row) == [Refunded(row) EXCEPT !.locked = FALSE]

(* Mutant: one run past the ceiling. *)
PoisonedLate(row, ceiling) == row.attempts > ceiling + 1
(* A killed run's next claim is past the ceiling: dead without running. *)
Poisoned(row, ceiling) == row.attempts > ceiling

MayRetryDead(row) == row.st = "dead"
RetryDead(row) == [row EXCEPT !.st = "pending", !.attempts = 0, !.lease = NoOwner]

(* Mutant: waiting counts as never handed to a worker. *)
NeverClaimedNow(row) == row.st = "pending"
(* The sender cancel's proof that a row was never handed to a worker. *)
NeverClaimed(row) == row.st = "pending" /\ row.attempts = 0 /\ ~row.locked
=============================================================================
