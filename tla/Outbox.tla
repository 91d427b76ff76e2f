------------------------------- MODULE Outbox -------------------------------
(***************************************************************************)
(* The durable outbox and the invocations that drain it: drainOnce of      *)
(* src/lib/outbox-worker.ts, looped by app/api/worker/route.ts.            *)
(*                                                                         *)
(* Nothing here excludes two workers but time.  An invocation claims a     *)
(* batch under a lease, runs it in id order, and is killed by the platform *)
(* at its limit; a run that outlives its deadline is ABANDONED, not        *)
(* stopped: its promise goes on as a ghost until the invocation ends.      *)
(* Whether a row can be run beside itself is a matter of three clocks      *)
(* (lease, deadline, invocation), so they are modelled as countdowns that  *)
(* Tick moves together.                                                    *)
(*                                                                         *)
(* Payout rests on what is checked here: a processing row changes hands    *)
(* only when its owner is dead.                                            *)
(***************************************************************************)
EXTENDS OutboxRow, FiniteSets

CONSTANTS
    Rows,         \* outbox ids; the lowest is the oldest
    Terminal,     \* rows of a non-idempotent kind (agent.turn)
    Workers,
    BatchSize,
    MaxDuration,  \* the platform's limit on an invocation
    LastStart,    \* no row starts with this much time left, or less
    RowDeadline,
    Lease,
    Backoff,      \* bound: one length stands for every backoff and deferral
    Ceiling,      \* bound: attempts before a row is dead (56 / 8 in the code)
    Ops           \* what staff may do to dead letters

ASSUME OutboxAssumption ==
    /\ Rows \subseteq Nat \ {0}
    /\ Terminal \subseteq Rows
    /\ NoOwner \notin Workers
    /\ BatchSize \in Nat \ {0} /\ Backoff \in Nat \ {0} /\ Ceiling \in Nat \ {0}
    /\ LastStart \in Nat
    /\ RowDeadline \in Nat \ {0} /\ MaxDuration \in Nat \ {0} /\ Lease \in Nat
    /\ RowDeadline <= MaxDuration
    /\ MaxDuration < Lease
    /\ Ops \subseteq {"retry", "dismiss"}

VARIABLES
    row,      \* the outbox table
    wait,     \* time until a claim may take the row: next_attempt_at while it
              \* waits, lease_until while it is processing
    inv,      \* the invocation each worker is in
    ran,      \* history: runs of the row that were not deferred
    revived   \* rows staff revived (and may see listed as dead on an old page)

vars == <<row, wait, inv, ran, revived>>

NoRow == 0
Gone == [left |-> 0, batch |-> {}, run |-> NoRow, age |-> 0, ghosts |-> {}]

OutboxRows == [st : RowState, attempts : Nat, locked : BOOLEAN,
               lease : Workers \cup {NoOwner}]
Invocation == [left : 0 .. MaxDuration, batch : SUBSET Rows,
               run : Rows \cup {NoRow}, age : 0 .. RowDeadline,
               ghosts : SUBSET Rows]

TypeOK ==
    /\ row \in [Rows -> OutboxRows]
    /\ wait \in [Rows -> Nat]
    /\ inv \in [Workers -> Invocation]
    /\ ran \in [Rows -> Nat]
    /\ revived \subseteq Rows

(* What an invocation does to what it holds. *)
Holding(i, left, batch) == [i EXCEPT !.left = left, !.batch = batch]
Without(i, r) == [i EXCEPT !.batch = @ \ {r}]
Running(i, r) == [Without(i, r) EXCEPT !.run = r, !.age = 0]
Left(i) == [i EXCEPT !.run = NoRow, !.age = 0]
Haunting(i) == [Left(i) EXCEPT !.ghosts = @ \cup {i.run}]
Rid(i, r) == [i EXCEPT !.ghosts = @ \ {r}]
Older(i) == IF i.left <= 1 THEN Gone
            ELSE [i EXCEPT !.left = @ - 1,
                           !.age = IF i.run = NoRow THEN 0 ELSE @ + 1]

Init ==
    /\ row = [r \in Rows |-> Absent]
    /\ wait = [r \in Rows |-> 0]
    /\ inv = [w \in Workers |-> Gone]
    /\ ran = [r \in Rows |-> 0]
    /\ revived = {}

-----------------------------------------------------------------------------
(* Claims. *)

EnqueueRow(r) ==
    /\ row[r].st = "absent"
    /\ row' = [row EXCEPT ![r] = Enqueue(@)]
    /\ UNCHANGED <<wait, inv, ran, revived>>

(* Mutant: a processing row is left to whoever claimed it. *)
ClaimableWaiting == {r \in Rows : Waiting(row[r]) /\ wait[r] = 0}
(* claimBatch: rows that are due, and rows whose lease ran out. *)
Claimable == {r \in Rows : Live(row[r]) /\ wait[r] = 0}
Oldest(S) == {r \in S : Cardinality({s \in S : s < r}) < BatchSize}

(* Mutant: a lease sized for one row, not for the invocation. *)
TakeBatchShortLease(w, left) ==
    LET batch == Oldest(Claimable) IN
    /\ batch # {}
    /\ row' = [r \in Rows |-> IF r \in batch THEN Claimed(row[r], w) ELSE row[r]]
    /\ wait' = [r \in Rows |-> IF r \in batch THEN RowDeadline ELSE wait[r]]
    /\ inv' = [inv EXCEPT ![w] = Holding(@, left, batch)]
    /\ UNCHANGED <<ran, revived>>

TakeBatch(w, left) ==
    LET batch == Oldest(Claimable) IN
    /\ batch # {}
    /\ row' = [r \in Rows |-> IF r \in batch THEN Claimed(row[r], w) ELSE row[r]]
    /\ wait' = [r \in Rows |-> IF r \in batch THEN Lease ELSE wait[r]]
    /\ inv' = [inv EXCEPT ![w] = Holding(@, left, batch)]
    /\ UNCHANGED <<ran, revived>>

(* A new invocation claims once its sweeps are over, however long they took;
   its loop claims again only while a row could still be started. *)
FirstBatch(w) ==
    /\ inv[w].left = 0
    /\ \E left \in 1 .. MaxDuration : TakeBatch(w, left)
NextBatch(w) ==
    /\ inv[w].left > LastStart
    /\ inv[w].batch = {} /\ inv[w].run = NoRow
    /\ TakeBatch(w, inv[w].left)

-----------------------------------------------------------------------------
(* drainOnce over the batch. *)

NextUp(w, r) == /\ inv[w].run = NoRow
                /\ r \in inv[w].batch
                /\ \A s \in inv[w].batch : r <= s
Drop(w, r) == inv' = [inv EXCEPT ![w] = Without(@, r)]

(* Reclaimed past its ceiling: every run of it killed its invocation. *)
BuryPoison(w, r) ==
    /\ NextUp(w, r)
    /\ Poisoned(row[r], Ceiling)
    /\ row' = IF Owns(row[r], w)
              THEN [row EXCEPT ![r] = MarkFailed(@, Ceiling)] ELSE row
    /\ Drop(w, r)
    /\ UNCHANGED <<wait, ran, revived>>

MayStillStart(w) == inv[w].left > LastStart
(* A killed turn would be run again: it starts only if it can end. *)
FitsBeforeKill(w, r) == r \in Terminal => inv[w].left >= RowDeadline

HandBackRest(w) ==
    /\ ~MayStillStart(w)
    /\ \E r \in Rows : NextUp(w, r) /\ ~Poisoned(row[r], Ceiling)
    /\ row' = [r \in Rows |->
                  IF r \in inv[w].batch /\ MayHandBack(row[r], w)
                  THEN ReleaseUnstarted(row[r]) ELSE row[r]]
    /\ wait' = [r \in Rows |->
                  IF r \in inv[w].batch /\ MayHandBack(row[r], w) THEN 0 ELSE wait[r]]
    /\ inv' = [inv EXCEPT ![w] = Holding(@, @.left, {})]
    /\ UNCHANGED <<ran, revived>>

HandBackOne(w, r) ==
    /\ NextUp(w, r)
    /\ ~Poisoned(row[r], Ceiling)
    /\ MayStillStart(w) /\ ~FitsBeforeKill(w, r)
    /\ IF MayHandBack(row[r], w)
       THEN /\ row' = [row EXCEPT ![r] = ReleaseUnstarted(@)]
            /\ wait' = [wait EXCEPT ![r] = 0]
       ELSE UNCHANGED <<row, wait>>
    /\ Drop(w, r)
    /\ UNCHANGED <<ran, revived>>

Start(w, r) ==
    /\ NextUp(w, r)
    /\ ~Poisoned(row[r], Ceiling)
    /\ MayStillStart(w) /\ FitsBeforeKill(w, r)
    /\ inv' = [inv EXCEPT ![w] = Running(@, r)]
    /\ ran' = [ran EXCEPT ![r] = @ + 1]
    /\ UNCHANGED <<row, wait, revived>>

-----------------------------------------------------------------------------
(* The outcomes of a run.  Each is written only under the lease. *)

Leaves(w) == inv' = [inv EXCEPT ![w] = Left(@)]
(* Mutant: an outcome is written whoever owns the row. *)
RecordAnyway(w, r, new, delay) ==
    row' = [row EXCEPT ![r] = new] /\ wait' = [wait EXCEPT ![r] = delay]
Record(w, r, new, delay) ==
    IF Owns(row[r], w)
    THEN row' = [row EXCEPT ![r] = new] /\ wait' = [wait EXCEPT ![r] = delay]
    ELSE UNCHANGED <<row, wait>>

Succeed(w, r) ==
    /\ inv[w].run = r
    /\ Record(w, r, MarkDone(row[r]), 0)
    /\ Leaves(w)
    /\ UNCHANGED <<ran, revived>>

(* A failure, retryable or permanent. *)
Fail(w, r) ==
    /\ inv[w].run = r
    /\ \E ceiling \in {0, Ceiling} :
          Record(w, r, MarkFailed(row[r], ceiling), Backoff)
    /\ Leaves(w)
    /\ UNCHANGED <<ran, revived>>

(* It could not start its work (busy, paused): uncharged. *)
Defer(w, r) ==
    /\ inv[w].run = r
    /\ Owns(row[r], w)
    /\ Record(w, r, DeferUncharged(row[r]), Backoff)
    /\ Leaves(w)
    /\ ran' = [ran EXCEPT ![r] = IF @ = 0 THEN 0 ELSE @ - 1]
    /\ UNCHANGED revived

(* Mutant: an abandoned row backs off like any failure. *)
DeadlineUnparked(w, r) ==
    /\ inv[w].run = r
    /\ inv[w].age = RowDeadline
    /\ Record(w, r, MarkFailed(row[r], Ceiling), Backoff)
    /\ inv' = [inv EXCEPT ![w] = Haunting(@)]
    /\ UNCHANGED <<ran, revived>>

(* withRowDeadline gives up on the handler, which runs on as a ghost.  An
   idempotent row is parked for a whole lease; a turn is dead at once. *)
Deadline(w, r) ==
    /\ inv[w].run = r
    /\ inv[w].age = RowDeadline
    /\ Record(w, r, MarkFailed(row[r], IF r \in Terminal THEN 0 ELSE Ceiling),
              Lease)
    /\ inv' = [inv EXCEPT ![w] = Haunting(@)]
    /\ UNCHANGED <<ran, revived>>

GhostEnds(w, r) ==
    /\ r \in inv[w].ghosts
    /\ inv' = [inv EXCEPT ![w] = Rid(@, r)]
    /\ UNCHANGED <<row, wait, ran, revived>>

-----------------------------------------------------------------------------
(* Time, kills and staff. *)

(* Bound: nobody is killed over a row already past its ceiling. *)
MayDie(w) == \A r \in inv[w].batch : ~Poisoned(row[r], Ceiling)

(* Mutant: a countdown without a floor. *)
LessUnfloored(n) == n - 1
Less(n) == IF n = 0 THEN 0 ELSE n - 1
(* One unit of time.  A row's timer fires on time; the platform kills an
   invocation, its run and its ghosts, at its limit. *)
Tick ==
    /\ \/ \E r \in Rows : wait[r] > 0
       \/ \E w \in Workers : inv[w].left > 0
    /\ \A w \in Workers :
          /\ inv[w].run # NoRow => inv[w].age < RowDeadline
          /\ inv[w].left = 1 => MayDie(w)
    /\ wait' = [r \in Rows |-> Less(wait[r])]
    /\ inv' = [w \in Workers |-> Older(inv[w])]
    /\ UNCHANGED <<row, ran, revived>>

(* The invocation dies early; its rows wait for their leases. *)
Crash(w) ==
    /\ inv[w].left > 0
    /\ MayDie(w)
    /\ inv' = [inv EXCEPT ![w] = Gone]
    /\ UNCHANGED <<row, wait, ran, revived>>

(* The ops page lists dead rows.  Retry is guarded by the row being dead;
   Dismiss is not, and the page may be old. *)
OpsRetry(r) ==
    /\ "retry" \in Ops
    /\ MayRetryDead(row[r])
    /\ row' = [row EXCEPT ![r] = RetryDead(@)]
    /\ wait' = [wait EXCEPT ![r] = 0]
    /\ ran' = [ran EXCEPT ![r] = 0]
    /\ revived' = revived \cup {r}
    /\ UNCHANGED inv
OpsDismiss(r) ==
    /\ "dismiss" \in Ops
    /\ row[r].st = "dead" \/ r \in revived
    /\ row' = [row EXCEPT ![r] = MarkDone(@)]
    /\ UNCHANGED <<wait, inv, ran, revived>>

-----------------------------------------------------------------------------
DrainStep(w) ==
    \/ FirstBatch(w) \/ NextBatch(w) \/ HandBackRest(w)
    \/ \E r \in Rows : \/ BuryPoison(w, r) \/ HandBackOne(w, r) \/ Start(w, r)
                       \/ Succeed(w, r) \/ Fail(w, r) \/ Defer(w, r)
                       \/ Deadline(w, r) \/ GhostEnds(w, r)

Next == \/ \E r \in Rows : EnqueueRow(r) \/ OpsRetry(r) \/ OpsDismiss(r)
        \/ \E w \in Workers : DrainStep(w) \/ Crash(w)
        \/ Tick

Spec == Init /\ [][Next]_vars

(* The cron runs the worker when work is due, and at :17/:47 at the latest;
   an invocation drains unless it is killed, its sweeps do not eat every
   invocation whole, and no row is deferred for ever (a turn's wait is
   bounded, a pause is lifted). *)
Tidy(w) ==
    HandBackRest(w) \/ \E r \in Rows : BuryPoison(w, r) \/ HandBackOne(w, r)
Outcome(w, r) == Succeed(w, r) \/ Fail(w, r) \/ Deadline(w, r)
Fairness ==
    /\ WF_vars(Tick)
    /\ SF_vars(\E w \in Workers : FirstBatch(w) /\ inv'[w].left = MaxDuration)
    /\ \A w \in Workers : WF_vars(Tidy(w))
    /\ \A r \in Rows : /\ SF_vars(\E w \in Workers : Start(w, r))
                       /\ SF_vars(\E w \in Workers : Outcome(w, r))
FairSpec == Spec /\ Fairness

-----------------------------------------------------------------------------
(* Properties. *)

(* outbox-repo.ts: "a worker that is still legally running can NEVER have its
   row stolen": what an invocation claimed and has not finished is its own,
   through slow batches, kills and reclaims - unless staff dismissed it. *)
Held(w) == inv[w].batch \cup ({inv[w].run} \ {NoRow})
LeaseIsHeld ==
    \A w \in Workers : \A r \in Held(w) :
        \/ row[r].st = "processing" /\ row[r].lease = w
        \/ r \in revived /\ row[r].st = "done"

(* No row is run beside itself, its own ghost included; the one exception is
   a row that staff revived. *)
Runners(r) == {w \in Workers : inv[w].run = r}
Haunted(r) == {w \in Workers : r \in inv[w].ghosts}
OneRunner ==
    \A r \in Rows \ revived :
        /\ Runners(r) = {} \/ Haunted(r) = {}
        /\ \A w, v \in Runners(r) \cup Haunted(r) : w = v

(* A row whose runs kill their invocations is still run no more than its
   ceiling, though hand-backs keep refunding the claims in between. *)
RunsAreCharged ==
    \A r \in Rows : ran[r] <= Ceiling /\ (Live(row[r]) => ran[r] <= row[r].attempts)

(* Done is final: no late outcome of a worker, hand-back or reclaim brings a
   finished or dismissed row back. *)
DoneIsFinal ==
    [][\A r \in Rows : row[r].st = "done" => row'[r].st = "done"]_vars

(* Every row lives the life that RowPromise promises its handler: taken out of
   nobody's hands, charged for it, and ended by its holder alone.  The ghosts of
   a row staff revived belong to its former life. *)
Holders(r) == {w \in Workers : r \in Held(w)} \cup (IF r \in revived THEN {} ELSE Haunted(r))
RowLife(r) == INSTANCE RowPromise WITH
    Ceilings <- {0, Ceiling}, row <- row[r], holders <- Holders(r)
KeepsRowPromise ==
    /\ \A r \in Rows : RowLife(r)!Init
    /\ [][\A r \in Rows : [RowLife(r)!Next]_(RowLife(r)!vars)]_vars

(* Whatever is queued ends done or dead. *)
EveryRowSettles == \A r \in Rows : Live(row[r]) ~> ~Live(row[r])
=============================================================================
