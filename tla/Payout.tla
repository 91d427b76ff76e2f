------------------------------- MODULE Payout -------------------------------
(***************************************************************************)
(* After the charge: one settled or held transfer, its rail and refund     *)
(* rows in the outbox, and everyone who may still move it.                 *)
(*                                                                         *)
(* Outbox workers (outbox-worker.ts) claim a row, read the ledger, talk to *)
(* the rail or the funding provider, write the ledger and finish the row:  *)
(* five separate steps, so a cancel, a refund, a callback or a crash may   *)
(* land between any two.  The customer cancels or asks for a refund, staff *)
(* release, reject, issue, approve, dismiss and retry, ops and the partner *)
(* revive dead rows, the sweep re-instructs, the rail and the funding      *)
(* provider call back.                                                     *)
(*                                                                         *)
(* A worker claims one row at a time here (batches only hold leases        *)
(* longer); a lease expires only once its owner is dead, because LEASE_MS  *)
(* is five times the platform's hard limit on a run.                       *)
(***************************************************************************)
EXTENDS Handover, OutboxRow, FiniteSets

CONSTANTS Workers,      \* drain invocations
          Callbacks,    \* concurrent paid_out deliveries from the rail
          Retries,      \* bound: refund:<id>:retry:<ms> keys that may be minted
          Ceiling,      \* bound: attempts before a row is dead (56 / 8 in the code)
          Fundings,     \* how the transfer was charged, and how it left
          Ways,         \* "awaiting_payment" (see Handover)
          Ops,          \* what staff may do to dead letters
          Watched       \* bound: which alert and message keys are recorded

(* Deduped alerts and messages.  No guard of the code reads one, so a run
   records only those its properties speak of. *)
Notices == {"regecancel", "sendercancel", "railfail", "railconflict", "railhold",
            "recon", "refundmsg", "instructreturned", "stripereturn",
            "refundstuck", "cancelcharged"}

ASSUME PayoutAssumption ==
    /\ Fundings \subseteq Funding
    /\ Ways \subseteq Way
    /\ Watched \subseteq Notices
    /\ Ceiling \in Nat \ {0}
    /\ Ops \subseteq {"retry", "dismiss"}
    /\ NoOwner \notin Workers
    /\ {"stage1", "instruct", "reinstruct", "mocksettle", "refund"} \cap Retries = {}

VARIABLES
    t,          \* the transfers row
    box,        \* outbox rows of this transfer, by dedupe key
    work,       \* what each worker is doing
    call,       \* what each paid_out callback is doing
    keys,       \* other dedupe keys in the outbox: stage1, railamount, Notices
    told,       \* external: the rail holds this transfer's instruction
    reversed,   \* external: the funding provider was asked to return the money
    windowOpen, \* the 30-minute sender-cancel window
    cancelled   \* history: the sender's own cancel succeeded

vars == <<t, box, work, call, keys, told, reversed, windowOpen, cancelled>>
others == <<work, call, told, reversed, windowOpen, cancelled>>

Instructions == {"instruct", "reinstruct"}
RailKeys == Instructions \cup {"mocksettle"}
RefundKeys == {"refund"} \cup Retries
Boxes == RailKeys \cup RefundKeys

IdleWorker == [pc |-> "idle", key |-> "refund"]

TypeOK ==
    /\ t \in Transfer
    /\ box \in [Boxes -> [st : RowState, attempts : Nat, locked : BOOLEAN,
                          lease : Workers \cup {NoOwner}]]
    /\ work \in [Workers -> [pc : {"idle", "claimed", "checked", "send", "ack",
                                   "settle", "return", "complete", "finish", "fail"},
                             key : Boxes]]
    /\ call \in [Callbacks -> {"idle", "update", "refused", "conflict"}]
    /\ keys \subseteq {"stage1", "railamount"} \cup Watched
    /\ told \in BOOLEAN
    /\ reversed \in BOOLEAN
    /\ windowOpen \in BOOLEAN
    /\ cancelled \in BOOLEAN

(* What Payment hands over.  A rail that moved the row itself knows of it. *)
Init ==
    /\ \E funding \in Fundings, way \in Ways :
          /\ t = HandedRow(funding, way)
          /\ box = [k \in Boxes |->
                      IF k \in HandedEffects(way) THEN Queued ELSE Absent]
          /\ keys = HandedEffects(way) \cap {"stage1"}
          /\ told = (way \in ByCallback)
    /\ work = [w \in Workers |-> IdleWorker]
    /\ call = [c \in Callbacks |-> "idle"]
    /\ reversed = FALSE
    /\ windowOpen = TRUE
    /\ cancelled = FALSE

-----------------------------------------------------------------------------
(* The worker's loop: claim, run, finish. *)

Queue(k) == box' = [box EXCEPT ![k] = Enqueue(@)]
Notify(notices) == keys' = keys \cup (notices \cap Watched)
Fresh(k) == box[k].st = "absent"
HasLiveInstruction == \E k \in Instructions : Live(box[k])

Go(w, pc) == work' = [work EXCEPT ![w].pc = pc]
Rest(w) == work' = [work EXCEPT ![w] = IdleWorker]

(* A processing row whose owner is no longer running it. *)
Abandoned(k) ==
    /\ box[k].st = "processing"
    /\ \A w \in Workers : ~(work[w].pc # "idle" /\ work[w].key = k)

Claim(w, k) ==
    /\ work[w].pc = "idle"
    /\ Waiting(box[k]) \/ Abandoned(k)
    /\ box' = [box EXCEPT ![k] = Claimed(@, w)]
    /\ work' = [work EXCEPT ![w] = [pc |-> "claimed", key |-> k]]
    /\ UNCHANGED <<t, call, keys, told, reversed, windowOpen, cancelled>>

(* The invocation is killed; its row waits for the lease to expire.
   Bound: nobody is killed over a row already past its ceiling. *)
Crash(w) ==
    /\ work[w].pc # "idle"
    /\ ~Poisoned(box[work[w].key], Ceiling)
    /\ Rest(w)
    /\ UNCHANGED <<t, box, call, keys, told, reversed, windowOpen, cancelled>>

(* Out of budget before the row started. *)
HandBack(w) ==
    LET k == work[w].key IN
    /\ work[w].pc = "claimed"
    /\ MayHandBack(box[k], w)
    /\ box' = [box EXCEPT ![k] = ReleaseUnstarted(@)]
    /\ Rest(w)
    /\ UNCHANGED <<t, call, keys, told, reversed, windowOpen, cancelled>>

(* drainOnce refuses to run a row reclaimed past its ceiling. *)
Starts(w, k) == /\ work[w].pc = "claimed"
                /\ work[w].key = k
                /\ ~Poisoned(box[k], Ceiling)

(* An instruction takes about a day of backoff to die, a mock settle eight
   minutes: only the first outlasts the 30-minute cancel window. *)
Finish(w) ==
    LET k == work[w].key IN
    /\ \/ work[w].pc \in {"finish", "fail"}
       \/ work[w].pc = "claimed" /\ Poisoned(box[k], Ceiling)
    /\ Owns(box[k], w)
    /\ box' = [box EXCEPT ![k] = IF work[w].pc = "finish" THEN MarkDone(@)
                                 ELSE MarkFailed(@, Ceiling)]
    /\ windowOpen' = (windowOpen /\ ~(box'[k].st = "dead" /\ k \in Instructions))
    /\ Rest(w)
    /\ UNCHANGED <<t, call, keys, told, reversed, cancelled>>

-----------------------------------------------------------------------------
(* settlement.instruct *)

NotGoingOut(row) == \/ row.status \in {"cancelled", "delivered"}
                    \/ row.refund \in {"pending", "completed"}
Payable(row) == /\ row.status = "paid" /\ row.refund = "none"
                /\ row.fundingState \notin {"pending", "failed"}

(* The locking read, committed before anything is sent. *)
InstructRead(w, k) ==
    /\ k \in Instructions
    /\ Starts(w, k)
    /\ \/ NotGoingOut(t) /\ Go(w, "finish") /\ UNCHANGED keys
       \/ ~NotGoingOut(t) /\ ~Payable(t) /\ Go(w, "fail") /\ UNCHANGED keys
       \/ /\ Payable(t) /\ t.fundingState = "returned"
          /\ Go(w, "finish") /\ Notify({"instructreturned"})
       \/ /\ Payable(t) /\ t.fundingState # "returned"
          /\ Go(w, "checked") /\ UNCHANGED keys
    /\ UNCHANGED <<t, box, call, told, reversed, windowOpen, cancelled>>

(* The amount-hold marker, then the settlement.paused switch. *)
InstructGate(w) ==
    LET k == work[w].key IN
    /\ work[w].pc = "checked"
    /\ IF "railamount" \in keys THEN Go(w, "finish") /\ UNCHANGED box
       ELSE \/ Go(w, "send") /\ UNCHANGED box
            \/ /\ MayHandBack(box[k], w)
               /\ box' = [box EXCEPT ![k] = DeferUncharged(@)]
               /\ Rest(w)
    /\ UNCHANGED <<t, call, keys, told, reversed, windowOpen, cancelled>>

(* The POST: accepted, accepted but the answer is lost, or not delivered. *)
InstructPost(w) ==
    /\ work[w].pc = "send"
    /\ \/ told' = TRUE /\ (Go(w, "ack") \/ Go(w, "fail"))
       \/ Go(w, "fail") /\ UNCHANGED told
    /\ UNCHANGED <<t, box, call, keys, reversed, windowOpen, cancelled>>

InstructAck(w) ==
    /\ work[w].pc = "ack"
    /\ t' = SetProviderRef(t, "rail")
    /\ Go(w, "finish")
    /\ UNCHANGED <<box, call, keys, told, reversed, windowOpen, cancelled>>

-----------------------------------------------------------------------------
(* mock.settle: read, then one forward-only update. *)

MockRead(w) ==
    /\ Starts(w, "mocksettle")
    /\ Go(w, IF t.status \in {"delivered", "cancelled"} \/ t.refund # "none"
             THEN "finish" ELSE "settle")
    /\ UNCHANGED <<t, box, call, keys, told, reversed, windowOpen, cancelled>>

MockSettle(w) ==
    /\ work[w].pc = "settle"
    /\ t' = IF MayAdvance(t, "delivered") THEN WithStatus(t, "delivered") ELSE t
    /\ Go(w, "finish")
    /\ UNCHANGED <<box, call, keys, told, reversed, windowOpen, cancelled>>

-----------------------------------------------------------------------------
(* funding.refund: the provider refunds a charge, the rail reverses a pull.
   The handler skips a completed refund only. *)

RefundRead(w, k) ==
    /\ k \in RefundKeys
    /\ Starts(w, k)
    /\ Go(w, IF t.refund = "completed" THEN "finish" ELSE "return")
    /\ UNCHANGED <<t, box, call, keys, told, reversed, windowOpen, cancelled>>

(* Mutant: the provider's error is logged, not thrown. *)
RefundAskCaught(w) ==
    /\ work[w].pc = "return"
    /\ reversed' \in {reversed, ~t.intent \/ reversed}
    /\ Go(w, "complete")
    /\ UNCHANGED <<t, box, call, keys, told, windowOpen, cancelled>>

(* Stripe-charged money has no in-app refund: the provider throws. *)
RefundAsk(w) ==
    /\ work[w].pc = "return"
    /\ \/ ~t.intent /\ reversed' = TRUE /\ (Go(w, "complete") \/ Go(w, "fail"))
       \/ Go(w, "fail") /\ UNCHANGED reversed
    /\ UNCHANGED <<t, box, call, keys, told, windowOpen, cancelled>>

RefundComplete(w) ==
    /\ work[w].pc = "complete"
    /\ IF MayRefund(t, "completed")
       THEN t' = WithRefund(t, "completed") /\ Notify({"refundmsg"})
       ELSE UNCHANGED <<t, keys>>
    /\ Go(w, "finish")
    /\ UNCHANGED <<box, call, told, reversed, windowOpen, cancelled>>

-----------------------------------------------------------------------------
(* The rail, external: once told, its callbacks come at any time, in any
   order, any number of times. *)

(* handleRailFailure: one transaction. *)
FailureCallback ==
    /\ told
    /\ t.status # "cancelled"
    /\ IF MayFailPaid(t)
       THEN /\ t' = FailPaid(t)
            /\ box' = IF t.refund \in {"none", "requested"} /\ t'.refund = "pending"
                      THEN [box EXCEPT !["refund"] = Enqueue(@)] ELSE box
       ELSE UNCHANGED <<t, box>>
    /\ Notify({"railfail"})
    /\ UNCHANGED others

(* A signed paid_out: the hold marker and the amount are checked, then the
   row is updated, then a refusal is classified: three statements. *)
PaidOutCallback(c) ==
    /\ told
    /\ call[c] = "idle"
    /\ "railamount" \notin keys
    /\ \/ call' = [call EXCEPT ![c] = "update"] /\ UNCHANGED keys
       \/ keys' = keys \cup {"railamount"} /\ UNCHANGED call
    /\ UNCHANGED <<t, box, work, told, reversed, windowOpen, cancelled>>

(* (The two names of a refusal are history: both continue the same way.) *)
RefundConflict(row) ==
    row.status = "cancelled" \/ (row.status = "paid" /\ row.refund # "none")
PaidOutUpdate(c) ==
    /\ call[c] = "update"
    /\ IF MayAdvance(t, "delivered")
       THEN t' = WithStatus(t, "delivered") /\ call' = [call EXCEPT ![c] = "idle"]
       ELSE /\ call' = [call EXCEPT ![c] = IF RefundConflict(t) THEN "conflict"
                                          ELSE "refused"]
            /\ UNCHANGED t
    /\ UNCHANGED <<box, work, keys, told, reversed, windowOpen, cancelled>>

UnderHold(row) ==
    \/ row.status \in {"in_review", "blocked"}
    \/ row.compliance = "blocked" /\ row.status \notin {"cancelled", "delivered"}
    \/ row.status = "awaiting_payment" /\ row.compliance # "cleared"
PaidOutRefused(c) ==
    /\ call[c] \in {"refused", "conflict"}
    /\ Notify((IF RefundConflict(t) THEN {"railconflict"} ELSE {})
               \cup (IF UnderHold(t) THEN {"railhold"} ELSE {}))
    /\ call' = [call EXCEPT ![c] = "idle"]
    /\ UNCHANGED <<t, box, work, told, reversed, windowOpen, cancelled>>

(* The funding provider's own notices about a return it was asked for. *)
RefundNotice ==
    /\ reversed
    /\ \E next \in {"completed", "failed"} :
          MayRefund(t, next) /\ t' = WithRefund(t, next)
    /\ UNCHANGED <<box, keys>> /\ UNCHANGED others

(* A capture still in flight at the hand-over is recorded: by the request that
   made it, or by the provider's own notice. *)
LateCharge ==
    /\ MayChargeLate(t)
    /\ t' = SetFundingRef(t)
    /\ UNCHANGED <<box, keys>> /\ UNCHANGED others

(* A late dispute of an async debit. *)
DisputeNotice ==
    /\ MayFundingReturn(t)
    /\ t' = FundingReturn(t)
    /\ Notify({"stripereturn"})
    /\ UNCHANGED box /\ UNCHANGED others

-----------------------------------------------------------------------------
(* The sender. *)

WindowCloses ==
    /\ windowOpen /\ windowOpen' = FALSE
    /\ UNCHANGED <<t, box, work, call, keys, told, reversed, cancelled>>

(* cancelWithinWindow: one transaction under the row lock.  It cancels only
   what provably never reached a worker, else it escalates. *)
CancelEligible ==
    /\ ~t.b2b
    /\ t.status \in {"paid", "in_review"}
    /\ t.refund \in {"none", "requested"}
    /\ "stage1" \in keys => windowOpen
    /\ t.status = "in_review" => "stage1" \in keys
(* Mutant: the outbox rows are not looked at. *)
UnsentByLedger == t.status = "paid" /\ "stage1" \in keys /\ t.providerRef # "rail"
ProvablyUnsent ==
    /\ t.status = "paid"
    /\ "stage1" \in keys
    /\ \E k \in RailKeys : ~Fresh(k)
    /\ \A k \in RailKeys : ~Fresh(k) => NeverClaimed(box[k])
    /\ t.providerRef # "rail"

SenderCancel ==
    /\ CancelEligible /\ ProvablyUnsent
    /\ t' = FailPaid(t)
    /\ box' = [k \in Boxes |->
                  IF k \in RailKeys /\ ~Fresh(k) THEN MarkDone(box[k])
                  ELSE IF k = "refund" /\ t'.refund = "pending" THEN Enqueue(box[k])
                  ELSE box[k]]
    /\ Notify({"sendercancel"})
    /\ cancelled' = TRUE
    /\ UNCHANGED <<work, call, told, reversed, windowOpen>>

SenderEscalate ==
    /\ CancelEligible /\ ~ProvablyUnsent
    /\ t' = IF MayRefund(t, "requested") THEN WithRefund(t, "requested") ELSE t
    /\ Notify({"regecancel"})
    /\ UNCHANGED box /\ UNCHANGED others

(* requestRefundFor reads a paid row without a refund, runs the step-up
   gate, and only then writes, guarded by the refund status alone: the write
   may land at any time after the row was once paid. *)
OncePaid == \/ t.status \in {"paid", "delivered"}
            \/ "stage1" \notin keys
            \/ \E k \in RailKeys : ~Fresh(k)
RefundRequest ==
    /\ OncePaid
    /\ MayRefund(t, "requested")
    /\ t' = WithRefund(t, "requested")
    /\ UNCHANGED <<box, keys>> /\ UNCHANGED others

-----------------------------------------------------------------------------
(* Staff. *)

(* The rail, a real one or the mock, is the one configured by then. *)
StaffRelease ==
    /\ MayRelease(t)
    /\ \/ t' = WithStatus(t, "paid") /\ Queue("instruct")
       \/ t' = SetProviderRef(WithStatus(t, "paid"), "mock") /\ Queue("mocksettle")
    /\ UNCHANGED keys /\ UNCHANGED others

(* The refund flip's result is not looked at, nor is the key's freshness. *)
StaffReject ==
    /\ t.status = "in_review"
    /\ IF t.fundingRef
       THEN /\ t' = LET c == WithStatus(t, "cancelled") IN
                    IF MayRefund(c, "pending") THEN WithRefund(c, "pending") ELSE c
            /\ Queue("refund")
       ELSE t' = WithStatus(t, "cancelled") /\ UNCHANGED box
    /\ UNCHANGED keys /\ UNCHANGED others

(* issueRefund, and reverseB2bSettlement for pulled money: from none, with a
   fresh effect, or nothing at all. *)
IssueRefund ==
    /\ t.status \in {"paid", "delivered"}
    /\ t.refund = "none"
    /\ t.b2b \/ (t.fundingRef /\ FundingGate(t))
    /\ Fresh("refund")
    /\ t' = WithRefund(t, "pending")
    /\ Queue("refund")
    /\ UNCHANGED keys /\ UNCHANGED others

ApproveRefund ==
    /\ t.refund = "requested"
    /\ t' = WithRefund(t, "pending")
    /\ Queue("refund")
    /\ UNCHANGED keys /\ UNCHANGED others

(* Mutant: a return in flight can be dismissed. *)
DismissAnyRefund ==
    /\ t.refund \in {"requested", "pending"}
    /\ t' = WithRefund(t, "none")
    /\ UNCHANGED <<box, keys>> /\ UNCHANGED others

DismissRefund ==
    /\ t.refund = "requested"
    /\ t' = WithRefund(t, "none")
    /\ UNCHANGED <<box, keys>> /\ UNCHANGED others

(* Mutant: the retry reuses the spent key. *)
RetryRefundSameKey(k) ==
    /\ t.refund = "failed"
    /\ t' = WithRefund(t, "pending")
    /\ Queue("refund")
    /\ UNCHANGED keys /\ UNCHANGED others

RetryRefund(k) ==
    /\ t.refund = "failed"
    /\ Fresh(k)
    /\ t' = WithRefund(t, "pending")
    /\ Queue(k)
    /\ UNCHANGED keys /\ UNCHANGED others

(* Ops Retry revives any dead row, without a look at the ledger. *)
OpsRetryDead(k) ==
    /\ "retry" \in Ops
    /\ MayRetryDead(box[k])
    /\ box' = [box EXCEPT ![k] = RetryDead(@)]
    /\ UNCHANGED <<t, keys>> /\ UNCHANGED others

(* Dismiss, of a row that is still dead (Outbox has the click on an old page). *)
OpsDismiss(k) ==
    /\ "dismiss" \in Ops
    /\ box[k].st = "dead"
    /\ box' = [box EXCEPT ![k] = MarkDone(@)]
    /\ UNCHANGED <<t, keys>> /\ UNCHANGED others

(* Mutant: the replay does not look for a live sibling. *)
PartnerReplayBeside(k) ==
    /\ k \in Instructions
    /\ MayRetryDead(box[k])
    /\ t.status = "paid" /\ t.refund = "none" /\ t.providerRef = "none"
    /\ box' = [box EXCEPT ![k] = RetryDead(@)]
    /\ UNCHANGED <<t, keys>> /\ UNCHANGED others

(* The partner's Replay: still payable, no ack, no live sibling. *)
PartnerReplay(k) ==
    /\ k \in Instructions
    /\ MayRetryDead(box[k])
    /\ t.status = "paid" /\ t.refund = "none" /\ t.providerRef = "none"
    /\ \A j \in Instructions \ {k} : ~Live(box[j])
    /\ box' = [box EXCEPT ![k] = RetryDead(@)]
    /\ UNCHANGED <<t, keys>> /\ UNCHANGED others

-----------------------------------------------------------------------------
(* The reconcile sweep. *)

IsStuckPaid(row) ==
    row.status = "paid" /\ row.refund = "none" /\ row.fundingState # "returned"

(* reinstructLocked: re-checked under the row lock, at most once.  The mock
   rail (the sweep reads the rail's type) is alerted, never re-instructed. *)
SweepReinstruct ==
    /\ IsStuckPaid(t)
    /\ "railamount" \notin keys /\ Fresh("mocksettle")
    /\ ~HasLiveInstruction
    /\ Fresh("reinstruct")
    /\ Queue("reinstruct")
    /\ UNCHANGED <<t, keys>> /\ UNCHANGED others

SweepAlerts ==
    /\ \/ IsStuckPaid(t) /\ Notify({"recon"})
       \/ t.refund = "pending" /\ Notify({"refundstuck"})
       \/ /\ t.status = "cancelled" /\ t.fundingRef /\ t.refund = "none"
          /\ Notify({"cancelcharged"})
    /\ UNCHANGED <<t, box>> /\ UNCHANGED others

-----------------------------------------------------------------------------
WorkerStep(w) ==
    \/ \E k \in Boxes : InstructRead(w, k) \/ RefundRead(w, k)
    \/ InstructGate(w) \/ InstructPost(w) \/ InstructAck(w)
    \/ MockRead(w) \/ MockSettle(w)
    \/ RefundAsk(w) \/ RefundComplete(w) \/ Finish(w)
CallbackStep(c) == PaidOutCallback(c) \/ PaidOutUpdate(c) \/ PaidOutRefused(c)
SenderStep == \/ WindowCloses \/ SenderCancel \/ SenderEscalate
              \/ RefundRequest
StaffStep == \/ StaffRelease \/ StaffReject \/ IssueRefund \/ ApproveRefund
             \/ DismissRefund
             \/ \E k \in Retries : RetryRefund(k)
             \/ \E k \in Boxes : OpsRetryDead(k) \/ OpsDismiss(k) \/ PartnerReplay(k)

Next ==
    \/ \E w \in Workers, k \in Boxes : Claim(w, k)
    \/ \E w \in Workers : WorkerStep(w) \/ HandBack(w) \/ Crash(w)
    \/ \E c \in Callbacks : CallbackStep(c)
    \/ FailureCallback \/ RefundNotice \/ LateCharge \/ DisputeNotice
    \/ SenderStep \/ StaffStep
    \/ SweepReinstruct \/ SweepAlerts

Spec == Init /\ [][Next]_vars

(* The cron drain claims what waits, oldest first, and its runs start and
   end unless killed or out of budget - which they are not each time.
   Nobody else is obliged to do anything, the sweep excepted. *)
Fairness ==
    /\ WF_vars(SweepAlerts)
    /\ \A w \in Workers : WF_vars(WorkerStep(w))
    /\ \A w \in Workers, k \in RefundKeys :
          /\ SF_vars(Claim(w, k))
          /\ SF_vars(RefundRead(w, k))
          /\ SF_vars(work[w].key = k /\ Finish(w))
FairSpec == Spec /\ Fairness

-----------------------------------------------------------------------------
(* Properties. *)

(* "Cancelled" said to a sender is final: the rail never hears of the
   transfer, before or after, whatever claims, releases, deferrals, replays
   and re-instructions preceded the cancel. *)
SenderCancelIsFinal ==
    cancelled => /\ ~told
                 /\ t.status = "cancelled"
                 /\ \A w \in Workers : work[w].pc \notin {"checked", "send", "ack"}

(* The rail first hears of a transfer that can still be paid out: a read
   taken before the POST may be stale, but never by a cancel or a rejection,
   whoever cancelled. *)
FirstToldWhileLive ==
    [][~told /\ told' => t.status \in {"paid", "delivered"}]_vars

(* rail-failure.ts: refund:<id> exists only once the refund left "none" -
   and it never comes back to a state that another decision may spend. *)
RefundKeyFollowsLedger ==
    ~Fresh("refund") => t.refund \in {"pending", "completed", "failed"}

(* A refund in flight has an effect that can still carry it out. *)
PendingRefundHasEffect ==
    t.refund = "pending" => \E k \in RefundKeys : box[k].st \notin {"absent", "done"}

(* Replay and the recovery re-instruction never put two instructions of one
   transfer in flight together (ops' unscoped Retry may, so it is off). *)
OneLiveInstruction ==
    Cardinality({k \in Instructions : Live(box[k])}) <= 1

(* What the row tells customer, staff and partner of the world outside is so,
   through lost answers, retries, kills and callbacks in any order: a return
   it calls completed was asked of the provider, money goes back only on a
   return the ledger decided and nobody dismissed, and an acknowledged or
   delivered payout is one that the rail, or the mock, was given. *)
LedgerIsTruthful ==
    /\ t.refund = "completed" => reversed
    /\ reversed => t.refund \in {"pending", "completed", "failed"}
    /\ t.providerRef = "rail" => told
    /\ t.status = "delivered" => told \/ ~Fresh("mocksettle")

(* A return that was started ends; or its rows have stopped, through kills,
   hand-backs, throwing providers and revivals, and staff know. *)
PendingRefundIsDecided ==
    t.refund = "pending" ~>
        \/ t.refund # "pending"
        \/ "refundstuck" \in keys /\ \A k \in RefundKeys : ~Live(box[k])

(* Each of its rows is taken and left as the outbox promises. *)
Handlers(k) == {w \in Workers : work[w].pc # "idle" /\ work[w].key = k}
RowLife(k) == INSTANCE RowPromise WITH
    Ceilings <- {Ceiling}, row <- box[k], holders <- Handlers(k)
KeepsRowPromise ==
    /\ \A k \in Boxes : RowLife(k)!Init
    /\ [][\A k \in Boxes : [RowLife(k)!Next]_(RowLife(k)!vars)]_vars

(* The transfer keeps the promises of its lifecycle. *)
Lifecycle == INSTANCE TransferLifecycle
                WITH Entry <- {"paid", "in_review", "delivered"},
                     status <- t.status, refund <- t.refund
KeepsLifecycle == Lifecycle!Spec
=============================================================================
