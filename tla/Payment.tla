------------------------------ MODULE Payment ------------------------------
(***************************************************************************)
(* From the pay page to the rail: one awaiting transfer, charged and then  *)
(* settled or held, while everything else that may move it runs too.       *)
(*                                                                         *)
(* A pay request (POST /api/pay/[transferId], pay-process.ts) is a chain   *)
(* of separate statements: read, re-screen, capture at the provider, record*)
(* the charge, settle or hold.  Each is one action here, so a request can  *)
(* be overtaken between any two, or die there (Crash).  The worker's sweep  *)
(* (reconcile.ts) resumes charged rows, the Stripe webhook settles async   *)
(* debits, staff cancel, release and reject, and the rail calls back.  The *)
(* partner's API settles or holds any row on its word, and charges nobody. *)
(*                                                                         *)
(* A process acts on the row it READ (fields compliance, fundingState of   *)
(* its proc record); only the guards of Ledger see the row as it is.       *)
(***************************************************************************)
EXTENDS Handover

CONSTANTS Payers,          \* concurrent pay requests for this transfer
          Confirmers,      \* concurrent confirms by the partner's API
          StripeFunding,   \* the partner charges through async intents
          MockRail,        \* the rail is the mock (else webhook-driven)
          Watched          \* bound: which alert keys are recorded

(* Deduped alerts to ops.  No guard of the code reads one, so a run records
   only those its properties speak of. *)
Alerts == {"fundresume", "fundhold", "fundblocked", "cancelcharged",
           "fundstale", "stripechargedmoved", "stripereturn"}

ASSUME PaymentAssumption ==
    /\ Watched \subseteq Alerts
    /\ StripeFunding \in BOOLEAN
    /\ MockRail \in BOOLEAN
    /\ (Payers \cup Confirmers) \cap {"sweep", "webhook"} = {}
    /\ Payers \cap Confirmers = {}

VARIABLES
    t,        \* the transfers row
    proc,     \* pay requests, confirms, the reconcile sweep, the Stripe webhook
    psp,      \* external: what the payment provider holds and has emitted
    keys,     \* dedupe keys present in the outbox (rows are never deleted)
    vouched   \* history: on whose word the row moved: "staff" released the
              \* hold, the "partner" confirmed it with money of its own

vars == <<t, proc, psp, keys, vouched>>

Procs == Payers \cup Confirmers \cup {"sweep", "webhook"}
RailKey == IF MockRail THEN "mocksettle" ELSE "instruct"
Idle == [pc |-> "idle", compliance |-> "cleared", fundingState |-> "none",
         note |-> "none"]
(* What a process keeps of the row it read, and where it goes next. *)
Saw(row, pc) == [pc |-> pc, compliance |-> row.compliance,
                 fundingState |-> row.fundingState, note |-> "none"]
To(p, pc) == proc' = [proc EXCEPT ![p].pc = pc]
Finish(p) == proc' = [proc EXCEPT ![p] = Idle]
Alert(p, key) == proc' = [proc EXCEPT ![p] = [Idle EXCEPT !.pc = "alert",
                                                          !.note = key]]

Raise(alert) == keys' = keys \cup ({alert} \cap Watched)

Steps == {"idle", "screen", "fund", "record", "bind", "rescreen", "settle",
          "hold", "alert"}
Process == [pc : Steps, compliance : Compliance, fundingState : FundingState,
            note : Alerts \cup {"none"}]
Provider == [captured : BOOLEAN,
             debit : {"none", "open", "failed", "succeeded", "returned"},
             events : SUBSET {"succeeded", "failed", "dispute"}]

TypeOK ==
    /\ t \in Transfer
    /\ proc \in [Procs -> Process]
    /\ psp \in Provider
    /\ keys \subseteq {"stage1", "instruct", "mocksettle", "refund"} \cup Watched
    /\ vouched \subseteq {"staff", "partner"}

Init ==
    /\ \E c \in {"cleared", "flagged"}, b \in BOOLEAN : t = Minted(c, b)
    /\ proc = [p \in Procs |-> Idle]
    /\ psp = [captured |-> FALSE, debit |-> "none", events |-> {}]
    /\ keys = {}
    /\ vouched = {}

-----------------------------------------------------------------------------
(* The pay request. *)

(* The route reads the row and refuses unless it is live.  A partner-pulled
   B2B row is neither re-screened nor captured. *)
Live(row) == row.status = "awaiting_payment" /\ row.compliance # "blocked"
Open(p) ==
    /\ proc[p].pc = "idle"
    /\ Live(t)
    /\ proc' = [proc EXCEPT ![p] = Saw(t, IF t.b2b THEN "settle" ELSE "screen")]
    /\ UNCHANGED <<t, psp, keys, vouched>>

(* The pay-time re-screen: a clear verdict writes nothing and keeps the row
   as read; another verdict is one guarded write, or the row has moved. *)
Screen(p) ==
    /\ proc[p].pc = "screen"
    /\ \/ To(p, "fund") /\ UNCHANGED t
       \/ /\ MayRescreen(t)
          /\ t' = Rescreen(t, "flagged")
          /\ proc' = [proc EXCEPT ![p] = Saw(t', "fund")]
       \/ MayRescreen(t) /\ t' = Rescreen(t, "blocked") /\ Finish(p)
       \/ ~MayRescreen(t) /\ Finish(p) /\ UNCHANGED t
    /\ UNCHANGED <<psp, keys, vouched>>

(* Mutant: a declined capture is not looked at. *)
CaptureUnchecked(p) ==
    /\ proc[p].pc = "fund"
    /\ ~StripeFunding
    /\ psp' \in {psp, [psp EXCEPT !.captured = TRUE]}
    /\ To(p, "record")
    /\ UNCHANGED <<t, keys, vouched>>

(* provider.capture: idempotent by transfer id.  It may also throw: 402. *)
Capture(p) ==
    /\ proc[p].pc = "fund"
    /\ ~StripeFunding
    /\ \/ psp' = [psp EXCEPT !.captured = TRUE] /\ To(p, "record")
       \/ Finish(p) /\ UNCHANGED psp
    /\ UNCHANGED <<t, keys, vouched>>

RecordCharge(p) ==
    /\ proc[p].pc = "record"
    /\ t' = IF MaySetFundingRef(t) THEN SetFundingRef(t) ELSE t
    /\ To(p, "settle")
    /\ UNCHANGED <<psp, keys, vouched>>

(* The async capture creates (or re-reads) the one intent of the transfer,
   unless the row as read is already charged or returned. *)
CreateIntent(p) ==
    /\ proc[p].pc = "fund"
    /\ StripeFunding
    /\ \/ proc[p].fundingState = "succeeded" /\ To(p, "settle") /\ UNCHANGED psp
       \/ proc[p].fundingState = "returned" /\ Finish(p) /\ UNCHANGED psp
       \/ /\ proc[p].fundingState \notin {"succeeded", "returned"}
          /\ psp' = [psp EXCEPT !.debit = IF @ = "none" THEN "open" ELSE @]
          /\ To(p, "bind")
    /\ UNCHANGED <<t, keys, vouched>>

(* Bound or not, the request ends: settlement waits for the signed event. *)
Bind(p) ==
    /\ proc[p].pc = "bind"
    /\ t' = IF MayBindIntent(t) THEN BindIntent(t) ELSE t
    /\ Finish(p)
    /\ UNCHANGED <<psp, keys, vouched>>

-----------------------------------------------------------------------------
(* The partner's API. *)

(* confirmTransaction: a live row of the partner, a consumer's or a business's,
   goes straight to settle or hold, as its verdict was read: no re-screen, no
   capture, no charge on the ledger.  A row that has left is only replayed. *)
Confirm(p) ==
    /\ proc[p].pc = "idle"
    /\ Live(t)
    /\ proc' = [proc EXCEPT ![p] = Saw(t, "settle")]
    /\ UNCHANGED <<t, psp, keys, vouched>>

-----------------------------------------------------------------------------
(* settleOrHold, shared by pay requests, confirms, the sweep and the Stripe
   webhook. *)

(* The rail effect of a row that just became paid. *)
RailEffect(row) == IF MockRail THEN SetProviderRef(row, "mock") ELSE row

(* Only the sweep and the webhook report what settleOrHold did. *)
Report(p, key) == IF p = "sweep" THEN Alert(p, key) ELSE Finish(p)
Refused(p) == IF p \in {"sweep", "webhook"} THEN Alert(p, "fundblocked") ELSE Finish(p)
(* A claim won by a confirm rests on the partner's word. *)
Vouch(p) == vouched' = vouched \cup (IF p \in Confirmers THEN {"partner"} ELSE {})

BeginSettlement(p) ==
    /\ proc[p].pc = "settle"
    /\ proc[p].compliance = "cleared"
    /\ MayMarkPaid(t)
    /\ t' = RailEffect(WithStatus(t, "paid"))
    /\ keys' = keys \cup {"stage1", RailKey}
    /\ Vouch(p)
    /\ Report(p, "fundresume")
    /\ UNCHANGED psp

(* The claim matched nothing: classified from the ledger, in the same
   transaction. *)
SettlementRefused(p) ==
    /\ proc[p].pc = "settle"
    /\ proc[p].compliance = "cleared"
    /\ ~MayMarkPaid(t)
    /\ \/ /\ t.status # "awaiting_payment" \/ t.compliance = "cleared"
          /\ Report(p, "fundresume")
       \/ t.status = "awaiting_payment" /\ t.compliance = "blocked" /\ Refused(p)
       \/ t.status = "awaiting_payment" /\ t.compliance = "flagged" /\ To(p, "hold")
    /\ UNCHANGED <<t, psp, keys, vouched>>

SettleBlocked(p) ==
    /\ proc[p].pc = "settle"
    /\ proc[p].compliance = "blocked"
    /\ Refused(p)
    /\ UNCHANGED <<t, psp, keys, vouched>>

BeginHold(p) ==
    /\ \/ proc[p].pc = "hold"
       \/ proc[p].pc = "settle" /\ proc[p].compliance = "flagged"
    /\ IF MayMarkInReview(t)
       THEN /\ t' = WithStatus(t, "in_review")
            /\ keys' = keys \cup {"stage1"}
            /\ Vouch(p)
            /\ Report(p, "fundhold")
       ELSE UNCHANGED <<t, keys, vouched>> /\ Report(p, "fundresume")
    /\ UNCHANGED psp

EnqueueAlert(p) ==
    /\ proc[p].pc = "alert"
    /\ Raise(proc[p].note)
    /\ Finish(p)
    /\ UNCHANGED <<t, psp, vouched>>

(* The process dies between two statements; nothing it wrote is undone. *)
Crash(p) ==
    /\ proc[p].pc # "idle"
    /\ Finish(p)
    /\ UNCHANGED <<t, psp, keys, vouched>>

-----------------------------------------------------------------------------
(* External: the payment provider. *)

(* The sender confirms, fails or retries the intent once its secret was
   handed out (only a bound intent's is); a success may be disputed later. *)
DebitMove(from, to, event) ==
    /\ psp.debit = from
    /\ psp' = [psp EXCEPT !.debit = to, !.events = @ \cup {event}]
DebitMoves ==
    /\ t.intent
    /\ \/ DebitMove("open", "succeeded", "succeeded")
       \/ DebitMove("open", "failed", "failed")
       \/ DebitMove("failed", "succeeded", "succeeded")
       \/ DebitMove("succeeded", "returned", "dispute")
    /\ UNCHANGED <<t, proc, keys, vouched>>

(* The legacy provider's own `captured` notice, at any later time. *)
CapturedNotice ==
    /\ psp.captured
    /\ MaySetFundingRef(t)
    /\ t' = SetFundingRef(t)
    /\ UNCHANGED <<proc, psp, keys, vouched>>

-----------------------------------------------------------------------------
(* The Stripe webhook: each event is claimed once, in any order. *)

Consume(kind) ==
    kind \in psp.events /\ psp' = [psp EXCEPT !.events = @ \ {kind}]

HandleSucceeded ==
    /\ proc["webhook"].pc = "idle"
    /\ Consume("succeeded")
    /\ IF MayFundingSucceed(t)
       THEN /\ t' = FundingSucceed(t)
            /\ IF Live(t)
               THEN /\ proc' = [proc EXCEPT !["webhook"] = Saw(t', "rescreen")]
                    /\ UNCHANGED keys
               ELSE Raise("stripechargedmoved") /\ UNCHANGED proc
       ELSE UNCHANGED <<t, proc, keys>>
    /\ UNCHANGED vouched

HandleFailed ==
    /\ Consume("failed")
    /\ t' = IF MayFundingFail(t) THEN FundingFail(t) ELSE t
    /\ UNCHANGED <<proc, keys, vouched>>

HandleDispute ==
    /\ Consume("dispute")
    /\ IF MayFundingReturn(t)
       THEN t' = FundingReturn(t) /\ Raise("stripereturn")
       ELSE UNCHANGED <<t, keys>>
    /\ UNCHANGED <<proc, vouched>>

(* A Stripe-funded row is re-screened before it settles; the blocked alert
   is a statement of its own, after the verdict committed. *)
FundedRescreen(p) ==
    /\ proc[p].pc = "rescreen"
    /\ \/ To(p, "settle") /\ UNCHANGED t
       \/ /\ MayRescreen(t)
          /\ t' = Rescreen(t, "flagged")
          /\ proc' = [proc EXCEPT ![p] = Saw(t', "settle")]
       \/ MayRescreen(t) /\ t' = Rescreen(t, "blocked") /\ Alert(p, "fundblocked")
       \/ ~MayRescreen(t) /\ Finish(p) /\ UNCHANGED t
    /\ UNCHANGED <<psp, keys, vouched>>

-----------------------------------------------------------------------------
(* The reconcile sweep.  Ages (minutes, days) are abstracted: a row is old
   enough whenever the sweep looks. *)

(* Mutants: the sweep resumes cleared rows only, or card charges only. *)
IsClearedVictim(row) ==
    /\ row.status = "awaiting_payment" /\ row.fundingRef
    /\ row.compliance = "cleared"
IsCardVictim(row) ==
    row.status = "awaiting_payment" /\ row.fundingRef /\ ~row.intent

(* listAwaitingWithFunding: charged, awaiting, its debit good. *)
IsVictim(row) ==
    /\ row.status = "awaiting_payment"
    /\ row.fundingRef
    /\ FundingGate(row)
    /\ ~(row.intent /\ row.compliance = "blocked")

SweepResume ==
    /\ proc["sweep"].pc = "idle"
    /\ IsVictim(t)
    /\ proc' = [proc EXCEPT !["sweep"] =
                    Saw(t, IF t.intent THEN "rescreen" ELSE "settle")]
    /\ UNCHANGED <<t, psp, keys, vouched>>

IsCancelledCharged(row) ==
    row.status = "cancelled" /\ row.fundingRef /\ row.refund = "none"
IsStaleIntent(row) ==
    /\ row.status = "awaiting_payment"
    /\ row.intent
    /\ row.fundingState \in {"pending", "failed"}

(* Mutant: nobody looks at cancelled rows. *)
SweepAlertsAwaiting ==
    /\ IsStaleIntent(t) /\ Raise("fundstale")
    /\ UNCHANGED <<t, proc, psp, vouched>>

(* The alert-only passes of the sweep; a row may move after the read. *)
SweepAlerts ==
    /\ \/ IsCancelledCharged(t) /\ Raise("cancelcharged")
       \/ IsStaleIntent(t) /\ Raise("fundstale")
    /\ UNCHANGED <<t, proc, psp, vouched>>

-----------------------------------------------------------------------------
(* Staff, the voids, and the rail's callbacks. *)

(* Staff cancel, the stale-unfunded expiry (never B2B) and the pay-time rate
   expiry share one guarded claim. *)
VoidUnfunded ==
    /\ MayCancelUnfunded(t)
    /\ t' = WithStatus(t, "cancelled")
    /\ UNCHANGED <<proc, psp, keys, vouched>>

Release ==
    /\ MayRelease(t)
    /\ t' = RailEffect(WithStatus(t, "paid"))
    /\ keys' = keys \cup {RailKey}
    /\ vouched' = vouched \cup {"staff"}
    /\ UNCHANGED <<proc, psp>>

Reject ==
    /\ t.status = "in_review"
    /\ IF t.fundingRef
       THEN /\ t' = WithRefund(WithStatus(t, "cancelled"), "pending")
            /\ keys' = keys \cup {"refund"}
       ELSE t' = WithStatus(t, "cancelled") /\ UNCHANGED keys
    /\ UNCHANGED <<proc, psp, vouched>>

(* A signed funded / paid_out, whatever the row's history. *)
RailCallback ==
    /\ \E status \in {"paid", "delivered"} :
          MayAdvance(t, status) /\ t' = WithStatus(t, status)
    /\ UNCHANGED <<proc, psp, keys, vouched>>

-----------------------------------------------------------------------------
PayerStep(p) == \/ Open(p) \/ Screen(p) \/ Capture(p) \/ RecordCharge(p)
                \/ CreateIntent(p) \/ Bind(p)
SettleOrHold(p) == \/ BeginSettlement(p) \/ SettlementRefused(p)
                   \/ SettleBlocked(p) \/ BeginHold(p)
SystemStep == \/ HandleSucceeded \/ HandleFailed \/ HandleDispute
              \/ CapturedNotice \/ DebitMoves
              \/ SweepResume \/ SweepAlerts
              \/ VoidUnfunded \/ Release \/ Reject \/ RailCallback

Next == \/ \E p \in Payers : PayerStep(p) \/ SettleOrHold(p)
        \/ \E p \in Confirmers : Confirm(p) \/ SettleOrHold(p)
        \/ \E p \in {"sweep", "webhook"} :
              FundedRescreen(p) \/ SettleOrHold(p) \/ EnqueueAlert(p)
        \/ \E p \in Procs : Crash(p)
        \/ SystemStep

Spec == Init /\ [][Next]_vars

(* Every full run of the worker route sweeps (minutes with due work, and the
   :17/:47 backstop): a pass may be killed, but not every pass at the same
   step.  Nobody is obliged to pay, confirm, release or call back. *)
Fairness ==
    /\ WF_vars(SweepResume)
    /\ WF_vars(SweepAlerts)
    /\ SF_vars(FundedRescreen("sweep"))
    /\ SF_vars(SettleOrHold("sweep"))
    /\ SF_vars(EnqueueAlert("sweep"))
FairSpec == Spec /\ Fairness

-----------------------------------------------------------------------------
(* Properties. *)

(* A pay request, the sweep or the webhook tells the customer "payment
   received" only of money that was really taken and is on the ledger, however
   stale its copy of the row was.  B2B money is the partner's to pull, and a
   claim that the partner's own confirm won rests on the partner's word. *)
StageOneAfterCharge ==
    "stage1" \in keys /\ ~t.b2b /\ "partner" \notin vouched =>
        t.fundingRef /\ (psp.captured \/ psp.debit \in {"succeeded", "returned"})

(* A rail effect exists only for a row the ledger cleared or that staff
   released, never for one a re-screen flagged behind a request's back. *)
RailOnlyWhenAllowed ==
    RailKey \in keys => /\ t.compliance # "blocked"
                        /\ t.compliance = "cleared" \/ "staff" \in vouched
                        /\ t.status \in {"paid", "delivered"}

(* A row bound to an async intent is never voided while its debit may still
   land: it leaves awaiting_payment only as settled or held money. *)
IntentNeverVoided ==
    t.intent => /\ t.status # "blocked"
                /\ t.status = "cancelled" => "stage1" \in keys

(* The funding gate, as a step property: no step of anyone moves a row on
   while its debit is unsettled or returned. *)
FundingGateHolds ==
    [][t.status # t'.status /\ t'.status \in {"paid", "in_review"}
         => FundingGate(t) /\ (t.intent => t.fundingRef)]_vars

(* A charge recorded on an awaiting row is settled, held, or reported, unless
   its debit was returned or a re-screen blocked the debited row, which the
   sweep leaves out: whether that one was reported is BlockedDebitIsReported. *)
ChargedRowIsResolved ==
    t.fundingRef /\ t.status = "awaiting_payment" ~>
        \/ t.status # "awaiting_payment"
        \/ "fundblocked" \in keys
        \/ ~FundingGate(t)
        \/ t.intent /\ t.compliance = "blocked"

(* A void that raced the capture leaves a cancelled, charged row: it is
   always reported to ops. *)
CancelledChargeIsReported ==
    IsCancelledCharged(t) ~> "cancelcharged" \in keys

(* transfer-repo.ts: a Stripe-funded row the re-screen BLOCKED "already
   raised its fundblocked alert", so the sweep leaves it out. *)
BlockedDebitIsReported ==
    t.intent /\ t.fundingRef /\ t.compliance = "blocked" ~>
        {"fundblocked", "stripechargedmoved", "stripereturn"} \cap keys # {}

(* Whoever charged, settled, held or called back, and in whatever order: what
   Payout takes over is a row with its effects as Handover lists them, and
   until its status moves again this side only adds a late charge or a
   dispute to it. *)
Effects == {"stage1", "instruct", "mocksettle", "refund"}
HandsOver ==
    [][/\ t.status = "awaiting_payment" /\ t'.status \in {"paid", "in_review", "delivered"}
            => Handed(t', keys' \cap Effects)
       /\ t.status \notin {"awaiting_payment", "blocked"} /\ t'.status = t.status
            => Trails(t, t') /\ keys' \cap Effects = keys \cap Effects]_vars

(* The transfer keeps the promises of its lifecycle, whoever moves it. *)
Lifecycle == INSTANCE TransferLifecycle
                WITH Entry <- {"awaiting_payment"},
                     status <- t.status, refund <- t.refund
KeepsLifecycle == Lifecycle!Spec
=============================================================================
