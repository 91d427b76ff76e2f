------------------------------- MODULE Ledger -------------------------------
(***************************************************************************)
(* One row of the `transfers` table and the guarded UPDATEs that move it.  *)
(* Every write of src/db/repos/transfer-repo.ts is ONE statement: a WHERE  *)
(* clause (here an operator May...) and a SET clause (an operator that     *)
(* returns the new row).  Components use the pair atomically, as Postgres  *)
(* does; what they do between two statements is theirs.                    *)
(*                                                                         *)
(* A row keeps of its ~60 columns the ones a guard reads:                  *)
(*   status, compliance   the lifecycle and the screening verdict          *)
(*   fundingRef           funding_ref IS NOT NULL: a charge was recorded   *)
(*   intent, fundingState a bound payment intent and its async debit       *)
(*   refund               refund_status                                    *)
(*   providerRef          payment_provider_ref: none, the mock rail's      *)
(*                        deterministic one, or a real rail's ack          *)
(*   b2b                  a business invoice pulled by the partner         *)
(*                        (transferType b2b, ach_pull / bank_pull): we     *)
(*                        capture nothing for it                           *)
(***************************************************************************)
EXTENDS Naturals

Status       == {"awaiting_payment", "in_review", "paid", "delivered",
                 "cancelled", "blocked"}
Compliance   == {"cleared", "flagged", "blocked"}
FundingState == {"none", "pending", "succeeded", "failed", "returned"}
RefundStatus == {"none", "requested", "pending", "completed", "failed"}

Transfer == [status : Status, compliance : Compliance, fundingRef : BOOLEAN,
             intent : BOOLEAN, fundingState : FundingState,
             refund : RefundStatus, providerRef : {"none", "mock", "rail"},
             b2b : BOOLEAN]

(* A freshly minted row: screened, never charged. *)
Minted(compliance, b2b) ==
    [status |-> IF compliance = "blocked" THEN "blocked" ELSE "awaiting_payment",
     compliance |-> compliance, fundingRef |-> FALSE, intent |-> FALSE,
     fundingState |-> "none", refund |-> "none", providerRef |-> "none",
     b2b |-> b2b]

-----------------------------------------------------------------------------
(* Funding columns. *)

FundingGate(t) == t.fundingState \in {"none", "succeeded"}
UnfundedNoIntent(t) == ~t.fundingRef /\ ~t.intent

(* A legacy charge: write-once, whatever the status, never over an intent. *)
MaySetFundingRef(t) == ~t.fundingRef /\ ~t.intent
SetFundingRef(t) == [t EXCEPT !.fundingRef = TRUE]

(* Mutant: the intent is bound to a row that another request settled. *)
MayBindIntentLate(t) ==
    ~t.fundingRef /\ (t.intent => t.fundingState \in {"pending", "failed"})
MayBindIntent(t) ==
    /\ t.status = "awaiting_payment"
    /\ ~t.fundingRef
    /\ t.intent => t.fundingState \in {"pending", "failed"}
BindIntent(t) == [t EXCEPT !.intent = TRUE, !.fundingState = "pending"]

MayFundingSucceed(t) ==
    t.intent /\ ~t.fundingRef /\ t.fundingState \in {"pending", "failed"}
FundingSucceed(t) == [t EXCEPT !.fundingRef = TRUE, !.fundingState = "succeeded"]

MayFundingFail(t) == t.intent /\ t.fundingState = "pending"
FundingFail(t) == [t EXCEPT !.fundingState = "failed"]

MayFundingReturn(t) ==
    t.intent /\ t.fundingState \in {"pending", "succeeded", "failed"}
(* Mutant: a state the column does not have. *)
FundingDisputed(t) == [t EXCEPT !.fundingState = "disputed"]
FundingReturn(t) == [t EXCEPT !.fundingState = "returned"]

-----------------------------------------------------------------------------
(* Status claims. *)

(* Mutants: the claim forgets the verdict, or the debit. *)
MayMarkPaidUnscreened(t) == t.status = "awaiting_payment" /\ FundingGate(t)
MayMarkPaidUngated(t) == t.status = "awaiting_payment" /\ t.compliance = "cleared"
MayMarkPaid(t) ==
    t.status = "awaiting_payment" /\ t.compliance = "cleared" /\ FundingGate(t)
MayMarkInReview(t) ==
    t.status = "awaiting_payment" /\ t.compliance # "blocked" /\ FundingGate(t)
(* The release claim has no refund predicate and no `cleared` predicate. *)
MayRelease(t) ==
    t.status = "in_review" /\ t.compliance # "blocked" /\ FundingGate(t)
(* Mutant: a bound intent does not count as possibly charged. *)
MayCancelUncharged(t) == t.status = "awaiting_payment" /\ ~t.fundingRef
MayCancelUnfunded(t) == t.status = "awaiting_payment" /\ UnfundedNoIntent(t)
WithStatus(t, status) == [t EXCEPT !.status = status]

(* Mutant: a verdict lands on a row that moved on. *)
MayRescreenAnyRow(t) == t.compliance # "blocked"
MayRescreen(t) == t.status = "awaiting_payment" /\ t.compliance # "blocked"
(* A blocked verdict closes the row only when nothing was charged or bound. *)
Rescreen(t, verdict) ==
    [t EXCEPT !.compliance = verdict,
              !.status = IF verdict = "blocked" /\ UnfundedNoIntent(t)
                         THEN "blocked" ELSE @]

(* The forward-only status update of a rail callback. *)
Rank(status) == CASE status = "awaiting_payment" -> 0
                  [] status = "paid"             -> 1
                  [] OTHER                       -> 2
MayAdvance(t, status) ==
    /\ t.status \notin {"cancelled", "blocked", "in_review"}
    /\ Rank(t.status) < Rank(status)
    /\ status = "delivered" => t.refund = "none"
    /\ t.status = "awaiting_payment" => t.compliance = "cleared" /\ FundingGate(t)
    /\ t.compliance # "blocked"

-----------------------------------------------------------------------------
(* Refund columns. *)

(* Mutant: a late `completed` overrides a failed return. *)
LegalRefundFromLate ==
    [requested |-> {"none"}, none |-> {"requested"},
     pending   |-> {"none", "requested", "failed"},
     completed |-> {"pending", "failed"}, failed |-> {"pending"}]
LegalRefundFrom ==
    [requested |-> {"none"}, none |-> {"requested"},
     pending   |-> {"none", "requested", "failed"},
     completed |-> {"pending"}, failed |-> {"pending"}]
MayRefund(t, next) == t.refund \in LegalRefundFrom[next]
WithRefund(t, next) == [t EXCEPT !.refund = next]

(* The rail-failure claim: paid -> cancelled; the refund starts in the same
   UPDATE when we hold a charge, or the partner pulled the money. *)
Refundable(t) == t.fundingRef \/ t.b2b
MayFailPaid(t) == t.status = "paid"
(* Mutant: the rail's word is written into the row. *)
FailPaidVerbatim(t) == [t EXCEPT !.status = "failed"]
FailPaid(t) ==
    [t EXCEPT !.status = "cancelled",
              !.refund = IF t.refund \in {"none", "requested"} /\ Refundable(t)
                         THEN "pending" ELSE @]

(* The settlement reference is write-once. *)
SetProviderRef(t, ref) ==
    [t EXCEPT !.providerRef = IF @ = "none" THEN ref ELSE @]
=============================================================================
