------------------------------ MODULE Handover ------------------------------
(***************************************************************************)
(* The line between Payment and Payout: what a transfer looks like when it *)
(* leaves "awaiting_payment" alive, and what the payment side may still do *)
(* to it afterwards.  Payment is shown to keep to it (HandsOver); Payout   *)
(* starts from it and has the late writes among its steps.                 *)
(***************************************************************************)
EXTENDS Ledger

(* Who was charged: nobody, by this side and so far (a rail moved the row, or
   its partner confirmed it through the API), a card at once, an async debit,
   or a business whose money the partner pulls. *)
Funding == {"none", "card", "stripe", "b2b"}

(* Settled on a webhook-driven rail or on the mock rail, held for review, or
   moved by a rail's callback, which writes no stage-1 row and no effect. *)
ByCallback == {"funded", "arrived"}
Way == {"settled", "mocked", "held"} \cup ByCallback

HandedRow(funding, way) ==
    [Minted(IF way = "held" THEN "flagged" ELSE "cleared", funding = "b2b")
        EXCEPT !.status = CASE way = "held" -> "in_review"
                            [] way = "arrived" -> "delivered"
                            [] OTHER -> "paid",
               !.fundingRef = funding \in {"card", "stripe"},
               !.intent = funding = "stripe",
               !.fundingState = IF funding = "stripe" THEN "succeeded" ELSE "none",
               !.providerRef = IF way = "mocked" THEN "mock" ELSE "none"]

(* The outbox rows written with the claim. *)
HandedEffects(way) ==
    CASE way = "settled" -> {"stage1", "instruct"}
      [] way = "mocked"  -> {"stage1", "mocksettle"}
      [] way = "held"    -> {"stage1"}
      [] OTHER           -> {}

Handed(t, effects) ==
    \E funding \in Funding, way \in Way :
        /\ t = HandedRow(funding, way)
        /\ effects = HandedEffects(way)

(* A capture that was in flight is recorded late; a debit is disputed. *)
MayChargeLate(t) == ~t.b2b /\ MaySetFundingRef(t)
Trails(t, next) ==
    \/ next = t
    \/ MayChargeLate(t) /\ next = SetFundingRef(t)
    \/ MayFundingReturn(t) /\ next = FundingReturn(t)
=============================================================================
