---------------------------- MODULE LedgerProofs ----------------------------
(* Facts about the ledger's statements, cited by the proofs of the modules
   that use them, and about the row one of them hands to the other. *)
EXTENDS Handover, TLAPS

(* Every SET clause returns a row of the table. *)
LEMMA LedgerTypes ==
    ASSUME NEW x \in Transfer
    PROVE  /\ SetFundingRef(x) \in Transfer
           /\ BindIntent(x) \in Transfer
           /\ FundingSucceed(x) \in Transfer
           /\ FundingFail(x) \in Transfer
           /\ FundingReturn(x) \in Transfer
           /\ \A s \in Status : WithStatus(x, s) \in Transfer
           /\ \A v \in Compliance : Rescreen(x, v) \in Transfer
           /\ \A r \in RefundStatus : WithRefund(x, r) \in Transfer
           /\ FailPaid(x) \in Transfer
           /\ \A r \in {"none", "mock", "rail"} : SetProviderRef(x, r) \in Transfer
<1> USE DEF Transfer, Status, Compliance, FundingState, RefundStatus
<1>1. SetFundingRef(x) \in Transfer
    BY DEF SetFundingRef
<1>2. BindIntent(x) \in Transfer
    BY DEF BindIntent
<1>3. FundingSucceed(x) \in Transfer
    BY DEF FundingSucceed
<1>4. FundingFail(x) \in Transfer
    BY DEF FundingFail
<1>5. FundingReturn(x) \in Transfer
    BY DEF FundingReturn
<1>6. \A s \in Status : WithStatus(x, s) \in Transfer
    BY DEF WithStatus
<1>7. \A v \in Compliance : Rescreen(x, v) \in Transfer
    <2> TAKE v \in Compliance
    <2>1. CASE v = "blocked" /\ UnfundedNoIntent(x)
        BY <2>1 DEF Rescreen
    <2>2. CASE ~(v = "blocked" /\ UnfundedNoIntent(x))
        BY <2>2 DEF Rescreen
    <2> QED BY <2>1, <2>2
<1>8. \A r \in RefundStatus : WithRefund(x, r) \in Transfer
    BY DEF WithRefund
<1>9. FailPaid(x) \in Transfer
    BY DEF FailPaid, Refundable
<1>10. \A r \in {"none", "mock", "rail"} : SetProviderRef(x, r) \in Transfer
    BY DEF SetProviderRef
<1> HIDE DEF Transfer, Status, Compliance, FundingState, RefundStatus
<1> QED BY <1>1, <1>2, <1>3, <1>4, <1>5, <1>6, <1>7, <1>8, <1>9, <1>10

(* A minted row is a row of the table. *)
LEMMA MintedType ==
    \A c \in Compliance, b \in BOOLEAN : Minted(c, b) \in Transfer
BY DEF Minted, Transfer, Status, Compliance, FundingState, RefundStatus

(* A forward-only update never revives a closed row, nor leaves a hold. *)
LEMMA AdvanceFrom ==
    ASSUME NEW x \in Transfer, NEW s \in {"paid", "delivered"}, MayAdvance(x, s)
    PROVE  \/ x.status = "awaiting_payment"
           \/ x.status = "paid" /\ s = "delivered" /\ x.refund = "none"
BY DEF MayAdvance, Rank, Transfer, Status

(* A status claim, a verdict or a reference never touches the charge. *)
SameCharge(x, y) == /\ y.fundingRef = x.fundingRef
                    /\ y.intent = x.intent
                    /\ y.fundingState = x.fundingState
                    /\ y.b2b = x.b2b

(* What SameCharge says, of every such SET clause. *)
LEMMA ChargeKept ==
    ASSUME NEW x \in Transfer
    PROVE  /\ \A s \in Status : SameCharge(x, WithStatus(x, s))
           /\ \A s \in Status, r \in {"none", "mock", "rail"} :
                 SameCharge(x, SetProviderRef(WithStatus(x, s), r))
           /\ \A s \in Status, r \in RefundStatus :
                 SameCharge(x, WithRefund(WithStatus(x, s), r))
           /\ \A v \in Compliance : SameCharge(x, Rescreen(x, v))
BY DEF SameCharge, Transfer, WithStatus, SetProviderRef, WithRefund, Rescreen

(* Two rows of the table that agree on every column are the same row. *)
LEMMA SameColumns ==
    ASSUME NEW x \in Transfer, NEW y \in Transfer,
           x.status = y.status, x.compliance = y.compliance,
           x.fundingRef = y.fundingRef, x.intent = y.intent,
           x.fundingState = y.fundingState, x.refund = y.refund,
           x.providerRef = y.providerRef, x.b2b = y.b2b
    PROVE  x = y
BY DEF Transfer

(* Column by column, the row that is handed over. *)
LEMMA HandedColumns ==
    ASSUME NEW funding \in Funding, NEW way \in Way
    PROVE  LET x == HandedRow(funding, way)
           IN  /\ x \in Transfer
               /\ x.status = IF way = "held" THEN "in_review"
                             ELSE IF way = "arrived" THEN "delivered" ELSE "paid"
               /\ x.compliance = IF way = "held" THEN "flagged" ELSE "cleared"
               /\ x.fundingRef = (funding \in {"card", "stripe"})
               /\ x.intent = (funding = "stripe")
               /\ x.fundingState = IF funding = "stripe" THEN "succeeded" ELSE "none"
               /\ x.refund = "none"
               /\ x.providerRef = IF way = "mocked" THEN "mock" ELSE "none"
               /\ x.b2b = (funding = "b2b")
<1> DEFINE m == Minted(IF way = "held" THEN "flagged" ELSE "cleared", funding = "b2b")
           s == CASE way = "held" -> "in_review"
                  [] way = "arrived" -> "delivered"
                  [] OTHER -> "paid"
           x == HandedRow(funding, way)
<1>1. /\ m \in Transfer /\ m.refund = "none"
      /\ m.compliance = IF way = "held" THEN "flagged" ELSE "cleared"
      /\ m.b2b = (funding = "b2b")
    BY DEF Minted, Transfer, Status, Compliance, FundingState, RefundStatus
<1>2. s = IF way = "held" THEN "in_review"
          ELSE IF way = "arrived" THEN "delivered" ELSE "paid"
    OBVIOUS
<1>3. x = [m EXCEPT !.status = s,
                    !.fundingRef = funding \in {"card", "stripe"},
                    !.intent = funding = "stripe",
                    !.fundingState = IF funding = "stripe" THEN "succeeded" ELSE "none",
                    !.providerRef = IF way = "mocked" THEN "mock" ELSE "none"]
    BY DEF HandedRow
<1> HIDE DEF m, s, x
<1>4. x \in Transfer
    <2>1. s \in Status
        BY <1>2 DEF Status
    <2>2. (IF funding = "stripe" THEN "succeeded" ELSE "none") \in FundingState
        BY DEF FundingState
    <2>3. (IF way = "mocked" THEN "mock" ELSE "none") \in {"none", "mock", "rail"}
        OBVIOUS
    <2>4. \A state \in FundingState, ref \in {"none", "mock", "rail"}, c \in BOOLEAN, i \in BOOLEAN :
              [m EXCEPT !.status = s, !.fundingRef = c, !.intent = i,
                        !.fundingState = state, !.providerRef = ref] \in Transfer
        BY <1>1, <2>1 DEF Transfer
    <2>5. (funding \in {"card", "stripe"}) \in BOOLEAN /\ (funding = "stripe") \in BOOLEAN
        OBVIOUS
    <2> QED BY <1>3, <2>2, <2>3, <2>4, <2>5
<1>5. /\ x.status = s /\ x.compliance = m.compliance /\ x.refund = m.refund
      /\ x.b2b = m.b2b
      /\ x.fundingRef = (funding \in {"card", "stripe"})
      /\ x.intent = (funding = "stripe")
      /\ x.fundingState = IF funding = "stripe" THEN "succeeded" ELSE "none"
      /\ x.providerRef = IF way = "mocked" THEN "mock" ELSE "none"
    BY <1>1, <1>3 DEF Transfer
<1> QED BY <1>1, <1>2, <1>4, <1>5 DEF x

(* A row that leaves "awaiting_payment" with its funding columns in order is
   one that Handover lists. *)
LEMMA HandedIs ==
    ASSUME NEW x \in Transfer, NEW way \in Way,
           x.status = IF way = "held" THEN "in_review"
                      ELSE IF way = "arrived" THEN "delivered" ELSE "paid",
           x.compliance = IF way = "held" THEN "flagged" ELSE "cleared",
           x.refund = "none",
           x.providerRef = IF way = "mocked" THEN "mock" ELSE "none",
           x.intent => x.fundingRef /\ x.fundingState = "succeeded",
           ~x.intent => x.fundingState = "none",
           x.b2b => ~x.fundingRef
    PROVE  Handed(x, HandedEffects(way))
<1> DEFINE funding == IF x.b2b THEN "b2b" ELSE IF x.intent THEN "stripe"
                      ELSE IF x.fundingRef THEN "card" ELSE "none"
<1>1. funding \in Funding
    BY DEF Funding
<1>2. /\ x.b2b \in BOOLEAN /\ x.fundingRef \in BOOLEAN /\ x.intent \in BOOLEAN
    BY DEF Transfer
<1>3. /\ x.fundingRef = (funding \in {"card", "stripe"})
      /\ x.intent = (funding = "stripe")
      /\ x.fundingState = IF funding = "stripe" THEN "succeeded" ELSE "none"
      /\ x.b2b = (funding = "b2b")
    BY <1>2
<1> HIDE DEF funding
<1>4. x = HandedRow(funding, way)
    BY <1>1, <1>3, HandedColumns, SameColumns
<1> QED BY <1>1, <1>4 DEF Handed
=============================================================================
