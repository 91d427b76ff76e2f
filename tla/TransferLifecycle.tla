-------------------------- MODULE TransferLifecycle --------------------------
(***************************************************************************)
(* What a transfer promises to the people who watch it: the customer's     *)
(* status page, staff, the partner's API.  Two columns, status and refund, *)
(* and the only moves either may ever make, whoever makes them.            *)
(*                                                                         *)
(* The moves are those of the lifecycle the repository's guards build      *)
(* (db/repos/transfer-repo.ts); Payment and Payout, in which nothing but   *)
(* those guards stops anybody, are shown to implement this module.         *)
(***************************************************************************)
CONSTANT Entry      \* statuses in which a transfer comes under observation

VARIABLES status, refund

vars == <<status, refund>>

Closed == {"delivered", "cancelled", "blocked"}

Init == status \in Entry /\ refund = "none"

(* Before money: paid for, held, voided, blocked, or delivered by a rail
   that was paid outside the platform. *)
LeaveAwaiting ==
    /\ status = "awaiting_payment"
    /\ status' \in {"paid", "in_review"} \cup Closed
    /\ UNCHANGED refund

(* A hold is released or rejected; rejecting returns what was charged. *)
DecideHold ==
    /\ status = "in_review"
    /\ \/ status' = "paid" /\ UNCHANGED refund
       \/ status' = "cancelled" /\ refund' \in {refund, "pending"}

(* Delivery needs a refund that was never asked for. *)
Deliver ==
    /\ status = "paid" /\ refund = "none"
    /\ status' = "delivered"
    /\ UNCHANGED refund

(* A paid transfer that will not arrive; the return starts with it, unless
   it was decided before. *)
Abort ==
    /\ status = "paid"
    /\ status' = "cancelled"
    /\ \/ UNCHANGED refund
       \/ refund \in {"none", "requested"} /\ refund' = "pending"

(* The refund ladder, on transfers that once took money. *)
RefundEdge == {<<"none", "requested">>, <<"requested", "none">>,
               <<"none", "pending">>, <<"requested", "pending">>,
               <<"pending", "completed">>, <<"pending", "failed">>,
               <<"failed", "pending">>}
MoveRefund ==
    /\ status \notin {"awaiting_payment", "blocked"}
    /\ <<refund, refund'>> \in RefundEdge
    /\ UNCHANGED status

Next == LeaveAwaiting \/ DecideHold \/ Deliver \/ Abort \/ MoveRefund

Spec == Init /\ [][Next]_vars
=============================================================================
