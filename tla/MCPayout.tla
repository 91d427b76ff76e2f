------------------------------ MODULE MCPayout ------------------------------
(* Instances of Payout for TLC. *)
EXTENDS Payout, TLC

Symmetry == Permutations(Workers) \cup Permutations(Callbacks)

(* States that differ only in what no step can read again are the same to
   every action and property: the claim evidence of a refund row, or of any
   row once the cancel window is closed; the attempts of a row that is done
   or dead (Retry resets them); the lease of a row whose owner is gone. *)
Settled(k) ==
    [box[k] EXCEPT
        !.attempts = IF box[k].st \in {"done", "dead"} THEN 0 ELSE @,
        !.locked = @ /\ k \in RailKeys /\ windowOpen /\ box[k].st # "done",
        !.lease = IF Abandoned(k) THEN NoOwner ELSE @]
View == <<t, [k \in Boxes |-> Settled(k)], work, call, keys, told,
          reversed, windowOpen, cancelled>>
=============================================================================
