---------------------------- MODULE PayoutProofs ----------------------------
(***************************************************************************)
(* What a paid transfer keeps, whoever acts on it: for any number of       *)
(* workers, callbacks and retry keys, any ceiling, however it was charged. *)
(***************************************************************************)
EXTENDS Payout, LedgerProofs, OutboxRowProofs, FiniteSetTheorems

USE PayoutAssumption

Stage == {"idle", "claimed", "checked", "send", "ack", "settle", "return",
          "complete", "finish", "fail"}
Task == [pc : Stage, key : Boxes]

-----------------------------------------------------------------------------
(* A worker's step: where it stands, and that nobody else moves. *)
LEMMA WorkMoves ==
    ASSUME work \in [Workers -> Task], NEW w \in Workers
    PROVE  /\ \A pc \in Stage : Go(w, pc) =>
                 /\ work' \in [Workers -> Task]
                 /\ work'[w].pc = pc /\ work'[w].key = work[w].key
                 /\ \A v \in Workers \ {w} : work'[v] = work[v]
           /\ Rest(w) =>
                 /\ work' \in [Workers -> Task]
                 /\ work'[w].pc = "idle" /\ work'[w].key = "refund"
                 /\ \A v \in Workers \ {w} : work'[v] = work[v]
<1>1. ASSUME NEW pc \in Stage, Go(w, pc)
      PROVE  /\ work' \in [Workers -> Task]
             /\ work'[w].pc = pc /\ work'[w].key = work[w].key
             /\ \A v \in Workers \ {w} : work'[v] = work[v]
  <2>1. [work[w] EXCEPT !.pc = pc] \in Task BY DEF Task
  <2> QED BY <1>1, <2>1 DEF Go, Task
<1>2. IdleWorker \in Task BY DEF IdleWorker, Task, Stage, Boxes, RefundKeys
<1> QED BY <1>1, <1>2 DEF Rest, IdleWorker

(* What a transfer enters with.  The rail that moved the row itself knows of
   it and was never announced; a held one has no instruction. *)
LEMMA Entry ==
    ASSUME Init
    PROVE  /\ t \in Transfer /\ t.refund = "none" /\ t.providerRef # "rail"
           /\ t.status \in {"paid", "in_review", "delivered"}
           /\ t.status = "in_review" => "held" \in Ways
           /\ t.status = "delivered" => told
           /\ told \in BOOLEAN /\ keys \subseteq {"stage1"}
           /\ told => "stage1" \notin keys
           /\ \A k \in Boxes :
                 \/ box[k] = Absent
                 \/ box[k] = Queued /\ k \in {"instruct", "mocksettle"}
           /\ t.status = "in_review" \/ t.providerRef = "mock"
                 => box["instruct"] = Absent
<1>1. PICK funding \in Fundings, way \in Ways :
          /\ t = HandedRow(funding, way)
          /\ box = [k \in Boxes |->
                      IF k \in HandedEffects(way) THEN Queued ELSE Absent]
          /\ keys = HandedEffects(way) \cap {"stage1"}
          /\ told = (way \in ByCallback)
    BY DEF Init
<1>2. funding \in Funding /\ way \in Way
    BY <1>1
<1>3. /\ t \in Transfer /\ t.refund = "none"
      /\ t.status = IF way = "held" THEN "in_review"
                    ELSE IF way = "arrived" THEN "delivered" ELSE "paid"
      /\ t.providerRef = IF way = "mocked" THEN "mock" ELSE "none"
    BY <1>1, <1>2, HandedColumns
<1>4. /\ HandedEffects(way) \subseteq {"stage1", "instruct", "mocksettle"}
      /\ way \in ByCallback => HandedEffects(way) = {}
      /\ "instruct" \in HandedEffects(way) => way = "settled"
    BY <1>2 DEF HandedEffects, Way, ByCallback
<1>5. "stage1" \notin Boxes /\ "instruct" \in Boxes
    BY DEF Boxes, RailKeys, Instructions, RefundKeys
<1>6. told => "stage1" \notin keys
    BY <1>1, <1>4
<1>7. ASSUME NEW k \in Boxes
      PROVE  \/ box[k] = Absent
             \/ box[k] = Queued /\ k \in {"instruct", "mocksettle"}
    BY <1>1, <1>4, <1>5
<1>8. t.status = "in_review" \/ t.providerRef = "mock" => box["instruct"] = Absent
    BY <1>1, <1>3, <1>4, <1>5
<1>9. /\ t.status = "in_review" => "held" \in Ways
      /\ t.status = "delivered" => told
    BY <1>1, <1>3 DEF ByCallback
<1> QED BY <1>1, <1>3, <1>6, <1>7, <1>8, <1>9 DEF ByCallback
-----------------------------------------------------------------------------
(* The moves of the ledger's row, whoever makes them. *)
Delivers == MayAdvance(t, "delivered") /\ t' = WithStatus(t, "delivered")
Decides == \E next \in RefundStatus : MayRefund(t, next) /\ t' = WithRefund(t, next)
Aborts == t.status = "paid" /\ t' = FailPaid(t) /\ (told \/ SenderCancel)
Releases == /\ t.status = "in_review"
            /\ t' \in {WithStatus(t, "paid"),
                      SetProviderRef(WithStatus(t, "paid"), "mock")}
Rejects == /\ t.status = "in_review"
           /\ \/ t' = WithStatus(t, "cancelled")
              \/ t' = WithRefund(WithStatus(t, "cancelled"), "pending")
Annotates == t' \in {t, SetProviderRef(t, "rail"), FundingReturn(t), SetFundingRef(t)}

(* Every step makes one of these moves. *)
LEMMA LedgerMoves ==
    ASSUME TypeOK, [Next]_vars
    PROVE  Delivers \/ Decides \/ Aborts \/ Releases \/ Rejects \/ Annotates
<1> USE DEF RefundStatus
<1>1. CASE Annotates BY <1>1
<1>2. ASSUME NEW w \in Workers, WorkerStep(w) PROVE Delivers \/ Decides \/ Annotates
  BY <1>2 DEF WorkerStep, InstructRead, RefundRead, InstructGate, InstructPost,
              InstructAck, MockRead, MockSettle, RefundAsk, RefundComplete, Finish,
              Delivers, Decides, Annotates
<1>3. ASSUME NEW c \in Callbacks, CallbackStep(c) PROVE Delivers \/ Annotates
  BY <1>3 DEF CallbackStep, PaidOutCallback, PaidOutUpdate, PaidOutRefused,
              Delivers, Annotates
<1>4. CASE FailureCallback BY <1>4 DEF FailureCallback, MayFailPaid, Aborts, Annotates
<1>5. CASE RefundNotice BY <1>5 DEF RefundNotice, Decides
<1>6. CASE LateCharge \/ DisputeNotice BY <1>6 DEF LateCharge, DisputeNotice, Annotates
<1>7. CASE SenderCancel BY <1>7 DEF SenderCancel, ProvablyUnsent, Aborts
<1>8. CASE SenderEscalate BY <1>8 DEF SenderEscalate, Decides, Annotates
<1>9. CASE RefundRequest BY <1>9 DEF RefundRequest, Decides
<1>10. CASE StaffRelease BY <1>10 DEF StaffRelease, MayRelease, Releases
<1>11. CASE StaffReject BY <1>11 DEF StaffReject, Rejects
<1>12. ASSUME \/ IssueRefund \/ ApproveRefund \/ DismissRefund
              \/ \E k \in Retries : RetryRefund(k)
       PROVE  Decides
  BY <1>12 DEF IssueRefund, ApproveRefund, DismissRefund, RetryRefund, Decides,
               MayRefund, LegalRefundFrom
<1>13. ASSUME \/ \E w \in Workers, k \in Boxes : Claim(w, k)
              \/ \E w \in Workers : HandBack(w) \/ Crash(w)
              \/ WindowCloses \/ SweepReinstruct \/ SweepAlerts
              \/ \E k \in Boxes : OpsRetryDead(k) \/ OpsDismiss(k) \/ PartnerReplay(k)
              \/ UNCHANGED vars
       PROVE  Annotates
  BY <1>13 DEF Claim, HandBack, Crash, WindowCloses, SweepReinstruct, SweepAlerts,
               OpsRetryDead, OpsDismiss, PartnerReplay, vars, Annotates
<1> QED
  BY <1>2, <1>3, <1>4, <1>5, <1>6, <1>7, <1>8, <1>9, <1>10, <1>11, <1>12, <1>13
     DEF Next, SenderStep, StaffStep

(* A move leads from a row of the table to one. *)
LEMMA TransferStep == TypeOK /\ [Next]_vars => t' \in Transfer
<1> SUFFICES ASSUME TypeOK, [Next]_vars PROVE t' \in Transfer OBVIOUS
<1>1. t \in Transfer /\ Status = Status \cup {"paid", "delivered", "cancelled"}
  BY DEF TypeOK, Status
<1>2. WithStatus(t, "cancelled") \in Transfer BY <1>1, LedgerTypes
<1> QED
  BY <1>1, <1>2, LedgerMoves, LedgerTypes
     DEF Delivers, Decides, Aborts, Releases, Rejects, Annotates, RefundStatus

(* Nothing but the moves of its lifecycle happens to a transfer. *)
LEMMA LifecycleStep ==
    ASSUME TypeOK, [Next]_vars, t.status \notin {"awaiting_payment", "blocked"}
    PROVE  /\ [Lifecycle!Next]_(Lifecycle!vars)
           /\ t'.status \notin {"awaiting_payment", "blocked"}
<1> USE DEF Lifecycle!vars, Lifecycle!Next
<1> USE t \in Transfer DEF TypeOK, Transfer
<1>1. CASE Delivers
  <2>1. t.status = "paid" /\ t.refund = "none" BY <1>1, AdvanceFrom DEF Delivers
  <2>2. t'.status = "delivered" /\ t'.refund = t.refund
    BY <1>1 DEF Delivers, WithStatus
  <2> QED BY <2>1, <2>2 DEF Lifecycle!Deliver
<1>2. CASE Decides
  <2>1. PICK next \in RefundStatus : MayRefund(t, next) /\ t' = WithRefund(t, next)
    BY <1>2 DEF Decides
  <2>2. t'.status = t.status /\ t'.refund = next BY <2>1 DEF WithRefund
  <2>3. <<t.refund, next>> \in Lifecycle!RefundEdge
    BY <2>1 DEF MayRefund, LegalRefundFrom, RefundStatus, Lifecycle!RefundEdge
  <2> QED BY <2>2, <2>3 DEF Lifecycle!MoveRefund
<1>3. CASE Aborts
  <2>1. /\ t'.status = "cancelled"
        /\ \/ t'.refund = t.refund
           \/ t.refund \in {"none", "requested"} /\ t'.refund = "pending"
    BY <1>3 DEF Aborts, FailPaid
  <2> QED BY <1>3, <2>1 DEF Aborts, Lifecycle!Abort
<1>4. CASE Releases
  <2>1. t'.status = "paid" /\ t'.refund = t.refund BY <1>4 DEF Releases, WithStatus, SetProviderRef
  <2> QED BY <1>4, <2>1 DEF Releases, Lifecycle!DecideHold
<1>5. CASE Rejects
  <2>1. t'.status = "cancelled" /\ t'.refund \in {t.refund, "pending"}
    BY <1>5 DEF Rejects, WithStatus, WithRefund
  <2> QED BY <1>5, <2>1 DEF Rejects, Lifecycle!DecideHold
<1>6. CASE Annotates
  <2>1. t'.status = t.status /\ t'.refund = t.refund
    BY <1>6 DEF Annotates, SetProviderRef, FundingReturn, SetFundingRef
  <2> QED BY <2>1
<1> QED BY <1>1, <1>2, <1>3, <1>4, <1>5, <1>6, LedgerMoves

-----------------------------------------------------------------------------
(* The moves of an outbox row. *)
Kept(k) == box'[k] = box[k]
Added(k) == Fresh(k) /\ box'[k] = Queued
Taken(k) == \E w \in Workers : Claim(w, k)
LetGo(k, w) == /\ work[w].pc # "idle" /\ work[w].key = k
             /\ Rest(w)
             /\ Owns(box[k], w)
             /\ \/ box'[k] \in {ReleaseUnstarted(box[k]), DeferUncharged(box[k])}
                   /\ MayHandBack(box[k], w) /\ work[w].pc \in {"claimed", "checked"}
                \/ box'[k] = MarkDone(box[k]) /\ work[w].pc = "finish"
                \/ /\ box'[k] = MarkFailed(box[k], Ceiling)
                   /\ work[w].pc \in {"claimed", "fail"}
                   /\ windowOpen' => ~(box'[k].st = "dead" /\ k \in Instructions)
Revived(k) == /\ box[k].st = "dead" /\ box'[k] = RetryDead(box[k])
              /\ "retry" \in Ops \/ PartnerReplay(k)
Dropped(k) == box[k].st = "dead" /\ box'[k] = MarkDone(box[k]) /\ "dismiss" \in Ops
Withdrawn(k) == /\ SenderCancel /\ k \in RailKeys
                /\ NeverClaimed(box[k]) /\ box'[k] = MarkDone(box[k])

(* Every step does one of these to each row. *)
LEMMA BoxMoves ==
    ASSUME TypeOK, [Next]_vars, NEW k \in Boxes
    PROVE  \/ Kept(k) \/ Added(k) \/ Taken(k) \/ (\E w \in Workers : LetGo(k, w))
           \/ Revived(k) \/ Dropped(k) \/ Withdrawn(k)
<1> USE DEF TypeOK
<1>1. ASSUME NEW w \in Workers, NEW j \in Boxes, Claim(w, j)
      PROVE  Kept(k) \/ Taken(k)
  BY <1>1 DEF Claim, Kept, Taken
<1>2. ASSUME NEW w \in Workers, HandBack(w) PROVE Kept(k) \/ LetGo(k, w)
  BY <1>2 DEF HandBack, Kept, LetGo, MayHandBack
<1>3. ASSUME NEW w \in Workers, InstructGate(w) PROVE Kept(k) \/ LetGo(k, w)
  BY <1>3 DEF InstructGate, Kept, LetGo, MayHandBack
<1>4. ASSUME NEW w \in Workers, Finish(w) PROVE Kept(k) \/ LetGo(k, w)
  BY <1>4 DEF Finish, Kept, LetGo
<1>5. ASSUME NEW w \in Workers, WorkerStep(w), ~InstructGate(w), ~Finish(w) PROVE Kept(k)
  BY <1>5 DEF WorkerStep, InstructRead, RefundRead, InstructPost,
              InstructAck, MockRead, MockSettle, RefundAsk, RefundComplete, Kept
<1>6. ASSUME NEW c \in Callbacks, CallbackStep(c) PROVE Kept(k)
  BY <1>6 DEF CallbackStep, PaidOutCallback, PaidOutUpdate, PaidOutRefused, Kept
<1>7. CASE FailureCallback
  BY <1>7 DEF FailureCallback, Kept, Added, Enqueue, Fresh
<1>8. CASE SenderCancel
  BY <1>8 DEF SenderCancel, ProvablyUnsent, Kept, Added, Enqueue, Fresh, Withdrawn
<1>9. CASE SenderEscalate BY <1>9 DEF SenderEscalate, Kept
<1>10. ASSUME NEW j \in Boxes, Queue(j) PROVE Kept(k) \/ Added(k)
  BY <1>10 DEF Queue, Enqueue, Kept, Added, Fresh
<1>11. CASE StaffReject BY <1>10, <1>11 DEF StaffReject, Kept, Boxes, RefundKeys
<1>12. ASSUME \/ StaffRelease \/ IssueRefund \/ ApproveRefund \/ SweepReinstruct
              \/ \E j \in Retries : RetryRefund(j)
       PROVE  Kept(k) \/ Added(k)
  BY <1>10, <1>12
     DEF StaffRelease, IssueRefund, ApproveRefund, SweepReinstruct, RetryRefund,
         Boxes, RefundKeys, RailKeys, Instructions
<1>13. ASSUME NEW j \in Boxes, OpsRetryDead(j) \/ OpsDismiss(j) \/ PartnerReplay(j)
       PROVE  Kept(k) \/ Revived(k) \/ Dropped(k)
  BY <1>13 DEF OpsRetryDead, OpsDismiss, PartnerReplay, MayRetryDead, Kept, Revived,
               Dropped
<1>14. ASSUME \/ RefundNotice \/ LateCharge \/ DisputeNotice \/ WindowCloses \/ RefundRequest
              \/ DismissRefund \/ SweepAlerts \/ UNCHANGED vars
              \/ \E w \in Workers : Crash(w)
       PROVE  Kept(k)
  BY <1>14 DEF RefundNotice, LateCharge, DisputeNotice, WindowCloses, RefundRequest, DismissRefund,
               SweepAlerts, Crash, vars, Kept
<1> QED
  BY <1>1, <1>2, <1>3, <1>4, <1>5, <1>6, <1>7, <1>8, <1>9, <1>11, <1>12, <1>13, <1>14
     DEF Next, SenderStep, StaffStep

-----------------------------------------------------------------------------
(* The moves of a worker. *)
Stands(w) == work'[w] = work[w]
Starting(w) == \E k \in Boxes : Claim(w, k)
Goes(w) ==
    \E pc \in Stage \ {"idle", "claimed"} :
        /\ Go(w, pc) /\ box' = box /\ work[w].pc # "idle"
        /\ pc = "checked" => /\ work[w].pc = "claimed" /\ work[w].key \in Instructions
                             /\ t.status = "paid" /\ t' = t
        /\ pc = "send" => work[w].pc = "checked" /\ t' = t
        /\ pc = "ack" => work[w].pc = "send" /\ told'
        /\ pc = "settle" => work[w].key = "mocksettle"
        /\ pc = "return" => work[w].key \in RefundKeys
        /\ pc = "complete" => work[w].pc = "return" /\ reversed'
        /\ pc = "finish" =>
              \/ t'.refund # "pending"
              \/ work[w].pc \in {"checked", "ack", "settle"}
              \/ work[w].key \in RailKeys

(* Every step does one of these to each worker. *)
LEMMA WorkMove ==
    ASSUME TypeOK, [Next]_vars, NEW w \in Workers
    PROVE  Stands(w) \/ Starting(w) \/ Rest(w) \/ Goes(w)
<1> USE DEF TypeOK
<1>0. t.refund \in RefundStatus BY DEF Transfer
<1>1. ASSUME NEW v \in Workers, v # w, WorkerStep(v) \/ HandBack(v) \/ Crash(v)
      PROVE  Stands(w)
  BY <1>1 DEF WorkerStep, InstructRead, RefundRead, InstructGate, InstructPost,
              InstructAck, MockRead, MockSettle, RefundAsk, RefundComplete, Finish,
              HandBack, Crash, Go, Rest, Stands
<1>2. ASSUME NEW v \in Workers, NEW k \in Boxes, Claim(v, k)
      PROVE  Stands(w) \/ Starting(w)
  BY <1>2 DEF Claim, Stands, Starting
<1>3. ASSUME NEW k \in Boxes, InstructRead(w, k) PROVE Goes(w)
  BY <1>3 DEF InstructRead, Starts, Payable, Goes, Stage, RailKeys
<1>4. ASSUME NEW k \in Boxes, RefundRead(w, k) PROVE Goes(w)
  BY <1>4 DEF RefundRead, Starts, Goes, Stage
<1>5. CASE InstructGate(w) BY <1>5 DEF InstructGate, Goes, Stage
<1>6. CASE InstructPost(w) BY <1>6 DEF InstructPost, Goes, Stage
<1>7. CASE InstructAck(w) BY <1>7 DEF InstructAck, Goes, Stage
<1>8. CASE MockRead(w) BY <1>8 DEF MockRead, Starts, Goes, Stage, RailKeys
<1>9. CASE MockSettle(w) BY <1>9 DEF MockSettle, Goes, Stage
<1>10. CASE RefundAsk(w) BY <1>10 DEF RefundAsk, Goes, Stage
<1>11. CASE RefundComplete(w)
  <2>1. t'.refund # "pending"
    BY <1>0, <1>11 DEF RefundComplete, MayRefund, LegalRefundFrom, WithRefund, Transfer
  <2> QED BY <1>11, <2>1 DEF RefundComplete, Goes, Stage
<1>12. CASE Finish(w) \/ HandBack(w) \/ Crash(w) BY <1>12 DEF Finish, HandBack, Crash
<1>13. ASSUME NEW c \in Callbacks, CallbackStep(c) PROVE Stands(w)
  BY <1>13 DEF CallbackStep, PaidOutCallback, PaidOutUpdate, PaidOutRefused, Stands
<1>14. CASE FailureCallback \/ RefundNotice \/ LateCharge \/ DisputeNotice \/ SenderStep
  BY <1>14 DEF FailureCallback, RefundNotice, LateCharge, DisputeNotice, SenderStep, WindowCloses,
               SenderCancel, SenderEscalate, RefundRequest, others, Stands
<1>15. CASE StaffStep
  BY <1>15 DEF StaffStep, StaffRelease, StaffReject, IssueRefund, ApproveRefund,
               DismissRefund, RetryRefund, OpsRetryDead, OpsDismiss, PartnerReplay,
               others, Stands
<1>16. CASE SweepReinstruct \/ SweepAlerts \/ UNCHANGED vars
  BY <1>16 DEF SweepReinstruct, SweepAlerts, others, vars, Stands
<1> QED
  BY <1>1, <1>2, <1>3, <1>4, <1>5, <1>6, <1>7, <1>8, <1>9, <1>10, <1>11, <1>12, <1>13,
     <1>14, <1>15, <1>16
     DEF Next, WorkerStep

(* The types. *)
LEMMA Types ==
    TypeOK <=> /\ t \in Transfer
               /\ box \in [Boxes -> RowOf(Workers)]
               /\ work \in [Workers -> Task]
               /\ call \in [Callbacks -> {"idle", "update", "refused", "conflict"}]
               /\ keys \subseteq {"stage1", "railamount"} \cup Watched
               /\ told \in BOOLEAN /\ reversed \in BOOLEAN
               /\ windowOpen \in BOOLEAN /\ cancelled \in BOOLEAN
  BY DEF TypeOK, RowOf, Task, Stage

(* A transfer enters with every column in its type. *)
LEMMA TypeInit == Init => TypeOK
<1> SUFFICES ASSUME Init PROVE TypeOK OBVIOUS
<1>1. t \in Transfer /\ keys \subseteq {"stage1"} /\ told \in BOOLEAN BY Entry
<1>2. Queued \in RowOf(Workers) /\ Absent \in RowOf(Workers)
  BY DEF Queued, Absent, RowOf, RowState
<1>3. box \in [Boxes -> RowOf(Workers)]
  <2>1. \A k \in Boxes : box[k] \in RowOf(Workers) BY <1>2, Entry
  <2>2. box = [k \in Boxes |-> box[k]] BY DEF Init
  <2> QED BY <2>1, <2>2
<1>4. IdleWorker \in Task BY DEF IdleWorker, Task, Stage, Boxes, RefundKeys
<1> QED BY <1>1, <1>3, <1>4, Types DEF Init

(* Every step keeps every column in its type. *)
LEMMA TypeStep == TypeOK /\ [Next]_vars => TypeOK'
<1> SUFFICES ASSUME TypeOK, [Next]_vars PROVE TypeOK' OBVIOUS
<1> USE DEF TypeOK
<1>1. t' \in Transfer BY TransferStep
<1>2. box' \in [Boxes -> RowOf(Workers)]
  <2>1. \A k \in Boxes : box[k] \in RowOf(Workers) BY Types
  <2>2. ASSUME NEW k \in Boxes PROVE box'[k] \in RowOf(Workers)
    <3> DEFINE x == box[k]
    <3>1. x \in RowOf(Workers) BY <2>1
    <3>2. ASSUME NEW w \in Workers, Claim(w, k) PROVE box'[k] = Claimed(x, w)
      BY <3>2 DEF Claim
    <3>3. box'[k] \in {x, Queued, MarkDone(x), MarkFailed(x, Ceiling), RetryDead(x),
                      ReleaseUnstarted(x), DeferUncharged(x)}
          \/ \E w \in Workers : box'[k] = Claimed(x, w)
      BY <3>2, BoxMoves
         DEF Kept, Added, Taken, LetGo, Revived, Dropped, Withdrawn
    <3> HIDE DEF x
    <3>4. Ceiling \in Nat OBVIOUS
    <3>5. MarkFailed(x, Ceiling) \in RowOf(Workers) BY <3>1, <3>4, RowTypes
    <3>6. \A w \in Workers : Claimed(x, w) \in RowOf(Workers) BY <3>1, RowTypes
    <3>7. /\ Queued \in RowOf(Workers) /\ MarkDone(x) \in RowOf(Workers)
          /\ RetryDead(x) \in RowOf(Workers)
          /\ ReleaseUnstarted(x) \in RowOf(Workers)
          /\ DeferUncharged(x) \in RowOf(Workers)
      BY <3>1, RowTypes
    <3> QED BY <3>1, <3>3, <3>5, <3>6, <3>7
  <2>3. box' = [k \in Boxes |-> box'[k]]
    BY DEF Next, vars, Claim, WorkerStep, InstructRead, RefundRead, InstructGate,
           InstructPost, InstructAck, MockRead, MockSettle, RefundAsk, RefundComplete,
           Finish, HandBack, Crash, CallbackStep, PaidOutCallback, PaidOutUpdate,
           PaidOutRefused, FailureCallback, RefundNotice, LateCharge, DisputeNotice, SenderStep,
           WindowCloses, SenderCancel, SenderEscalate, RefundRequest, StaffStep,
           StaffRelease, StaffReject, IssueRefund, ApproveRefund, DismissRefund,
           RetryRefund, OpsRetryDead, OpsDismiss, PartnerReplay, SweepReinstruct,
           SweepAlerts, Queue
  <2> QED BY <2>2, <2>3
<1>3. work' \in [Workers -> Task]
  <2>1. work \in [Workers -> Task] BY Types
  <2>2. ASSUME NEW w \in Workers PROVE work'[w] \in Task
    BY <2>1, WorkMove, WorkMoves
       DEF Stands, Starting, Goes, Claim, Task, Stage
  <2>3. work' = [w \in Workers |-> work'[w]]
    BY DEF Next, vars, others, Claim, WorkerStep, InstructRead, RefundRead, InstructGate,
           InstructPost, InstructAck, MockRead, MockSettle, RefundAsk, RefundComplete,
           Finish, HandBack, Crash, CallbackStep, PaidOutCallback, PaidOutUpdate,
           PaidOutRefused, FailureCallback, RefundNotice, LateCharge, DisputeNotice, SenderStep,
           WindowCloses, SenderCancel, SenderEscalate, RefundRequest, StaffStep,
           StaffRelease, StaffReject, IssueRefund, ApproveRefund, DismissRefund,
           RetryRefund, OpsRetryDead, OpsDismiss, PartnerReplay, SweepReinstruct,
           SweepAlerts, Go, Rest
  <2> QED BY <2>2, <2>3
<1>4. call' \in [Callbacks -> {"idle", "update", "refused", "conflict"}]
  <2>1. ASSUME NEW c \in Callbacks, CallbackStep(c) PROVE <1>4
    BY <2>1 DEF CallbackStep, PaidOutCallback, PaidOutUpdate, PaidOutRefused
  <2> QED
    BY <2>1
       DEF Next, vars, others, Claim, WorkerStep, InstructRead, RefundRead,
           InstructGate, InstructPost, InstructAck, MockRead, MockSettle, RefundAsk,
           RefundComplete, Finish, HandBack, Crash, FailureCallback, RefundNotice,
           LateCharge, DisputeNotice, SenderStep, WindowCloses, SenderCancel, SenderEscalate,
           RefundRequest, StaffStep, StaffRelease, StaffReject, IssueRefund,
           ApproveRefund, DismissRefund, RetryRefund, OpsRetryDead, OpsDismiss,
           PartnerReplay, SweepReinstruct, SweepAlerts
<1>5. keys' \subseteq {"stage1", "railamount"} \cup Watched
  <2>1. \A n : Notify(n) => <1>5 BY DEF Notify
  <2>2. keys' = keys => <1>5 OBVIOUS
  <2>3. ASSUME NEW w \in Workers, WorkerStep(w) PROVE <1>5
    BY <2>1, <2>2, <2>3
       DEF WorkerStep, InstructRead, RefundRead, InstructGate, InstructPost,
           InstructAck, MockRead, MockSettle, RefundAsk, RefundComplete, Finish
  <2>4. ASSUME NEW c \in Callbacks, CallbackStep(c) PROVE <1>5
    BY <2>1, <2>2, <2>4 DEF CallbackStep, PaidOutCallback, PaidOutUpdate, PaidOutRefused
  <2>5. CASE FailureCallback \/ RefundNotice \/ LateCharge \/ DisputeNotice \/ SenderStep
    BY <2>1, <2>2, <2>5
       DEF FailureCallback, RefundNotice, LateCharge, DisputeNotice, SenderStep, WindowCloses,
           SenderCancel, SenderEscalate, RefundRequest
  <2>6. CASE StaffStep \/ SweepReinstruct \/ SweepAlerts \/ UNCHANGED vars
    BY <2>1, <2>2, <2>6
       DEF StaffStep, StaffRelease, StaffReject, IssueRefund, ApproveRefund,
           DismissRefund, RetryRefund, OpsRetryDead, OpsDismiss, PartnerReplay,
           SweepReinstruct, SweepAlerts, vars
  <2>7. ASSUME NEW w \in Workers,
               HandBack(w) \/ Crash(w) \/ \E k \in Boxes : Claim(w, k)
        PROVE  <1>5
    BY <2>2, <2>7 DEF HandBack, Crash, Claim
  <2> QED BY <2>3, <2>4, <2>5, <2>6, <2>7 DEF Next
<1>6. /\ told' = told \/ told' = TRUE
      /\ reversed' = reversed \/ reversed' = TRUE
      /\ cancelled' = cancelled \/ cancelled' = TRUE
  BY DEF Next, vars, others, Claim, WorkerStep, InstructRead, RefundRead,
         InstructGate, InstructPost, InstructAck, MockRead, MockSettle, RefundAsk,
         RefundComplete, Finish, HandBack, Crash, CallbackStep, PaidOutCallback,
         PaidOutUpdate, PaidOutRefused, FailureCallback, RefundNotice,
         LateCharge, DisputeNotice, SenderStep, WindowCloses, SenderCancel, SenderEscalate,
         RefundRequest, StaffStep, StaffRelease, StaffReject, IssueRefund,
         ApproveRefund, DismissRefund, RetryRefund, OpsRetryDead, OpsDismiss,
         PartnerReplay, SweepReinstruct, SweepAlerts
<1>7. windowOpen' \in BOOLEAN
  <2>1. CASE WindowCloses BY <2>1 DEF WindowCloses
  <2>2. ASSUME NEW w \in Workers, Finish(w) PROVE <1>7
    BY <2>2 DEF Finish
  <2>3. CASE windowOpen' = windowOpen BY <2>3
  <2> QED
    BY <2>1, <2>2, <2>3
       DEF Next, vars, others, Claim, WorkerStep, InstructRead, RefundRead,
           InstructGate, InstructPost, InstructAck, MockRead, MockSettle, RefundAsk,
           RefundComplete, HandBack, Crash, CallbackStep, PaidOutCallback,
           PaidOutUpdate, PaidOutRefused, FailureCallback, RefundNotice,
           LateCharge, DisputeNotice, SenderStep, SenderCancel, SenderEscalate, RefundRequest,
           StaffStep, StaffRelease, StaffReject, IssueRefund, ApproveRefund,
           DismissRefund, RetryRefund, OpsRetryDead, OpsDismiss, PartnerReplay,
           SweepReinstruct, SweepAlerts
<1> QED BY <1>1, <1>2, <1>3, <1>4, <1>5, <1>6, <1>7 DEF RowOf, Task, Stage

-----------------------------------------------------------------------------
(* Who holds a row: at most the worker its lease names. *)
Owned ==
    \A w \in Workers : work[w].pc # "idle" =>
        box[work[w].key].st = "processing" /\ box[work[w].key].lease = w
Charged == \A k \in Boxes : box[k].st = "processing" => box[k].attempts > 0
Errands ==
    \A w \in Workers :
        /\ work[w].pc \in {"checked", "send", "ack"} => work[w].key \in Instructions
        /\ work[w].pc = "settle" => work[w].key = "mocksettle"
        /\ work[w].pc \in {"return", "complete"} => work[w].key \in RefundKeys
Desk == Owned /\ Charged /\ Errands

(* A worker's step, in its two columns. *)
LEMMA WorkColumns ==
    ASSUME TypeOK, NEW w \in Workers
    PROVE  /\ work[w].pc \in Stage /\ work[w].key \in Boxes
           /\ Rest(w) => work'[w].pc = "idle" /\ work'[w].key = "refund"
           /\ \A pc \in Stage : Go(w, pc) =>
                 work'[w].pc = pc /\ work'[w].key = work[w].key
           /\ \A k \in Boxes : Claim(w, k) =>
                 /\ work'[w].pc = "claimed" /\ work'[w].key = k
                 /\ box'[k] = Claimed(box[k], w)
                 /\ work[w].pc = "idle" /\ (Waiting(box[k]) \/ Abandoned(k))
<1>1. work \in [Workers -> Task] /\ box \in [Boxes -> RowOf(Workers)] BY Types
<1>2. work[w].pc \in Stage /\ work[w].key \in Boxes BY <1>1 DEF Task
<1> QED BY <1>1, <1>2, WorkMoves DEF Claim

(* A row in a worker's hands is left to that worker. *)
LEMMA HeldRow ==
    ASSUME TypeOK, Desk, [Next]_vars, NEW w \in Workers, work[w].pc # "idle"
    PROVE  \/ Kept(work[w].key)
           \/ LetGo(work[w].key, w) /\ work'[w].pc = "idle"
<1> DEFINE k == work[w].key
<1>1. /\ k \in Boxes /\ box[k].st = "processing" /\ box[k].lease = w
      /\ box[k].attempts > 0
  BY WorkColumns DEF Desk, Owned, Charged
<1>2. ~Taken(k) BY <1>1 DEF Taken, Claim, Waiting, Abandoned
<1>3. \A v \in Workers : LetGo(k, v) => v = w BY <1>1 DEF LetGo, Owns
<1> QED
  BY <1>1, <1>2, <1>3, BoxMoves, WorkColumns
     DEF Added, Fresh, LetGo, Revived, Dropped, Withdrawn, NeverClaimed

(* Every step keeps the leases and the errands true. *)
LEMMA DeskStep == TypeOK /\ Desk /\ [Next]_vars => Desk'
<1> SUFFICES ASSUME TypeOK, Desk, [Next]_vars PROVE Desk' OBVIOUS
<1>1. ASSUME NEW w \in Workers, work'[w].pc # "idle"
      PROVE  /\ box'[work'[w].key].st = "processing"
             /\ box'[work'[w].key].lease = w
             /\ work'[w].pc \in {"checked", "send", "ack"} => work'[w].key \in Instructions
             /\ work'[w].pc = "settle" => work'[w].key = "mocksettle"
             /\ work'[w].pc \in {"return", "complete"} => work'[w].key \in RefundKeys
  <2>1. CASE Stands(w)
    BY <1>1, <2>1, HeldRow DEF Stands, Kept, Desk, Owned, Errands
  <2>2. CASE Starting(w)
    <3>1. PICK k \in Boxes : Claim(w, k) BY <2>2 DEF Starting
    <3>2. box[k] \in RowOf(Workers) BY Types
    <3> QED BY <3>1, <3>2, WorkColumns, RowColumns
  <2>3. CASE Rest(w) BY <1>1, <2>3, WorkColumns
  <2>4. CASE Goes(w)
    BY <2>4, WorkColumns DEF Goes, Desk, Owned, Errands, Stage
  <2> QED BY <2>1, <2>2, <2>3, <2>4, WorkMove
<1>2. ASSUME NEW k \in Boxes, box'[k].st = "processing" PROVE box'[k].attempts > 0
  <2>1. box[k] \in RowOf(Workers) /\ box[k].attempts \in Nat BY Types DEF RowOf
  <2>2. CASE Taken(k) BY <2>1, <2>2, RowColumns, WorkColumns DEF Taken
  <2>3. CASE Kept(k) BY <1>2, <2>3 DEF Kept, Desk, Charged
  <2> QED
    BY <1>2, <2>1, <2>2, <2>3, BoxMoves, RowColumns
       DEF Added, LetGo, Revived, Dropped, Withdrawn
<1> QED BY <1>1, <1>2 DEF Desk, Owned, Charged, Errands

-----------------------------------------------------------------------------
(* What the rail may have heard.  An instruction that was sent left its mark
   in the outbox: its row is done, or charged for more than the run that may
   still hand it back. *)
Pre == {"claimed", "checked", "send"}
Sent(k) ==
    \/ box[k].st = "done"
    \/ /\ Live(box[k]) /\ box[k].attempts > 0
       /\ \A w \in Workers : work[w].key = k /\ work[w].pc \in Pre => box[k].attempts > 1
SentIsMarked ==
    told /\ windowOpen /\ "stage1" \in keys => \E k \in Instructions : Sent(k)
WindowShut == windowOpen => \A k \in Instructions : box[k].st # "dead"
Halted ==
    cancelled => /\ ~told /\ t.status = "cancelled"
                 /\ \A k \in RailKeys : box[k].st \in {"absent", "done"}
SendsLive ==
    ~told => \A w \in Workers :
        work[w].pc \in {"checked", "send"} => t.status \in {"paid", "delivered"}
Known == t.status \in {"paid", "in_review", "delivered", "cancelled"}
IInv == /\ TypeOK /\ Desk /\ WindowShut /\ SentIsMarked /\ Halted /\ SendsLive
        /\ Known /\ RefundKeyFollowsLedger

(* What only ever goes one way, and by which steps. *)
LEMMA Ratchets ==
    ASSUME [Next]_vars
    PROVE  /\ windowOpen' => windowOpen
           /\ told' => told \/ \E w \in Workers : InstructPost(w)
           /\ told => told'
           /\ cancelled' => cancelled \/ SenderCancel
<1>1. ASSUME NEW w \in Workers, Finish(w)
      PROVE  (windowOpen' => windowOpen) /\ told' = told /\ cancelled' = cancelled
  BY <1>1 DEF Finish
<1>2. ASSUME NEW w \in Workers, InstructPost(w)
      PROVE  windowOpen' = windowOpen /\ told' \in {told, TRUE} /\ cancelled' = cancelled
  BY <1>2 DEF InstructPost
<1>3. CASE WindowCloses
  BY <1>3 DEF WindowCloses
<1>4. CASE SenderCancel
  BY <1>4 DEF SenderCancel
<1>5. CASE UNCHANGED <<windowOpen, told, cancelled>>
  BY <1>5
<1> QED
  BY <1>1, <1>2, <1>3, <1>4, <1>5
     DEF Next, vars, others, Claim, WorkerStep, InstructRead, RefundRead,
         InstructGate, InstructAck, MockRead, MockSettle, RefundAsk,
         RefundComplete, HandBack, Crash, CallbackStep, PaidOutCallback,
         PaidOutUpdate, PaidOutRefused, FailureCallback, RefundNotice,
         LateCharge, DisputeNotice, SenderStep, SenderEscalate, RefundRequest, StaffStep,
         StaffRelease, StaffReject, IssueRefund, ApproveRefund, DismissRefund,
         RetryRefund, OpsRetryDead, OpsDismiss, PartnerReplay, SweepReinstruct,
         SweepAlerts

(* The claim that announces a transfer is not made twice. *)
LEMMA StageStays ==
    ASSUME [Next]_vars, "stage1" \in keys'
    PROVE  "stage1" \in keys
<1>1. \A n : Notify(n) => "stage1" \in keys BY DEF Notify, Notices
<1>2. ASSUME NEW w \in Workers, WorkerStep(w) PROVE "stage1" \in keys
  BY <1>1, <1>2
     DEF WorkerStep, InstructRead, RefundRead, InstructGate, InstructPost,
         InstructAck, MockRead, MockSettle, RefundAsk, RefundComplete, Finish
<1>3. ASSUME NEW c \in Callbacks, CallbackStep(c) PROVE "stage1" \in keys
  BY <1>1, <1>3 DEF CallbackStep, PaidOutCallback, PaidOutUpdate, PaidOutRefused
<1>4. CASE FailureCallback \/ RefundNotice \/ LateCharge \/ DisputeNotice \/ SenderStep
  BY <1>1, <1>4
     DEF FailureCallback, RefundNotice, LateCharge, DisputeNotice, SenderStep,
         WindowCloses, SenderCancel, SenderEscalate, RefundRequest
<1>5. CASE StaffStep \/ SweepReinstruct \/ SweepAlerts \/ UNCHANGED vars
  BY <1>1, <1>5
     DEF StaffStep, StaffRelease, StaffReject, IssueRefund, ApproveRefund,
         DismissRefund, RetryRefund, OpsRetryDead, OpsDismiss, PartnerReplay,
         SweepReinstruct, SweepAlerts, vars
<1>6. ASSUME NEW w \in Workers,
             HandBack(w) \/ Crash(w) \/ \E k \in Boxes : Claim(w, k)
      PROVE  "stage1" \in keys
  BY <1>6 DEF HandBack, Crash, Claim
<1> QED BY <1>2, <1>3, <1>4, <1>5, <1>6 DEF Next

(* Who adds a row to the outbox. *)
LEMMA WhoAdds ==
    ASSUME TypeOK, [Next]_vars, NEW k \in Boxes, Added(k)
    PROVE  /\ k \in RailKeys =>
                 \/ StaffRelease /\ k \in {"instruct", "mocksettle"}
                 \/ SweepReinstruct /\ k = "reinstruct"
           /\ k \in RefundKeys => t'.refund \in {"pending", "completed"}
<1> USE DEF TypeOK
<1>1. box[k].st = "absent" /\ box'[k].st = "pending" /\ box'[k] # box[k]
  BY DEF Added, Fresh, Queued, Absent
<1>2. ASSUME NEW j \in Boxes, Queue(j) PROVE k = j
  BY <1>1, <1>2 DEF Queue
<1>3. t.refund \in RefundStatus BY DEF Transfer
<1>4. \A x \in Transfer, r \in RefundStatus : WithRefund(x, r).refund = r
  BY DEF WithRefund, Transfer
<1>5. CASE StaffReject
  <2>1. k = "refund" /\ t.fundingRef
    BY <1>1, <1>2, <1>5 DEF StaffReject, Boxes, RefundKeys
  <2>2. /\ WithStatus(t, "cancelled") \in Transfer
        /\ WithStatus(t, "cancelled").refund = t.refund
    <3>1. t \in Transfer OBVIOUS
    <3>2. \A s \in Status : WithStatus(t, s).refund = t.refund
      BY <3>1 DEF WithStatus, Transfer
    <3>3. "cancelled" \in Status BY DEF Status
    <3> QED BY <3>1, <3>2, <3>3, LedgerTypes
  <2> DEFINE c == WithStatus(t, "cancelled")
  <2>3. t' = IF MayRefund(c, "pending") THEN WithRefund(c, "pending") ELSE c
    BY <1>5, <2>1 DEF StaffReject
  <2>4. MayRefund(c, "pending") \/ c.refund \in {"pending", "completed"}
    BY <1>3, <2>2 DEF MayRefund, LegalRefundFrom, RefundStatus
  <2>5. WithRefund(c, "pending").refund = "pending" BY <1>4, <2>2 DEF RefundStatus
  <2> HIDE DEF c
  <2>6. t'.refund \in {"pending", "completed"} BY <2>3, <2>4, <2>5
  <2> QED BY <2>1, <2>6 DEF RailKeys, Instructions
<1>6. CASE FailureCallback
  BY <1>1, <1>6 DEF FailureCallback, RailKeys, Instructions
<1>7. CASE SenderCancel
  BY <1>1, <1>7 DEF SenderCancel, Fresh, RailKeys, Instructions
<1>8. CASE IssueRefund \/ ApproveRefund
  BY <1>2, <1>4, <1>8
     DEF IssueRefund, ApproveRefund, Boxes, RefundKeys, RailKeys, Instructions,
         RefundStatus
<1>9. ASSUME NEW j \in Retries, RetryRefund(j)
      PROVE  k \notin RailKeys /\ t'.refund = "pending"
  BY <1>2, <1>4, <1>9
     DEF RetryRefund, Boxes, RefundKeys, RailKeys, Instructions, RefundStatus
<1>10. CASE StaffRelease \/ SweepReinstruct
  BY <1>2, <1>10
     DEF StaffRelease, SweepReinstruct, Boxes, RailKeys, Instructions, RefundKeys
<1>11. ASSUME NEW j \in Boxes, OpsRetryDead(j) \/ OpsDismiss(j) \/ PartnerReplay(j)
       PROVE  FALSE
  BY <1>1, <1>11 DEF OpsRetryDead, OpsDismiss, PartnerReplay, MayRetryDead
<1>12. ASSUME NEW w \in Workers, NEW j \in Boxes, Claim(w, j) PROVE FALSE
  BY <1>1, <1>12 DEF Claim, Waiting, Abandoned
<1>13. ASSUME NEW w \in Workers, HandBack(w) \/ InstructGate(w) PROVE FALSE
  <2>1. box' = box \/ MayHandBack(box[work[w].key], w) BY <1>13 DEF HandBack, InstructGate
  <2> QED BY <1>1, <1>13, <2>1 DEF HandBack, InstructGate, MayHandBack
<1>14. ASSUME NEW w \in Workers, Finish(w) PROVE FALSE
  <2>1. box'[k] \in {MarkDone(box[k]), MarkFailed(box[k], Ceiling)}
    BY <1>1, <1>14 DEF Finish
  <2>2. Ceiling \in Nat /\ box[k] \in RowOf(Workers) BY Types
  <2>3. MarkDone(box[k]).st = "done" /\ MarkFailed(box[k], Ceiling).st \in {"failed", "dead"}
    <3> HIDE DEF TypeOK
    <3> QED BY <2>2, RowColumns
  <2>4. box'[k].st \in {"done", "failed", "dead"}
    <3> HIDE DEF TypeOK
    <3> QED BY <2>1, <2>3
  <2> QED BY <1>1, <2>4
<1>15. \/ StaffReject \/ FailureCallback \/ SenderCancel \/ IssueRefund \/ ApproveRefund
       \/ StaffRelease \/ SweepReinstruct
       \/ (\E j \in Retries : RetryRefund(j))
       \/ (\E j \in Boxes : OpsRetryDead(j) \/ OpsDismiss(j) \/ PartnerReplay(j))
       \/ (\E w \in Workers, j \in Boxes : Claim(w, j))
       \/ (\E w \in Workers : HandBack(w) \/ InstructGate(w) \/ Finish(w))
  BY <1>1
     DEF Next, vars, others, WorkerStep, InstructRead, RefundRead, InstructPost,
         InstructAck, MockRead, MockSettle, RefundAsk, RefundComplete, Crash,
         CallbackStep, PaidOutCallback, PaidOutUpdate, PaidOutRefused,
         RefundNotice, LateCharge, DisputeNotice, SenderStep, WindowCloses, SenderEscalate,
         RefundRequest, StaffStep, DismissRefund, SweepAlerts
<1> QED
  BY <1>5, <1>6, <1>7, <1>8, <1>9, <1>10, <1>11, <1>12, <1>13, <1>14, <1>15
     DEF RailKeys, Instructions, RefundKeys

(* The instructions of a transfer whose window is open were never given up. *)
LEMMA WindowStep == IInv /\ [Next]_vars => WindowShut'
<1> SUFFICES ASSUME IInv, [Next]_vars, windowOpen', NEW k \in Instructions,
                    box'[k].st = "dead"
             PROVE  FALSE
  BY DEF WindowShut
<1>1. k \in Boxes /\ box[k] \in RowOf(Workers) /\ TypeOK
  BY Types DEF IInv, Boxes, RailKeys
<1>2. box[k].st # "dead" BY Ratchets DEF IInv, WindowShut
<1>3. ~Taken(k) BY <1>1, RowColumns, WorkColumns DEF Taken
<1> QED
  BY <1>1, <1>2, <1>3, BoxMoves, RowColumns
     DEF Kept, Added, LetGo, Revived, Dropped, Withdrawn

(* The mark an instruction left stays while the window is open. *)
LEMMA SentStays ==
    ASSUME IInv, [Next]_vars, windowOpen', NEW k \in Instructions, Sent(k)
    PROVE  Sent(k)'
<1>1. /\ k \in Boxes /\ k \in RailKeys /\ TypeOK /\ box[k] \in RowOf(Workers)
      /\ box[k].attempts \in Nat
  BY Types DEF IInv, Boxes, RailKeys, RowOf
<1>2. Desk' BY DeskStep DEF IInv
<1>3. /\ box[k].st # "dead" /\ box'[k].st # "dead"
  BY WindowStep, Ratchets DEF IInv, WindowShut
<1>4. box'[k].st = "processing" \/ \A w \in Workers : work'[w].key = k => work'[w].pc \notin Pre
  BY <1>2 DEF Desk, Owned, Pre
<1>5. CASE Taken(k)
  BY <1>1, <1>5, RowColumns, WorkColumns DEF Taken, Sent, Live, Abandoned, Waiting
<1>6. CASE Kept(k)
  <2>1. ASSUME NEW w \in Workers, work'[w].key = k, work'[w].pc \in Pre, Live(box[k])
        PROVE  work[w].key = k /\ work[w].pc \in Pre
    <3>1. CASE Starting(w)
      <4>1. Claim(w, k) BY <1>1, <2>1, <3>1, WorkColumns DEF Starting
      <4> QED BY <1>1, <1>6, <4>1, RowColumns, WorkColumns DEF Kept, RowOf
    <3>2. CASE Goes(w)
      BY <1>1, <2>1, <3>2, WorkColumns DEF Goes, Pre, Stage
    <3> QED
      BY <1>1, <2>1, <3>1, <3>2, WorkMove, WorkColumns DEF Stands, Pre
  <2> QED BY <1>6, <2>1 DEF Kept, Sent
<1>7. ASSUME NEW w \in Workers, LetGo(k, w) PROVE Sent(k)'
  <2>1. box[k].st # "done"
    BY <1>7 DEF LetGo, IInv, Desk, Owned
  <2>2. box[k].attempts > 0 /\ (work[w].pc \in Pre => box[k].attempts > 1)
    BY <1>7, <2>1 DEF LetGo, Sent
  <2>3. box'[k].st = "done" \/ (Live(box'[k]) /\ box'[k].attempts > 0)
    BY <1>1, <1>3, <1>7, <2>2, RowColumns DEF LetGo, Live, Pre
  <2>4. box'[k].st # "processing"
    BY <1>1, <1>7, RowColumns DEF LetGo
  <2> QED BY <1>4, <2>3, <2>4 DEF Sent
<1>8. ~Added(k) /\ ~Revived(k) /\ ~Dropped(k) /\ ~Withdrawn(k)
  BY <1>3 DEF Added, Fresh, Revived, Dropped, Withdrawn, NeverClaimed, Sent, Live
<1> QED BY <1>1, <1>5, <1>6, <1>7, <1>8, BoxMoves

(* An instruction that is sent leaves its mark. *)
LEMMA SentStep == IInv /\ [Next]_vars => SentIsMarked'
<1> SUFFICES ASSUME IInv, [Next]_vars, told', windowOpen', "stage1" \in keys'
             PROVE  \E k \in Instructions : Sent(k)'
  BY DEF SentIsMarked
<1>1. CASE told
  BY <1>1, SentStays, Ratchets, StageStays DEF IInv, SentIsMarked
<1>2. ASSUME NEW w \in Workers, InstructPost(w)
      PROVE  TypeOK /\ work[w].pc = "send" /\ box' = box /\ work[w].key \in Instructions
  BY <1>2 DEF IInv, Desk, Errands, InstructPost
<1>3. ASSUME NEW w \in Workers, NEW k \in Instructions, InstructPost(w), work[w].key = k
      PROVE  Sent(k)'
  <2>1. /\ box[k].st = "processing" /\ box[k].lease = w /\ box[k].attempts > 0
        /\ k \in Boxes
    BY <1>2, <1>3, WorkColumns DEF IInv, Desk, Owned, Charged
  <2>2. work'[w].pc \notin Pre
    BY <1>2, <1>3, WorkColumns DEF InstructPost, Stage, Pre
  <2>3. ASSUME NEW v \in Workers, work'[v].key = k, work'[v].pc \in Pre PROVE FALSE
    <3>1. box'[k].lease = v BY <2>3, DeskStep DEF IInv, Desk, Owned, Pre
    <3>2. v = w BY <1>2, <1>3, <2>1, <3>1
    <3> QED BY <2>2, <2>3, <3>2
  <2> QED BY <1>2, <1>3, <2>1, <2>3 DEF Sent, Live
<1> QED BY <1>1, <1>2, <1>3, Ratchets

(* A cancelled transfer stays where the sender's cancel left it. *)
LEMMA HaltedStep == IInv /\ [Next]_vars => Halted'
<1> SUFFICES ASSUME IInv, [Next]_vars, cancelled'
             PROVE  /\ ~told' /\ t'.status = "cancelled"
                    /\ \A k \in RailKeys : box'[k].st \in {"absent", "done"}
  BY DEF Halted
<1> TypeOK /\ t \in Transfer /\ \A k \in RailKeys : k \in Boxes /\ box[k] \in RowOf(Workers)
  BY Types DEF IInv, TypeOK, Boxes
<1>1. CASE SenderCancel
  <2>1. ~told
    <3> SUFFICES ASSUME told PROVE FALSE OBVIOUS
    <3>1. windowOpen /\ "stage1" \in keys
      BY <1>1 DEF SenderCancel, CancelEligible, ProvablyUnsent
    <3>2. PICK k \in Instructions : Sent(k) BY <3>1 DEF IInv, SentIsMarked
    <3>3. ~Fresh(k) BY <3>2 DEF Sent, Live, Fresh
    <3>4. NeverClaimed(box[k])
      BY <1>1, <3>3 DEF SenderCancel, ProvablyUnsent, RailKeys
    <3> QED BY <3>2, <3>4 DEF Sent, NeverClaimed
  <2>2. t'.status = "cancelled" BY <1>1 DEF SenderCancel, FailPaid, Transfer
  <2>3. ASSUME NEW k \in RailKeys PROVE box'[k].st \in {"absent", "done"}
    BY <1>1, <2>3, RowColumns DEF SenderCancel, Fresh, RailKeys, Instructions
  <2> QED BY <1>1, <2>1, <2>2, <2>3 DEF SenderCancel
<1>2. CASE cancelled /\ ~SenderCancel
  <2>1. /\ ~told /\ t.status = "cancelled"
        /\ \A k \in RailKeys : box[k].st \in {"absent", "done"}
    BY <1>2 DEF IInv, Halted
  <2>2. ASSUME NEW w \in Workers, InstructPost(w) PROVE FALSE
    BY <2>1, <2>2 DEF InstructPost, IInv, Desk, Owned, Errands, RailKeys
  <2>3. ~Delivers BY <2>1, AdvanceFrom DEF Delivers
  <2>4. t'.status = t.status
    BY <2>1, <2>3, LedgerMoves
       DEF Decides, Aborts, Releases, Rejects, Annotates, WithRefund, SetProviderRef,
           FundingReturn, SetFundingRef, Transfer
  <2>5. ASSUME NEW k \in RailKeys PROVE box'[k].st \in {"absent", "done"}
    <3>1. ~Taken(k) BY <2>1 DEF Taken, Claim, Waiting, Abandoned
    <3>2. ~Added(k)
      BY <2>1, WhoAdds DEF StaffRelease, MayRelease, SweepReinstruct, IsStuckPaid
    <3>3. \A w \in Workers : ~LetGo(k, w)
      BY <2>1 DEF LetGo, IInv, Desk, Owned
    <3> QED
      BY <2>1, <3>1, <3>2, <3>3, BoxMoves, RowColumns
         DEF Kept, Revived, Dropped, Withdrawn
  <2> QED BY <2>1, <2>2, <2>4, <2>5, Ratchets
<1> QED BY <1>1, <1>2, Ratchets

(* Nothing is about to be sent of a transfer that closed unheard of. *)
LEMMA SendsStep == IInv /\ [Next]_vars => SendsLive'
<1> SUFFICES ASSUME IInv, [Next]_vars, ~told', NEW w \in Workers,
                    work'[w].pc \in {"checked", "send"}
             PROVE  t'.status \in {"paid", "delivered"}
  BY DEF SendsLive
<1> TypeOK /\ t \in Transfer BY DEF IInv, TypeOK
<1>1. ~told BY Ratchets
<1>2. CASE Goes(w)
  BY <1>1, <1>2, WorkColumns DEF Goes, Stage, IInv, SendsLive
<1>3. CASE Stands(w)
  <2>1. work[w].pc \in {"checked", "send"} BY <1>3 DEF Stands
  <2>2. t.status \in {"paid", "delivered"} BY <1>1, <2>1 DEF IInv, SendsLive
  <2>3. ~SenderCancel
    BY <2>1
       DEF IInv, Desk, Owned, Errands, RailKeys, SenderCancel, ProvablyUnsent, Fresh,
           NeverClaimed
  <2>4. ~Aborts BY <1>1, <2>3 DEF Aborts
  <2> QED
    BY <2>2, <2>4, LedgerMoves
       DEF Delivers, Decides, Releases, Rejects, Annotates, WithStatus, WithRefund,
           SetProviderRef, FundingReturn, SetFundingRef, Transfer
<1> QED BY <1>2, <1>3, WorkMove, WorkColumns DEF Starting

(* A return was decided, and a decided return never comes back to a state that
   another decision may spend. *)
Decided == t.refund \in {"pending", "completed", "failed"}
LEMMA DecidedStays ==
    ASSUME TypeOK, Decided, [Next]_vars
    PROVE  Decided'
<1> t \in Transfer BY DEF TypeOK
<1> USE DEF Decided
<1>1. CASE Decides
  <2>1. PICK next \in RefundStatus : MayRefund(t, next) /\ t' = WithRefund(t, next)
    BY <1>1 DEF Decides
  <2>2. t'.refund = next BY <2>1 DEF WithRefund, Transfer
  <2> QED BY <2>1, <2>2 DEF MayRefund, LegalRefundFrom, RefundStatus
<1>2. CASE Aborts BY <1>2 DEF Aborts, FailPaid, Transfer
<1>3. CASE Rejects BY <1>3 DEF Rejects, WithStatus, WithRefund, Transfer
<1>4. CASE Delivers \/ Releases
  BY <1>4 DEF Delivers, Releases, WithStatus, SetProviderRef, Transfer
<1>5. CASE Annotates
  BY <1>5 DEF Annotates, SetProviderRef, FundingReturn, SetFundingRef, Transfer
<1> QED BY <1>1, <1>2, <1>3, <1>4, <1>5, LedgerMoves

(* The key of a return exists only while the ledger says a return was
   decided. *)
LEMMA RefundKeyStep == IInv /\ [Next]_vars => RefundKeyFollowsLedger'
<1> SUFFICES ASSUME IInv, [Next]_vars, box'["refund"].st # "absent"
             PROVE  t'.refund \in {"pending", "completed", "failed"}
  BY DEF RefundKeyFollowsLedger, Fresh
<1> TypeOK /\ t \in Transfer /\ "refund" \in Boxes
  BY DEF IInv, TypeOK, Boxes, RefundKeys
<1>1. CASE Fresh("refund")
  <2>1. ~Kept("refund") BY <1>1 DEF Kept, Fresh
  <2>2. ~Taken("refund") BY <1>1 DEF Taken, Claim, Waiting, Abandoned, Fresh
  <2>3. \A w \in Workers : ~LetGo("refund", w)
    BY <1>1 DEF LetGo, IInv, Desk, Owned, Fresh
  <2>4. ~Revived("refund") /\ ~Dropped("refund") /\ ~Withdrawn("refund")
    BY <1>1 DEF Revived, Dropped, Withdrawn, NeverClaimed, Fresh
  <2> QED BY <2>1, <2>2, <2>3, <2>4, BoxMoves, WhoAdds DEF RefundKeys
<1>2. CASE ~Fresh("refund")
  BY <1>2, DecidedStays DEF IInv, RefundKeyFollowsLedger, Decided
<1> QED BY <1>1, <1>2

-----------------------------------------------------------------------------
(* The invariant, and what follows from it. *)

(* A transfer enters with nothing heard and nothing held. *)
LEMMA InvariantInit == Init => IInv
<1> SUFFICES ASSUME Init PROVE IInv OBVIOUS
<1>1. TypeOK BY TypeInit
<1>2. "refund" \in Boxes BY DEF Boxes, RefundKeys
<1>3. \A k \in Boxes : box[k] = Absent \/ (box[k] = Queued /\ k # "refund") BY Entry
<1>4. \A k \in Boxes : box[k].st \in {"absent", "pending"}
  BY <1>3 DEF Queued, Absent
<1>6. Desk BY <1>4 DEF Init, Desk, Owned, Charged, Errands, IdleWorker
<1>7. RefundKeyFollowsLedger
  BY <1>2, <1>3 DEF RefundKeyFollowsLedger, Fresh, Absent
<1>8. Known BY Entry DEF Known
<1>9. WindowShut BY <1>4 DEF WindowShut, Boxes, RailKeys
<1>10. SentIsMarked /\ Halted /\ SendsLive
  BY Entry DEF Init, SentIsMarked, Halted, SendsLive, IdleWorker
<1> QED BY <1>1, <1>6, <1>7, <1>8, <1>9, <1>10 DEF IInv

(* A transfer that took money stays within the statuses of one that did. *)
LEMMA KnownStep == IInv /\ [Next]_vars => Known'
<1> SUFFICES ASSUME IInv, [Next]_vars PROVE Known' OBVIOUS
<1>1. TypeOK' /\ TypeOK BY TypeStep DEF IInv
<1>2. t'.status \notin {"awaiting_payment", "blocked"}
  BY <1>1, LifecycleStep DEF IInv, Known
<1> QED BY <1>1, <1>2 DEF TypeOK, Transfer, Status, Known

(* The inductive invariant: leases name who runs, sent instructions are
   marked, cancelled transfers are halted, returns have their key. *)
THEOREM PayoutInvariant == Spec => []IInv
<1>1. IInv /\ [Next]_vars => IInv'
  BY TypeStep, DeskStep, WindowStep, SentStep, HaltedStep, SendsStep, KnownStep,
     RefundKeyStep
     DEF IInv
<1> QED BY <1>1, InvariantInit, PTL DEF Spec

(* The transfer, its outbox rows and everybody's place stay well-formed. *)
THEOREM PayoutTypeCorrect == Spec => []TypeOK
<1>1. IInv => TypeOK BY DEF IInv
<1> QED BY <1>1, PayoutInvariant, PTL

(* Once a sender was told "cancelled", the rail never heard and never hears of
   the transfer, and no worker is on its way to tell it. *)
THEOREM CancelIsFinal == Spec => []SenderCancelIsFinal
<1>1. IInv => SenderCancelIsFinal
  BY DEF IInv, SenderCancelIsFinal, Halted, Desk, Owned, Errands, RailKeys
<1> QED BY <1>1, PayoutInvariant, PTL

(* The rail first hears of a transfer that is still paid or delivered. *)
THEOREM RailHearsOfLiveRows == Spec => FirstToldWhileLive
<1>1. IInv /\ [Next]_vars => [~told /\ told' => t.status \in {"paid", "delivered"}]_vars
  BY Ratchets DEF IInv, SendsLive, InstructPost
<1> QED BY <1>1, PayoutInvariant, PTL DEF Spec, FirstToldWhileLive

(* A return's first key is in the outbox only while the ledger remembers that a
   return was decided. *)
THEOREM RefundKeyIsBacked == Spec => []RefundKeyFollowsLedger
<1>1. IInv => RefundKeyFollowsLedger BY DEF IInv
<1> QED BY <1>1, PayoutInvariant, PTL

(* The payout of a transfer implements its lifecycle. *)
THEOREM PayoutImplementsLifecycle == Spec => KeepsLifecycle
<1>1. Init => Lifecycle!Init BY Entry DEF Lifecycle!Init
<1>2. IInv /\ [Next]_vars => [Lifecycle!Next]_(Lifecycle!vars)
  BY LifecycleStep DEF IInv, Known
<1> QED BY <1>1, <1>2, PayoutInvariant, PTL DEF Spec, KeepsLifecycle, Lifecycle!Spec

-----------------------------------------------------------------------------
(* Returns.  A pending return is carried by a row that no worker is about to
   finish: whoever finishes one has seen the return end. *)
Carries(k) ==
    /\ box[k].st \notin {"absent", "done"}
    /\ \A w \in Workers : work[w].key = k => work[w].pc # "finish"
Carried == /\ t.status # "in_review"
           /\ t.refund = "pending" => \E k \in RefundKeys : Carries(k)

(* A return that starts brings its own row. *)
LEMMA ReturnStarts ==
    ASSUME IInv, [Next]_vars, t.status # "in_review",
           t.refund # "pending", t'.refund = "pending"
    PROVE  \E k \in RefundKeys : Added(k)
<1> TypeOK /\ t \in Transfer /\ t.refund \in RefundStatus
  BY DEF IInv, TypeOK, Transfer
<1>1. "refund" \in RefundKeys /\ RefundKeys \subseteq Boxes BY DEF RefundKeys, Boxes
<1>2. t.refund \in {"none", "requested"} => Fresh("refund")
  BY DEF IInv, RefundKeyFollowsLedger
<1>3. \A k \in RefundKeys : Queue(k) /\ Fresh(k) => Added(k)
  BY <1>1 DEF Queue, Enqueue, Fresh, Added, TypeOK
<1>4. CASE SenderCancel
  <2>1. t.refund \in {"none", "requested"} BY <1>4 DEF SenderCancel, CancelEligible
  <2> QED
    BY <1>1, <1>2, <1>4, <2>1
       DEF SenderCancel, Added, Enqueue, Fresh, RailKeys, Instructions
<1>5. CASE FailureCallback
  <2>1. MayFailPaid(t) /\ t' = FailPaid(t) BY <1>5 DEF FailureCallback
  <2>2. t.refund \in {"none", "requested"} BY <2>1 DEF FailPaid, Transfer
  <2> QED
    BY <1>1, <1>2, <1>5, <2>1, <2>2
       DEF FailureCallback, Added, Enqueue, Fresh, TypeOK
<1>6. CASE IssueRefund \/ ApproveRefund
  BY <1>1, <1>2, <1>3, <1>6 DEF IssueRefund, ApproveRefund
<1>7. ASSUME NEW k \in Retries, RetryRefund(k) PROVE Added(k) /\ k \in RefundKeys
  BY <1>3, <1>7 DEF RetryRefund, RefundKeys
<1>8. \A r \in RefundStatus : WithRefund(t, r).refund = r BY DEF WithRefund, Transfer
<1>9. ~RefundNotice /\ ~RefundRequest /\ ~DismissRefund /\ ~SenderEscalate
  BY <1>8 DEF RefundNotice, RefundRequest, DismissRefund, SenderEscalate, RefundStatus
<1>10. \A w \in Workers : ~RefundComplete(w)
  BY <1>8 DEF RefundComplete, RefundStatus
<1>11. ~Annotates /\ ~Delivers /\ ~Releases
  BY DEF Annotates, SetProviderRef, FundingReturn, SetFundingRef, Delivers, Releases, WithStatus,
         Transfer
<1>12. ASSUME NEW w \in Workers,
              WorkerStep(w) \/ HandBack(w) \/ Crash(w) \/ \E k \in Boxes : Claim(w, k)
       PROVE  FALSE
  BY <1>10, <1>11, <1>12
     DEF WorkerStep, InstructRead, RefundRead, InstructGate, InstructPost, InstructAck,
         MockRead, MockSettle, RefundAsk, Finish, HandBack, Crash, Claim, Delivers,
         Annotates
<1>13. ASSUME NEW c \in Callbacks, CallbackStep(c) PROVE FALSE
  BY <1>11, <1>13
     DEF CallbackStep, PaidOutCallback, PaidOutUpdate, PaidOutRefused, Delivers,
         Annotates
<1>14. ~LateCharge /\ ~DisputeNotice /\ ~StaffRelease /\ ~StaffReject /\ ~WindowCloses
       /\ ~SweepReinstruct /\ ~SweepAlerts /\ ~UNCHANGED vars
  BY <1>11
     DEF LateCharge, DisputeNotice, StaffRelease, MayRelease, StaffReject, WindowCloses,
         SweepReinstruct, SweepAlerts, vars, Annotates
<1>15. \A k \in Boxes : ~OpsRetryDead(k) /\ ~OpsDismiss(k) /\ ~PartnerReplay(k)
  BY <1>11 DEF OpsRetryDead, OpsDismiss, PartnerReplay, Annotates
<1> QED
  BY <1>1, <1>4, <1>5, <1>6, <1>7, <1>9, <1>12, <1>13, <1>14, <1>15
     DEF Next, SenderStep, StaffStep

(* A row that carries a pending return goes on carrying it. *)
LEMMA CarriesOn ==
    ASSUME IInv, [Next]_vars, "dismiss" \notin Ops, NEW k \in RefundKeys, Carries(k),
           t'.refund = "pending"
    PROVE  Carries(k)'
<1>1. TypeOK /\ k \in Boxes /\ k \notin RailKeys /\ box[k] \in RowOf(Workers)
  BY Types DEF IInv, Boxes, RefundKeys, RailKeys, Instructions
<1>2. box'[k].st \notin {"absent", "done"}
  <2>1. ASSUME NEW w \in Workers, LetGo(k, w) PROVE box'[k] # MarkDone(box[k])
    <3>1. work[w].pc # "finish" BY <2>1 DEF LetGo, Carries
    <3> QED BY <1>1, <2>1, <3>1, RowColumns DEF LetGo
  <2>2. CASE Taken(k) BY <1>1, <2>2, RowColumns, WorkColumns DEF Taken
  <2> QED
    BY <1>1, <2>1, <2>2, BoxMoves, RowColumns
       DEF Carries, Kept, Added, LetGo, Revived, Dropped, Withdrawn
<1>3. ASSUME NEW w \in Workers, work'[w].key = k, work'[w].pc = "finish" PROVE FALSE
  <2>1. CASE Stands(w) BY <1>3, <2>1 DEF Stands, Carries
  <2>2. CASE Goes(w)
    <3>1. work[w].key = k BY <1>1, <1>3, <2>2, WorkColumns DEF Goes
    <3>2. work[w].pc \in {"checked", "ack", "settle"}
      BY <1>1, <1>3, <2>2, <3>1, WorkColumns DEF Goes
    <3> QED BY <1>1, <3>1, <3>2 DEF IInv, Desk, Errands, RailKeys
  <2> QED BY <1>1, <1>3, <2>1, <2>2, WorkMove, WorkColumns DEF Starting
<1> QED BY <1>2, <1>3 DEF Carries

(* No step leaves a pending return without a row. *)
LEMMA CarriedStep ==
    ASSUME "dismiss" \notin Ops
    PROVE  IInv /\ Carried /\ [Next]_vars => Carried'
<1> SUFFICES ASSUME IInv, Carried, [Next]_vars PROVE Carried' OBVIOUS
<1>1. TypeOK /\ t \in Transfer /\ RefundKeys \subseteq Boxes
  BY DEF IInv, TypeOK, Boxes
<1>2. t'.status # "in_review"
  BY <1>1, LedgerMoves
     DEF Carried, Delivers, Decides, Aborts, Releases, Rejects, Annotates, WithStatus,
         WithRefund, FailPaid, SetProviderRef, FundingReturn, SetFundingRef, Transfer
<1>3. CASE t'.refund = "pending" /\ t.refund = "pending"
  BY <1>2, <1>3, CarriesOn DEF Carried
<1>4. CASE t'.refund = "pending" /\ t.refund # "pending"
  <2>1. PICK k \in RefundKeys : Added(k) BY <1>4, ReturnStarts DEF Carried
  <2>2. box'[k].st = "pending" BY <2>1 DEF Added, Queued, Absent
  <2>3. \A w \in Workers : work'[w].key = k => work'[w].pc = "idle"
    BY <1>1, <2>2, DeskStep DEF IInv, Desk, Owned
  <2>4. Carries(k)' BY <2>2, <2>3 DEF Carries
  <2> QED BY <1>2, <2>4 DEF Carried
<1> QED BY <1>2, <1>3, <1>4 DEF Carried

(* As long as staff cannot dismiss its row, a return that the ledger shows as
   pending has a row that can still carry it out - unless the transfer came held,
   whose rejection starts one without a row. *)
THEOREM PendingRefundIsCarried ==
    ASSUME "dismiss" \notin Ops, "held" \notin Ways
    PROVE  Spec => []PendingRefundHasEffect
<1>1. Init => Carried BY Entry DEF Carried
<1>2. IInv /\ Carried /\ [Next]_vars => Carried' BY CarriedStep
<1>3. Carried => PendingRefundHasEffect
  BY DEF Carried, Carries, PendingRefundHasEffect
<1> QED BY <1>1, <1>2, <1>3, PayoutInvariant, PTL DEF Spec

-----------------------------------------------------------------------------
(* The ledger and the world.  What a worker or a callback is about to write was
   asked or heard first, and a return's rows exist only once it was decided. *)
Truth ==
    /\ LedgerIsTruthful
    /\ \A w \in Workers : /\ work[w].pc = "complete" => reversed
                          /\ work[w].pc = "ack" => told
    /\ \A c \in Callbacks : call[c] # "idle" => told
    /\ \A k \in RefundKeys : ~Fresh(k) => Decided

(* Who writes what LedgerIsTruthful speaks of. *)
LEMMA WhoWrites ==
    ASSUME TypeOK, [Next]_vars
    PROVE  /\ t'.refund = "completed" =>
                 t.refund = "completed" \/ RefundNotice \/ \E w \in Workers : RefundComplete(w)
           /\ t'.providerRef = "rail" =>
                 t.providerRef = "rail" \/ \E w \in Workers : InstructAck(w)
           /\ t'.status = "delivered" =>
                 \/ t.status = "delivered"
                 \/ \E w \in Workers : MockSettle(w)
                 \/ \E c \in Callbacks : PaidOutUpdate(c)
           /\ reversed' => reversed \/ \E w \in Workers : RefundAsk(w)
           /\ reversed => reversed'
<1> DEFINE Same == /\ t'.refund = "completed" => t.refund = "completed"
                   /\ t'.providerRef = "rail" => t.providerRef = "rail"
                   /\ t'.status = "delivered" => t.status = "delivered"
                   /\ reversed' = reversed
<1>0. t \in Transfer BY DEF TypeOK
<1>a. ASSUME NEW x \in Transfer
      PROVE  /\ \A r \in RefundStatus : /\ WithRefund(x, r).refund = r
                                        /\ WithRefund(x, r).status = x.status
                                        /\ WithRefund(x, r).providerRef = x.providerRef
             /\ \A u \in Status : /\ WithStatus(x, u).refund = x.refund
                                  /\ WithStatus(x, u).status = u
                                  /\ WithStatus(x, u).providerRef = x.providerRef
             /\ SetProviderRef(x, "mock").refund = x.refund
             /\ SetProviderRef(x, "mock").status = x.status
             /\ SetProviderRef(x, "mock").providerRef \in {x.providerRef, "mock"}
  BY DEF WithRefund, WithStatus, SetProviderRef, Transfer
<1>1. ASSUME NEW w \in Workers,
             \/ HandBack(w) \/ Crash(w) \/ InstructGate(w) \/ InstructPost(w)
             \/ MockRead(w) \/ Finish(w)
             \/ \E k \in Boxes : Claim(w, k) \/ InstructRead(w, k) \/ RefundRead(w, k)
      PROVE  Same
  BY <1>1 DEF HandBack, Crash, InstructGate, InstructPost, MockRead, Finish, Claim,
              InstructRead, RefundRead
<1>2. ASSUME NEW w \in Workers, InstructAck(w) PROVE
             t'.refund = t.refund /\ t'.status = t.status /\ reversed' = reversed
  BY <1>0, <1>2 DEF InstructAck, SetProviderRef, Transfer
<1>3. ASSUME NEW w \in Workers, MockSettle(w) PROVE
             t'.refund = t.refund /\ t'.providerRef = t.providerRef /\ reversed' = reversed
  BY <1>0, <1>a, <1>3 DEF MockSettle, Status
<1>4. ASSUME NEW w \in Workers, RefundAsk(w) PROVE
             t' = t /\ (reversed => reversed')
  BY <1>4 DEF RefundAsk
<1>5. ASSUME NEW w \in Workers, RefundComplete(w) PROVE
             t'.status = t.status /\ t'.providerRef = t.providerRef /\ reversed' = reversed
  BY <1>0, <1>a, <1>5 DEF RefundComplete, RefundStatus
<1>6. ASSUME NEW c \in Callbacks, PaidOutCallback(c) \/ PaidOutRefused(c) PROVE Same
  BY <1>6 DEF PaidOutCallback, PaidOutRefused
<1>7. ASSUME NEW c \in Callbacks, PaidOutUpdate(c) PROVE
             t'.refund = t.refund /\ t'.providerRef = t.providerRef /\ reversed' = reversed
  BY <1>0, <1>a, <1>7 DEF PaidOutUpdate, Status
<1>8. ASSUME RefundNotice PROVE
             t'.status = t.status /\ t'.providerRef = t.providerRef /\ reversed' = reversed
  BY <1>0, <1>a, <1>8 DEF RefundNotice, others, RefundStatus
<1>9. ASSUME FailureCallback \/ SenderCancel PROVE Same
  <2>1. t' \in {t, FailPaid(t)} /\ reversed' = reversed
    BY <1>9 DEF FailureCallback, SenderCancel, others
  <2> QED BY <1>0, <2>1 DEF FailPaid, Transfer
<1>10. ASSUME LateCharge \/ DisputeNotice PROVE Same
  BY <1>0, <1>10 DEF LateCharge, DisputeNotice, SetFundingRef, FundingReturn, others, Transfer
<1>11. ASSUME SenderEscalate \/ RefundRequest \/ DismissRefund PROVE Same
  BY <1>0, <1>a, <1>11 DEF SenderEscalate, RefundRequest, DismissRefund, others, RefundStatus
<1>12. ASSUME IssueRefund \/ ApproveRefund \/ \E k \in Retries : RetryRefund(k) PROVE Same
  BY <1>0, <1>a, <1>12 DEF IssueRefund, ApproveRefund, RetryRefund, others, RefundStatus
<1>13. ASSUME StaffRelease PROVE Same
  <2>1. WithStatus(t, "paid") \in Transfer /\ "paid" \in Status
    BY <1>0, LedgerTypes DEF Status
  <2> QED BY <1>0, <1>a, <1>13, <2>1 DEF StaffRelease, others
<1>14. ASSUME StaffReject PROVE Same
  <2>1. WithStatus(t, "cancelled") \in Transfer /\ "cancelled" \in Status
    BY <1>0, LedgerTypes DEF Status
  <2> QED BY <1>0, <1>a, <1>14, <2>1 DEF StaffReject, others, RefundStatus
<1>15. ASSUME \/ WindowCloses \/ SweepReinstruct \/ SweepAlerts \/ UNCHANGED vars
              \/ \E k \in Boxes : OpsRetryDead(k) \/ OpsDismiss(k) \/ PartnerReplay(k)
       PROVE  Same
  BY <1>15 DEF WindowCloses, SweepReinstruct, SweepAlerts, vars, others,
               OpsRetryDead, OpsDismiss, PartnerReplay
<1>16. ASSUME NEW w \in Workers, WorkerStep(w) PROVE
              Same \/ InstructAck(w) \/ MockSettle(w) \/ RefundAsk(w) \/ RefundComplete(w)
  BY <1>1, <1>16 DEF WorkerStep
<1>17. \/ Same \/ RefundNotice
       \/ \E w \in Workers : InstructAck(w) \/ MockSettle(w) \/ RefundAsk(w) \/ RefundComplete(w)
       \/ \E c \in Callbacks : PaidOutUpdate(c)
  BY <1>1, <1>6, <1>9, <1>10, <1>11, <1>12, <1>13, <1>14, <1>15, <1>16
     DEF Next, CallbackStep, SenderStep, StaffStep
<1> QED BY <1>2, <1>3, <1>4, <1>5, <1>7, <1>8, <1>17

(* A row of the outbox is never deleted. *)
LEMMA RowsStay ==
    ASSUME TypeOK, [Next]_vars, NEW k \in Boxes, ~Fresh(k)
    PROVE  ~Fresh(k)'
<1>1. box[k] \in RowOf(Workers) BY Types
<1>2. CASE Taken(k) BY <1>1, <1>2, RowColumns, WorkColumns DEF Taken, Fresh
<1> QED
  BY <1>1, <1>2, BoxMoves, RowColumns
     DEF Kept, Added, LetGo, Revived, Dropped, Withdrawn, Fresh

(* A row that is new to the outbox was added. *)
LEMMA NewRow ==
    ASSUME TypeOK, Desk, [Next]_vars, NEW k \in Boxes, Fresh(k), ~Fresh(k)'
    PROVE  Added(k)
<1>1. ~Taken(k) BY DEF Taken, Claim, Waiting, Abandoned, Fresh
<1>2. \A w \in Workers : ~LetGo(k, w) BY DEF LetGo, Desk, Owned, Fresh
<1> QED
  BY <1>1, <1>2, BoxMoves DEF Kept, Revived, Dropped, Withdrawn, NeverClaimed, Fresh

(* A worker or a callback goes on to write only what it has just asked or
   heard. *)
LEMMA WitnessStep ==
    ASSUME TypeOK, Desk, Truth, [Next]_vars
    PROVE  /\ \A w \in Workers : /\ work'[w].pc = "complete" => reversed'
                                 /\ work'[w].pc = "ack" => told'
           /\ \A c \in Callbacks : call'[c] # "idle" => told'
<1>1. (told => told') /\ (reversed => reversed') BY Ratchets, WhoWrites
<1>2. ASSUME NEW w \in Workers, work'[w].pc \in {"complete", "ack"}
      PROVE  /\ work'[w].pc = "complete" => reversed'
             /\ work'[w].pc = "ack" => told'
  <2>1. CASE Stands(w) BY <1>1, <2>1 DEF Stands, Truth
  <2>2. CASE Goes(w) BY <1>2, <2>2, WorkColumns DEF Goes
  <2> QED BY <1>2, <2>1, <2>2, WorkMove, WorkColumns DEF Starting
<1>3. ASSUME NEW c \in Callbacks, call'[c] # "idle" PROVE told'
  <2>1. CASE call[c] # "idle" BY <1>1, <2>1 DEF Truth
  <2>2. ASSUME NEW d \in Callbacks, CallbackStep(d), call[c] = "idle" PROVE told'
    BY <1>3, <2>2
       DEF CallbackStep, PaidOutCallback, PaidOutUpdate, PaidOutRefused, TypeOK
  <2>3. CASE call' = call BY <1>3, <2>1, <2>3
  <2> QED
    BY <2>1, <2>2, <2>3
       DEF Next, vars, others, Claim, WorkerStep, InstructRead, RefundRead,
           InstructGate, InstructPost, InstructAck, MockRead, MockSettle, RefundAsk,
           RefundComplete, Finish, HandBack, Crash, FailureCallback, RefundNotice,
           LateCharge, DisputeNotice, SenderStep, WindowCloses, SenderCancel,
           SenderEscalate, RefundRequest, StaffStep, StaffRelease, StaffReject,
           IssueRefund, ApproveRefund, DismissRefund, RetryRefund, OpsRetryDead,
           OpsDismiss, PartnerReplay, SweepReinstruct, SweepAlerts
<1> QED BY <1>2, <1>3

(* Whoever writes "completed", "delivered" or an ack had reason to. *)
LEMMA TruthStep == IInv /\ Truth /\ [Next]_vars => Truth'
<1> SUFFICES ASSUME IInv, Truth, [Next]_vars PROVE Truth' OBVIOUS
<1>1. /\ TypeOK /\ Desk /\ (told => told') /\ (reversed => reversed')
      /\ RefundKeys \subseteq Boxes /\ "mocksettle" \in Boxes
  BY Ratchets, WhoWrites DEF IInv, Boxes, RailKeys
<1>2. ASSUME NEW k \in RefundKeys, ~Fresh(k)' PROVE Decided'
  <2>1. CASE Fresh(k) BY <1>1, <1>2, <2>1, NewRow, WhoAdds DEF Decided
  <2>2. CASE ~Fresh(k) BY <1>1, <2>2, DecidedStays DEF Truth
  <2> QED BY <2>1, <2>2
<1>3. t'.refund = "completed" => reversed'
  <2>1. ASSUME NEW w \in Workers, RefundComplete(w) PROVE reversed
    BY <2>1 DEF RefundComplete, Truth
  <2> QED BY <1>1, <2>1, WhoWrites DEF RefundNotice, Truth, LedgerIsTruthful
<1>4. reversed' => Decided'
  <2>1. ASSUME NEW w \in Workers, RefundAsk(w) PROVE Decided
    <3>1. work[w].key \in RefundKeys /\ ~Fresh(work[w].key)
      BY <1>1, <2>1 DEF RefundAsk, Desk, Owned, Errands, Fresh
    <3> QED BY <3>1 DEF Truth
  <2>2. reversed => Decided BY DEF Truth, LedgerIsTruthful, Decided
  <2> QED BY <1>1, <2>1, <2>2, WhoWrites, DecidedStays
<1>5. t'.providerRef = "rail" => told'
  <2>1. ASSUME NEW w \in Workers, InstructAck(w) PROVE told
    BY <2>1 DEF InstructAck, Truth
  <2> QED BY <1>1, <2>1, WhoWrites DEF Truth, LedgerIsTruthful
<1>6. t'.status = "delivered" => told' \/ ~Fresh("mocksettle")'
  <2>1. ASSUME NEW w \in Workers, MockSettle(w) PROVE ~Fresh("mocksettle")
    BY <1>1, <2>1 DEF MockSettle, Desk, Owned, Errands, Fresh
  <2>2. ASSUME NEW c \in Callbacks, PaidOutUpdate(c) PROVE told
    BY <2>2 DEF PaidOutUpdate, Truth
  <2> QED BY <1>1, <2>1, <2>2, WhoWrites, RowsStay DEF Truth, LedgerIsTruthful
<1> QED
  BY <1>1, <1>2, <1>3, <1>4, <1>5, <1>6, WitnessStep
     DEF Truth, LedgerIsTruthful, Decided

(* The row tells the truth about the world: a completed return was asked for,
   money goes back only on a decided return, and a delivered or acknowledged
   payout was given to the rail or the mock. *)
THEOREM LedgerTellsTheTruth == Spec => []LedgerIsTruthful
<1>1. Init => Truth
  <2> SUFFICES ASSUME Init PROVE Truth OBVIOUS
  <2>1. ~reversed /\ \A w \in Workers : work[w].pc = "idle"
    BY DEF Init, IdleWorker
  <2>2. \A c \in Callbacks : call[c] = "idle" BY DEF Init
  <2>3. \A k \in RefundKeys : Fresh(k)
    BY Entry DEF Fresh, Absent, Boxes, RefundKeys
  <2> QED BY <2>1, <2>2, <2>3, Entry DEF Truth, LedgerIsTruthful
<1>2. Truth => LedgerIsTruthful BY DEF Truth
<1> QED BY <1>1, <1>2, TruthStep, PayoutInvariant, PTL DEF Spec

-----------------------------------------------------------------------------
(* Instructions.  A held transfer has none; afterwards each is queued or
   revived only beside a sibling that is not in flight. *)
Single ==
    /\ ~(Live(box["instruct"]) /\ Live(box["reinstruct"]))
    /\ t.status = "in_review" => Fresh("instruct") /\ Fresh("reinstruct")

(* No step puts a second instruction in flight. *)
LEMMA SingleStep ==
    ASSUME "retry" \notin Ops
    PROVE  IInv /\ Single /\ [Next]_vars => Single'
<1> SUFFICES ASSUME IInv, Single, [Next]_vars PROVE Single' OBVIOUS
<1> TypeOK /\ t \in Transfer BY DEF IInv, TypeOK
<1>1. \A k \in Instructions : k \in Boxes /\ k \in RailKeys /\ box[k] \in RowOf(Workers)
  BY Types DEF Boxes, RailKeys
<1>2. ASSUME NEW k \in Instructions, Live(box'[k]), ~Live(box[k])
      PROVE  /\ t'.status # "in_review"
             /\ \A j \in Instructions \ {k} : ~Live(box'[j])
  <2>1. k \in Boxes /\ box[k] \in RowOf(Workers) BY <1>1
  <2>2. Added(k) \/ PartnerReplay(k)
    <3>1. ~Taken(k) BY <1>2 DEF Taken, Claim, Waiting, Abandoned, Live
    <3>2. \A w \in Workers : ~LetGo(k, w) BY <1>2 DEF LetGo, IInv, Desk, Owned, Live
    <3> QED
      BY <1>2, <2>1, <3>1, <3>2, BoxMoves, RowColumns
         DEF Kept, Revived, Dropped, Withdrawn, Live
  <2>3. CASE PartnerReplay(k)
    BY <1>1, <2>3 DEF PartnerReplay, TypeOK
  <2>4. CASE StaffRelease /\ k = "instruct"
    <3>1. t.status = "in_review" /\ box[k].st = "absent" /\ t'.status = "paid"
      BY <2>4
         DEF StaffRelease, MayRelease, Single, Fresh, WithStatus, SetProviderRef, Transfer
    <3>2. \E j \in {"instruct", "mocksettle"} : Queue(j) BY <2>4 DEF StaffRelease
    <3>3. \A j \in Instructions \ {k} : box'[j] = box[j]
      BY <1>1, <2>4, <3>2 DEF Queue, TypeOK, Instructions
    <3> QED BY <2>4, <3>1, <3>3 DEF Single, Fresh, Live, Instructions
  <2>5. CASE SweepReinstruct /\ k = "reinstruct"
    BY <1>1, <2>5
       DEF SweepReinstruct, IsStuckPaid, HasLiveInstruction, Queue, TypeOK, Instructions
  <2> QED BY <1>1, <2>1, <2>2, <2>3, <2>4, <2>5, WhoAdds DEF Instructions
<1>3. ~(Live(box'["instruct"]) /\ Live(box'["reinstruct"]))
  BY <1>2 DEF Single, Instructions
<1>4. ASSUME t'.status = "in_review", NEW k \in Instructions PROVE box'[k].st = "absent"
  <2>1. t.status = "in_review"
    BY <1>4, LedgerMoves
       DEF Delivers, Decides, Aborts, Releases, Rejects, Annotates, WithStatus,
           WithRefund, FailPaid, SetProviderRef, FundingReturn, SetFundingRef, Transfer
  <2>2. box[k].st = "absent" BY <2>1 DEF Single, Fresh, Instructions
  <2>3. ~Added(k)
    <3>1. Added(k) => Live(box'[k]) BY DEF Added, Queued, Absent, Live
    <3> QED BY <1>2, <1>4, <2>2, <3>1 DEF Live
  <2>4. ~Taken(k) BY <2>2 DEF Taken, Claim, Waiting, Abandoned
  <2>5. \A w \in Workers : ~LetGo(k, w) BY <2>2 DEF LetGo, IInv, Desk, Owned
  <2> QED
    BY <1>1, <2>2, <2>3, <2>4, <2>5, BoxMoves
       DEF Kept, Revived, Dropped, Withdrawn, NeverClaimed
<1> QED BY <1>3, <1>4 DEF Single, Fresh, Instructions

(* As long as ops' unscoped Retry is not used, no two instructions of one
   transfer are in flight together. *)
THEOREM OneInstructionInFlight ==
    ASSUME "retry" \notin Ops
    PROVE  Spec => []OneLiveInstruction
<1>1. Init => Single
  BY Entry DEF Single, Fresh, Live, Absent, Boxes, RailKeys, Instructions
<1>2. IInv /\ Single /\ [Next]_vars => Single' BY SingleStep
<1>3. Single => OneLiveInstruction
  <2> SUFFICES ASSUME Single PROVE OneLiveInstruction OBVIOUS
  <2> DEFINE S == {k \in Instructions : Live(box[k])}
  <2>1. S = {} \/ S = {"instruct"} \/ S = {"reinstruct"}
    BY DEF Single, Instructions
  <2>2. Cardinality(S) \in {0, 1}
    BY <2>1, FS_EmptySet, FS_Singleton
  <2> QED BY <2>2 DEF OneLiveInstruction
<1> QED BY <1>1, <1>2, <1>3, PayoutInvariant, PTL DEF Spec

-----------------------------------------------------------------------------
(* The promise of a row. *)

(* RowPromise has the row's operations from OutboxRow, as Payout has. *)
LEMMA SameRow ==
    ASSUME NEW k \in Boxes, NEW x, NEW owner, NEW ceiling
    PROVE  /\ RowLife(k)!Absent = Absent /\ RowLife(k)!Queued = Queued
           /\ RowLife(k)!Live(x) <=> Live(x)
           /\ RowLife(k)!Claimed(x, owner) = Claimed(x, owner)
           /\ RowLife(k)!MayHandBack(x, owner) <=> MayHandBack(x, owner)
           /\ RowLife(k)!MarkDone(x) = MarkDone(x)
           /\ RowLife(k)!MarkFailed(x, ceiling) = MarkFailed(x, ceiling)
           /\ RowLife(k)!ReleaseUnstarted(x) = ReleaseUnstarted(x)
           /\ RowLife(k)!DeferUncharged(x) = DeferUncharged(x)
           /\ RowLife(k)!MayRetryDead(x) <=> MayRetryDead(x)
           /\ RowLife(k)!RetryDead(x) = RetryDead(x)
BY DEF RowLife!Absent, Absent, RowLife!NoOwner, NoOwner, RowLife!Queued, Queued,
       RowLife!Live, Live, RowLife!Claimed, Claimed, RowLife!MayHandBack, MayHandBack,
       RowLife!Owns, Owns, RowLife!MarkDone, MarkDone, RowLife!MarkFailed, MarkFailed,
       RowLife!ReleaseUnstarted, ReleaseUnstarted, RowLife!Refunded, Refunded,
       RowLife!DeferUncharged, DeferUncharged, RowLife!MayRetryDead, MayRetryDead,
       RowLife!RetryDead, RetryDead

(* A row is in the hands of the worker its lease names, or in nobody's. *)
LEMMA HandlerOwns ==
    ASSUME TypeOK, Desk, NEW k \in Boxes, NEW w \in Handlers(k)
    PROVE  /\ w \in Workers /\ Handlers(k) = {w}
           /\ box[k].st = "processing" /\ box[k].lease = w
  BY DEF Handlers, Desk, Owned

(* Only a claim puts a row into new hands. *)
LEMMA HandlersShrink ==
    ASSUME TypeOK, [Next]_vars, NEW k \in Boxes, ~Taken(k)
    PROVE  Handlers(k)' \subseteq Handlers(k)
<1> SUFFICES ASSUME NEW w \in Workers, work'[w].pc # "idle", work'[w].key = k
             PROVE  work[w].pc # "idle" /\ work[w].key = k
  BY DEF Handlers
<1>1. CASE Stands(w) BY <1>1 DEF Stands
<1>2. CASE Starting(w)
  <2>1. PICK j \in Boxes : Claim(w, j) BY <1>2 DEF Starting
  <2>2. j = k BY <2>1, WorkColumns
  <2> QED BY <2>1, <2>2 DEF Taken
<1>3. CASE Rest(w) BY <1>3, WorkColumns
<1>4. CASE Goes(w) BY <1>4, WorkColumns DEF Goes
<1> QED BY <1>1, <1>2, <1>3, <1>4, WorkMove

(* Every step is a move of the life of every row, or none of its business. *)
LEMMA PromiseStep ==
    ASSUME TypeOK, Desk, [Next]_vars, NEW k \in Boxes
    PROVE  [RowLife(k)!Next]_(RowLife(k)!vars)
<1> USE DEF RowLife!vars, RowLife!Next
<1>1. ASSUME ~Live(box[k]) \/ Waiting(box[k]) PROVE Handlers(k) = {}
  BY <1>1, HandlerOwns DEF Live, Waiting
<1>2. ASSUME NEW w \in Workers, Claim(w, k) PROVE RowLife(k)!Take(w)
  <2>1. Live(box[k]) /\ Handlers(k) = {}
    BY <1>1, <1>2 DEF Claim, Waiting, Abandoned, Live, Handlers
  <2>2. box'[k] = Claimed(box[k], w) BY <1>2, WorkColumns
  <2>3. Handlers(k)' = {w}
    <3>1. \A v \in Workers \ {w} : work'[v] = work[v] BY <1>2 DEF Claim
    <3> QED BY <1>2, <2>1, <3>1, WorkColumns DEF Handlers
  <2> QED BY <2>1, <2>2, <2>3, SameRow DEF RowLife!Take
<1>3. CASE Taken(k) BY <1>2, <1>3 DEF Taken
<1>4. ASSUME ~Taken(k), Kept(k) PROVE [RowLife(k)!Next]_(RowLife(k)!vars)
  <2>1. CASE Handlers(k)' = Handlers(k) BY <1>4, <2>1 DEF Kept
  <2>2. CASE Handlers(k)' # Handlers(k)
    <3>1. PICK w \in Handlers(k) : w \notin Handlers(k)'
      BY <1>4, <2>2, HandlersShrink
    <3>2. Handlers(k) = {w} BY <3>1, HandlerOwns
    <3>3. Handlers(k)' = {} BY <1>4, <3>1, <3>2, HandlersShrink
    <3> QED BY <1>4, <3>2, <3>3 DEF Kept, RowLife!Lose
  <2> QED BY <2>1, <2>2
<1>5. ASSUME ~Taken(k), Handlers(k) = {}, Added(k) \/ Revived(k) \/ Dropped(k) \/ Withdrawn(k)
      PROVE  RowLife(k)!Add \/ RowLife(k)!Revive \/ RowLife(k)!Close
  <2>1. Handlers(k)' = {} BY <1>5, HandlersShrink
  <2>2. CASE Added(k)
    BY <1>5, <2>1, <2>2, SameRow DEF Added, Fresh, RowLife!Add
  <2>3. CASE Revived(k)
    BY <1>5, <2>1, <2>3, SameRow DEF Revived, MayRetryDead, RowLife!Revive
  <2>4. CASE Dropped(k) \/ Withdrawn(k)
    BY <1>5, <2>1, <2>4, SameRow DEF Dropped, Withdrawn, NeverClaimed, RowLife!Close
  <2> QED BY <1>5, <2>2, <2>3, <2>4
<1>6. ASSUME Added(k) \/ Revived(k) \/ Dropped(k) \/ Withdrawn(k) PROVE Handlers(k) = {}
  BY <1>1, <1>6 DEF Added, Fresh, Revived, Dropped, Withdrawn, NeverClaimed, Live, Waiting
<1>7. ASSUME NEW w \in Workers, ~Taken(k), LetGo(k, w)
      PROVE  RowLife(k)!Settle(w) \/ RowLife(k)!Return(w)
  <2>1. Handlers(k) = {w} /\ MayHandBack(box[k], w)
    BY <1>7, HandlerOwns DEF LetGo, Handlers, MayHandBack, Owns
  <2>2. Handlers(k)' = {}
    <3>1. w \notin Handlers(k)' BY <1>7, WorkColumns DEF LetGo, Handlers
    <3> QED BY <1>7, <2>1, <3>1, HandlersShrink
  <2>3. \/ box'[k] \in {ReleaseUnstarted(box[k]), DeferUncharged(box[k])}
        \/ box'[k] = MarkDone(box[k]) \/ box'[k] = MarkFailed(box[k], Ceiling)
    BY <1>7 DEF LetGo
  <2> QED BY <2>1, <2>2, <2>3, SameRow DEF RowLife!Settle, RowLife!Return
<1> QED BY <1>3, <1>4, <1>5, <1>6, <1>7, BoxMoves

(* Every outbox row of a transfer lives the life RowPromise describes: the moves
   Payout's workers make are the ones the outbox keeps. *)
THEOREM PayoutKeepsRowPromise == Spec => KeepsRowPromise
<1>1. Init => \A k \in Boxes : RowLife(k)!Init
  <2> SUFFICES ASSUME Init, NEW k \in Boxes PROVE RowLife(k)!Init OBVIOUS
  <2>1. box[k] \in {Absent, Queued} BY DEF Init
  <2>2. Handlers(k) = {} BY DEF Init, Handlers, IdleWorker
  <2> QED BY <2>1, <2>2, SameRow DEF RowLife!Init
<1>2. IInv /\ [Next]_vars
          => [\A k \in Boxes : [RowLife(k)!Next]_(RowLife(k)!vars)]_vars
  BY PromiseStep DEF IInv
<1> QED BY <1>1, <1>2, PayoutInvariant, PTL DEF Spec, KeepsRowPromise
=============================================================================
