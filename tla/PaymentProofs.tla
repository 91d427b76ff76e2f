---------------------------- MODULE PaymentProofs ----------------------------
(* What the runs of Payment show on a few payers, proved for any number of
   them, for both kinds of funding and both kinds of rail. *)
EXTENDS Payment, LedgerProofs

(* A charge on the ledger was really taken, and a row that looks settled or
   held carries it, unless its partner's confirm won the claim.  Processes past
   the charge know it from what they read, and what they read cannot be undone:
   no step clears fundingRef. *)
ChargeIsReal ==
    /\ t.fundingRef => psp.captured \/ psp.debit \in {"succeeded", "returned"}
    /\ "succeeded" \in psp.events => psp.debit \in {"succeeded", "returned"}
    /\ \A p \in Procs : proc[p].pc = "record" => psp.captured
IntentIsTracked ==
    /\ t.intent => StripeFunding /\ t.fundingState # "none"
    /\ t.fundingState = "succeeded" => t.fundingRef
    /\ \A p \in Procs : proc[p].pc = "record" => ~StripeFunding
    /\ \A p \in Procs : proc[p].pc = "bind" => StripeFunding
    /\ \A p \in Procs : proc[p].fundingState = "succeeded" => t.fundingRef
SettlersAreCharged ==
    \A p \in Procs \ Confirmers :
        proc[p].pc \in {"settle", "hold", "rescreen"} => t.fundingRef \/ t.b2b
HoldIsAnnounced == t.status = "in_review" => "stage1" \in keys

Safety == /\ HoldIsAnnounced
          /\ StageOneAfterCharge
          /\ RailOnlyWhenAllowed
          /\ IntentNeverVoided

IInv == /\ TypeOK
        /\ ChargeIsReal
        /\ IntentIsTracked
        /\ SettlersAreCharged
        /\ Safety

-----------------------------------------------------------------------------
(* Types. *)

(* A step of a process only moves its own record, and keeps it a record. *)
LEMMA ProcessMoves ==
    ASSUME NEW p \in Procs, proc \in [Procs -> Process]
    PROVE  /\ Finish(p) => proc' \in [Procs -> Process]
           /\ \A pc \in Steps : To(p, pc) => proc' \in [Procs -> Process]
           /\ \A key \in Alerts : Alert(p, key) => proc' \in [Procs -> Process]
           /\ \A row \in Transfer, pc \in Steps :
                 proc' = [proc EXCEPT ![p] = Saw(row, pc)]
                     => proc' \in [Procs -> Process]
<1>1. Idle \in Process
    BY DEF Idle, Process, Steps, Compliance, FundingState
<1>2. \A key \in Alerts : [Idle EXCEPT !.pc = "alert", !.note = key] \in Process
    BY <1>1 DEF Process, Steps
<1>3. \A pc \in Steps : [proc[p] EXCEPT !.pc = pc] \in Process
    BY DEF Process
<1>4. \A row \in Transfer, pc \in Steps : Saw(row, pc) \in Process
    BY DEF Saw, Process, Transfer
<1>5. Finish(p) => proc' \in [Procs -> Process]
    BY <1>1 DEF Finish
<1>6. \A pc \in Steps : To(p, pc) => proc' \in [Procs -> Process]
    BY <1>3 DEF To
<1>7. \A key \in Alerts : Alert(p, key) => proc' \in [Procs -> Process]
    BY <1>2 DEF Alert
<1>8. \A row \in Transfer, pc \in Steps :
          proc' = [proc EXCEPT ![p] = Saw(row, pc)] => proc' \in [Procs -> Process]
    BY <1>4
<1> QED BY <1>5, <1>6, <1>7, <1>8

(* A freshly minted transfer, idle processes and an untouched provider. *)
LEMMA TypeInit == Init => TypeOK
<1> SUFFICES ASSUME Init PROVE TypeOK
    OBVIOUS
<1>1. t \in Transfer
    BY MintedType DEF Init, Compliance
<1>2. Idle \in Process
    BY DEF Idle, Process, Steps, Compliance, FundingState
<1> QED BY <1>1, <1>2 DEF Init, TypeOK, Provider

(* Every step keeps the types, one case per action. *)
LEMMA TypeStep == TypeOK /\ [Next]_vars => TypeOK'
<1> SUFFICES ASSUME TypeOK, [Next]_vars PROVE TypeOK'
    OBVIOUS
<1> USE DEF TypeOK
<1>1. ASSUME NEW p \in Procs, Open(p) \/ Confirm(p) PROVE TypeOK'
    BY <1>1, ProcessMoves, LedgerTypes DEF Open, Confirm, Steps
<1>2. ASSUME NEW p \in Procs, Screen(p) PROVE TypeOK'
    BY <1>2, ProcessMoves, LedgerTypes DEF Screen, Compliance, Steps
<1>3. ASSUME NEW p \in Procs, Capture(p) PROVE TypeOK'
    BY <1>3, ProcessMoves, LedgerTypes DEF Capture, Provider, Steps
<1>4. ASSUME NEW p \in Procs, RecordCharge(p) PROVE TypeOK'
    BY <1>4, ProcessMoves, LedgerTypes DEF RecordCharge, Steps
<1>5. ASSUME NEW p \in Procs, CreateIntent(p) PROVE TypeOK'
    BY <1>5, ProcessMoves, LedgerTypes DEF CreateIntent, Provider, Steps
<1>6. ASSUME NEW p \in Procs, Bind(p) PROVE TypeOK'
    BY <1>6, ProcessMoves, LedgerTypes DEF Bind, Steps
<1>7. ASSUME NEW p \in Procs, BeginSettlement(p) PROVE TypeOK'
    BY <1>7, ProcessMoves, LedgerTypes DEF BeginSettlement, RailEffect, Report, Vouch, RailKey, Alerts, Status, Steps
<1>8. ASSUME NEW p \in Procs, SettlementRefused(p) PROVE TypeOK'
    BY <1>8, ProcessMoves, LedgerTypes DEF SettlementRefused, Report, Refused, Alerts, Steps
<1>9. ASSUME NEW p \in Procs, SettleBlocked(p) PROVE TypeOK'
    BY <1>9, ProcessMoves, LedgerTypes DEF SettleBlocked, Refused, Alerts, Steps
<1>10. ASSUME NEW p \in Procs, BeginHold(p) PROVE TypeOK'
    BY <1>10, ProcessMoves, LedgerTypes DEF BeginHold, Report, Vouch, Alerts, Status, Steps
<1>11. ASSUME NEW p \in Procs, FundedRescreen(p) PROVE TypeOK'
    BY <1>11, ProcessMoves, LedgerTypes DEF FundedRescreen, Compliance, Alerts, Steps
<1>12. ASSUME NEW p \in Procs, EnqueueAlert(p) PROVE TypeOK'
    BY <1>12, ProcessMoves, LedgerTypes DEF EnqueueAlert, Raise
<1>13. ASSUME NEW p \in Procs, Crash(p) PROVE TypeOK'
    BY <1>13, ProcessMoves, LedgerTypes DEF Crash, Steps
<1>14. CASE HandleSucceeded
    BY <1>14, ProcessMoves, LedgerTypes DEF HandleSucceeded, Consume, Provider, Alerts, Procs, Steps, Raise
<1>15. CASE HandleFailed
    BY <1>15, ProcessMoves, LedgerTypes DEF HandleFailed, Consume, Provider, Steps
<1>16. CASE HandleDispute
    BY <1>16, ProcessMoves, LedgerTypes DEF HandleDispute, Consume, Provider, Alerts, Steps, Raise
<1>17. CASE CapturedNotice
    BY <1>17, ProcessMoves, LedgerTypes DEF CapturedNotice, Steps
<1>18. CASE DebitMoves
    <2>1. ASSUME NEW from,
                 NEW to \in {"open", "failed", "succeeded", "returned"},
                 NEW event \in {"succeeded", "failed", "dispute"},
                 DebitMove(from, to, event)
          PROVE  psp' \in Provider
        <3>1. psp.events \cup {event} \in SUBSET {"succeeded", "failed", "dispute"}
            BY DEF Provider
        <3> QED BY <2>1, <3>1 DEF DebitMove, Provider
    <2> QED BY <1>18, <2>1 DEF DebitMoves
<1>19. CASE SweepResume
    BY <1>19, ProcessMoves, LedgerTypes DEF SweepResume, Procs, Steps
<1>20. CASE SweepAlerts
    BY <1>20, ProcessMoves, LedgerTypes DEF SweepAlerts, Alerts, Steps, Raise
<1>21. CASE VoidUnfunded
    BY <1>21, ProcessMoves, LedgerTypes DEF VoidUnfunded, Status, Steps
<1>22. CASE Release
    BY <1>22, ProcessMoves, LedgerTypes DEF Release, RailEffect, RailKey, Status, Steps
<1>23. CASE Reject
    BY <1>23, ProcessMoves, LedgerTypes DEF Reject, Status, RefundStatus, Steps
<1>24. CASE RailCallback
    BY <1>24, ProcessMoves, LedgerTypes DEF RailCallback, Status, Steps
<1>25. CASE UNCHANGED vars
    BY <1>25 DEF vars
<1> HIDE DEF TypeOK
<1> QED BY <1>1, <1>2, <1>3, <1>4, <1>5, <1>6, <1>7, <1>8, <1>9, <1>10, <1>11, <1>12, <1>13, <1>14, <1>15, <1>16, <1>17, <1>18, <1>19, <1>20, <1>21, <1>22, <1>23, <1>24, <1>25
    DEF Next, PayerStep, SettleOrHold, SystemStep, Procs

-----------------------------------------------------------------------------
(* Preservation. *)

(* A process that ends keeps nothing but the alert it still has to enqueue. *)
Ended(p) == /\ \A q \in Procs \ {p} : proc'[q] = proc[q]
            /\ proc'[p].pc \in {"idle", "alert"}
            /\ proc'[p].fundingState = "none"
            /\ proc'[p].compliance = "cleared"
            /\ proc'[p].pc = "alert" => proc'[p].note \in Alerts

(* Finishing, reporting and refusing all end a process. *)
LEMMA Endings ==
    ASSUME NEW p \in Procs, proc \in [Procs -> Process]
    PROVE  /\ Finish(p) => Ended(p)
           /\ \A key \in Alerts : Report(p, key) => Ended(p)
           /\ Refused(p) => Ended(p)
<1>1. Finish(p) => Ended(p)
    BY DEF Finish, Idle, Ended
<1>2. \A key \in Alerts : Alert(p, key) => Ended(p)
    BY DEF Alert, Idle, Ended
<1>3. "fundblocked" \in Alerts
    BY DEF Alerts
<1> QED BY <1>1, <1>2, <1>3 DEF Report, Refused

(* Every verdict, claim and refusal of a process either ends it or moves it
   on, and leaves the charge as it was. *)
MovedOn(p) ==
    /\ \A q \in Procs \ {p} : proc'[q] = proc[q]
    /\ \/ proc'[p] = [proc[p] EXCEPT !.pc = "fund"] /\ proc[p].pc = "screen"
       \/ proc'[p] = [proc[p] EXCEPT !.pc = "settle"] /\ proc[p].pc = "rescreen"
       \/ /\ proc'[p] = [proc[p] EXCEPT !.pc = "hold"]
          /\ proc[p].pc = "settle" /\ t'.compliance = "flagged"
       \/ proc'[p] = Saw(t', "fund") /\ proc[p].pc = "screen"
       \/ proc'[p] = Saw(t', "settle") /\ proc[p].pc = "rescreen"

(* Re-screening and settling move a process on or end it, and charge nobody. *)
LEMMA ScreenAndSettle ==
    ASSUME NEW p \in Procs, TypeOK,
           Screen(p) \/ FundedRescreen(p) \/ SettleOrHold(p)
    PROVE  SameCharge(t, t') /\ psp' = psp /\ (Ended(p) \/ MovedOn(p))
<1> USE DEF TypeOK
<1>1. SameCharge(t, t)
    BY DEF SameCharge
<1>2. CASE Screen(p)
    BY <1>1, <1>2, Endings, ChargeKept DEF Screen, MovedOn, To, Compliance
<1>3. CASE FundedRescreen(p)
    <2>1. "fundblocked" \in Alerts /\ (Alert(p, "fundblocked") => Ended(p))
        BY DEF Alerts, Alert, Idle, Ended
    <2> QED BY <1>1, <1>3, <2>1, Endings, ChargeKept
            DEF FundedRescreen, MovedOn, To, Compliance
<1>4. CASE BeginSettlement(p)
    BY <1>4, Endings, ChargeKept DEF BeginSettlement, RailEffect, Alerts, Status
<1>5. CASE SettlementRefused(p)
    BY <1>1, <1>5, Endings DEF SettlementRefused, MovedOn, To, Alerts
<1>6. CASE SettleBlocked(p)
    BY <1>1, <1>6, Endings DEF SettleBlocked
<1>7. CASE BeginHold(p)
    BY <1>1, <1>7, Endings, ChargeKept DEF BeginHold, Alerts, Status
<1> QED BY <1>2, <1>3, <1>4, <1>5, <1>6, <1>7 DEF SettleOrHold

(* No step records a charge that the provider did not take. *)
LEMMA ChargeStep ==
    ASSUME TypeOK, ChargeIsReal, IntentIsTracked, [Next]_vars
    PROVE  ChargeIsReal'
<1> USE DEF TypeOK, ChargeIsReal, Process, Transfer, Provider
<1>1. ASSUME NEW p \in Procs, Screen(p) \/ FundedRescreen(p) \/ SettleOrHold(p)
      PROVE  ChargeIsReal'
    <2>1. SameCharge(t, t') /\ psp' = psp /\ (Ended(p) \/ MovedOn(p))
        BY <1>1, ScreenAndSettle
    <2>2. CASE Ended(p)
        BY <2>1, <2>2 DEF Ended, SameCharge
    <2>3. CASE MovedOn(p)
        BY <2>1, <2>3 DEF MovedOn, Saw, SameCharge
    <2> QED BY <2>1, <2>2, <2>3
<1>2. ASSUME NEW p \in Procs, Open(p) \/ Confirm(p) PROVE ChargeIsReal'
    BY <1>2 DEF Open, Confirm, Saw
<1>3. ASSUME NEW p \in Procs, Capture(p) PROVE ChargeIsReal'
    BY <1>3 DEF Capture, To, Finish, Idle
<1>4. ASSUME NEW p \in Procs, RecordCharge(p) PROVE ChargeIsReal'
    BY <1>4 DEF RecordCharge, To, MaySetFundingRef, SetFundingRef
<1>5. ASSUME NEW p \in Procs, CreateIntent(p) PROVE ChargeIsReal'
    BY <1>5 DEF CreateIntent, To, Finish, Idle
<1>6. ASSUME NEW p \in Procs, Bind(p) PROVE ChargeIsReal'
    BY <1>6 DEF Bind, Finish, Idle, MayBindIntent, BindIntent
<1>7. ASSUME NEW p \in Procs, EnqueueAlert(p) PROVE ChargeIsReal'
    BY <1>7 DEF EnqueueAlert, Finish, Idle
<1>8. ASSUME NEW p \in Procs, Crash(p) PROVE ChargeIsReal'
    BY <1>8 DEF Crash, Finish, Idle
<1>9. CASE HandleSucceeded
    BY <1>9 DEF HandleSucceeded, Consume, MayFundingSucceed, FundingSucceed, Saw
<1>10. CASE HandleFailed
    BY <1>10 DEF HandleFailed, Consume, MayFundingFail, FundingFail
<1>11. CASE HandleDispute
    BY <1>11 DEF HandleDispute, Consume, MayFundingReturn, FundingReturn
<1>12. CASE CapturedNotice
    BY <1>12 DEF CapturedNotice, MaySetFundingRef, SetFundingRef
<1>13. CASE DebitMoves
    <2> USE DEF DebitMove
    <2>1. CASE DebitMove("open", "succeeded", "succeeded")
        BY <1>13, <2>1 DEF DebitMoves
    <2>2. CASE DebitMove("open", "failed", "failed")
        BY <1>13, <2>2 DEF DebitMoves
    <2>3. CASE DebitMove("failed", "succeeded", "succeeded")
        BY <1>13, <2>3 DEF DebitMoves
    <2>4. CASE DebitMove("succeeded", "returned", "dispute")
        BY <1>13, <2>4 DEF DebitMoves
    <2> QED BY <1>13, <2>1, <2>2, <2>3, <2>4 DEF DebitMoves
<1>14. CASE SweepResume
    BY <1>14 DEF SweepResume, Saw, IsVictim
<1>15. CASE SweepAlerts
    BY <1>15 DEF SweepAlerts
<1>16. CASE VoidUnfunded
    BY <1>16 DEF VoidUnfunded, WithStatus
<1>17. CASE Release
    BY <1>17 DEF Release, RailEffect, WithStatus, SetProviderRef
<1>18. CASE Reject
    BY <1>18 DEF Reject, WithStatus, WithRefund
<1>19. CASE RailCallback
    BY <1>19 DEF RailCallback, WithStatus
<1>20. CASE UNCHANGED vars
    BY <1>20 DEF vars
<1> QED BY <1>1, <1>2, <1>3, <1>4, <1>5, <1>6, <1>7, <1>8, <1>9, <1>10, <1>11, <1>12, <1>13, <1>14, <1>15, <1>16, <1>17, <1>18, <1>19, <1>20
    DEF Next, PayerStep, SystemStep, Procs

(* No step loses track of a bound intent or of its debit. *)
LEMMA IntentStep ==
    ASSUME TypeOK, ChargeIsReal, IntentIsTracked, [Next]_vars
    PROVE  IntentIsTracked'
<1> USE DEF TypeOK, IntentIsTracked, Process, Transfer
<1>1. ASSUME NEW p \in Procs, Screen(p) \/ FundedRescreen(p) \/ SettleOrHold(p)
      PROVE  IntentIsTracked'
    <2>1. SameCharge(t, t') /\ psp' = psp /\ (Ended(p) \/ MovedOn(p))
        BY <1>1, ScreenAndSettle
    <2>2. CASE Ended(p)
        BY <2>1, <2>2 DEF Ended, SameCharge
    <2>3. CASE MovedOn(p)
        BY <2>1, <2>3 DEF MovedOn, Saw, SameCharge
    <2> QED BY <2>1, <2>2, <2>3
<1>2. ASSUME NEW p \in Procs, Open(p) \/ Confirm(p) PROVE IntentIsTracked'
    BY <1>2 DEF Open, Confirm, Saw
<1>3. ASSUME NEW p \in Procs, Capture(p) PROVE IntentIsTracked'
    BY <1>3 DEF Capture, To, Finish, Idle
<1>4. ASSUME NEW p \in Procs, RecordCharge(p) PROVE IntentIsTracked'
    BY <1>4 DEF RecordCharge, To, MaySetFundingRef, SetFundingRef
<1>5. ASSUME NEW p \in Procs, CreateIntent(p) PROVE IntentIsTracked'
    BY <1>5 DEF CreateIntent, To, Finish, Idle
<1>6. ASSUME NEW p \in Procs, Bind(p) PROVE IntentIsTracked'
    BY <1>6 DEF Bind, Finish, Idle, MayBindIntent, BindIntent
<1>7. ASSUME NEW p \in Procs, EnqueueAlert(p) PROVE IntentIsTracked'
    BY <1>7 DEF EnqueueAlert, Finish, Idle
<1>8. ASSUME NEW p \in Procs, Crash(p) PROVE IntentIsTracked'
    BY <1>8 DEF Crash, Finish, Idle
<1>9. CASE HandleSucceeded
    <2>1. CASE MayFundingSucceed(t) /\ Live(t)
        <3>1. t'.fundingRef /\ t'.fundingState = "succeeded" /\ t'.intent = t.intent
            BY <1>9, <2>1 DEF HandleSucceeded, FundingSucceed
        <3>2. \A q \in Procs : \/ proc'[q] = proc[q]
                              \/ proc'[q].pc = "rescreen"
            BY <1>9, <2>1 DEF HandleSucceeded, Saw
        <3> QED BY <2>1, <3>1, <3>2 DEF MayFundingSucceed
    <2>2. CASE MayFundingSucceed(t) /\ ~Live(t)
        BY <1>9, <2>2 DEF HandleSucceeded, MayFundingSucceed, FundingSucceed
    <2>3. CASE ~MayFundingSucceed(t)
        BY <1>9, <2>3 DEF HandleSucceeded
    <2> QED BY <2>1, <2>2, <2>3
<1>10. CASE HandleFailed
    BY <1>10 DEF HandleFailed, Consume, MayFundingFail, FundingFail
<1>11. CASE HandleDispute
    BY <1>11 DEF HandleDispute, Consume, MayFundingReturn, FundingReturn
<1>12. CASE CapturedNotice
    BY <1>12 DEF CapturedNotice, MaySetFundingRef, SetFundingRef
<1>13. CASE DebitMoves
    BY <1>13 DEF DebitMoves, DebitMove
<1>14. CASE SweepResume
    BY <1>14 DEF SweepResume, Saw, IsVictim
<1>15. CASE SweepAlerts
    BY <1>15 DEF SweepAlerts
<1>16. CASE VoidUnfunded
    BY <1>16 DEF VoidUnfunded, WithStatus
<1>17. CASE Release
    BY <1>17 DEF Release, RailEffect, WithStatus, SetProviderRef
<1>18. CASE Reject
    BY <1>18 DEF Reject, WithStatus, WithRefund
<1>19. CASE RailCallback
    BY <1>19 DEF RailCallback, WithStatus
<1>20. CASE UNCHANGED vars
    BY <1>20 DEF vars
<1> QED BY <1>1, <1>2, <1>3, <1>4, <1>5, <1>6, <1>7, <1>8, <1>9, <1>10, <1>11, <1>12, <1>13, <1>14, <1>15, <1>16, <1>17, <1>18, <1>19, <1>20
    DEF Next, PayerStep, SystemStep, Procs

(* Nobody gets to settle or hold without a recorded charge. *)
LEMMA SettlerStep ==
    ASSUME TypeOK, IntentIsTracked, SettlersAreCharged, [Next]_vars
    PROVE  SettlersAreCharged'
<1> USE DEF TypeOK, IntentIsTracked, SettlersAreCharged, Process, Transfer
<1>1. ASSUME NEW p \in Procs, Screen(p) \/ FundedRescreen(p) \/ SettleOrHold(p)
      PROVE  SettlersAreCharged'
    <2>1. SameCharge(t, t') /\ psp' = psp /\ (Ended(p) \/ MovedOn(p))
        BY <1>1, ScreenAndSettle
    <2>2. CASE Ended(p)
        BY <2>1, <2>2 DEF Ended, SameCharge
    <2>3. CASE MovedOn(p)
        BY <2>1, <2>3 DEF MovedOn, Saw, SameCharge
    <2> QED BY <2>1, <2>2, <2>3
<1>2. ASSUME NEW p \in Procs, Open(p) PROVE SettlersAreCharged'
    BY <1>2 DEF Open, Saw
<1>21. ASSUME NEW p \in Confirmers, Confirm(p) PROVE SettlersAreCharged'
    BY <1>21 DEF Confirm, Procs
<1>3. ASSUME NEW p \in Procs, Capture(p) PROVE SettlersAreCharged'
    BY <1>3 DEF Capture, To, Finish, Idle
<1>4. ASSUME NEW p \in Procs, RecordCharge(p) PROVE SettlersAreCharged'
    BY <1>4 DEF RecordCharge, To, MaySetFundingRef, SetFundingRef
<1>5. ASSUME NEW p \in Procs, CreateIntent(p) PROVE SettlersAreCharged'
    BY <1>5 DEF CreateIntent, To, Finish, Idle
<1>6. ASSUME NEW p \in Procs, Bind(p) PROVE SettlersAreCharged'
    BY <1>6 DEF Bind, Finish, Idle, MayBindIntent, BindIntent
<1>7. ASSUME NEW p \in Procs, EnqueueAlert(p) PROVE SettlersAreCharged'
    BY <1>7 DEF EnqueueAlert, Finish, Idle
<1>8. ASSUME NEW p \in Procs, Crash(p) PROVE SettlersAreCharged'
    BY <1>8 DEF Crash, Finish, Idle
<1>9. CASE HandleSucceeded
    BY <1>9 DEF HandleSucceeded, Consume, MayFundingSucceed, FundingSucceed, Saw
<1>10. CASE HandleFailed
    BY <1>10 DEF HandleFailed, Consume, MayFundingFail, FundingFail
<1>11. CASE HandleDispute
    BY <1>11 DEF HandleDispute, Consume, MayFundingReturn, FundingReturn
<1>12. CASE CapturedNotice
    BY <1>12 DEF CapturedNotice, MaySetFundingRef, SetFundingRef
<1>13. CASE DebitMoves
    BY <1>13 DEF DebitMoves, DebitMove
<1>14. CASE SweepResume
    BY <1>14 DEF SweepResume, Saw, IsVictim
<1>15. CASE SweepAlerts
    BY <1>15 DEF SweepAlerts
<1>16. CASE VoidUnfunded
    BY <1>16 DEF VoidUnfunded, WithStatus
<1>17. CASE Release
    BY <1>17 DEF Release, RailEffect, WithStatus, SetProviderRef
<1>18. CASE Reject
    BY <1>18 DEF Reject, WithStatus, WithRefund
<1>19. CASE RailCallback
    BY <1>19 DEF RailCallback, WithStatus
<1>20. CASE UNCHANGED vars
    BY <1>20 DEF vars
<1> QED BY <1>1, <1>2, <1>3, <1>4, <1>5, <1>6, <1>7, <1>8, <1>9, <1>10, <1>11, <1>12, <1>13, <1>14, <1>15, <1>16, <1>17, <1>18, <1>19, <1>20, <1>21
    DEF Next, PayerStep, SystemStep, Procs

(* Given the above, no step breaks the safety invariants of the runs. *)
LEMMA SafetyStep ==
    ASSUME TypeOK, ChargeIsReal, IntentIsTracked,
           SettlersAreCharged, Safety, [Next]_vars
    PROVE  Safety'
<1> USE DEF TypeOK, Safety, HoldIsAnnounced, StageOneAfterCharge, RailOnlyWhenAllowed,
            IntentNeverVoided, RailKey, Transfer, Status, Compliance, FundingState
<1>1. ASSUME NEW p \in Procs, Open(p) \/ Confirm(p) PROVE Safety'
    BY <1>1 DEF Open, Confirm
<1>2. ASSUME NEW p \in Procs, Screen(p) PROVE Safety'
    BY <1>2 DEF Screen, Rescreen, MayRescreen, UnfundedNoIntent
<1>3. ASSUME NEW p \in Procs, Capture(p) PROVE Safety'
    BY <1>3 DEF Capture, Provider
<1>4. ASSUME NEW p \in Procs, RecordCharge(p) PROVE Safety'
    BY <1>4 DEF RecordCharge, SetFundingRef
<1>5. ASSUME NEW p \in Procs, CreateIntent(p) PROVE Safety'
    BY <1>5 DEF CreateIntent, Provider
<1>6. ASSUME NEW p \in Procs, Bind(p) PROVE Safety'
    BY <1>6 DEF Bind, MayBindIntent, BindIntent
<1>7. ASSUME NEW p \in Procs, BeginSettlement(p) PROVE Safety'
    BY <1>7 DEF BeginSettlement, Vouch, RailEffect, WithStatus, SetProviderRef, MayMarkPaid, SettlersAreCharged, ChargeIsReal, FundingGate
<1>8. ASSUME NEW p \in Procs, SettlementRefused(p) PROVE Safety'
    BY <1>8 DEF SettlementRefused
<1>9. ASSUME NEW p \in Procs, SettleBlocked(p) PROVE Safety'
    BY <1>9 DEF SettleBlocked
<1>10. ASSUME NEW p \in Procs, BeginHold(p) PROVE Safety'
    BY <1>10 DEF BeginHold, Vouch, WithStatus, MayMarkInReview, SettlersAreCharged, ChargeIsReal
<1>11. ASSUME NEW p \in Procs, FundedRescreen(p) PROVE Safety'
    BY <1>11 DEF FundedRescreen, Rescreen, MayRescreen, UnfundedNoIntent
<1>12. ASSUME NEW p \in Procs, EnqueueAlert(p) PROVE Safety'
    BY <1>12 DEF EnqueueAlert, Raise, Process, Alerts
<1>13. ASSUME NEW p \in Procs, Crash(p) PROVE Safety'
    BY <1>13 DEF Crash
<1>14. CASE HandleSucceeded
    <2>1. /\ keys \subseteq keys' /\ UNCHANGED vouched
          /\ keys' \subseteq keys \cup {"stripechargedmoved"}
        BY <1>14 DEF HandleSucceeded, Raise
    <2>2. /\ psp'.captured = psp.captured /\ psp'.debit = psp.debit
          /\ t'.status = t.status /\ t'.compliance = t.compliance
          /\ t'.b2b = t.b2b /\ t'.intent = t.intent
          /\ t.fundingRef => t'.fundingRef
        BY <1>14, ZenonT(60) DEF HandleSucceeded, Consume, FundingSucceed, Provider
    <2> QED BY <2>1, <2>2
<1>15. CASE HandleFailed
    BY <1>15 DEF HandleFailed, Consume, MayFundingFail, FundingFail
<1>16. CASE HandleDispute
    BY <1>16 DEF HandleDispute, Raise, Consume, MayFundingReturn, FundingReturn
<1>17. CASE CapturedNotice
    BY <1>17 DEF CapturedNotice, MaySetFundingRef, SetFundingRef
<1>18. CASE DebitMoves
    BY <1>18 DEF DebitMoves, DebitMove, Provider
<1>19. CASE SweepResume
    BY <1>19 DEF SweepResume
<1>20. CASE SweepAlerts
    BY <1>20 DEF SweepAlerts, Raise
<1>21. CASE VoidUnfunded
    BY <1>21 DEF VoidUnfunded, WithStatus, MayCancelUnfunded, UnfundedNoIntent
<1>22. CASE Release
    BY <1>22 DEF Release, RailEffect, WithStatus, SetProviderRef, MayRelease
<1>23. CASE Reject
    BY <1>23 DEF Reject, WithStatus, WithRefund
<1>24. CASE RailCallback
    BY <1>24, AdvanceFrom DEF RailCallback, WithStatus
<1>25. CASE UNCHANGED vars
    BY <1>25 DEF vars
<1> HIDE DEF Safety
<1> QED BY <1>1, <1>2, <1>3, <1>4, <1>5, <1>6, <1>7, <1>8, <1>9, <1>10, <1>11, <1>12, <1>13, <1>14, <1>15, <1>16, <1>17, <1>18, <1>19, <1>20, <1>21, <1>22, <1>23, <1>24, <1>25
    DEF Next, PayerStep, SettleOrHold, SystemStep, Procs

-----------------------------------------------------------------------------
(* Every move of a transfer, by whoever made it. *)

Stays == t'.status = t.status /\ t'.refund = t.refund
Leaves == /\ t.status = "awaiting_payment" /\ t'.refund = t.refund
          /\ t'.status \in {"paid", "in_review", "delivered", "cancelled", "blocked"}
          /\ t'.status \in {"paid", "in_review"} => FundingGate(t)
Decided == /\ t.status = "in_review"
           /\ \/ t'.status = "paid" /\ t'.refund = t.refund /\ FundingGate(t)
              \/ t'.status = "cancelled" /\ t'.refund \in {t.refund, "pending"}
Delivered == /\ t.status = "paid" /\ t'.status = "delivered"
             /\ t.refund = "none" /\ t'.refund = t.refund
Moves == Stays \/ Leaves \/ Decided \/ Delivered

(* Every step moves status and refund along the lifecycle, or not at all. *)
LEMMA StatusMoves ==
    ASSUME TypeOK, [Next]_vars
    PROVE  Moves
<1> USE DEF TypeOK, Moves, Stays, Transfer
<1>1. ASSUME NEW p \in Procs, Open(p) \/ Confirm(p) PROVE Moves
    BY <1>1 DEF Open, Confirm
<1>2. ASSUME NEW p \in Procs, Screen(p) PROVE Moves
    BY <1>2 DEF Screen, MayRescreen, Rescreen, Leaves
<1>3. ASSUME NEW p \in Procs, Capture(p) PROVE Moves
    BY <1>3 DEF Capture
<1>4. ASSUME NEW p \in Procs, RecordCharge(p) PROVE Moves
    BY <1>4 DEF RecordCharge, SetFundingRef
<1>5. ASSUME NEW p \in Procs, CreateIntent(p) PROVE Moves
    BY <1>5 DEF CreateIntent
<1>6. ASSUME NEW p \in Procs, Bind(p) PROVE Moves
    BY <1>6 DEF Bind, BindIntent
<1>7. ASSUME NEW p \in Procs, BeginSettlement(p) PROVE Moves
    BY <1>7 DEF BeginSettlement, MayMarkPaid, RailEffect, WithStatus, SetProviderRef, Leaves
<1>8. ASSUME NEW p \in Procs, SettlementRefused(p) PROVE Moves
    BY <1>8 DEF SettlementRefused
<1>9. ASSUME NEW p \in Procs, SettleBlocked(p) PROVE Moves
    BY <1>9 DEF SettleBlocked
<1>10. ASSUME NEW p \in Procs, BeginHold(p) PROVE Moves
    BY <1>10 DEF BeginHold, MayMarkInReview, WithStatus, Leaves
<1>11. ASSUME NEW p \in Procs, FundedRescreen(p) PROVE Moves
    BY <1>11 DEF FundedRescreen, MayRescreen, Rescreen, Leaves
<1>12. ASSUME NEW p \in Procs, EnqueueAlert(p) PROVE Moves
    BY <1>12 DEF EnqueueAlert
<1>13. ASSUME NEW p \in Procs, Crash(p) PROVE Moves
    BY <1>13 DEF Crash
<1>14. CASE HandleSucceeded
    BY <1>14 DEF HandleSucceeded, FundingSucceed
<1>15. CASE HandleFailed
    BY <1>15 DEF HandleFailed, FundingFail
<1>16. CASE HandleDispute
    BY <1>16 DEF HandleDispute, FundingReturn
<1>17. CASE CapturedNotice
    BY <1>17 DEF CapturedNotice, SetFundingRef
<1>18. CASE DebitMoves
    BY <1>18 DEF DebitMoves
<1>19. CASE SweepResume
    BY <1>19 DEF SweepResume
<1>20. CASE SweepAlerts
    BY <1>20 DEF SweepAlerts
<1>21. CASE VoidUnfunded
    BY <1>21 DEF VoidUnfunded, MayCancelUnfunded, WithStatus, Leaves
<1>22. CASE Release
    BY <1>22 DEF Release, MayRelease, RailEffect, WithStatus, SetProviderRef, Decided
<1>23. CASE Reject
    BY <1>23 DEF Reject, WithStatus, WithRefund, Decided
<1>24. CASE RailCallback
    BY <1>24, AdvanceFrom DEF RailCallback, MayAdvance, WithStatus, Leaves, Delivered
<1>25. CASE UNCHANGED vars
    BY <1>25 DEF vars
<1> HIDE DEF Moves
<1> QED BY <1>1, <1>2, <1>3, <1>4, <1>5, <1>6, <1>7, <1>8, <1>9, <1>10, <1>11, <1>12, <1>13, <1>14, <1>15, <1>16, <1>17, <1>18, <1>19, <1>20, <1>21, <1>22, <1>23, <1>24, <1>25
    DEF Next, PayerStep, SettleOrHold, SystemStep, Procs

-----------------------------------------------------------------------------
(* The hand-over.  Before it nothing was announced, refunded or sent; a
   partner-pulled row is charged by nobody; a bound debit is decided before
   its row leaves; and a verdict other than "cleared" is never taken back. *)

Untouched ==
    t.status = "awaiting_payment" =>
        /\ keys \cap Effects = {}
        /\ t.refund = "none" /\ t.providerRef = "none"
PartnerPulls ==
    t.b2b => /\ ~t.fundingRef /\ ~t.intent /\ ~psp.captured
             /\ \A p \in Procs : proc[p].pc \notin {"screen", "fund", "record", "bind"}
DebitIsDecided ==
    /\ ~t.intent => t.fundingState = "none"
    /\ t.intent /\ t.status \notin {"awaiting_payment", "blocked"} =>
           t.fundingState \in {"succeeded", "returned"}
VerdictStands ==
    \A p \in Procs : proc[p].compliance # "cleared" \/ proc[p].pc = "hold"
                         => t.compliance # "cleared"
HInv == Untouched /\ PartnerPulls /\ DebitIsDecided /\ VerdictStands

(* Nothing is announced, refunded or sent before the row leaves. *)
LEMMA UntouchedStep ==
    ASSUME TypeOK, Untouched, [Next]_vars
    PROVE  Untouched'
<1> SUFFICES ASSUME t'.status = "awaiting_payment"
             PROVE  /\ keys' \cap Effects = {}
                    /\ t'.refund = "none" /\ t'.providerRef = "none"
    BY DEF Untouched
<1> USE DEF TypeOK, Transfer
<1>0. /\ t.status = "awaiting_payment" /\ keys \cap Effects = {}
      /\ t.refund = "none" /\ t.providerRef = "none" /\ t'.refund = "none"
    BY StatusMoves DEF Moves, Stays, Leaves, Decided, Delivered, Untouched
<1>a. \A alert \in Alerts : Raise(alert) => keys' \cap Effects = {}
    BY <1>0 DEF Raise, Alerts, Effects
<1> DEFINE Same == t'.providerRef = t.providerRef /\ keys' \cap Effects = {}
<1> SUFFICES Same
    BY <1>0
<1>1. ASSUME NEW p \in Procs, Screen(p) \/ FundedRescreen(p) PROVE Same
    BY <1>0, <1>1 DEF Screen, FundedRescreen, Rescreen
<1>2. ASSUME NEW p \in Procs, SettleOrHold(p) PROVE Same
    <2>1. ~BeginSettlement(p)
        BY <1>0 DEF BeginSettlement, RailEffect, WithStatus, SetProviderRef
    <2>2. CASE BeginHold(p)
        <3>1. ~MayMarkInReview(t)
            BY <1>0, <2>2 DEF BeginHold, WithStatus
        <3> QED BY <1>0, <2>2, <3>1 DEF BeginHold
    <2> QED BY <1>0, <1>2, <2>1, <2>2 DEF SettleOrHold, SettlementRefused, SettleBlocked
<1>3. ASSUME NEW p \in Procs,
             Open(p) \/ Confirm(p) \/ Capture(p) \/ CreateIntent(p) \/ Crash(p)
      PROVE  Same
    BY <1>0, <1>3 DEF Open, Confirm, Capture, CreateIntent, Crash
<1>4. ASSUME NEW p \in Procs, RecordCharge(p) \/ Bind(p) PROVE Same
    BY <1>0, <1>4 DEF RecordCharge, SetFundingRef, Bind, BindIntent
<1>5. ASSUME NEW p \in Procs, EnqueueAlert(p) PROVE Same
    <2>1. Raise(proc[p].note) /\ t' = t
        BY <1>5 DEF EnqueueAlert
    <2>2. keys' \subseteq keys \cup Watched \/ keys' = keys
        BY <2>1 DEF Raise
    <2>3. keys' \cap Effects = {}
        BY <1>0, <2>2, PaymentAssumption DEF Alerts, Effects
    <2> QED BY <2>1, <2>3
<1>6. CASE HandleSucceeded
    BY <1>0, <1>a, <1>6 DEF HandleSucceeded, FundingSucceed, Alerts
<1>7. CASE HandleFailed
    BY <1>0, <1>7 DEF HandleFailed, FundingFail
<1>8. CASE HandleDispute
    BY <1>0, <1>a, <1>8 DEF HandleDispute, FundingReturn, Alerts
<1>9. CASE CapturedNotice
    BY <1>0, <1>9 DEF CapturedNotice, SetFundingRef
<1>10. CASE DebitMoves \/ SweepResume
    BY <1>0, <1>10 DEF DebitMoves, SweepResume
<1>11. CASE SweepAlerts
    BY <1>0, <1>a, <1>11 DEF SweepAlerts, Alerts
<1>12. ~VoidUnfunded
    BY <1>0 DEF VoidUnfunded, WithStatus
<1>13. ~Release /\ ~Reject
    BY <1>0 DEF Release, MayRelease, Reject
<1>14. ~RailCallback
    BY <1>0 DEF RailCallback, WithStatus
<1>15. CASE UNCHANGED vars
    BY <1>0, <1>15 DEF vars
<1> HIDE DEF Same, TypeOK, Transfer
<1> QED BY <1>1, <1>2, <1>3, <1>4, <1>5, <1>6, <1>7, <1>8, <1>9, <1>10, <1>11, <1>12, <1>13, <1>14, <1>15
    DEF Next, PayerStep, SystemStep, Procs

(* Nobody ever charges the sender of a partner-pulled row. *)
LEMMA PartnerStep ==
    ASSUME TypeOK, SettlersAreCharged, PartnerPulls, [Next]_vars
    PROVE  PartnerPulls'
<1> USE DEF TypeOK, PartnerPulls, Process, Transfer, Provider
<1>1. ASSUME NEW p \in Procs, Screen(p) \/ FundedRescreen(p) \/ SettleOrHold(p)
      PROVE  PartnerPulls'
    <2>1. SameCharge(t, t') /\ psp' = psp /\ (Ended(p) \/ MovedOn(p))
        BY <1>1, ScreenAndSettle
    <2>2. CASE Ended(p)
        BY <2>1, <2>2 DEF Ended, SameCharge
    <2>3. CASE MovedOn(p)
        BY <2>1, <2>3 DEF MovedOn, Saw, SameCharge
    <2> QED BY <2>1, <2>2, <2>3
<1>2. ASSUME NEW p \in Procs, Open(p) \/ Confirm(p) PROVE PartnerPulls'
    BY <1>2 DEF Open, Confirm, Saw
<1>3. ASSUME NEW p \in Procs, Capture(p) PROVE PartnerPulls'
    BY <1>3 DEF Capture, To, Finish, Idle
<1>4. ASSUME NEW p \in Procs, RecordCharge(p) PROVE PartnerPulls'
    BY <1>4 DEF RecordCharge, To, MaySetFundingRef, SetFundingRef
<1>5. ASSUME NEW p \in Procs, CreateIntent(p) PROVE PartnerPulls'
    BY <1>5 DEF CreateIntent, To, Finish, Idle
<1>6. ASSUME NEW p \in Procs, Bind(p) PROVE PartnerPulls'
    BY <1>6 DEF Bind, Finish, Idle, MayBindIntent, BindIntent
<1>7. ASSUME NEW p \in Procs, EnqueueAlert(p) PROVE PartnerPulls'
    BY <1>7 DEF EnqueueAlert, Finish, Idle
<1>8. ASSUME NEW p \in Procs, Crash(p) PROVE PartnerPulls'
    BY <1>8 DEF Crash, Finish, Idle
<1>9. CASE HandleSucceeded
    BY <1>9 DEF HandleSucceeded, Consume, MayFundingSucceed, FundingSucceed, Saw
<1>10. CASE HandleFailed
    BY <1>10 DEF HandleFailed, Consume, MayFundingFail, FundingFail
<1>11. CASE HandleDispute
    BY <1>11 DEF HandleDispute, Consume, MayFundingReturn, FundingReturn
<1>12. CASE CapturedNotice
    BY <1>12 DEF CapturedNotice, MaySetFundingRef, SetFundingRef
<1>13. CASE DebitMoves
    BY <1>13 DEF DebitMoves, DebitMove
<1>14. CASE SweepResume
    BY <1>14 DEF SweepResume, Saw, IsVictim
<1>15. CASE SweepAlerts
    BY <1>15 DEF SweepAlerts
<1>16. CASE VoidUnfunded
    BY <1>16 DEF VoidUnfunded, WithStatus
<1>17. CASE Release
    BY <1>17 DEF Release, RailEffect, WithStatus, SetProviderRef
<1>18. CASE Reject
    BY <1>18 DEF Reject, WithStatus, WithRefund
<1>19. CASE RailCallback
    BY <1>19 DEF RailCallback, WithStatus
<1>20. CASE UNCHANGED vars
    BY <1>20 DEF vars
<1> HIDE DEF TypeOK, PartnerPulls
<1> QED BY <1>1, <1>2, <1>3, <1>4, <1>5, <1>6, <1>7, <1>8, <1>9, <1>10, <1>11, <1>12, <1>13, <1>14, <1>15, <1>16, <1>17, <1>18, <1>19, <1>20
    DEF Next, PayerStep, SystemStep, Procs

(* A bound debit is decided before its row leaves awaiting_payment. *)
LEMMA DebitStep ==
    ASSUME TypeOK, IntentIsTracked, DebitIsDecided, [Next]_vars
    PROVE  DebitIsDecided'
<1> USE DEF TypeOK, DebitIsDecided, Process, Transfer
<1>1. ASSUME NEW p \in Procs, Screen(p) \/ FundedRescreen(p) \/ SettleOrHold(p)
      PROVE  DebitIsDecided'
    <2>1. SameCharge(t, t')
        BY <1>1, ScreenAndSettle
    <2>2. CASE Stays
        BY <2>1, <2>2 DEF Stays, SameCharge
    <2>3. CASE Leaves
        <3>1. t'.status # "blocked" /\ t'.intent => FundingGate(t)
            <4>1. t'.status \notin {"cancelled", "delivered"}
                BY <1>1, <2>3 DEF Screen, FundedRescreen, Rescreen, SettleOrHold,
                    BeginSettlement, RailEffect, SetProviderRef, SettlementRefused,
                    SettleBlocked, BeginHold, WithStatus, Leaves
            <4> QED BY <2>3, <4>1 DEF Leaves
        <3> QED BY <2>1, <2>3, <3>1 DEF Leaves, SameCharge, FundingGate, IntentIsTracked
    <2>4. t.status \in {"paid", "in_review"} => Stays
        BY <1>1 DEF Screen, FundedRescreen, MayRescreen, Rescreen, SettleOrHold,
            BeginSettlement, MayMarkPaid, SettlementRefused, SettleBlocked,
            BeginHold, MayMarkInReview, Stays
    <2> QED BY <2>2, <2>3, <2>4, StatusMoves DEF Moves, Decided, Delivered
<1>2. ASSUME NEW p \in Procs, Open(p) \/ Confirm(p) PROVE DebitIsDecided'
    BY <1>2 DEF Open, Confirm, Saw
<1>3. ASSUME NEW p \in Procs, Capture(p) PROVE DebitIsDecided'
    BY <1>3 DEF Capture, To, Finish, Idle
<1>4. ASSUME NEW p \in Procs, RecordCharge(p) PROVE DebitIsDecided'
    BY <1>4 DEF RecordCharge, To, SetFundingRef
<1>5. ASSUME NEW p \in Procs, CreateIntent(p) PROVE DebitIsDecided'
    BY <1>5 DEF CreateIntent, To, Finish, Idle
<1>6. ASSUME NEW p \in Procs, Bind(p) PROVE DebitIsDecided'
    BY <1>6 DEF Bind, Finish, Idle, MayBindIntent, BindIntent
<1>7. ASSUME NEW p \in Procs, EnqueueAlert(p) PROVE DebitIsDecided'
    BY <1>7 DEF EnqueueAlert, Finish, Idle
<1>8. ASSUME NEW p \in Procs, Crash(p) PROVE DebitIsDecided'
    BY <1>8 DEF Crash, Finish, Idle
<1>9. CASE HandleSucceeded
    BY <1>9 DEF HandleSucceeded, MayFundingSucceed, FundingSucceed, Saw
<1>10. CASE HandleFailed
    BY <1>10 DEF HandleFailed, MayFundingFail, FundingFail
<1>11. CASE HandleDispute
    BY <1>11 DEF HandleDispute, MayFundingReturn, FundingReturn
<1>12. CASE CapturedNotice
    BY <1>12 DEF CapturedNotice, SetFundingRef
<1>13. CASE DebitMoves
    BY <1>13 DEF DebitMoves
<1>14. CASE SweepResume
    BY <1>14 DEF SweepResume, Saw
<1>15. CASE SweepAlerts
    BY <1>15 DEF SweepAlerts
<1>16. CASE VoidUnfunded
    BY <1>16 DEF VoidUnfunded, MayCancelUnfunded, UnfundedNoIntent, WithStatus
<1>17. CASE Release
    BY <1>17 DEF Release, MayRelease, RailEffect, WithStatus, SetProviderRef
<1>18. CASE Reject
    BY <1>18 DEF Reject, WithStatus, WithRefund
<1>19. CASE RailCallback
    BY <1>19, AdvanceFrom DEF RailCallback, MayAdvance, FundingGate, WithStatus, IntentIsTracked
<1>20. CASE UNCHANGED vars
    BY <1>20 DEF vars
<1> HIDE DEF TypeOK, DebitIsDecided
<1> QED BY <1>1, <1>2, <1>3, <1>4, <1>5, <1>6, <1>7, <1>8, <1>9, <1>10, <1>11, <1>12, <1>13, <1>14, <1>15, <1>16, <1>17, <1>18, <1>19, <1>20
    DEF Next, PayerStep, SystemStep, Procs

(* A verdict other than "cleared" is never taken back. *)
LEMMA VerdictStep ==
    ASSUME TypeOK, VerdictStands, [Next]_vars
    PROVE  VerdictStands'
<1> USE DEF TypeOK, VerdictStands, Process, Transfer
<1>1. ASSUME NEW p \in Procs, Screen(p) \/ FundedRescreen(p) \/ SettleOrHold(p)
      PROVE  VerdictStands'
    <2>1. Ended(p) \/ MovedOn(p)
        BY <1>1, ScreenAndSettle
    <2>2. t.compliance # "cleared" => t'.compliance # "cleared"
        BY <1>1 DEF Screen, FundedRescreen, Rescreen, SettleOrHold, BeginSettlement,
            MayMarkPaid, SettlementRefused, SettleBlocked, BeginHold, WithStatus
    <2>3. CASE Ended(p)
        BY <2>2, <2>3 DEF Ended
    <2>4. CASE MovedOn(p)
        BY <2>2, <2>4 DEF MovedOn, Saw
    <2> QED BY <2>1, <2>3, <2>4
<1>2. ASSUME NEW p \in Procs, Open(p) \/ Confirm(p) PROVE VerdictStands'
    BY <1>2 DEF Open, Confirm, Saw
<1>3. ASSUME NEW p \in Procs, Capture(p) PROVE VerdictStands'
    BY <1>3 DEF Capture, To, Finish, Idle
<1>4. ASSUME NEW p \in Procs, RecordCharge(p) PROVE VerdictStands'
    BY <1>4 DEF RecordCharge, To, SetFundingRef
<1>5. ASSUME NEW p \in Procs, CreateIntent(p) PROVE VerdictStands'
    BY <1>5 DEF CreateIntent, To, Finish, Idle
<1>6. ASSUME NEW p \in Procs, Bind(p) PROVE VerdictStands'
    BY <1>6 DEF Bind, Finish, Idle, MayBindIntent, BindIntent
<1>7. ASSUME NEW p \in Procs, EnqueueAlert(p) PROVE VerdictStands'
    BY <1>7 DEF EnqueueAlert, Finish, Idle
<1>8. ASSUME NEW p \in Procs, Crash(p) PROVE VerdictStands'
    BY <1>8 DEF Crash, Finish, Idle
<1>9. CASE HandleSucceeded
    <2>1. t'.compliance = t.compliance
        BY <1>9 DEF HandleSucceeded, FundingSucceed
    <2>2. \A q \in Procs :
              \/ proc'[q] = proc[q]
              \/ proc'[q].compliance = t'.compliance /\ proc'[q].pc = "rescreen"
        <3>1. CASE proc' = proc
            BY <3>1
        <3>2. CASE proc' = [proc EXCEPT !["webhook"] = Saw(t', "rescreen")]
            BY <3>2 DEF Saw
        <3> QED BY <1>9, <3>1, <3>2 DEF HandleSucceeded
    <2> QED BY <2>1, <2>2
<1>10. CASE HandleFailed
    BY <1>10 DEF HandleFailed, MayFundingFail, FundingFail
<1>11. CASE HandleDispute
    BY <1>11 DEF HandleDispute, MayFundingReturn, FundingReturn
<1>12. CASE CapturedNotice
    BY <1>12 DEF CapturedNotice, SetFundingRef
<1>13. CASE DebitMoves
    BY <1>13 DEF DebitMoves
<1>14. CASE SweepResume
    BY <1>14 DEF SweepResume, Saw
<1>15. CASE SweepAlerts
    BY <1>15 DEF SweepAlerts
<1>16. CASE VoidUnfunded
    BY <1>16 DEF VoidUnfunded, MayCancelUnfunded, UnfundedNoIntent, WithStatus
<1>17. CASE Release
    BY <1>17 DEF Release, RailEffect, WithStatus, SetProviderRef
<1>18. CASE Reject
    BY <1>18 DEF Reject, WithStatus, WithRefund
<1>19. CASE RailCallback
    BY <1>19, AdvanceFrom DEF RailCallback, MayAdvance, FundingGate, WithStatus
<1>20. CASE UNCHANGED vars
    BY <1>20 DEF vars
<1> HIDE DEF TypeOK, VerdictStands
<1> QED BY <1>1, <1>2, <1>3, <1>4, <1>5, <1>6, <1>7, <1>8, <1>9, <1>10, <1>11, <1>12, <1>13, <1>14, <1>15, <1>16, <1>17, <1>18, <1>19, <1>20
    DEF Next, PayerStep, SystemStep, Procs

(* The step that HandsOver speaks of. *)
HandOverStep ==
    /\ t.status = "awaiting_payment" /\ t'.status \in {"paid", "in_review", "delivered"}
         => Handed(t', keys' \cap Effects)
    /\ t.status \notin {"awaiting_payment", "blocked"} /\ t'.status = t.status
         => Trails(t, t') /\ keys' \cap Effects = keys \cap Effects

(* Whoever takes the row off the pay page hands over what Handover lists. *)
LEMMA RowIsHanded ==
    ASSUME IInv, HInv, [Next]_vars, t.status = "awaiting_payment",
           t'.status \in {"paid", "in_review", "delivered"}
    PROVE  Handed(t', keys' \cap Effects)
<1>1. /\ t \in Transfer /\ t' \in Transfer /\ proc \in [Procs -> Process]
      /\ keys \cap Effects = {} /\ t.refund = "none" /\ t.providerRef = "none"
      /\ t'.refund = "none"
    BY TypeStep, StatusMoves DEF IInv, TypeOK, HInv, Untouched, Moves, Stays, Leaves,
        Decided, Delivered
<1>2. /\ t.b2b => ~t.fundingRef
      /\ ~t.intent => t.fundingState = "none"
      /\ t.intent => t.fundingState # "none"
      /\ t.fundingState = "succeeded" => t.fundingRef
    BY DEF HInv, PartnerPulls, DebitIsDecided, IInv, IntentIsTracked
(* The funding columns stay in order across a claim that passed the gate. *)
<1>3. ASSUME SameCharge(t, t'), FundingGate(t)
      PROVE  /\ t'.intent => t'.fundingRef /\ t'.fundingState = "succeeded"
             /\ ~t'.intent => t'.fundingState = "none"
             /\ t'.b2b => ~t'.fundingRef
    BY <1>2, <1>3 DEF SameCharge, FundingGate
<1>4. ASSUME NEW p \in Procs, BeginSettlement(p) PROVE Handed(t', keys' \cap Effects)
    <2> DEFINE way == IF MockRail THEN "mocked" ELSE "settled"
    <2>1. /\ MayMarkPaid(t) /\ t' = RailEffect(WithStatus(t, "paid"))
          /\ keys' = keys \cup {"stage1", RailKey}
        BY <1>4 DEF BeginSettlement
    <2>2. SameCharge(t, t') /\ FundingGate(t)
        BY <1>1, <2>1, ChargeKept DEF RailEffect, MayMarkPaid, SameCharge, Status
    <2>3. /\ t'.status = "paid" /\ t'.compliance = "cleared"
          /\ t'.providerRef = IF MockRail THEN "mock" ELSE "none"
        BY <1>1, <2>1 DEF Transfer, RailEffect, WithStatus, SetProviderRef, MayMarkPaid
    <2>4. keys' \cap Effects = HandedEffects(way) /\ way \in Way
        <3>1. keys' \cap Effects = {"stage1", RailKey}
            <4>1. "stage1" \in Effects /\ RailKey \in Effects
                BY DEF Effects, RailKey
            <4>2. keys \cap Effects = {}
                BY <1>1
            <4>3. \A x : keys' = keys \cup {"stage1", x} /\ x \in Effects
                      => keys' \cap Effects = {"stage1", x}
                BY <4>1, <4>2, SMT
            <4> QED BY <2>1, <4>1, <4>3
        <3>2. \/ way = "mocked" /\ RailKey = "mocksettle"
              \/ way = "settled" /\ RailKey = "instruct"
            BY DEF RailKey
        <3>3. /\ HandedEffects("mocked") = {"stage1", "mocksettle"}
              /\ HandedEffects("settled") = {"stage1", "instruct"}
            BY DEF HandedEffects
        <3>4. way \in Way
            BY <3>2 DEF Way
        <3> HIDE DEF way
        <3> QED BY <3>1, <3>2, <3>3, <3>4
    <2>5. way # "held" /\ way # "arrived" /\ (way = "mocked" <=> MockRail)
        OBVIOUS
    <2> HIDE DEF way
    <2> QED BY <1>1, <1>3, <2>2, <2>3, <2>4, <2>5, HandedIs
<1>5. ASSUME NEW p \in Procs, BeginHold(p) PROVE Handed(t', keys' \cap Effects)
    <2>1. /\ MayMarkInReview(t) /\ t' = WithStatus(t, "in_review")
          /\ keys' = keys \cup {"stage1"}
        BY <1>5 DEF BeginHold
    <2>2. t.compliance = "flagged"
        BY <1>1, <1>5, <2>1 DEF BeginHold, HInv, VerdictStands, MayMarkInReview,
            Transfer, Compliance
    <2>3. SameCharge(t, t') /\ FundingGate(t)
        BY <1>1, <2>1, ChargeKept DEF MayMarkInReview, SameCharge, Status
    <2>4. t'.status = "in_review" /\ t'.compliance = "flagged" /\ t'.providerRef = "none"
        BY <1>1, <2>1, <2>2 DEF Transfer, WithStatus
    <2>5. keys' \cap Effects = HandedEffects("held") /\ "held" \in Way
        <3>1. keys' \cap Effects = {"stage1"}
            <4>1. "stage1" \in Effects
                BY DEF Effects
            <4>2. keys \cap Effects = {} /\ keys' = keys \cup {"stage1"}
                BY <1>1, <2>1
            <4> QED BY <4>1, <4>2, SMT
        <3> QED BY <3>1 DEF HandedEffects, Way
    <2> QED BY <1>1, <1>3, <2>3, <2>4, <2>5, HandedIs
<1>6. ASSUME RailCallback PROVE Handed(t', keys' \cap Effects)
    <2>1. PICK status \in {"paid", "delivered"} :
              MayAdvance(t, status) /\ t' = WithStatus(t, status)
        BY <1>6 DEF RailCallback
    <2> DEFINE way == IF status = "paid" THEN "funded" ELSE "arrived"
    <2>2. SameCharge(t, t') /\ FundingGate(t)
        BY <1>1, <2>1, ChargeKept DEF MayAdvance, Status
    <2>3. /\ t'.status = status /\ t'.compliance = "cleared" /\ t'.providerRef = "none"
        BY <1>1, <2>1 DEF Transfer, WithStatus, MayAdvance
    <2>4. keys' \cap Effects = HandedEffects(way) /\ way \in Way
        BY <1>1, <1>6 DEF RailCallback, HandedEffects, Way, ByCallback
    <2>5. /\ way # "held" /\ way # "mocked"
          /\ status = IF way = "arrived" THEN "delivered" ELSE "paid"
        BY <2>1
    <2> HIDE DEF way
    <2> QED BY <1>1, <1>3, <2>2, <2>3, <2>4, <2>5, HandedIs
(* Nobody else moves the row there. *)
<1>7. ASSUME NEW p \in Procs, SettleOrHold(p) PROVE Handed(t', keys' \cap Effects)
    BY <1>4, <1>5, <1>7 DEF SettleOrHold, SettlementRefused, SettleBlocked
<1>8. ASSUME NEW p \in Procs, PayerStep(p) \/ Confirm(p) PROVE FALSE
    BY <1>1, <1>8 DEF PayerStep, Open, Confirm, Screen, Capture, RecordCharge, CreateIntent, Bind,
        Rescreen, SetFundingRef, BindIntent, Transfer
<1>9. ASSUME NEW p \in Procs, FundedRescreen(p) \/ EnqueueAlert(p) \/ Crash(p) PROVE FALSE
    BY <1>1, <1>9 DEF FundedRescreen, EnqueueAlert, Crash, Rescreen, Transfer
<1>10. ASSUME SystemStep, ~RailCallback PROVE FALSE
    BY <1>1, <1>10 DEF SystemStep, HandleSucceeded, HandleFailed, HandleDispute,
        CapturedNotice, DebitMoves, SweepResume, SweepAlerts, VoidUnfunded, Release,
        MayRelease, Reject, FundingSucceed, FundingFail, FundingReturn, SetFundingRef,
        WithStatus, Transfer
<1>11. t' # t
    BY <1>1
<1> QED BY <1>6, <1>7, <1>8, <1>9, <1>10, <1>11 DEF Next, Procs, vars

(* After the hand-over this side only records a late charge or a dispute. *)
LEMMA RowTrails ==
    ASSUME TypeOK, HInv, [Next]_vars, t'.status = t.status,
           t.status \notin {"awaiting_payment", "blocked"}
    PROVE  Trails(t, t') /\ keys' \cap Effects = keys \cap Effects
<1> USE DEF TypeOK
<1>0. \A alert \in Alerts : Raise(alert) => keys' \cap Effects = keys \cap Effects
    BY DEF Raise, Alerts, Effects
<1>a. t' = t => Trails(t, t')
    BY DEF Trails
<1>b. ~t.b2b /\ MaySetFundingRef(t) /\ t' = SetFundingRef(t) => Trails(t, t')
    BY DEF Trails, MayChargeLate
<1>c. /\ ~MayRescreen(t) /\ ~MayBindIntent(t) /\ ~MayMarkPaid(t)
      /\ ~MayMarkInReview(t) /\ ~MayCancelUnfunded(t)
    BY DEF MayRescreen, MayBindIntent, MayMarkPaid, MayMarkInReview, MayCancelUnfunded
<1>d. ~MayFundingSucceed(t) /\ ~MayFundingFail(t)
    BY DEF MayFundingSucceed, MayFundingFail, HInv, DebitIsDecided
<1>1. ASSUME NEW p \in Procs,
             Open(p) \/ Confirm(p) \/ Screen(p) \/ Capture(p) \/ CreateIntent(p)
                \/ Bind(p) \/ Crash(p) \/ SettleOrHold(p)
      PROVE  Trails(t, t') /\ keys' \cap Effects = keys \cap Effects
    BY <1>a, <1>c, <1>1 DEF Open, Confirm, Screen, Capture, CreateIntent, Bind, Crash, SettleOrHold,
        BeginSettlement, SettlementRefused, SettleBlocked, BeginHold
<1>2. ASSUME NEW p \in Procs, FundedRescreen(p)
      PROVE  Trails(t, t') /\ keys' \cap Effects = keys \cap Effects
    BY <1>a, <1>c, <1>2 DEF FundedRescreen
<1>3. ASSUME NEW p \in Procs, RecordCharge(p)
      PROVE  Trails(t, t') /\ keys' \cap Effects = keys \cap Effects
    BY <1>a, <1>b, <1>3 DEF RecordCharge, HInv, PartnerPulls
<1>4. ASSUME NEW p \in Procs, EnqueueAlert(p)
      PROVE  Trails(t, t') /\ keys' \cap Effects = keys \cap Effects
    <2>1. t' = t /\ (keys' \subseteq keys \cup Watched) /\ (keys \subseteq keys')
        BY <1>4 DEF EnqueueAlert, Raise
    <2>2. Watched \cap Effects = {}
        BY PaymentAssumption DEF Alerts, Effects
    <2> QED BY <1>a, <2>1, <2>2
<1>5. CASE HandleSucceeded \/ HandleFailed
    BY <1>a, <1>d, <1>5 DEF HandleSucceeded, HandleFailed
<1>6. CASE HandleDispute
    <2>1. CASE MayFundingReturn(t)
        BY <1>0, <1>6, <2>1 DEF HandleDispute, Trails, Alerts
    <2>2. CASE ~MayFundingReturn(t)
        BY <1>a, <1>6, <2>2 DEF HandleDispute
    <2> QED BY <2>1, <2>2
<1>7. CASE CapturedNotice
    BY <1>b, <1>7 DEF CapturedNotice, HInv, PartnerPulls
<1>8. CASE DebitMoves \/ SweepResume
    BY <1>a, <1>8 DEF DebitMoves, SweepResume
<1>9. CASE SweepAlerts
    BY <1>0, <1>a, <1>9 DEF SweepAlerts, Alerts
<1>10. ~VoidUnfunded
    BY <1>c DEF VoidUnfunded
<1>11. ~Release /\ ~Reject
    <2>1. Release => t.status = "in_review" /\ t'.status = "paid"
        BY DEF Release, MayRelease, RailEffect, WithStatus, SetProviderRef, Transfer
    <2>2. Reject => t.status = "in_review" /\ t'.status = "cancelled"
        BY DEF Reject, WithStatus, WithRefund, Transfer
    <2> QED BY <2>1, <2>2
<1>12. ~RailCallback
    BY DEF RailCallback, MayAdvance, Rank, WithStatus, Transfer
<1>13. CASE UNCHANGED vars
    BY <1>a, <1>13 DEF vars
<1> HIDE DEF TypeOK
<1> QED BY <1>1, <1>2, <1>3, <1>4, <1>5, <1>6, <1>7, <1>8, <1>9, <1>10, <1>11, <1>12, <1>13
    DEF Next, PayerStep, SystemStep, Procs

(* What the hand-over rests on is inductive, beside IInv. *)
LEMMA HandOverInit == Init => HInv
BY DEF Init, Minted, Idle, HInv, Untouched, PartnerPulls, DebitIsDecided, VerdictStands

(* No step breaks it. *)
LEMMA HandOverInvariant == IInv /\ HInv /\ [Next]_vars => HInv'
BY UntouchedStep, PartnerStep, DebitStep, VerdictStep DEF IInv, HInv

-----------------------------------------------------------------------------
(* The theorems. *)

(* The invariant holds of a minted transfer. *)
LEMMA InvariantInit == Init => IInv
<1> SUFFICES ASSUME Init PROVE IInv
    OBVIOUS
<1>1. TypeOK
    BY TypeInit
<1>2. /\ ~t.fundingRef /\ ~t.intent /\ t.fundingState = "none"
      /\ t.status = "awaiting_payment"
    BY DEF Init, Minted
<1>3. \A p \in Procs : proc[p].pc = "idle" /\ proc[p].fundingState = "none"
    BY DEF Init, Idle
<1>4. keys = {} /\ psp.events = {}
    BY DEF Init
<1> QED BY <1>1, <1>2, <1>3, <1>4
        DEF IInv, ChargeIsReal, IntentIsTracked, SettlersAreCharged, Safety,
            HoldIsAnnounced, StageOneAfterCharge, RailOnlyWhenAllowed, IntentNeverVoided

(* The parts together are inductive. *)
LEMMA InvariantStep == IInv /\ [Next]_vars => IInv'
<1> SUFFICES ASSUME IInv, [Next]_vars PROVE IInv'
    OBVIOUS
<1> QED BY TypeStep, ChargeStep, IntentStep, SettlerStep, SafetyStep DEF IInv

(* The inductive invariant holds in every reachable state. *)
THEOREM PaymentInvariant == Spec => []IInv
<1> QED BY InvariantInit, InvariantStep, PTL DEF Spec

(* Every reachable state has its type. *)
THEOREM PaymentTypeCorrect == Spec => []TypeOK
<1>1. IInv => TypeOK
    BY DEF IInv
<1> QED BY <1>1, PaymentInvariant, PTL

(* The customer is told "payment received" only of money that was taken, or on
   the word of the partner whose confirm won the claim. *)
THEOREM MessageAfterCharge == Spec => []StageOneAfterCharge
<1>1. IInv => StageOneAfterCharge
    BY DEF IInv, Safety
<1> QED BY <1>1, PaymentInvariant, PTL

(* A rail effect exists only for a cleared or released transfer. *)
THEOREM RailIsGuarded == Spec => []RailOnlyWhenAllowed
<1>1. IInv => RailOnlyWhenAllowed
    BY DEF IInv, Safety
<1> QED BY <1>1, PaymentInvariant, PTL

(* A row with a live async intent is never voided. *)
THEOREM IntentIsSafe == Spec => []IntentNeverVoided
<1>1. IInv => IntentNeverVoided
    BY DEF IInv, Safety
<1> QED BY <1>1, PaymentInvariant, PTL

(* No step settles or holds a row whose debit is unsettled or returned. *)
THEOREM GateIsKept == Spec => FundingGateHolds
<1>1. IInv /\ [Next]_vars =>
          [t.status # t'.status /\ t'.status \in {"paid", "in_review"}
              => FundingGate(t) /\ (t.intent => t.fundingRef)]_vars
    <2> SUFFICES ASSUME IInv, [Next]_vars, t.status # t'.status,
                        t'.status \in {"paid", "in_review"}
                 PROVE  FundingGate(t) /\ (t.intent => t.fundingRef)
        OBVIOUS
    <2>1. FundingGate(t)
        BY StatusMoves DEF IInv, Moves, Stays, Leaves, Decided, Delivered
    <2> QED BY <2>1 DEF IInv, IntentIsTracked, FundingGate
<1> QED BY <1>1, PaymentInvariant, PTL DEF Spec, FundingGateHolds

(* The payment side keeps the lifecycle's promises. *)
THEOREM PaymentImplementsLifecycle == Spec => KeepsLifecycle
<1>1. Init => Lifecycle!Init
    BY DEF Init, Minted, Lifecycle!Init
<1>2. TypeOK /\ [Next]_vars => [Lifecycle!Next]_(Lifecycle!vars)
    <2> SUFFICES ASSUME TypeOK, [Next]_vars
                 PROVE  [Lifecycle!Next]_(Lifecycle!vars)
        OBVIOUS
    <2>1. Moves
        BY StatusMoves
    <2>2. CASE Stays
        BY <2>2 DEF Stays, Lifecycle!vars
    <2>3. CASE Leaves
        BY <2>3 DEF Leaves, Lifecycle!Next, Lifecycle!LeaveAwaiting, Lifecycle!Closed
    <2>4. CASE Decided
        BY <2>4 DEF Decided, Lifecycle!Next, Lifecycle!DecideHold
    <2>5. CASE Delivered
        BY <2>5 DEF Delivered, Lifecycle!Next, Lifecycle!Deliver
    <2> QED BY <2>1, <2>2, <2>3, <2>4, <2>5 DEF Moves
<1> QED BY <1>1, <1>2, PaymentTypeCorrect, PTL DEF Spec, KeepsLifecycle, Lifecycle!Spec

(* Whoever charged, settled, held or called back, and in whatever order, the
   row that leaves the pay page is one that Payout starts from, and this side
   only trails it afterwards. *)
THEOREM PaymentHandsOver == Spec => HandsOver
<1>1. IInv /\ HInv /\ [Next]_vars => HandOverStep \/ UNCHANGED vars
    <2> SUFFICES ASSUME IInv, HInv, [Next]_vars PROVE HandOverStep
        OBVIOUS
    <2>1. TypeOK
        BY DEF IInv
    <2> QED BY <2>1, RowIsHanded, RowTrails DEF HandOverStep
<1>2. Spec => [](IInv /\ HInv)
    BY InvariantInit, InvariantStep, HandOverInit, HandOverInvariant, PTL DEF Spec
<1>3. Spec => [][HandOverStep]_vars
    BY <1>1, <1>2, PTL DEF Spec
<1> QED BY <1>3 DEF HandsOver, HandOverStep
=============================================================================
