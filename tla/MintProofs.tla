----------------------------- MODULE MintProofs -----------------------------
(***************************************************************************)
(* Mint's properties for any number of requests, cancels and acts, and any *)
(* cap.                                                                    *)
(*                                                                         *)
(* The invariant is the idempotency table's: Fits says of each request     *)
(* what its place in the code knows of its key, and Book that a row exists *)
(* only under the id its key is bound to.  A request's step can only bind  *)
(* a free key and add a row under the lock, so what the others know stays  *)
(* true (lemma Elsewhere); the rest is the step's own place.               *)
(***************************************************************************)
EXTENDS Mint, FiniteSetTheorems, TLAPS

Bound == Answered \cup Late \cup {"existing", "reread", "consume", "send", "mark",
                                  "say_ok", "say_blocked"}
AfterRow == Answered \cup {"consume", "send", "mark", "say_ok", "say_blocked"}

(* What a request knows where it stands. *)
Fits(r) ==
    /\ req[r].pc \in Bound => req[r].id = claim[KeyOf[r]] /\ req[r].id # Nobody
    /\ req[r].pc \in AfterRow => row[req[r].id] # "none"
    /\ req[r].pc = "insert" => row[req[r].id] = "none"
    /\ req[r].pc \in {"totals", "insert"} => lock = r
    /\ req[r].pc = "resume" => Exists(claim["link"])
    /\ req[r].pc \in {"gone", "consume", "reread"} => r \in Payers
    /\ req[r].pc = "resume" => r \in Linkers
    /\ req[r].pc \in {"current", "send", "mark"} => r \in Crons

Book ==
    /\ \A k \in Keys : claim[k] # Nobody => KeyOf[claim[k]] = k
    /\ \A i \in Requests : row[i] # "none" => claim[KeyOf[i]] = i
    /\ link = "used" <=> claim["link"] # Nobody

IInv == TypeOK /\ Book /\ \A r \in Requests : Fits(r)

USE MintAssumption

-----------------------------------------------------------------------------
(* A key belongs to one path. *)
LEMMA KeyLemma ==
    ASSUME NEW r \in Requests
    PROVE  /\ KeyOf[r] \in Keys
           /\ KeyOf[r] = "draft" <=> r \in Payers
           /\ KeyOf[r] = "sched" <=> r \in Crons
           /\ KeyOf[r] = "link" <=> r \in Linkers
BY DEF KeyOf, Keys, Requests

(* The ledger's total is a number. *)
LEMMA CountedIsFinite ==
    /\ IsFiniteSet(Counted)
    /\ Cardinality(Counted) \in Nat
BY FS_Subset, FS_CardinalityType DEF Counted

(* A request that moves stays a request. *)
LEMMA ReqStays ==
    ASSUME req \in [Requests -> Reqs], NEW r \in Requests
    PROVE  /\ \A pc \in Where : To(r, pc) => req' \in [Requests -> Reqs]
           /\ \A id \in Requests \cup {Nobody}, pc \in Where :
                 Reserve(r, id, pc) => req' \in [Requests -> Reqs]
           /\ \A id \in Requests \cup {Nobody} : Told(r, id) => req' \in [Requests -> Reqs]
           /\ \A pc \in Where, n \in Nat :
                 req' = [req EXCEPT ![r].pc = pc, ![r].total = n]
                    => req' \in [Requests -> Reqs]
<1>1. \A pc \in Where : To(r, pc) => req' \in [Requests -> Reqs] BY DEF To, Reqs
<1>2. ASSUME NEW id \in Requests \cup {Nobody}, NEW pc \in Where, Reserve(r, id, pc)
      PROVE  req' \in [Requests -> Reqs]
  BY <1>2 DEF Reserve, Reqs
<1>3. ASSUME NEW id \in Requests \cup {Nobody}, Told(r, id)
      PROVE  req' \in [Requests -> Reqs]
  <2>1. (IF row[id] = "blocked" THEN "blocked" ELSE "ok") \in Where
    BY DEF Where, Ended, Answered
  <2> QED BY <1>2, <1>3, <2>1 DEF Told
<1>4. ASSUME NEW pc \in Where, NEW n \in Nat,
             req' = [req EXCEPT ![r].pc = pc, ![r].total = n]
      PROVE  req' \in [Requests -> Reqs]
  BY <1>4 DEF Reqs
<1> QED BY <1>1, <1>2, <1>3, <1>4

(* Every variable starts in its type. *)
LEMMA InitTypes == Init => TypeOK
<1> SUFFICES ASSUME Init PROVE TypeOK
  OBVIOUS
<1> USE DEF Init
<1>1. sched \in Scheds
  BY DEF SchedStatus, Scheds
<1>2. /\ claim \in [Keys -> Requests \cup {Nobody}]
      /\ row \in [Requests -> {"none", "awaiting", "blocked"}]
      /\ lock \in Requests \cup {Nobody}
  OBVIOUS
<1>3. req \in [Requests -> Reqs]
  BY DEF Reqs, Where
<1>4. /\ cancel \in [Apps \cup Chats -> {"start", "consume", "look", "cancelled",
                                        "being_paid", "nothing"}]
      /\ acts \in 0 .. MaxActs
  OBVIOUS
<1> QED BY <1>1, <1>2, <1>3, <1>4 DEF TypeOK

(* A step keeps them. *)
LEMMA NextTypes == TypeOK /\ [Next]_vars => TypeOK'
<1> SUFFICES ASSUME TypeOK, [Next]_vars PROVE TypeOK'
  OBVIOUS
<1> USE DEF TypeOK
<1>1. ASSUME NEW r \in Requests, Request(r) PROVE TypeOK'
  <2> USE KeyLemma, CountedIsFinite, ReqStays
      DEF fixed, things, people, ledger, At, Where, Ended, Late, Answered
  <2>0. req[r].id \in Requests \cup {Nobody} BY DEF Reqs
  <2> USE <2>0
  <2>1. CASE PeekDraft(r) BY <2>1 DEF PeekDraft
  <2>2. CASE FindMinted(r) BY <2>2 DEF FindMinted, Exists, Keys
  <2>3. CASE ListSchedule(r) BY <2>3, ZenonT(60) DEF ListSchedule, Scheds, SchedStatus
  <2>4. CASE CurrentSchedule(r) BY <2>4 DEF CurrentSchedule
  <2>5. CASE ResolveLink(r) BY <2>5 DEF ResolveLink
  <2>6. CASE ResumeLink(r) BY <2>6, ZenonT(60) DEF ResumeLink, Keys
  <2>7. CASE Gates(r) BY <2>7 DEF Gates
  <2>8. CASE ClaimKey(r) BY <2>8 DEF ClaimKey, Won, AfterClaim
  <2>9. CASE ClaimLink(r)
    <3>1. claim' \in [Keys -> Requests \cup {Nobody}]
      <4>1. claim' = claim \/ claim' = [claim EXCEPT !["link"] = r]
        BY <2>9 DEF ClaimLink
      <4>2. "link" \in Keys BY DEF Keys
      <4>3. CASE claim' = claim BY <4>3
      <4>4. CASE claim' = [claim EXCEPT !["link"] = r] BY <4>2, <4>4
      <4> QED BY <4>1, <4>3, <4>4
    <3>2. req' \in [Requests -> Reqs] BY <2>9 DEF ClaimLink, Keys
    <3>3. link' \in {"open", "used", "cancelled", "expired"} BY <2>9 DEF ClaimLink
    <3> QED BY <2>9, <3>1, <3>2, <3>3 DEF ClaimLink
  <2>10. CASE FindExisting(r) BY <2>10 DEF FindExisting, AfterClaim
  <2>11. CASE RereadDraft(r) BY <2>11 DEF RereadDraft
  <2>12. CASE RefuseMint(r) BY <2>12 DEF RefuseMint
  <2>13. CASE TakeLock(r) BY <2>13 DEF TakeLock
  <2>14. CASE ReadUnderLock(r)
    <3>1. \A verdict : AfterMint(r, verdict) \in Where BY DEF AfterMint
    <3>2. req' \in [Requests -> Reqs]
      <4>1. CASE \E verdict : To(r, AfterMint(r, verdict)) BY <3>1, <4>1
      <4>2. CASE To(r, "skipped") BY <4>2
      <4>3. CASE req' = [req EXCEPT ![r].pc = "insert", ![r].total = Cardinality(Counted)]
        <5>1. "insert" \in Where OBVIOUS
        <5> QED BY <4>3, <5>1
      <4> QED BY <2>14, <4>1, <4>2, <4>3 DEF ReadUnderLock
    <3> QED BY <2>14, <3>2 DEF ReadUnderLock
  <2>15. CASE Insert(r) BY <2>15 DEF Insert, AfterMint
  <2>16. CASE ConsumeDraft(r) BY <2>16 DEF ConsumeDraft
  <2>17. CASE SendLink(r) BY <2>17 DEF SendLink
  <2>18. CASE MarkRun(r) BY <2>18 DEF MarkRun, Scheds
  <2>19. CASE Answer(r) BY <2>19 DEF Answer
  <2>20. CASE Crash(r) BY <2>20 DEF Crash
  <2> QED BY <1>1, <2>1, <2>2, <2>3, <2>4, <2>5, <2>6, <2>7, <2>8, <2>9,
          <2>10, <2>11, <2>12, <2>13, <2>14, <2>15, <2>16, <2>17, <2>18,
          <2>19, <2>20 DEF Request
<1>2. ASSUME NEW c \in Apps \cup Chats, CancelDraft(c) PROVE TypeOK'
  BY <1>2 DEF CancelDraft, AppSees, AppConsumes, AppLooks, ChatCancels, Cancels,
              CancelTo, unpaid, fixed, ledger
<1>3. ASSUME NEW d \in Desks, ActOnSchedule(d) PROVE TypeOK'
  <2> USE DEF offDesk, fixed, ledger, Scheds, SchedStatus
  <2>1. CASE OpenSchedule(d) BY <2>1 DEF OpenSchedule
  <2>2. CASE SetStatusIf(d) BY <2>2 DEF SetStatusIf, Result
  <2>3. CASE SaveCancelled(d) BY <2>3 DEF SaveCancelled
  <2>4. CASE DeleteRecipient(d) BY <2>4 DEF DeleteRecipient
  <2> QED BY <1>3, <2>1, <2>2, <2>3, <2>4 DEF ActOnSchedule
<1>4. CASE DraftExpires \/ FallsDue \/ CancelLink \/ ExpireDue
  BY <1>4 DEF DraftExpires, FallsDue, CancelLink, ExpireDue, unpaid, offLink,
              fixed, ledger, people
<1>5. CASE UNCHANGED vars
  BY <1>5 DEF vars, fixed, things, ledger, people
<1> QED BY <1>1, <1>2, <1>3, <1>4, <1>5 DEF Next

(* The type invariant. *)
THEOREM TypeCorrect == Spec => []TypeOK
BY InitTypes, NextTypes, PTL DEF Spec

-----------------------------------------------------------------------------
(* Where a move leaves the requests. *)
LEMMA Moved ==
    ASSUME TypeOK, NEW r \in Requests
    PROVE  /\ \A pc \in Where : To(r, pc) =>
                 /\ req'[r].pc = pc /\ req'[r].id = req[r].id
                 /\ \A s \in Requests : s # r => req'[s] = req[s]
           /\ \A id \in Requests \cup {Nobody}, pc \in Where : Reserve(r, id, pc) =>
                 /\ req'[r].pc = pc /\ req'[r].id = id
                 /\ \A s \in Requests : s # r => req'[s] = req[s]
           /\ \A id \in Requests \cup {Nobody} : Told(r, id) =>
                 /\ req'[r].pc \in Answered /\ req'[r].id = id
                 /\ \A s \in Requests : s # r => req'[s] = req[s]
<1>1. req \in [Requests -> Reqs] BY DEF TypeOK
<1>2. \A pc \in Where : To(r, pc) =>
         /\ req'[r].pc = pc /\ req'[r].id = req[r].id
         /\ \A s \in Requests : s # r => req'[s] = req[s]
  BY <1>1 DEF To, Reqs
<1>3. ASSUME NEW id \in Requests \cup {Nobody}, NEW pc \in Where, Reserve(r, id, pc)
      PROVE  /\ req'[r].pc = pc /\ req'[r].id = id
             /\ \A s \in Requests : s # r => req'[s] = req[s]
  BY <1>1, <1>3 DEF Reserve, Reqs
<1>4. ASSUME NEW id \in Requests \cup {Nobody}, Told(r, id)
      PROVE  /\ req'[r].pc \in Answered /\ req'[r].id = id
             /\ \A s \in Requests : s # r => req'[s] = req[s]
  <2>1. (IF row[id] = "blocked" THEN "blocked" ELSE "ok") \in Where \cap Answered
    BY DEF Where, Ended, Answered
  <2> QED BY <1>3, <1>4, <2>1 DEF Told
<1> QED BY <1>2, <1>3, <1>4

(* What another request's step leaves true of s: keys are bound once, rows  *)
(* are never taken back and are added by the holder of the lock.            *)
LEMMA Elsewhere ==
    ASSUME TypeOK, NEW r \in Requests, NEW s \in Requests, s # r, Fits(s), Fits(r),
           req'[s] = req[s],
           \A k \in Keys : claim[k] # Nobody => claim'[k] = claim[k],
           \A i \in Requests : row[i] # "none" => row'[i] # "none",
           \/ \A i \in Requests : row[i] = "none" => row'[i] = "none"
           \/ req[r].pc = "insert",
           \/ lock' = lock
           \/ lock = Nobody
           \/ req[r].pc \in {"totals", "insert"} \/ lock = r
    PROVE  Fits(s)'
<1>1. KeyOf[s] \in Keys /\ "link" \in Keys BY KeyLemma DEF Keys
<1>2. req[s].id \in Requests \cup {Nobody} BY DEF TypeOK, Reqs
<1>3. req[s].pc \in {"totals", "insert"} => lock' = s BY DEF Fits
<1>4. req[s].pc = "insert" => req[r].pc # "insert" /\ req[s].id \in Requests
  BY <1>2 DEF Fits, Bound, Late
<1>5. req[s].pc = "insert" => row'[req[s].id] = "none" BY <1>4 DEF Fits
<1>6. req[s].pc \in AfterRow => row'[req[s].id] # "none"
  <2>1. AfterRow \subseteq Bound BY DEF AfterRow, Bound, Late
  <2> QED BY <1>2, <2>1 DEF Fits
<1>7. req[s].pc = "resume" => Exists(claim["link"])'
  <2>1. claim["link"] \in Requests \cup {Nobody} BY <1>1 DEF TypeOK
  <2> QED BY <1>1, <2>1 DEF Fits, Exists
<1>8. req[s].pc \in Bound => req[s].id = claim'[KeyOf[s]] /\ req[s].id # Nobody
  BY <1>1 DEF Fits
<1> QED BY <1>3, <1>5, <1>6, <1>7, <1>8 DEF Fits

(* The effect of r's step on everyone's knowledge. *)
Keeps(r) ==
    /\ \A s \in Requests : s # r => req'[s] = req[s]
    /\ \A k \in Keys : claim[k] # Nobody => claim'[k] = claim[k]
    /\ \A i \in Requests : row[i] # "none" => row'[i] # "none"
    /\ \/ \A i \in Requests : row[i] = "none" => row'[i] = "none"
       \/ req[r].pc = "insert"
    /\ \/ lock' = lock
       \/ lock = Nobody
       \/ req[r].pc \in {"totals", "insert"} \/ lock = r
    /\ Fits(r)'
    /\ Book'

(* A step that binds no key, adds no row and takes no lock. *)
LEMMA QuietSteps ==
    ASSUME IInv, NEW r \in Requests, UNCHANGED <<claim, row, lock>>,
           link' = link,
           \/ PeekDraft(r) \/ FindMinted(r) \/ ListSchedule(r) \/ CurrentSchedule(r)
           \/ ResolveLink(r) \/ Gates(r) \/ FindExisting(r) \/ RereadDraft(r)
           \/ RefuseMint(r) \/ ConsumeDraft(r) \/ SendLink(r) \/ MarkRun(r) \/ Answer(r)
    PROVE  Keeps(r)
<1> USE DEF IInv, At
<1>1. /\ Book' /\ Fits(r) /\ KeyOf[r] \in Keys
      /\ req[r].id \in Requests \cup {Nobody}
      /\ claim["draft"] \in Requests \cup {Nobody}
      /\ claim["link"] \in Requests \cup {Nobody}
  BY KeyLemma DEF Book, TypeOK, Reqs, Keys
<1>2. SUFFICES (\A s \in Requests : s # r => req'[s] = req[s]) /\ Fits(r)'
  BY <1>1 DEF Keeps
<1> DEFINE Free == Where \ (Bound \cup {"resume", "gone", "reread", "current"})
<1>3. ASSUME NEW pc \in Free, To(r, pc)
      PROVE  (\A s \in Requests : s # r => req'[s] = req[s]) /\ Fits(r)'
  <2>1. /\ pc \in Where
        /\ pc \notin Bound \cup AfterRow \cup {"insert", "totals", "resume", "gone",
                                              "consume", "reread", "current", "send", "mark"}
    BY DEF Bound, AfterRow, Late
  <2>2. req'[r].pc = pc /\ \A s \in Requests : s # r => req'[s] = req[s]
    BY <1>3, <2>1, Moved
  <2> QED BY <2>1, <2>2 DEF Fits
<1>4. ASSUME Told(r, claim[KeyOf[r]]), Exists(claim[KeyOf[r]])
      PROVE  (\A s \in Requests : s # r => req'[s] = req[s]) /\ Fits(r)'
  <2>1. claim[KeyOf[r]] \in Requests \cup {Nobody} BY <1>1 DEF TypeOK
  <2>2. /\ req'[r].pc \in Answered /\ req'[r].id = claim[KeyOf[r]]
        /\ \A s \in Requests : s # r => req'[s] = req[s]
    BY <1>4, <2>1, Moved
  <2> QED BY <1>4, <2>2 DEF Fits, Exists, Answered
<1>5. /\ {"gates", "refused", "skipped", "claim"} \subseteq Free
      /\ {"gone", "current", "resume", "send", "mark", "lock", "reread", "ok",
          "blocked"} \subseteq Where
  BY DEF Where, Ended, Late, Bound, Answered
<1>6. \A pc \in Where : To(r, pc) =>
         /\ req'[r].pc = pc /\ req'[r].id = req[r].id
         /\ \A s \in Requests : s # r => req'[s] = req[s]
  BY Moved
<1> HIDE DEF Free
<1> USE DEF Fits, Bound, AfterRow, Late, Answered
<1>7. CASE PeekDraft(r)
  <2>1. CASE To(r, "gates") BY <1>3, <1>5, <2>1
  <2>2. CASE To(r, "gone") BY <1>5, <1>6, <1>7, <2>2 DEF PeekDraft
  <2> QED BY <1>7, <2>1, <2>2 DEF PeekDraft
<1>8. CASE FindMinted(r)
  <2>1. KeyOf[r] = "draft" BY <1>1, <1>8, KeyLemma DEF FindMinted
  <2> QED BY <1>3, <1>4, <1>5, <1>8, <2>1 DEF FindMinted
<1>9. CASE ListSchedule(r)
  <2>1. CASE To(r, "skipped") BY <1>3, <1>5, <2>1
  <2>2. CASE To(r, "current") BY <1>5, <1>6, <1>9, <2>2 DEF ListSchedule
  <2> QED BY <1>9, <2>1, <2>2 DEF ListSchedule
<1>10. CASE CurrentSchedule(r) BY <1>3, <1>5, <1>10 DEF CurrentSchedule
<1>11. CASE ResolveLink(r)
  <2>1. CASE To(r, "gates") \/ To(r, "refused") BY <1>3, <1>5, <2>1
  <2>2. CASE To(r, "resume") /\ Exists(claim["link"])
    BY <1>5, <1>6, <1>11, <2>2 DEF ResolveLink, Exists
  <2> QED BY <1>11, <2>1, <2>2 DEF ResolveLink
<1>12. CASE Gates(r) BY <1>3, <1>5, <1>12 DEF Gates
<1>13. CASE FindExisting(r)
  <2>1. req[r].id = claim[KeyOf[r]] /\ req[r].id # Nobody
    BY <1>1, <1>13 DEF FindExisting
  <2>2. CASE To(r, "reread") /\ r \in Payers BY <1>5, <1>6, <2>1, <2>2
  <2>3. CASE To(r, "lock") BY <1>5, <1>6, <2>1, <2>3
  <2>4. CASE To(r, "send") /\ r \in Crons /\ Exists(req[r].id)
    BY <1>5, <1>6, <2>1, <2>4 DEF Exists
  <2>5. CASE Told(r, req[r].id) /\ Exists(req[r].id) BY <1>4, <2>1, <2>5
  <2> QED BY <1>13, <2>2, <2>3, <2>4, <2>5 DEF FindExisting, AfterClaim
<1>14. CASE RereadDraft(r)
  <2>1. req[r].id = claim[KeyOf[r]] /\ req[r].id # Nobody
    BY <1>1, <1>14 DEF RereadDraft
  <2>2. CASE To(r, "lock") BY <1>5, <1>6, <2>1, <2>2
  <2>3. CASE To(r, "refused") BY <1>3, <1>5, <2>3
  <2>4. CASE Told(r, req[r].id) /\ Exists(req[r].id) BY <1>4, <2>1, <2>4
  <2> QED BY <1>14, <2>2, <2>3, <2>4 DEF RereadDraft
<1>15. CASE RefuseMint(r) BY <1>3, <1>5, <1>15 DEF RefuseMint
<1>16. ASSUME req[r].pc \in AfterRow, Told(r, req[r].id)
       PROVE  (\A s \in Requests : s # r => req'[s] = req[s]) /\ Fits(r)'
  BY <1>1, <1>4, <1>16 DEF Exists
<1>17. CASE ConsumeDraft(r) BY <1>16, <1>17 DEF ConsumeDraft
<1>18. CASE SendLink(r)
  <2>1. CASE To(r, "refused") BY <1>3, <1>5, <2>1
  <2>2. CASE To(r, "mark") BY <1>1, <1>5, <1>6, <1>18, <2>2 DEF SendLink
  <2> QED BY <1>18, <2>1, <2>2 DEF SendLink
<1>19. CASE MarkRun(r) BY <1>16, <1>19 DEF MarkRun
<1>20. CASE Answer(r)
  <2>1. CASE To(r, "ok") BY <1>1, <1>5, <1>6, <1>20, <2>1 DEF Answer
  <2>2. CASE To(r, "blocked") BY <1>1, <1>5, <1>6, <1>20, <2>2 DEF Answer
  <2> QED BY <1>20, <2>1, <2>2 DEF Answer
<1> QED BY <1>7, <1>8, <1>9, <1>10, <1>11, <1>12, <1>13, <1>14, <1>15, <1>17, <1>18,
        <1>19, <1>20

(* The steps that bind a key, add a row, or take or free the lock. *)
LEMMA LoudSteps ==
    ASSUME IInv, NEW r \in Requests,
           \/ ResumeLink(r) \/ ClaimKey(r) \/ ClaimLink(r) \/ TakeLock(r)
           \/ ReadUnderLock(r) \/ Insert(r) \/ Crash(r)
    PROVE  Keeps(r)
<1> USE DEF IInv, At, things
<1>1. /\ Book /\ Fits(r) /\ KeyOf[r] \in Keys /\ "link" \in Keys
      /\ req[r].id \in Requests \cup {Nobody}
      /\ lock \in Requests \cup {Nobody}
      /\ claim \in [Keys -> Requests \cup {Nobody}]
      /\ row \in [Requests -> {"none", "awaiting", "blocked"}]
      /\ req \in [Requests -> Reqs]
  BY KeyLemma DEF TypeOK, Reqs, Keys
<1>2. /\ {"gates", "refused", "skipped", "claim", "crashed", "gone", "current", "resume",
          "send", "mark", "lock", "reread", "existing", "totals", "insert", "consume",
          "say_ok", "say_blocked", "ok", "blocked"} \subseteq Where
  BY DEF Where, Ended, Late, Answered
<1>3. \A pc \in Where : To(r, pc) =>
         /\ req'[r].pc = pc /\ req'[r].id = req[r].id
         /\ \A s \in Requests : s # r => req'[s] = req[s]
  BY Moved
<1>4. \A id \in Requests \cup {Nobody}, pc \in Where : Reserve(r, id, pc) =>
         /\ req'[r].pc = pc /\ req'[r].id = id
         /\ \A s \in Requests : s # r => req'[s] = req[s]
  BY Moved
<1> USE DEF Bound, AfterRow, Late, Answered
<1>5. CASE ResumeLink(r)
  <2> DEFINE id == claim["link"]
  <2>1. CASE UNCHANGED row /\ To(r, "refused")
    <3>1. /\ req'[r].pc = "refused"
          /\ \A s \in Requests : s # r => req'[s] = req[s]
      BY <1>2, <1>3, <2>1
    <3>2. Fits(r)' BY <3>1 DEF Fits
    <3> QED BY <1>1, <1>5, <2>1, <3>1, <3>2 DEF ResumeLink, Keeps, Book
  <2>2. ASSUME NEW pc \in Answered, Reserve(r, id, pc), row[id] = "awaiting",
               row' = row \/ row' = [row EXCEPT ![id] = "blocked"]
        PROVE  Keeps(r)
    <3>1. id \in Requests /\ KeyOf[r] = "link" /\ pc \in Where
      BY <1>1, <1>2, <1>5, KeyLemma DEF ResumeLink, Fits, Exists
    <3>2. /\ req'[r].pc = pc /\ req'[r].id = id
          /\ \A s \in Requests : s # r => req'[s] = req[s]
      BY <1>4, <2>2, <3>1
    <3>3. \A i \in Requests : row'[i] = "none" <=> row[i] = "none"
      BY <1>1, <2>2, <3>1
    <3>4. Fits(r)' BY <1>5, <2>2, <3>1, <3>2, <3>3 DEF ResumeLink, Fits
    <3>5. Book' BY <1>1, <1>5, <3>3 DEF ResumeLink, Book
    <3> QED BY <1>5, <3>2, <3>3, <3>4, <3>5 DEF ResumeLink, Keeps
  <2>3. CASE Told(r, id) /\ row[id] = "awaiting" /\ UNCHANGED row
    BY <2>2, <2>3 DEF Told
  <2>4. CASE Reserve(r, id, "blocked") /\ row[id] = "awaiting"
             /\ row' = [row EXCEPT ![id] = "blocked"]
    BY <2>2, <2>4
  <2> QED BY <1>5, <2>1, <2>3, <2>4 DEF ResumeLink
<1>6. CASE ClaimKey(r)
  <2> DEFINE k == KeyOf[r]
             id == Won(k, r)
             pc == IF id = r THEN AfterClaim(r) ELSE "existing"
  <2>1. /\ id \in Requests /\ pc \in {"existing", "reread", "lock"}
        /\ pc = "reread" => r \in Payers
        /\ KeyOf[id] = k
    BY <1>1 DEF Won, AfterClaim, Book
  <2>2. Reserve(r, id, pc) /\ claim' = [claim EXCEPT ![k] = id]
    BY <1>6 DEF ClaimKey
  <2> HIDE DEF pc
  <2>3. /\ req'[r].pc = pc /\ req'[r].id = id
        /\ \A s \in Requests : s # r => req'[s] = req[s]
    BY <1>2, <1>4, <2>1, <2>2
  <2>4. /\ claim'[k] = id
        /\ \A q \in Keys : claim[q] # Nobody => claim'[q] = claim[q]
        /\ \A q \in Keys : q # k => claim'[q] = claim[q]
    BY <1>1, <2>2 DEF Won
  <2>5. Fits(r)' BY <2>1, <2>3, <2>4 DEF Fits
  <2>6. Book'
    <3>1. \A q \in Keys : claim'[q] # Nobody => KeyOf[claim'[q]] = q
      BY <1>1, <2>1, <2>4 DEF Book
    <3>2. \A i \in Requests : row'[i] # "none" => claim'[KeyOf[i]] = i
      BY <1>1, <1>6, <2>4, KeyLemma DEF ClaimKey, Book
    <3>3. k # "link" BY <1>6, KeyLemma DEF ClaimKey
    <3>4. link' = "used" <=> claim'["link"] # Nobody
      BY <1>1, <1>6, <2>4, <3>3 DEF ClaimKey, Book
    <3> QED BY <3>1, <3>2, <3>4 DEF Book
  <2> QED BY <1>6, <2>3, <2>4, <2>5, <2>6 DEF ClaimKey, Keeps
<1>7. CASE ClaimLink(r)
  <2>0. KeyOf[r] = "link" BY <1>7, KeyLemma DEF ClaimLink
  <2>1. CASE claim["link"] # Nobody /\ Reserve(r, claim["link"], "lock")
             /\ UNCHANGED <<claim, link>>
    <3>1. /\ req'[r].pc = "lock" /\ req'[r].id = claim["link"]
          /\ \A s \in Requests : s # r => req'[s] = req[s]
      BY <1>1, <1>2, <1>4, <2>1
    <3>2. Fits(r)' BY <2>0, <2>1, <3>1 DEF Fits
    <3> QED BY <1>1, <1>7, <2>1, <3>1, <3>2 DEF ClaimLink, Keeps, Book
  <2>2. CASE claim["link"] = Nobody /\ claim' = [claim EXCEPT !["link"] = r]
             /\ link' = "used" /\ Reserve(r, r, "lock")
    <3>1. /\ req'[r].pc = "lock" /\ req'[r].id = r
          /\ \A s \in Requests : s # r => req'[s] = req[s]
      BY <1>1, <1>2, <1>4, <2>2
    <3>2. /\ claim'["link"] = r
          /\ \A q \in Keys : q # "link" => claim'[q] = claim[q]
      BY <1>1, <2>2
    <3>3. Fits(r)' BY <2>0, <3>1, <3>2 DEF Fits
    <3>4. Book' BY <1>1, <1>7, <2>0, <2>2, <3>2, KeyLemma DEF ClaimLink, Book
    <3> QED BY <1>7, <2>2, <3>1, <3>2, <3>3, <3>4 DEF ClaimLink, Keeps
  <2>3. CASE To(r, "refused") /\ UNCHANGED <<claim, link>>
    <3>1. /\ req'[r].pc = "refused"
          /\ \A s \in Requests : s # r => req'[s] = req[s]
      BY <1>2, <1>3, <2>3
    <3>2. Fits(r)' BY <3>1 DEF Fits
    <3> QED BY <1>1, <1>7, <2>3, <3>1, <3>2 DEF ClaimLink, Keeps, Book
  <2> QED BY <1>7, <2>1, <2>2, <2>3 DEF ClaimLink
<1>8. CASE TakeLock(r)
  <2>1. Book' BY <1>1, <1>8 DEF TakeLock, Book
  <2>2. /\ req'[r].pc = "totals" /\ req'[r].id = req[r].id
        /\ \A s \in Requests : s # r => req'[s] = req[s]
    BY <1>2, <1>3, <1>8 DEF TakeLock
  <2>3. Fits(r)' BY <1>1, <1>8, <2>2 DEF TakeLock, Fits
  <2> QED BY <1>8, <2>1, <2>2, <2>3 DEF TakeLock, Keeps
<1>9. CASE ReadUnderLock(r)
  <2>0. /\ Book' /\ lock = r /\ lock' \in {lock, Nobody}
        /\ req[r].id = claim[KeyOf[r]] /\ req[r].id # Nobody
    BY <1>1, <1>9 DEF ReadUnderLock, Book, Fits
  <2>1. SUFFICES (\A s \in Requests : s # r => req'[s] = req[s]) /\ Fits(r)'
    BY <1>9, <2>0 DEF ReadUnderLock, Keeps
  <2>2. ASSUME NEW verdict, Exists(req[r].id), To(r, AfterMint(r, verdict))
        PROVE  (\A s \in Requests : s # r => req'[s] = req[s]) /\ Fits(r)'
    <3> DEFINE pc == AfterMint(r, verdict)
    <3>1. /\ pc \in {"consume", "send", "say_ok", "say_blocked"}
          /\ pc = "consume" => r \in Payers
          /\ pc = "send" => r \in Crons
      BY DEF AfterMint
    <3> HIDE DEF pc
    <3>2. /\ req'[r].pc = pc /\ req'[r].id = req[r].id
          /\ \A s \in Requests : s # r => req'[s] = req[s]
      BY <1>2, <1>3, <2>2, <3>1 DEF pc
    <3> QED BY <1>9, <2>0, <2>2, <3>1, <3>2 DEF Fits, Exists, ReadUnderLock
  <2>3. CASE To(r, "skipped")
    <3>1. /\ req'[r].pc = "skipped"
          /\ \A s \in Requests : s # r => req'[s] = req[s]
      BY <1>2, <1>3, <2>3
    <3> QED BY <3>1 DEF Fits
  <2>4. CASE /\ ~Exists(req[r].id) /\ UNCHANGED lock
             /\ req' = [req EXCEPT ![r].pc = "insert", ![r].total = Cardinality(Counted)]
    <3>1. /\ req'[r].pc = "insert" /\ req'[r].id = req[r].id
          /\ \A s \in Requests : s # r => req'[s] = req[s]
      BY <1>1, <2>4 DEF Reqs
    <3> QED BY <1>9, <2>0, <2>4, <3>1 DEF Fits, Exists, ReadUnderLock
  <2> QED BY <1>9, <2>2, <2>3, <2>4 DEF ReadUnderLock
<1>10. CASE Insert(r)
  <2> DEFINE id == req[r].id
  <2>0. /\ lock = r /\ id = claim[KeyOf[r]] /\ id \in Requests /\ KeyOf[id] = KeyOf[r]
    BY <1>1, <1>10 DEF Insert, Book, Fits
  <2> HIDE DEF id
  <2>1. CASE UNCHANGED row /\ To(r, "refused")
    <3>1. /\ req'[r].pc = "refused"
          /\ \A s \in Requests : s # r => req'[s] = req[s]
      BY <1>2, <1>3, <2>1
    <3>2. Fits(r)' BY <3>1 DEF Fits
    <3> QED BY <1>1, <1>10, <2>1, <3>1, <3>2 DEF Insert, Keeps, Book
  <2>2. ASSUME NEW verdict \in {"awaiting", "blocked"},
               row' = [row EXCEPT ![id] = verdict], To(r, AfterMint(r, verdict))
        PROVE  Keeps(r)
    <3> DEFINE pc == AfterMint(r, verdict)
    <3>1. /\ pc \in {"consume", "send", "say_ok", "say_blocked"}
          /\ pc = "consume" => r \in Payers
          /\ pc = "send" => r \in Crons
      BY DEF AfterMint
    <3> HIDE DEF pc
    <3>2. /\ req'[r].pc = pc /\ req'[r].id = id
          /\ \A s \in Requests : s # r => req'[s] = req[s]
      BY <1>2, <1>3, <2>2, <3>1 DEF pc, id
    <3>3. /\ row'[id] # "none"
          /\ \A i \in Requests : i # id => row'[i] = row[i]
      BY <1>1, <2>0, <2>2
    <3>4. Fits(r)' BY <1>1, <1>10, <2>0, <3>1, <3>2, <3>3 DEF Fits, Insert
    <3>5. Book' BY <1>1, <1>10, <2>0, <3>3 DEF Book, Insert
    <3> QED BY <1>10, <2>0, <3>2, <3>3, <3>4, <3>5 DEF Insert, Keeps
  <2> QED BY <1>10, <2>1, <2>2 DEF Insert, id
<1>11. CASE Crash(r)
  <2>1. Book' BY <1>1, <1>11 DEF Crash, Book
  <2>2. /\ req'[r].pc = "crashed" /\ req'[r].id = req[r].id
        /\ \A s \in Requests : s # r => req'[s] = req[s]
    BY <1>2, <1>3, <1>11 DEF Crash
  <2>3. Fits(r)' BY <2>2 DEF Fits
  <2> QED BY <1>11, <2>1, <2>2, <2>3 DEF Crash, Keeps
<1> QED BY <1>5, <1>6, <1>7, <1>8, <1>9, <1>10, <1>11

LEMMA RequestKeeps ==
    ASSUME IInv, NEW r \in Requests, Request(r)
    PROVE  Keeps(r)
<1> USE DEF fixed, ledger, things, people
<1>1. CASE \/ ResumeLink(r) \/ ClaimKey(r) \/ ClaimLink(r) \/ TakeLock(r)
           \/ ReadUnderLock(r) \/ Insert(r) \/ Crash(r)
  BY <1>1, LoudSteps
<1>2. CASE \/ PeekDraft(r) \/ FindMinted(r) \/ ListSchedule(r) \/ CurrentSchedule(r)
           \/ ResolveLink(r) \/ Gates(r) \/ FindExisting(r) \/ RereadDraft(r)
           \/ RefuseMint(r) \/ ConsumeDraft(r) \/ SendLink(r) \/ MarkRun(r) \/ Answer(r)
  <2>1. UNCHANGED <<claim, row, lock>> /\ link' = link
    BY <1>2 DEF PeekDraft, FindMinted, ListSchedule, CurrentSchedule, ResolveLink, Gates,
                FindExisting, RereadDraft, RefuseMint, ConsumeDraft, SendLink, MarkRun, Answer
  <2> QED BY <1>2, <2>1, QuietSteps
<1> QED BY <1>1, <1>2 DEF Request

(* Nobody but a request touches the ledger; the link moves on only while it *)
(* is open, so unclaimed.                                                   *)
LEMMA OthersKeep ==
    ASSUME IInv,
           \/ \E c \in Apps \cup Chats : CancelDraft(c)
           \/ \E d \in Desks : ActOnSchedule(d)
           \/ DraftExpires \/ FallsDue \/ CancelLink \/ ExpireDue
           \/ UNCHANGED vars
    PROVE  /\ UNCHANGED <<claim, row, lock, req>>
           /\ link' = link \/ (link = "open" /\ link' # "used")
<1> USE DEF fixed, ledger, things, people, unpaid, offDesk, offLink
<1>1. CASE \E c \in Apps \cup Chats : CancelDraft(c)
  BY <1>1 DEF CancelDraft, AppSees, AppConsumes, AppLooks, ChatCancels
<1>2. CASE \E d \in Desks : ActOnSchedule(d)
  BY <1>2 DEF ActOnSchedule, OpenSchedule, SetStatusIf, SaveCancelled, DeleteRecipient
<1>3. CASE DraftExpires \/ FallsDue \/ CancelLink \/ ExpireDue
  BY <1>3 DEF DraftExpires, FallsDue, CancelLink, ExpireDue
<1>4. CASE UNCHANGED vars BY <1>4 DEF vars
<1> QED BY <1>1, <1>2, <1>3, <1>4

LEMMA StepKeepsIInv == IInv /\ [Next]_vars => IInv'
<1> SUFFICES ASSUME IInv, [Next]_vars PROVE IInv'
  OBVIOUS
<1>1. TypeOK' BY NextTypes DEF IInv
<1>2. ASSUME NEW r \in Requests, Request(r) PROVE IInv'
  <2>1. Keeps(r) BY <1>2, RequestKeeps
  <2>2. ASSUME NEW s \in Requests, s # r PROVE Fits(s)'
    BY <2>1, <2>2, Elsewhere DEF Keeps, IInv
  <2> QED BY <1>1, <2>1, <2>2 DEF Keeps, IInv
<1>3. CASE \/ \E c \in Apps \cup Chats : CancelDraft(c)
           \/ \E d \in Desks : ActOnSchedule(d)
           \/ DraftExpires \/ FallsDue \/ CancelLink \/ ExpireDue
           \/ UNCHANGED vars
  <2>1. /\ UNCHANGED <<claim, row, lock, req>>
        /\ link' = link \/ (link = "open" /\ link' # "used")
    BY <1>3, OthersKeep
  <2>2. Book' BY <2>1 DEF IInv, Book
  <2>3. \A s \in Requests : Fits(s)' BY <2>1 DEF IInv, Fits, Exists
  <2> QED BY <1>1, <2>2, <2>3 DEF IInv
<1> QED BY <1>2, <1>3 DEF Next

(* The idempotency table and the ledger agree, and every request knows its *)
(* part of it.                                                             *)
THEOREM BooksAgree == Spec => []IInv
<1>1. Init => IInv
  <2> SUFFICES ASSUME Init PROVE IInv
    OBVIOUS
  <2>1. TypeOK BY InitTypes
  <2>2. Book BY KeyLemma DEF Init, Book, Keys
  <2>3. \A r \in Requests : Fits(r)
    BY DEF Init, Fits, Bound, AfterRow, Late, Answered
  <2> QED BY <2>1, <2>2, <2>3 DEF IInv
<1> QED BY <1>1, StepKeepsIInv, PTL DEF Spec

-----------------------------------------------------------------------------
(* A link's status and its key's binding move together. *)
THEOREM LinkIsItsClaim == Spec => []LinkFollowsClaim
<1>1. IInv => LinkFollowsClaim
  BY KeyLemma DEF IInv, Book, LinkFollowsClaim, BecameOf, TypeOK
<1> QED BY <1>1, BooksAgree, PTL

(* What a step may do to the ledger: add the row of a key that has none, or *)
(* leave every key's transfers as they are.                                 *)
LEMMA LedgerMoves ==
    ASSUME IInv, [Next]_vars
    PROVE  \/ \A k \in Keys : BecameOf(k)' = BecameOf(k)
           \/ \E r \in Requests :
                 /\ Insert(r) /\ BecameOf(KeyOf[r]) = {}
                 /\ BecameOf(KeyOf[r])' = {req[r].id} /\ KeyOf[req[r].id] = KeyOf[r]
                 /\ \A k \in Keys : k # KeyOf[r] => BecameOf(k)' = BecameOf(k)
                 /\ req[r].id \in Requests
<1>1. CASE \A i \in Requests : row'[i] = "none" <=> row[i] = "none"
  BY <1>1 DEF BecameOf
<1>2. ASSUME NEW r \in Requests, ResumeLink(r)
      PROVE  \A i \in Requests : row'[i] = "none" <=> row[i] = "none"
  <2>1. CASE row' = row BY <2>1
  <2>2. CASE row[claim["link"]] = "awaiting"
             /\ row' = [row EXCEPT ![claim["link"]] = "blocked"]
    BY <2>2 DEF IInv, TypeOK
  <2> QED BY <1>2, <2>1, <2>2 DEF ResumeLink
<1>3. ASSUME NEW r \in Requests, Insert(r), row' # row
      PROVE  /\ BecameOf(KeyOf[r]) = {}
             /\ BecameOf(KeyOf[r])' = {req[r].id} /\ KeyOf[req[r].id] = KeyOf[r]
             /\ \A k \in Keys : k # KeyOf[r] => BecameOf(k)' = BecameOf(k)
             /\ req[r].id \in Requests
  <2> DEFINE id == req[r].id
  <2>1. /\ id = claim[KeyOf[r]] /\ id # Nobody /\ row[id] = "none" /\ KeyOf[r] \in Keys
        /\ id \in Requests /\ KeyOf[id] = KeyOf[r]
    BY <1>3, KeyLemma DEF Insert, At, IInv, Fits, Bound, Late, Book, TypeOK, Reqs
  <2>2. \E verdict \in {"awaiting", "blocked"} : row' = [row EXCEPT ![id] = verdict]
    BY <1>3 DEF Insert
  <2> HIDE DEF id
  <2>3. row'[id] # "none" /\ \A i \in Requests : i # id => row'[i] = row[i]
    BY <2>1, <2>2 DEF IInv, TypeOK
  <2>4. \A i \in Requests : KeyOf[i] = KeyOf[r] /\ i # id => row[i] = "none"
    BY <2>1 DEF IInv, Book
  <2>5. BecameOf(KeyOf[r]) = {} BY <2>1, <2>4 DEF BecameOf
  <2>6. BecameOf(KeyOf[r])' = {id} BY <2>1, <2>3, <2>4 DEF BecameOf
  <2>7. \A k \in Keys : k # KeyOf[r] => BecameOf(k)' = BecameOf(k)
    BY <2>1, <2>3 DEF BecameOf
  <2> QED BY <2>1, <2>5, <2>6, <2>7 DEF id
<1>4. ASSUME NEW r \in Requests, Request(r), ~Insert(r), ~ResumeLink(r) PROVE row' = row
  BY <1>4 DEF Request, PeekDraft, FindMinted, ListSchedule, CurrentSchedule, ResolveLink,
              Gates, ClaimKey, ClaimLink, FindExisting, RereadDraft, RefuseMint, TakeLock,
              ReadUnderLock, ConsumeDraft, SendLink, MarkRun, Answer, Crash, ledger
<1>5. CASE ~ \E r \in Requests : Request(r)
  BY <1>1, <1>5, OthersKeep DEF Next
<1>6. CASE row' = row BY <1>1, <1>6
<1> QED BY <1>1, <1>2, <1>3, <1>4, <1>5, <1>6

(* A request is told once, of what its key has become. *)
LEMMA Naming ==
    ASSUME IInv, IInv', [Next]_vars, NEW r \in Requests, NamedTo(r)' # NamedTo(r)
    PROVE  /\ NamedTo(r) = Nobody
           /\ NamedTo(r)' \in BecameOf(KeyOf[r])
           /\ \A s \in Requests : s # r => NamedTo(s)' = NamedTo(s)
           /\ ~ Insert(r)
<1>1. PICK q \in Requests : Request(q)
  BY OthersKeep DEF Next, NamedTo
<1>2. Keeps(q) BY <1>1, RequestKeeps
<1>3. q = r BY <1>2 DEF Keeps, NamedTo
<1>4. req[r].pc \notin Ended
  BY <1>1, <1>3 DEF Request, PeekDraft, FindMinted, ListSchedule, CurrentSchedule,
        ResolveLink, ResumeLink, Gates, ClaimKey, ClaimLink, FindExisting, RereadDraft,
        RefuseMint, TakeLock, ReadUnderLock, Insert, ConsumeDraft, SendLink, MarkRun,
        Answer, Crash, At, Ended, Answered
<1>5. NamedTo(r) = Nobody BY <1>4 DEF NamedTo, Ended
<1>6. req'[r].pc \in Answered /\ NamedTo(r)' = req'[r].id
  BY <1>5 DEF NamedTo
<1>7. /\ req'[r].id = claim'[KeyOf[r]] /\ req'[r].id # Nobody
      /\ row'[req'[r].id] # "none" /\ KeyOf[r] \in Keys
  BY <1>6, KeyLemma DEF IInv, Fits, Bound, AfterRow
<1>8. ~ Insert(r)
  <2> SUFFICES ASSUME Insert(r) PROVE FALSE
    OBVIOUS
  <2>1. PICK pc \in {"refused", "consume", "send", "say_ok", "say_blocked"} : To(r, pc)
    BY DEF Insert, AfterMint
  <2>2. req'[r].pc = pc BY <2>1, Moved DEF IInv, Where, Ended
  <2> QED BY <1>6, <2>2 DEF Answered
<1>9. req'[r].id \in BecameOf(KeyOf[r])'
  BY <1>7 DEF IInv, Book, TypeOK, Reqs, BecameOf
<1>10. BecameOf(KeyOf[r])' = BecameOf(KeyOf[r])
  <2>1. ASSUME NEW s \in Requests, Insert(s) PROVE s = r
    <3>1. req'[s] # req[s]
      <4>1. PICK pc \in {"refused", "consume", "send", "say_ok", "say_blocked"} : To(s, pc)
        BY <2>1 DEF Insert, AfterMint
      <4>2. req'[s].pc = pc BY <4>1, Moved DEF IInv, Where, Ended
      <4> QED BY <2>1, <4>2 DEF Insert, At
    <3> QED BY <1>2, <1>3, <3>1 DEF Keeps
  <2> QED BY <1>7, <1>8, <2>1, LedgerMoves
<1> QED BY <1>2, <1>3, <1>5, <1>6, <1>8, <1>9, <1>10 DEF Keeps, NamedTo

(* A key becomes one transfer, and nobody is told of another. *)
THEOREM MintOnceHolds == Spec => KeepsPromise
<1> DEFINE minted == [k \in {KeyOf[i] : i \in Requests} |-> BecameOf(k)]
           named == [r \in Requests |-> NamedTo(r)]
<1>1. Init => Promise!Init
  BY DEF Init, Promise!Init, Promise!Keys, BecameOf, NamedTo, Answered
<1>2. IInv /\ IInv' /\ [Next]_vars => [Promise!Next]_<<minted, named>>
  <2> SUFFICES ASSUME IInv, IInv', [Next]_vars
               PROVE  Promise!Next \/ (minted' = minted /\ named' = named)
    OBVIOUS
  <2>0. \A r \in Requests : KeyOf[r] \in Keys BY KeyLemma
  <2>1. CASE \A k \in Keys : BecameOf(k)' = BecameOf(k)
    <3>1. minted' = minted BY <2>0, <2>1
    <3>2. CASE \A r \in Requests : NamedTo(r)' = NamedTo(r)
      BY <3>1, <3>2
    <3>3. ASSUME NEW r \in Requests, NamedTo(r)' # NamedTo(r) PROVE Promise!Next
      <4>1. /\ NamedTo(r) = Nobody
            /\ NamedTo(r)' \in BecameOf(KeyOf[r])
            /\ \A s \in Requests : s # r => NamedTo(s)' = NamedTo(s)
        BY <3>3, Naming
      <4>2. minted[KeyOf[r]] = BecameOf(KeyOf[r]) OBVIOUS
      <4>3. named' = [named EXCEPT ![r] = NamedTo(r)'] BY <4>1
      <4>4. Promise!Tell(r) BY <3>1, <4>1, <4>2, <4>3 DEF Promise!Tell
      <4> QED BY <4>4 DEF Promise!Next
    <3> QED BY <3>1, <3>2, <3>3
  <2>2. ASSUME NEW r \in Requests,
               Insert(r), BecameOf(KeyOf[r]) = {},
               BecameOf(KeyOf[r])' = {req[r].id}, KeyOf[req[r].id] = KeyOf[r],
               \A k \in Keys : k # KeyOf[r] => BecameOf(k)' = BecameOf(k),
               req[r].id \in Requests
        PROVE  Promise!Next
    <3>0. PICK id \in Requests : id = req[r].id BY <2>2
    <3>1. named' = named
      <4>1. ASSUME NEW s \in Requests, NamedTo(s)' # NamedTo(s) PROVE FALSE
        <5>1. ~ Insert(s) /\ NamedTo(s)' \in BecameOf(KeyOf[s]) BY <4>1, Naming
        <5>2. req'[s] # req[s] BY <4>1 DEF NamedTo
        <5>3. Keeps(r) BY <2>2, LoudSteps
        <5> QED BY <2>2, <5>1, <5>2, <5>3 DEF Keeps
      <4> QED BY <4>1
    <3>2. minted[KeyOf[id]] = {} BY <2>2, <3>0
    <3>3. minted' = [minted EXCEPT ![KeyOf[id]] = {id}] BY <2>0, <2>2, <3>0
    <3>4. Promise!Become(id) BY <3>1, <3>2, <3>3 DEF Promise!Become
    <3> QED BY <3>4 DEF Promise!Next
  <2> QED BY <2>1, <2>2, LedgerMoves
<1> QED BY <1>1, <1>2, BooksAgree, PTL DEF Spec, KeepsPromise, Promise!Spec
=============================================================================
