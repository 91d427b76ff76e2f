--------------------------- MODULE MintStopProofs ---------------------------
(***************************************************************************)
(* What stops a mint, for any number of requests, cancels and acts: the    *)
(* sender's cap, a draft's cancellation, a schedule's status and end.      *)
(* Each theorem's invariant is stated beside it; all stand on MintProofs'  *)
(* IInv, and on what a step may do to the ledger.                          *)
(***************************************************************************)
EXTENDS MintProofs

USE MintAssumption

(* A key that stands for a transfer does so for good. *)
LEMMA LedgerGrows ==
    ASSUME IInv, [Next]_vars
    PROVE  /\ \A k \in Keys : Exists(claim[k]) => Exists(claim[k])'
           /\ \A r \in Requests : Request(r) => Keeps(r)
<1>1. ASSUME NEW r \in Requests, Request(r)
      PROVE  \A k \in Keys : Exists(claim[k]) => Exists(claim[k])'
  <2>1. TAKE k \in Keys
  <2>2. HAVE Exists(claim[k])
  <2>3. claim[k] \in Requests BY <2>2 DEF IInv, TypeOK, Exists
  <2>4. claim'[k] = claim[k] /\ row'[claim[k]] # "none"
    BY <1>1, <2>2, <2>3, RequestKeeps DEF Exists, Keeps
  <2> QED BY <2>2, <2>4 DEF Exists
<1>2. CASE UNCHANGED <<claim, row>> BY <1>2, RequestKeeps DEF Exists
<1> QED BY <1>1, <1>2, OthersKeep, RequestKeeps DEF Next

(* Who writes the schedule, and how. *)
LEMMA ScheduleMoves ==
    ASSUME IInv, [Next]_vars
    PROVE  \/ UNCHANGED <<sched, desk>>
           \/ \E r \in Crons : ListSchedule(r) /\ sched' = [sched EXCEPT !.st = "cancelled"]
                               /\ sched.over /\ sched.st = "active" /\ desk' = desk
           \/ \E r \in Crons : MarkRun(r) /\ sched' = [sched EXCEPT !.ran = TRUE]
                               /\ desk' = desk
           \/ \E d \in Desks : OpenSchedule(d)
           \/ \E d \in Desks : SetStatusIf(d) /\ sched.st # "cancelled"
           \/ \E d \in Desks : SetStatusIf(d) /\ sched' = sched
           \/ \E d \in Desks : SaveCancelled(d)
           \/ \E d \in Desks : DeleteRecipient(d)
<1>1. ASSUME NEW r \in Requests, Request(r), ~ListSchedule(r), ~MarkRun(r)
      PROVE  UNCHANGED <<sched, desk>>
  BY <1>1 DEF Request, PeekDraft, FindMinted, CurrentSchedule, ResolveLink, ResumeLink,
        Gates, ClaimKey, ClaimLink, FindExisting, RereadDraft, RefuseMint, TakeLock,
        ReadUnderLock, Insert, ConsumeDraft, SendLink, Answer, Crash, things, people
<1>2. ASSUME NEW r \in Requests, ListSchedule(r)
      PROVE  \/ UNCHANGED <<sched, desk>>
             \/ /\ r \in Crons /\ sched' = [sched EXCEPT !.st = "cancelled"]
                /\ sched.over /\ sched.st = "active" /\ desk' = desk
  BY <1>2 DEF ListSchedule, people
<1>3. CASE \E c \in Apps \cup Chats : CancelDraft(c)
  BY <1>3 DEF CancelDraft, AppSees, AppConsumes, AppLooks, ChatCancels, unpaid
<1>4. CASE DraftExpires \/ FallsDue \/ CancelLink \/ ExpireDue
  BY <1>4 DEF DraftExpires, FallsDue, CancelLink, ExpireDue, unpaid, offLink, people
<1>5. ASSUME NEW d \in Desks, SetStatusIf(d)
      PROVE  sched.st # "cancelled" \/ sched' = sched
  BY <1>5 DEF SetStatusIf, From, IInv, TypeOK, Scheds, SchedStatus
<1>6. ASSUME NEW r \in Requests, MarkRun(r)
      PROVE  r \in Crons /\ sched' = [sched EXCEPT !.ran = TRUE] /\ desk' = desk
  BY <1>6 DEF MarkRun, people, At, IInv, Fits
<1>7. CASE UNCHANGED vars BY <1>7 DEF vars, things, people
<1>8. CASE \E d \in Desks : ActOnSchedule(d)
  BY <1>5, <1>8 DEF ActOnSchedule
<1> QED BY <1>1, <1>2, <1>3, <1>4, <1>6, <1>7, <1>8 DEF Next

-----------------------------------------------------------------------------
(* A payment that took the draft away has minted its key. *)
THEOREM LostDraftHolds == Spec => []LostDraftIsMinted
<1>1. Init => LostDraftIsMinted BY DEF Init, LostDraftIsMinted
<1>2. IInv /\ LostDraftIsMinted /\ [Next]_vars => LostDraftIsMinted'
  <2> SUFFICES ASSUME IInv, LostDraftIsMinted, [Next]_vars, draft' = "paid"
               PROVE  Exists(claim["draft"])'
    BY DEF LostDraftIsMinted
  <2>0. "draft" \in Keys BY DEF Keys
  <2>1. CASE draft = "paid" BY <2>0, <2>1, LedgerGrows DEF LostDraftIsMinted
  <2>2. ASSUME NEW r \in Requests, ConsumeDraft(r) PROVE Exists(claim["draft"])'
    <3>1. /\ KeyOf[r] = "draft" /\ req[r].id = claim["draft"]
          /\ req[r].id # Nobody /\ row[req[r].id] # "none"
      BY <2>2, KeyLemma DEF ConsumeDraft, At, IInv, Fits, Bound, AfterRow
    <3> QED BY <2>2, <3>1 DEF ConsumeDraft, ledger, Exists
  <2>3. ASSUME NEW r \in Requests, Request(r), ~ConsumeDraft(r) PROVE draft' = draft
    BY <2>3 DEF Request, PeekDraft, FindMinted, ListSchedule, CurrentSchedule, ResolveLink,
          ResumeLink, Gates, ClaimKey, ClaimLink, FindExisting, RereadDraft, RefuseMint,
          TakeLock, ReadUnderLock, Insert, SendLink, MarkRun, Answer, Crash, things
  <2>4. ASSUME NEW c \in Apps \cup Chats, CancelDraft(c) PROVE draft = "paid"
    BY <2>4 DEF CancelDraft, AppSees, AppConsumes, AppLooks, ChatCancels
  <2>5. CASE \/ \E d \in Desks : ActOnSchedule(d)
             \/ DraftExpires \/ FallsDue \/ CancelLink \/ ExpireDue \/ UNCHANGED vars
    <3>1. draft' = draft \/ draft' = "expired"
      BY <2>5 DEF ActOnSchedule, OpenSchedule, SetStatusIf, SaveCancelled,
            DeleteRecipient, DraftExpires, FallsDue, CancelLink, ExpireDue, vars, things,
            offDesk, offLink
    <3> QED BY <2>1, <3>1
  <2> QED BY <2>1, <2>2, <2>3, <2>4, <2>5 DEF Next
<1> QED BY <1>1, <1>2, BooksAgree, PTL DEF Spec

-----------------------------------------------------------------------------
(* No write revives a cancelled schedule: each is a cancel, or keeps the   *)
(* status, or requires one that is not cancelled.                          *)
THEOREM CancelledHolds == Spec => CancelledStaysCancelled
<1>1. IInv /\ [Next]_vars => [sched.st = "cancelled" => sched'.st = "cancelled"]_vars
  <2> SUFFICES ASSUME IInv, [Next]_vars, sched.st = "cancelled"
               PROVE  sched'.st = "cancelled"
    OBVIOUS
  <2>1. sched \in Scheds /\ \A d \in Desks : desk[d].saw \in Scheds
    BY DEF IInv, TypeOK
  <2>2. ASSUME NEW d \in Desks, OpenSchedule(d) \/ SaveCancelled(d) \/ DeleteRecipient(d)
        PROVE  sched'.st = "cancelled"
    BY <2>1, <2>2 DEF OpenSchedule, SaveCancelled, DeleteRecipient, Scheds
  <2>3. CASE \/ UNCHANGED <<sched, desk>> \/ sched' = sched
             \/ sched' = [sched EXCEPT !.st = "cancelled"]
             \/ sched' = [sched EXCEPT !.ran = TRUE]
    BY <2>1, <2>3 DEF Scheds
  <2> QED BY <2>2, <2>3, ScheduleMoves
<1> QED BY <1>1, BooksAgree, PTL DEF Spec, CancelledStaysCancelled

(* A marked day's transfer exists, on the schedule and on every copy of it *)
(* that a chat may yet save.                                               *)
RInv ==
    /\ RunMeansMinted
    /\ \A d \in Desks : desk[d].saw.ran => Exists(claim["sched"])

THEOREM RunHolds == Spec => []RunMeansMinted
<1>1. Init => RInv
  <2> SUFFICES ASSUME Init PROVE RInv
    OBVIOUS
  <2>1. sched.ran = FALSE BY DEF Init
  <2>2. \A d \in Desks : desk[d].saw = sched BY DEF Init
  <2> QED BY <2>1, <2>2 DEF RInv, RunMeansMinted
<1>2. IInv /\ RInv /\ [Next]_vars => RInv'
  <2> SUFFICES ASSUME IInv, RInv, [Next]_vars PROVE RInv'
    OBVIOUS
  <2>0. /\ "sched" \in Keys /\ sched \in Scheds
        /\ desk \in [Desks -> [act : {"none", "pause", "resume", "cancel", "chat"},
                               saw : Scheds]]
    BY DEF IInv, TypeOK, Keys
  <2>1. Exists(claim["sched"]) => Exists(claim["sched"])' BY <2>0, LedgerGrows
  <2>2. ASSUME ~Exists(claim["sched"])
        PROVE  /\ ~sched.ran /\ \A d \in Desks : ~desk[d].saw.ran
               /\ \A r \in Crons : ~MarkRun(r)
    <3>1. ASSUME NEW r \in Crons, MarkRun(r) PROVE FALSE
      <4>1. r \in Requests /\ KeyOf[r] = "sched"
        BY KeyLemma DEF Requests
      <4> QED BY <2>2, <3>1, <4>1 DEF MarkRun, At, IInv, Fits, Bound, AfterRow, Exists
    <3> QED BY <2>2, <3>1 DEF RInv, RunMeansMinted
  <2>3. CASE Exists(claim["sched"])' BY <2>3 DEF RInv, RunMeansMinted
  <2>4. CASE ~Exists(claim["sched"])
    <3>1. ~sched'.ran /\ \A d \in Desks : ~desk'[d].saw.ran
      <4>1. CASE UNCHANGED <<sched, desk>> BY <2>2, <2>4, <4>1
      <4>2. CASE sched' = [sched EXCEPT !.st = "cancelled"] /\ desk' = desk
        BY <2>0, <2>2, <2>4, <4>2 DEF Scheds
      <4>3. ASSUME NEW d \in Desks, OpenSchedule(d) PROVE <3>1!:
        BY <2>0, <2>2, <2>4, <4>3 DEF OpenSchedule
      <4>4. ASSUME NEW d \in Desks, SetStatusIf(d) PROVE <3>1!:
        BY <2>0, <2>2, <2>4, <4>4 DEF SetStatusIf, Scheds
      <4>5. ASSUME NEW d \in Desks, SaveCancelled(d) PROVE <3>1!:
        BY <2>0, <2>2, <2>4, <4>5 DEF SaveCancelled, Scheds
      <4>6. ASSUME NEW d \in Desks, DeleteRecipient(d) PROVE <3>1!:
        BY <2>0, <2>2, <2>4, <4>6 DEF DeleteRecipient, Scheds
      <4> QED BY <2>2, <2>4, <4>1, <4>2, <4>3, <4>4, <4>5, <4>6, ScheduleMoves
    <3> QED BY <3>1 DEF RInv, RunMeansMinted
  <2> QED BY <2>1, <2>3, <2>4
<1>3. RInv => RunMeansMinted BY DEF RInv
<1> QED BY <1>1, <1>2, <1>3, BooksAgree, PTL DEF Spec

-----------------------------------------------------------------------------
(* Everything of a sender is decided and inserted under its lock: what a   *)
(* request read there cannot have grown since.                             *)
CapInv ==
    /\ CapHolds
    /\ \A r \in Requests : req[r].pc = "insert" => Cardinality(Counted) <= req[r].total

(* The sender's cap. *)
THEOREM CapIsKept == Spec => []CapHolds
<1>1. Init => CapInv
  <2> SUFFICES ASSUME Init PROVE CapInv
    OBVIOUS
  <2>1. Counted = {} BY DEF Init, Counted
  <2>2. Cardinality(Counted) = 0 BY <2>1, FS_EmptySet
  <2> QED BY <2>2 DEF Init, CapInv, CapHolds
<1>2. IInv /\ CapInv /\ [Next]_vars => CapInv'
  <2> SUFFICES ASSUME IInv, CapInv, [Next]_vars PROVE CapInv'
    OBVIOUS
  <2>0. /\ row \in [Requests -> {"none", "awaiting", "blocked"}]
        /\ IsFiniteSet(Counted) /\ Cardinality(Counted) \in Nat
        /\ \A r \in Requests : req[r].total \in Nat
        /\ req \in [Requests -> Reqs]
    BY CountedIsFinite DEF IInv, TypeOK, Reqs
  (* Removing from the total, or leaving it. *)
  <2>1. ASSUME Counted' \subseteq Counted PROVE Cardinality(Counted)' <= Cardinality(Counted)
    BY <2>0, <2>1, FS_Subset
  <2>2. ASSUME NEW r \in Requests, Request(r), ~Insert(r), ~ReadUnderLock(r)
        PROVE  Counted' \subseteq Counted /\ req'[r].pc # "insert"
    <3>1. CASE ResumeLink(r)
      <4>1. Counted' \subseteq Counted BY <2>0, <3>1 DEF ResumeLink, Counted
      <4>2. Fits(r)' /\ r \in Linkers
        BY <2>2, <3>1, RequestKeeps DEF Keeps, ResumeLink, At, IInv, Fits
      <4>3. req'[r].pc \in Ended
        BY <2>0, <3>1 DEF ResumeLink, To, Told, Reserve, Reqs, Ended, Answered
      <4> QED BY <4>1, <4>3 DEF Ended, Answered
    <3>2. CASE ~ResumeLink(r)
      <4>1. row' = row
        BY <2>2, <3>2 DEF Request, PeekDraft, FindMinted, ListSchedule, CurrentSchedule,
              ResolveLink, Gates, ClaimKey, ClaimLink, FindExisting, RereadDraft,
              RefuseMint, TakeLock, ConsumeDraft, SendLink, MarkRun, Answer, Crash, ledger
      <4>2. req'[r].pc # "insert"
        BY <2>0, <2>2, <3>2 DEF Request, PeekDraft, FindMinted, ListSchedule,
              CurrentSchedule, ResolveLink, Gates, ClaimKey, ClaimLink, FindExisting,
              RereadDraft, RefuseMint, TakeLock, ConsumeDraft, SendLink, MarkRun, Answer,
              Crash, To, Told, Reserve, Reqs, AfterClaim
      <4> QED BY <4>1, <4>2 DEF Counted
    <3> QED BY <3>1, <3>2
  <2>3. ASSUME Counted' \subseteq Counted,
               \A s \in Requests : req'[s].pc = "insert" => req'[s] = req[s]
        PROVE  CapInv'
    <3>1. Cardinality(Counted') \in Nat /\ Cardinality(Counted') <= Cardinality(Counted)
      BY <2>0, <2>3, FS_Subset, FS_CardinalityType
    <3> QED BY <2>0, <2>3, <3>1 DEF CapInv, CapHolds
  <2>4. ASSUME NEW r \in Requests, Request(r), ~Insert(r), ~ReadUnderLock(r) PROVE CapInv'
    BY <2>2, <2>3, <2>4, RequestKeeps DEF Keeps
  <2>5. ASSUME NEW r \in Requests, ReadUnderLock(r) PROVE CapInv'
    <3>1. row' = row /\ \A s \in Requests : s # r => req'[s] = req[s]
      BY <2>5, LoudSteps DEF ReadUnderLock, Keeps
    <3>2. Counted' = Counted BY <3>1 DEF Counted
    <3>3. req'[r].pc = "insert" => req'[r].total = Cardinality(Counted)
      BY <2>0, <2>5 DEF ReadUnderLock, To, Reqs, AfterMint
    <3> QED BY <2>0, <3>1, <3>2, <3>3 DEF CapInv, CapHolds
  <2>6. ASSUME NEW r \in Requests, Insert(r) PROVE CapInv'
    <3>1. /\ lock = r /\ req[r].pc = "insert" /\ req[r].id \in Requests
          /\ row[req[r].id] = "none" /\ Cardinality(Counted) <= req[r].total
      BY <2>0, <2>6 DEF Insert, At, IInv, Fits, Bound, Late, CapInv, Reqs
    <3>2. req'[r].pc # "insert" /\ \A s \in Requests : s # r => req'[s] = req[s]
      BY <2>0, <2>6, LoudSteps DEF Insert, Keeps, To, Reqs, AfterMint
    <3>3. \A s \in Requests : req'[s].pc # "insert"
      <4>1. ASSUME NEW s \in Requests, s # r PROVE req[s].pc # "insert"
        BY <3>1, <4>1 DEF IInv, Fits
      <4> QED BY <3>2, <4>1
    <3>4. CASE Counted' \subseteq Counted BY <2>3, <3>3, <3>4
    <3>5. CASE row' = [row EXCEPT ![req[r].id] = "awaiting"] /\ req[r].total + 1 <= Cap
      <4>1. Counted' = Counted \cup {req[r].id} /\ req[r].id \notin Counted
        BY <2>0, <3>1, <3>5 DEF Counted
      <4>2. Cardinality(Counted') = Cardinality(Counted) + 1
        BY <2>0, <4>1, FS_AddElement
      <4> QED BY <2>0, <3>1, <3>3, <3>5, <4>2 DEF CapInv, CapHolds
    <3>6. CASE row' = row \/ row' = [row EXCEPT ![req[r].id] = "blocked"]
      BY <2>0, <3>1, <3>4, <3>6 DEF Counted
    <3> QED BY <2>6, <3>5, <3>6 DEF Insert
  <2>7. CASE UNCHANGED <<claim, row, lock, req>>
    BY <2>7 DEF CapInv, CapHolds, Counted
  <2> QED BY <2>4, <2>5, <2>6, <2>7, OthersKeep DEF Next
<1>3. CapInv => CapHolds BY DEF CapInv
<1> QED BY <1>1, <1>2, <1>3, BooksAgree, PTL DEF Spec

-----------------------------------------------------------------------------
(* A run past its listing is of a schedule that has not ended; one about to *)
(* insert holds it FOR SHARE, so nothing may stop it first.                 *)
SInv ==
    /\ \A d \in Desks : desk[d].saw.over = sched.over
    /\ \A r \in Requests : req[r].pc # "start" => r \in cast
    /\ \A r \in Crons : req[r].pc \notin {"start", "skipped"} => ~sched.over
    /\ \A r \in Crons : req[r].pc = "insert" => sched.st = "active"

(* A request moves out of its start once it acts. *)
LEMMA CastActs ==
    ASSUME IInv, NEW r \in Requests, Request(r)
    PROVE  r \in cast /\ UNCHANGED fixed
BY DEF Request, PeekDraft, FindMinted, ListSchedule, CurrentSchedule, ResolveLink, ResumeLink,
       Gates, ClaimKey, ClaimLink, FindExisting, RereadDraft, RefuseMint, TakeLock,
       ReadUnderLock, Insert, ConsumeDraft, SendLink, MarkRun, Answer, Crash, At

(* A paused, cancelled or ended schedule mints nothing more. *)
THEOREM StoppedHolds == Spec => StoppedNeverMints
<1>1. Init => SInv
  <2> SUFFICES ASSUME Init PROVE SInv
    OBVIOUS
  <2>1. \A d \in Desks : desk[d].saw = sched BY DEF Init
  <2>2. \A r \in Requests : req[r].pc = "start" BY DEF Init
  <2>3. Crons \subseteq Requests BY DEF Requests
  <2> QED BY <2>1, <2>2, <2>3 DEF SInv
<1>2. IInv /\ SInv /\ [Next]_vars => SInv'
  <2> SUFFICES ASSUME IInv, SInv, [Next]_vars PROVE SInv'
    OBVIOUS
  <2>0. /\ sched \in Scheds /\ Crons \subseteq Requests /\ req \in [Requests -> Reqs]
        /\ desk \in [Desks -> [act : {"none", "pause", "resume", "cancel", "chat"},
                               saw : Scheds]]
    BY DEF IInv, TypeOK, Requests
  (* What the schedule's writers do to it. *)
  <2>1. sched'.over = sched.over /\ \A d \in Desks : desk'[d].saw.over = sched.over
    <3>1. CASE UNCHANGED <<sched, desk>> BY <3>1 DEF SInv
    <3>2. CASE (sched' = [sched EXCEPT !.st = "cancelled"]
                \/ sched' = [sched EXCEPT !.ran = TRUE]) /\ desk' = desk
      BY <2>0, <3>2 DEF SInv, Scheds
    <3>3. ASSUME NEW d \in Desks, OpenSchedule(d) PROVE <2>1!:
      BY <2>0, <3>3 DEF SInv, OpenSchedule
    <3>4. ASSUME NEW d \in Desks, SetStatusIf(d) PROVE <2>1!:
      BY <2>0, <3>4 DEF SInv, SetStatusIf, Scheds
    <3>5. ASSUME NEW d \in Desks, SaveCancelled(d) PROVE <2>1!:
      BY <2>0, <3>5 DEF SInv, SaveCancelled, Scheds
    <3>6. ASSUME NEW d \in Desks, DeleteRecipient(d) PROVE <2>1!:
      BY <2>0, <3>6 DEF SInv, DeleteRecipient, Scheds
    <3> QED BY <3>1, <3>2, <3>3, <3>4, <3>5, <3>6, ScheduleMoves
  <2>2. ASSUME NEW r \in Crons, req[r].pc = "insert" PROVE sched'.st = "active"
    <3>1. sched.st = "active" /\ Shared /\ ~sched.over
      BY <2>0, <2>2 DEF SInv, Shared, At
    <3>2. CASE UNCHANGED <<sched, desk>> \/ sched' = sched BY <3>1, <3>2
    <3>3. CASE sched' = [sched EXCEPT !.ran = TRUE] BY <2>0, <3>1, <3>3 DEF Scheds
    <3>4. CASE \E d \in Desks : OpenSchedule(d) BY <3>1, <3>4 DEF OpenSchedule
    <3>5. CASE \E d \in Desks : SetStatusIf(d) \/ SaveCancelled(d) \/ DeleteRecipient(d)
      BY <3>1, <3>5 DEF SetStatusIf, SaveCancelled, DeleteRecipient
    <3> QED BY <3>1, <3>2, <3>3, <3>4, <3>5, ScheduleMoves
  <2>3. ASSUME NEW r \in Requests, Request(r)
        PROVE  SInv'
    <3>0. /\ r \in cast /\ cast' = cast
          /\ \A s \in Requests : s # r => req'[s] = req[s]
      BY <2>3, CastActs, RequestKeeps DEF fixed, Keeps
    <3>1. ASSUME r \in Crons, req'[r].pc \notin {"start", "skipped"} PROVE ~sched.over
      <4>1. CASE req[r].pc \notin {"start", "skipped"} BY <3>1, <4>1 DEF SInv
      <4>2. CASE ListSchedule(r) BY <2>0, <3>1, <4>2 DEF ListSchedule, To, Reqs
      <4>3. CASE req[r].pc \in {"start", "skipped"} /\ ~ListSchedule(r)
        BY <2>3, <3>1, <4>3, KeyLemma DEF Request, PeekDraft, FindMinted, CurrentSchedule,
           ResolveLink, ResumeLink, Gates, ClaimKey, ClaimLink, FindExisting, RereadDraft,
           RefuseMint, TakeLock, ReadUnderLock, Insert, ConsumeDraft, SendLink, MarkRun,
           Answer, Crash, At, Ended
      <4> QED BY <4>1, <4>2, <4>3
    <3>2. ASSUME r \in Crons, req'[r].pc = "insert" PROVE sched'.st = "active"
      <4>1. CASE ReadUnderLock(r) /\ sched.st = "active"
        BY <4>1 DEF ReadUnderLock, things
      <4>2. CASE ReadUnderLock(r) /\ sched.st # "active"
        BY <2>0, <3>2, <4>2 DEF ReadUnderLock, To, Reqs, AfterMint
      <4>3. CASE ~ReadUnderLock(r)
        BY <2>0, <2>3, <3>2, <4>3 DEF Request, PeekDraft, FindMinted, ListSchedule,
           CurrentSchedule, ResolveLink, ResumeLink, Gates, ClaimKey, ClaimLink,
           FindExisting, RereadDraft, RefuseMint, TakeLock, Insert, ConsumeDraft, SendLink,
           MarkRun, Answer, Crash, To, Told, Reserve, Reqs, AfterClaim, AfterMint
      <4> QED BY <4>1, <4>2, <4>3
    <3> QED BY <2>0, <2>1, <2>2, <3>0, <3>1, <3>2 DEF SInv
  <2>4. CASE UNCHANGED <<req, cast>>
    BY <2>0, <2>1, <2>2, <2>4 DEF SInv
  <2>5. ~(\E r \in Requests : Request(r)) => cast' = cast
    BY DEF Next, CancelDraft, AppSees, AppConsumes, AppLooks, ChatCancels, ActOnSchedule,
           OpenSchedule, SetStatusIf, SaveCancelled, DeleteRecipient, DraftExpires,
           FallsDue, CancelLink, ExpireDue, vars, fixed, unpaid, offDesk, offLink
  <2> QED BY <2>3, <2>4, <2>5, OthersKeep DEF Next
<1>3. IInv /\ SInv /\ [Next]_vars
        => [\A i \in Crons : row[i] = "none" /\ row'[i] # "none"
              => sched.st = "active" /\ ~sched.over]_vars
  <2> SUFFICES ASSUME IInv, SInv, [Next]_vars, NEW i \in Crons,
                      row[i] = "none", row'[i] # "none"
               PROVE  sched.st = "active" /\ ~sched.over
    OBVIOUS
  <2>1. i \in Requests /\ KeyOf[i] = "sched" BY KeyLemma DEF Requests
  <2>2. i \in BecameOf(KeyOf[i])' /\ i \notin BecameOf(KeyOf[i])
    BY <2>1 DEF BecameOf
  <2>3. PICK r \in Requests : Insert(r) /\ KeyOf[r] = KeyOf[i]
    BY <2>1, <2>2, KeyLemma, LedgerMoves
  <2>4. r \in Crons /\ req[r].pc = "insert" BY <2>1, <2>3, KeyLemma DEF Insert, At
  <2> QED BY <2>4 DEF SInv
<1> QED BY <1>1, <1>2, <1>3, BooksAgree, PTL DEF Spec, StoppedNeverMints

-----------------------------------------------------------------------------
(* Who looks after consuming the draft is alone with it: it is out of      *)
(* Redis, and a payment that claims after the look re-reads it first.      *)
CInv ==
    /\ \A c \in Apps \cup Chats :
          cancel[c] \in {"consume", "look", "being_paid"} => c \in Apps
    /\ \A c \in Apps : cancel[c] # "start" => prepared
    /\ \A c \in Apps : cancel[c] \in {"look", "cancelled"} => draft = "cancelled"
    /\ \A b, c \in Apps : cancel[b] = "look" /\ cancel[c] \in {"look", "cancelled"} => b = c
    /\ (\E c \in Apps : cancel[c] = "cancelled")
          => /\ BecameOf("draft") = {}
             /\ \A r \in Payers : req[r].pc \notin Late

(* A payment that only has the mint left has passed the re-read. *)
LEMMA LateIsReread ==
    ASSUME IInv, NEW r \in Payers, Request(r), prepared, draft = "cancelled",
           req[r].pc \notin Late
    PROVE  req'[r].pc \notin Late
<1>1. r \in Requests /\ r \notin Linkers /\ req \in [Requests -> Reqs]
  BY DEF IInv, TypeOK, Requests, MintAssumption
<1>2. CASE \/ TakeLock(r) \/ ReadUnderLock(r) \/ Insert(r)
  BY <1>2 DEF TakeLock, ReadUnderLock, Insert, At, Late
<1>3. CASE Crash(r) \/ FindExisting(r) \/ ClaimKey(r) \/ RereadDraft(r)
  BY <1>1, <1>3 DEF Crash, FindExisting, ClaimKey, RereadDraft, AfterClaim, To, Told,
     Reserve, Reqs, Late
<1>4. CASE ClaimLink(r) \/ ResumeLink(r)
  BY <1>1, <1>4 DEF ClaimLink, ResumeLink, At, IInv, Fits
<1>5. CASE \/ PeekDraft(r) \/ FindMinted(r) \/ ListSchedule(r) \/ CurrentSchedule(r)
           \/ ResolveLink(r) \/ Gates(r) \/ RefuseMint(r) \/ ConsumeDraft(r)
           \/ SendLink(r) \/ MarkRun(r) \/ Answer(r)
  BY <1>1, <1>5 DEF PeekDraft, FindMinted, ListSchedule, CurrentSchedule, ResolveLink,
     Gates, RefuseMint, ConsumeDraft, SendLink, MarkRun, Answer, To, Told, Reserve, Reqs, Late
<1> QED BY <1>2, <1>3, <1>4, <1>5 DEF Request

(* A transfer the app was told is cancelled is never minted. *)
THEOREM CancelIsKept == Spec => []CancelHolds
<1>1. Init => CInv BY DEF Init, CInv
<1>2. IInv /\ CInv /\ [Next]_vars => CInv'
  <2> SUFFICES ASSUME IInv, CInv, [Next]_vars PROVE CInv'
    OBVIOUS
  <2>0. /\ cancel \in [Apps \cup Chats -> {"start", "consume", "look", "cancelled",
                                           "being_paid", "nothing"}]
        /\ Payers \subseteq Requests /\ "draft" \in Keys
    BY DEF IInv, TypeOK, Requests, Keys
  <2>1. ASSUME NEW r \in Requests, Request(r) PROVE CInv'
    <3>1. cancel' = cancel /\ prepared' = prepared
      BY <2>1 DEF Request, PeekDraft, FindMinted, ListSchedule, CurrentSchedule, ResolveLink,
         ResumeLink, Gates, ClaimKey, ClaimLink, FindExisting, RereadDraft, RefuseMint,
         TakeLock, ReadUnderLock, Insert, ConsumeDraft, SendLink, MarkRun, Answer, Crash,
         people, fixed
    <3>2. draft = "cancelled" => draft' = "cancelled"
      BY <2>1 DEF Request, PeekDraft, FindMinted, ListSchedule, CurrentSchedule, ResolveLink,
         ResumeLink, Gates, ClaimKey, ClaimLink, FindExisting, RereadDraft, RefuseMint,
         TakeLock, ReadUnderLock, Insert, ConsumeDraft, SendLink, MarkRun, Answer, Crash,
         things
    <3>3. ASSUME NEW c \in Apps, cancel[c] = "cancelled"
          PROVE  /\ BecameOf("draft")' = {}
                 /\ \A s \in Payers : req'[s].pc \notin Late
      <4>1. /\ prepared /\ draft = "cancelled" /\ BecameOf("draft") = {}
            /\ \A s \in Payers : req[s].pc \notin Late
        BY <3>3 DEF CInv
      <4>2. \A s \in Payers : req'[s].pc \notin Late
        BY <2>0, <2>1, <4>1, LateIsReread, RequestKeeps DEF Keeps
      <4>3. ASSUME NEW s \in Requests, Insert(s) PROVE KeyOf[s] # "draft"
        BY <4>1, <4>3, KeyLemma DEF Insert, At, Late
      <4>4. BecameOf("draft")' = BecameOf("draft")
        BY <2>0, <4>3, LedgerMoves
      <4> QED BY <4>1, <4>2, <4>4
    <3> QED BY <3>1, <3>2, <3>3 DEF CInv
  <2>2. ASSUME UNCHANGED <<claim, row, lock, req>>, prepared' = prepared
        PROVE  /\ BecameOf("draft")' = BecameOf("draft")
               /\ \A r \in Payers : req'[r].pc = req[r].pc
    BY <2>2 DEF BecameOf
  <2>3. ASSUME NEW c \in Apps \cup Chats, CancelDraft(c) PROVE CInv'
    <3>0. UNCHANGED <<claim, row, lock, req>> /\ prepared' = prepared
      BY <2>3 DEF CancelDraft, AppSees, AppConsumes, AppLooks, ChatCancels, unpaid, fixed,
         ledger
    <3>1. /\ BecameOf("draft")' = BecameOf("draft")
          /\ \A r \in Payers : req'[r].pc = req[r].pc
      BY <2>2, <3>0
    <3>2. CASE AppSees(c)
      <4>1. /\ c \in Apps /\ prepared /\ draft' = draft
            /\ cancel'[c] \in {"consume", "nothing"}
            /\ \A b \in Apps \cup Chats : b # c => cancel'[b] = cancel[b]
        BY <2>0, <3>2 DEF AppSees, CancelTo
      <4> QED BY <3>0, <3>1, <4>1 DEF CInv
    <3>3. CASE AppConsumes(c)
      <4>0. c \in Apps /\ prepared /\ cancel[c] = "consume"
        BY <3>3 DEF AppConsumes, Cancels, CInv
      <4>1. CASE draft = "live" /\ draft' = "cancelled" /\ CancelTo(c, "look")
        <5>1. \A b \in Apps : cancel[b] \notin {"look", "cancelled"} BY <4>1 DEF CInv
        <5>2. cancel'[c] = "look" /\ \A b \in Apps \cup Chats : b # c => cancel'[b] = cancel[b]
          BY <2>0, <4>1 DEF CancelTo
        <5> QED BY <3>0, <4>0, <4>1, <5>1, <5>2 DEF CInv
      <4>2. CASE CancelTo(c, "nothing") /\ draft' = draft
        <5>2. cancel'[c] = "nothing" /\ \A b \in Apps \cup Chats : b # c => cancel'[b] = cancel[b]
          BY <2>0, <4>2 DEF CancelTo
        <5> QED BY <3>0, <3>1, <4>0, <4>2, <5>2 DEF CInv
      <4> QED BY <3>3, <4>1, <4>2 DEF AppConsumes
    <3>4. CASE AppLooks(c)
      <4>0. /\ c \in Apps /\ prepared /\ cancel[c] = "look" /\ draft = "cancelled"
            /\ \A b \in Apps : b # c => cancel[b] \notin {"look", "cancelled"}
        BY <3>4 DEF AppLooks, Cancels, CInv
      <4>1. CASE draft' = "live" /\ CancelTo(c, "being_paid")
        <5>1. /\ cancel'[c] = "being_paid"
              /\ \A b \in Apps \cup Chats : b # c => cancel'[b] = cancel[b]
          BY <2>0, <4>1 DEF CancelTo
        <5> QED BY <3>0, <4>0, <5>1 DEF CInv
      <4>2. CASE claim["draft"] = Nobody /\ draft' = draft /\ CancelTo(c, "cancelled")
        <5>1. /\ cancel'[c] = "cancelled"
              /\ \A b \in Apps \cup Chats : b # c => cancel'[b] = cancel[b]
          BY <2>0, <4>2 DEF CancelTo
        <5>2. BecameOf("draft") = {} BY <4>2 DEF BecameOf, IInv, Book, MintAssumption
        <5>3. \A r \in Payers : req[r].pc \notin Late
          BY <2>0, <4>2, KeyLemma DEF IInv, Fits, Bound
        <5> QED BY <3>0, <3>1, <4>0, <4>2, <5>1, <5>2, <5>3 DEF CInv
      <4> QED BY <3>4, <4>1, <4>2 DEF AppLooks
    <3>5. CASE ChatCancels(c)
      <4>1. /\ c \in Chats /\ c \notin Apps /\ ~prepared
            /\ cancel'[c] \in {"cancelled", "nothing"}
            /\ \A b \in Apps \cup Chats : b # c => cancel'[b] = cancel[b]
        BY <2>0, <3>5 DEF ChatCancels, CancelTo, MintAssumption
      <4>2. \A b \in Apps : cancel[b] = "start" /\ cancel'[b] = "start"
        BY <2>0, <4>1 DEF CInv
      <4> QED BY <4>1, <4>2 DEF CInv
    <3> QED BY <2>3, <3>2, <3>3, <3>4, <3>5 DEF CancelDraft
  <2>4. CASE \/ \E d \in Desks : ActOnSchedule(d)
             \/ DraftExpires \/ FallsDue \/ CancelLink \/ ExpireDue \/ UNCHANGED vars
    <3>1. /\ cancel' = cancel /\ prepared' = prepared
          /\ draft = "cancelled" => draft' = "cancelled"
      BY <2>4 DEF ActOnSchedule, OpenSchedule, SetStatusIf, SaveCancelled, DeleteRecipient,
         DraftExpires, FallsDue, CancelLink, ExpireDue, vars, people, things, fixed, unpaid,
         offDesk, offLink
    <3>2. UNCHANGED <<claim, row, lock, req>> BY <2>4, OthersKeep
    <3> QED BY <2>2, <3>1, <3>2 DEF CInv
  <2> QED BY <2>1, <2>3, <2>4 DEF Next
<1>3. CInv => CancelHolds BY DEF CInv, CancelHolds
<1> QED BY <1>1, <1>2, <1>3, BooksAgree, PTL DEF Spec
=============================================================================
