-------------------------------- MODULE Mint --------------------------------
(***************************************************************************)
(* How one sender's transfers come to be.  Every path binds an idempotency *)
(* key to a new id first and mints that id under the sender's lock:        *)
(*   draft  the pay page of a draft        (src/lib/pay-finalize.ts)       *)
(*   sched  the cron run of a schedule     (src/lib/cron-run.ts)           *)
(*   link   a partner's payment link       (src/lib/payment-link-finalize) *)
(*   api    a partner's API call, or a business bill (partner-api-service, *)
(*          b2b-pay-finalize)                                              *)
(* One draft, one day of one schedule, one link and one API key; any       *)
(* number of requests about each, in flight together, and the people who   *)
(* cancel, pause, resume and expire them meanwhile.  The new id a request  *)
(* generates is the request itself.  Amounts are units of the send cap.    *)
(***************************************************************************)
EXTENDS Naturals, FiniteSets

CONSTANTS
    Payers, Crons, Linkers, Callers,  \* requests, by their path
    Apps,      \* cancel_prepared_transfer calls of the AI app
    Chats,     \* cancel_draft calls of the chat agent
    Desks,     \* staff, customers and chats with the schedule at hand
    Casts,     \* bound: which of all these happen in one behaviour
    MaxActs,   \* bound: acts on the schedule
    Cap,       \* transfers the sender's cap has room for
    Nobody

Requests == Payers \cup Crons \cup Linkers \cup Callers

ASSUME MintAssumption ==
    /\ Payers \cap (Crons \cup Linkers \cup Callers) = {}
    /\ Crons \cap (Linkers \cup Callers) = {}
    /\ Linkers \cap Callers = {}
    /\ IsFiniteSet(Requests) /\ Nobody \notin Requests
    /\ Apps \cap Chats = {}
    /\ MaxActs \in Nat /\ Cap \in Nat

KeyOf == [r \in Requests |-> CASE r \in Payers -> "draft"
                               [] r \in Crons -> "sched"
                               [] r \in Linkers -> "link"
                               [] OTHER -> "api"]
Keys == {"draft", "sched", "link", "api"}

VARIABLES
    cast,       \* who acts in this behaviour
    prepared,   \* the draft is an AI app's (Draft.preparedBy)
    draft,      \* in Redis (live), or who took it out
    sched,      \* the schedule: status, run today, past its end date
    link,       \* the payment link's status
    due,        \* the link is past its expiry
    claim,      \* idempotency_keys: the id a key is bound to
    row,        \* transfers, by id
    lock,       \* the sender's advisory lock
    req,        \* each request: where it is, its reserved id, the total it read
    cancel,     \* each cancel of the draft
    desk,       \* each act on the schedule: its copy of the row
    acts        \* how many acts there were

fixed == <<cast, prepared>>
ledger == <<claim, row, lock>>
people == <<cancel, desk, acts>>
things == <<draft, sched, link, due>>
vars == <<fixed, things, ledger, req, people>>

Answered == {"ok", "blocked"}
Ended == Answered \cup {"refused", "skipped", "crashed"}
Late == {"lock", "totals", "insert"}     \* nothing but the mint left to do
Where == Ended \cup Late \cup
         {"start", "gone", "gates", "current", "claim", "existing", "reread",
          "resume", "consume", "send", "mark", "say_ok", "say_blocked"}
Reqs == [pc : Where, id : Requests \cup {Nobody}, total : Nat]
SchedStatus == {"active", "paused", "cancelled"}
Scheds == [st : SchedStatus, ran : BOOLEAN, over : BOOLEAN]

TypeOK ==
    /\ prepared \in BOOLEAN /\ due \in BOOLEAN
    /\ draft \in {"live", "paid", "cancelled", "expired"}
    /\ sched \in Scheds
    /\ link \in {"open", "used", "cancelled", "expired"}
    /\ claim \in [Keys -> Requests \cup {Nobody}]
    /\ row \in [Requests -> {"none", "awaiting", "blocked"}]
    /\ lock \in Requests \cup {Nobody}
    /\ req \in [Requests -> Reqs]
    /\ cancel \in [Apps \cup Chats -> {"start", "consume", "look", "cancelled",
                                       "being_paid", "nothing"}]
    /\ desk \in [Desks -> [act : {"none", "pause", "resume", "cancel", "chat"},
                           saw : Scheds]]
    /\ acts \in 0 .. MaxActs

Init ==
    /\ cast \in Casts
    /\ prepared \in BOOLEAN /\ (cast \cap Payers = {} => ~prepared)
    /\ draft = "live" /\ link = "open" /\ due = FALSE
    /\ sched \in [st : {"active"}, ran : {FALSE}, over : BOOLEAN]
    /\ cast \cap Crons = {} => ~sched.over
    /\ claim = [k \in Keys |-> Nobody]
    /\ row = [r \in Requests |-> "none"]
    /\ lock = Nobody
    /\ req = [r \in Requests |-> [pc |-> "start", id |-> Nobody, total |-> 0]]
    /\ cancel = [c \in Apps \cup Chats |-> "start"]
    /\ desk = [d \in Desks |-> [act |-> "none", saw |-> sched]]
    /\ acts = 0

At(r, pc) == r \in cast /\ req[r].pc = pc
To(r, pc) == req' = [req EXCEPT ![r].pc = pc]
Reserve(r, id, pc) == req' = [req EXCEPT ![r].pc = pc, ![r].id = id]
(* The caller is told of the transfer its key became, by its verdict. *)
Told(r, id) == Reserve(r, id, IF row[id] = "blocked" THEN "blocked" ELSE "ok")
Exists(id) == id # Nobody /\ row[id] # "none"
Counted == {i \in Requests : row[i] = "awaiting"}   \* today's ledger total
HasRoom == Cardinality(Counted) + 1 <= Cap

-----------------------------------------------------------------------------
(* Before the claim: a refusal here leaves the key unbound. *)

(* A draft that is gone may have been paid: its claim says so. *)
PeekDraft(r) ==
    /\ r \in Payers /\ At(r, "start")
    /\ To(r, IF draft = "live" THEN "gates" ELSE "gone")
    /\ UNCHANGED <<fixed, things, ledger, people>>

FindMinted(r) ==
    /\ At(r, "gone")
    /\ IF Exists(claim["draft"]) THEN Told(r, claim["draft"]) ELSE To(r, "refused")
    /\ UNCHANGED <<fixed, things, ledger, people>>

(* listActiveSchedules, the end date and isScheduleDueToday. *)
ListSchedule(r) ==
    /\ r \in Crons /\ At(r, "start")
    /\ To(r, IF sched.st = "active" /\ ~sched.over /\ ~sched.ran
             THEN "current" ELSE "skipped")
    /\ IF sched.st = "active" /\ sched.over
       THEN sched' = [sched EXCEPT !.st = "cancelled"] ELSE UNCHANGED sched
    /\ UNCHANGED <<fixed, draft, link, due, ledger, people>>

(* Opt-outs, gates and the re-read of the status before the claim. *)
CurrentSchedule(r) ==
    /\ At(r, "current")
    /\ \/ sched.st = "active" /\ To(r, "claim")
       \/ To(r, "skipped")
    /\ UNCHANGED <<fixed, things, ledger, people>>

(* linkPayability: a used link is payable again while it is not paid. *)
ResolveLink(r) ==
    /\ r \in Linkers /\ At(r, "start")
    /\ \/ /\ ~due /\ (link = "open" \/ (link = "used" /\ ~Exists(claim["link"])))
          /\ To(r, "gates")
       \/ /\ ~due /\ link = "used"
          /\ Exists(claim["link"]) /\ row[claim["link"]] = "awaiting"
          /\ To(r, "resume")
       \/ /\ \/ due \/ link \in {"cancelled", "expired"}
             \/ /\ link = "used"
                /\ Exists(claim["link"]) /\ row[claim["link"]] # "awaiting"
          /\ To(r, "refused")
    /\ UNCHANGED <<fixed, things, ledger, people>>

(* resumeMinted: the rescreen may block the waiting row. *)
ResumeLink(r) ==
    /\ At(r, "resume")
    /\ LET id == claim["link"] IN
       \/ To(r, "refused") /\ UNCHANGED row
       \/ row[id] = "awaiting" /\ Told(r, id) /\ UNCHANGED row
       \/ /\ row[id] = "awaiting"
          /\ row' = [row EXCEPT ![id] = "blocked"]
          /\ Reserve(r, id, "blocked")
    /\ UNCHANGED <<fixed, things, claim, lock, people>>

(* KYC, destination and FX may refuse; so does the cap, unless the draft is *)
(* minted already.                                                          *)
Gates(r) ==
    /\ At(r, "gates")
    /\ \/ /\ HasRoom \/ (r \in Payers /\ Exists(claim["draft"]))
          /\ To(r, "claim")
       \/ To(r, "refused")
    /\ UNCHANGED <<fixed, things, ledger, people>>

-----------------------------------------------------------------------------
(* The claim, insert on conflict do nothing: the key's first id wins. *)

Won(k, r) == IF claim[k] = Nobody THEN r ELSE claim[k]
AfterClaim(r) == IF r \in Payers /\ prepared THEN "reread" ELSE "lock"

(* Mutant: whoever claims mints its own id. *)
ClaimKeyOwn(r) ==
    LET k == KeyOf[r] IN
    /\ r \notin Linkers
    /\ At(r, "claim") \/ (r \in Callers /\ At(r, "start"))
    /\ claim' = [claim EXCEPT ![k] = Won(k, r)]
    /\ Reserve(r, r, AfterClaim(r))
    /\ UNCHANGED <<fixed, things, row, lock, people>>

ClaimKey(r) ==
    LET k == KeyOf[r] IN
    /\ r \notin Linkers
    /\ At(r, "claim") \/ (r \in Callers /\ At(r, "start"))
    /\ claim' = [claim EXCEPT ![k] = Won(k, r)]
    /\ Reserve(r, Won(k, r), IF Won(k, r) = r THEN AfterClaim(r) ELSE "existing")
    /\ UNCHANGED <<fixed, things, row, lock, people>>

(* Mutant: a lost claim keeps the key, the link moves unchecked. *)
ClaimLinkUnchecked(r) ==
    /\ r \in Linkers /\ At(r, "claim")
    /\ claim' = [claim EXCEPT !["link"] = Won("link", r)]
    /\ link' = IF link = "open" THEN "used" ELSE link
    /\ Reserve(r, Won("link", r),
               IF link = "open" \/ claim["link"] # Nobody THEN "lock" ELSE "refused")
    /\ UNCHANGED <<fixed, draft, sched, due, row, lock, people>>

(* One transaction: the key and open -> used.  Its clock is the request's, *)
(* so a link that falls due meanwhile is still claimed.  A link that left  *)
(* open rolls the key back.                                                *)
ClaimLink(r) ==
    /\ r \in Linkers /\ At(r, "claim")
    /\ \/ /\ claim["link"] # Nobody
          /\ Reserve(r, claim["link"], "lock")
          /\ UNCHANGED <<claim, link>>
       \/ /\ claim["link"] = Nobody /\ link = "open"
          /\ claim' = [claim EXCEPT !["link"] = r]
          /\ link' = "used"
          /\ Reserve(r, r, "lock")
       \/ /\ claim["link"] = Nobody /\ link # "open"
          /\ To(r, "refused")
          /\ UNCHANGED <<claim, link>>
    /\ UNCHANGED <<fixed, draft, sched, due, row, lock, people>>

(* A prior attempt owns the key: replay its outcome, or mint its id. *)
FindExisting(r) ==
    /\ At(r, "existing")
    /\ \/ ~Exists(req[r].id) /\ To(r, AfterClaim(r))
       \/ Exists(req[r].id) /\ r \in Crons /\ To(r, "send")
       \/ Exists(req[r].id) /\ r \notin Crons /\ Told(r, req[r].id)
    /\ UNCHANGED <<fixed, things, ledger, people>>

(* Mutant: the draft peeked before the claim is trusted. *)
RereadDraftNever(r) ==
    /\ At(r, "reread") /\ To(r, "lock")
    /\ UNCHANGED <<fixed, things, ledger, people>>

(* An app may have cancelled the draft since it was peeked. *)
RereadDraft(r) ==
    /\ At(r, "reread")
    /\ IF draft = "live" THEN To(r, "lock")
       ELSE IF Exists(req[r].id) THEN Told(r, req[r].id) ELSE To(r, "refused")
    /\ UNCHANGED <<fixed, things, ledger, people>>

-----------------------------------------------------------------------------
(* The mint: createTransfer and mintUnderSenderLock.  A refusal leaves the *)
(* key bound and unminted.                                                 *)

AfterMint(r, verdict) ==
    CASE r \in Payers -> "consume"
      [] r \in Crons -> "send"
      [] OTHER -> IF verdict = "blocked" THEN "say_blocked" ELSE "say_ok"

(* Mutant: the draft is consumed before the mint, as it once was. *)
RefuseMintConsuming(r) ==
    /\ At(r, "lock")
    /\ To(r, "refused")
    /\ draft' = IF r \in Payers /\ draft = "live" THEN "paid" ELSE draft
    /\ UNCHANGED <<fixed, sched, link, due, ledger, people>>

(* Mutant: a refused run is marked all the same. *)
RefuseMintMarking(r) ==
    /\ At(r, "lock")
    /\ To(r, "refused")
    /\ sched' = [sched EXCEPT !.ran = r \in Crons \/ @]
    /\ UNCHANGED <<fixed, draft, link, due, ledger, people>>

(* Pause switches, FX and KYC, above the lock; and the lock's own timeout *)
(* (the cron's one retry of it is a stutter here).                        *)
RefuseMint(r) ==
    /\ At(r, "lock")
    /\ To(r, "refused")
    /\ UNCHANGED <<fixed, things, ledger, people>>

(* Mutant: the lock is the key's, not the sender's. *)
TakeLockOfKey(r) ==
    /\ At(r, "lock") /\ lock # KeyOf[r]
    /\ lock' = KeyOf[r]
    /\ To(r, "totals")
    /\ UNCHANGED <<fixed, things, claim, row, people>>

(* Mutant: the totals are read above the lock. *)
TakeLockLate(r) ==
    /\ \/ /\ At(r, "lock") /\ lock' = lock
          /\ req' = [req EXCEPT ![r].pc = "totals", ![r].total = Cardinality(Counted)]
       \/ At(r, "totals") /\ lock = Nobody /\ lock' = r /\ To(r, "insert")
    /\ UNCHANGED <<fixed, things, claim, row, people>>

TakeLock(r) ==
    /\ At(r, "lock") /\ lock = Nobody
    /\ lock' = r
    /\ To(r, "totals")
    /\ UNCHANGED <<fixed, things, claim, row, people>>

(* Mutant: the schedule is not checked again inside the transaction. *)
ReadUnderLockUnchecked(r) ==
    /\ At(r, "totals")
    /\ \/ Exists(req[r].id) /\ lock' = Nobody /\ To(r, AfterMint(r, row[req[r].id]))
       \/ /\ ~Exists(req[r].id)
          /\ req' = [req EXCEPT ![r].pc = "insert", ![r].total = Cardinality(Counted)]
          /\ UNCHANGED lock
    /\ UNCHANGED <<fixed, things, claim, row, people>>

(* A same-id replay; a schedule that stopped (its row is then locked FOR   *)
(* SHARE until the commit); the ledger totals.                             *)
ReadUnderLock(r) ==
    /\ At(r, "totals")
    /\ \/ Exists(req[r].id) /\ lock' = Nobody /\ To(r, AfterMint(r, row[req[r].id]))
       \/ /\ ~Exists(req[r].id)
          /\ r \in Crons /\ sched.st # "active"
          /\ lock' = Nobody /\ To(r, "skipped")
       \/ /\ ~Exists(req[r].id)
          /\ r \notin Crons \/ sched.st = "active"
          /\ req' = [req EXCEPT ![r].pc = "insert", ![r].total = Cardinality(Counted)]
          /\ UNCHANGED lock
    /\ UNCHANGED <<fixed, things, claim, row, people>>

(* A blocked party leaves a blocked row, outside the cap; over the cap, a *)
(* stale quote or an ended reward roll back.                              *)
Insert(r) ==
    LET id == req[r].id IN
    /\ At(r, "insert")
    /\ lock' = Nobody
    /\ \/ row' = [row EXCEPT ![id] = "blocked"] /\ To(r, AfterMint(r, "blocked"))
       \/ /\ req[r].total + 1 <= Cap
          /\ row' = [row EXCEPT ![id] = "awaiting"]
          /\ To(r, AfterMint(r, "awaiting"))
       \/ UNCHANGED row /\ To(r, "refused")
    /\ UNCHANGED <<fixed, things, claim, people>>

(* Consume after the mint; a draft someone else took is no matter. *)
ConsumeDraft(r) ==
    /\ At(r, "consume")
    /\ draft' = IF draft = "live" THEN "paid" ELSE draft
    /\ Told(r, req[r].id)
    /\ UNCHANGED <<fixed, sched, link, due, ledger, people>>

(* The cron's pay link; a failed send fails the run. *)
SendLink(r) ==
    /\ At(r, "send")
    /\ \/ To(r, "mark")
       \/ row[req[r].id] = "awaiting" /\ To(r, "refused")
    /\ UNCHANGED <<fixed, things, ledger, people>>

(* Mutant: the run is marked by saving the schedule as it was listed. *)
MarkRunSaving(r) ==
    /\ At(r, "mark")
    /\ sched' = [sched EXCEPT !.ran = TRUE, !.st = "active"]
    /\ Told(r, req[r].id)
    /\ UNCHANGED <<fixed, draft, link, due, ledger, people>>

MarkRun(r) ==
    /\ At(r, "mark")
    /\ sched' = [sched EXCEPT !.ran = TRUE]
    /\ Told(r, req[r].id)
    /\ UNCHANGED <<fixed, draft, link, due, ledger, people>>

Answer(r) ==
    /\ At(r, "say_ok") \/ At(r, "say_blocked")
    /\ To(r, IF At(r, "say_ok") THEN "ok" ELSE "blocked")
    /\ UNCHANGED <<fixed, things, ledger, people>>

(* The process dies; its transaction rolls back. *)
Crash(r) ==
    /\ r \in cast
    /\ req[r].pc \notin Ended \cup {"start"}
    /\ To(r, "crashed")
    /\ lock' = IF lock = r THEN Nobody ELSE lock
    /\ UNCHANGED <<fixed, things, claim, row, people>>

-----------------------------------------------------------------------------
(* The draft's other ways out. *)

unpaid == <<fixed, sched, link, due, ledger, req, desk, acts>>
Cancels(c, pc) == c \in cast /\ cancel[c] = pc
CancelTo(c, pc) == cancel' = [cancel EXCEPT ![c] = pc]

AppSees(c) ==
    /\ c \in Apps /\ prepared /\ Cancels(c, "start")
    /\ CancelTo(c, IF draft = "live" THEN "consume" ELSE "nothing")
    /\ UNCHANGED <<unpaid, draft>>

AppConsumes(c) ==
    /\ Cancels(c, "consume")
    /\ IF draft = "live" THEN draft' = "cancelled" /\ CancelTo(c, "look")
       ELSE CancelTo(c, "nothing") /\ UNCHANGED draft
    /\ UNCHANGED unpaid

(* Consumed, then looked: a payment under way gets its draft back. *)
AppLooks(c) ==
    /\ Cancels(c, "look")
    /\ IF claim["draft"] # Nobody THEN draft' = "live" /\ CancelTo(c, "being_paid")
       ELSE CancelTo(c, "cancelled") /\ UNCHANGED draft
    /\ UNCHANGED unpaid

(* The chat's own drafts: consumed, and no look. *)
ChatCancels(c) ==
    /\ c \in Chats /\ ~prepared /\ Cancels(c, "start")
    /\ IF draft = "live" THEN draft' = "cancelled" /\ CancelTo(c, "cancelled")
       ELSE CancelTo(c, "nothing") /\ UNCHANGED draft
    /\ UNCHANGED unpaid

DraftExpires ==
    /\ cast \cap Payers # {} /\ draft = "live"
    /\ draft' = "expired"
    /\ UNCHANGED <<unpaid, cancel>>

-----------------------------------------------------------------------------
(* Acts on the schedule: read it, decide, write.  A write waits for a mint *)
(* that holds the row FOR SHARE.                                           *)

offDesk == <<fixed, draft, link, due, ledger, req, cancel>>
Shared == \E r \in Crons : At(r, "insert")

From(act) == CASE act = "pause" -> {"active"}
               [] act = "resume" -> {"paused"}
               [] act = "cancel" -> {"active", "paused"}
               [] OTHER -> SchedStatus
Result(act) == CASE act = "pause" -> "paused" [] act = "resume" -> "active"
                 [] OTHER -> "cancelled"

OpenSchedule(d) ==
    /\ d \in cast /\ desk[d].act = "none"
    /\ acts < MaxActs /\ acts' = acts + 1
    /\ \E act \in {"pause", "resume", "cancel", "chat"} :
          /\ sched.st \in From(act)
          /\ desk' = [desk EXCEPT ![d] = [act |-> act, saw |-> sched]]
    /\ UNCHANGED <<offDesk, sched>>

(* setStatusIf, from the states the decision allows (staff) or the one read *)
(* (the portal); a lost race writes nothing.                                *)
SetStatusIf(d) ==
    LET act == desk[d].act IN
    /\ d \in cast /\ act \notin {"none", "chat"} /\ ~Shared
    /\ \/ /\ sched.st \in From(act)
          /\ sched' = [sched EXCEPT !.st = Result(act)]
       \/ sched.st # desk[d].saw.st /\ UNCHANGED sched
    /\ desk' = [desk EXCEPT ![d].act = "none"]
    /\ UNCHANGED <<offDesk, acts>>

(* The chat saves the whole row it read. *)
SaveCancelled(d) ==
    /\ d \in cast /\ desk[d].act = "chat" /\ ~Shared
    /\ sched' = [desk[d].saw EXCEPT !.st = "cancelled"]
    /\ desk' = [desk EXCEPT ![d].act = "none"]
    /\ UNCHANGED <<offDesk, acts>>

(* Deleting the recipient cancels its schedules in one transaction. *)
DeleteRecipient(d) ==
    /\ d \in cast /\ desk[d].act = "none"
    /\ acts < MaxActs /\ acts' = acts + 1
    /\ sched.st # "cancelled" /\ ~Shared
    /\ sched' = [sched EXCEPT !.st = "cancelled"]
    /\ UNCHANGED <<offDesk, desk>>

-----------------------------------------------------------------------------
(* The payment link. *)

offLink == <<fixed, draft, sched, ledger, req, people>>

FallsDue ==
    /\ cast \cap Linkers # {} /\ ~due
    /\ due' = TRUE
    /\ UNCHANGED <<offLink, link>>

CancelLink ==
    /\ cast \cap Linkers # {} /\ link = "open"
    /\ link' = "cancelled"
    /\ UNCHANGED <<offLink, due>>

ExpireDue ==
    /\ link = "open" /\ due
    /\ link' = "expired"
    /\ UNCHANGED <<offLink, due>>

-----------------------------------------------------------------------------
Request(r) ==
    \/ PeekDraft(r) \/ FindMinted(r)
    \/ ListSchedule(r) \/ CurrentSchedule(r)
    \/ ResolveLink(r) \/ ResumeLink(r) \/ Gates(r)
    \/ ClaimKey(r) \/ ClaimLink(r) \/ FindExisting(r) \/ RereadDraft(r)
    \/ RefuseMint(r) \/ TakeLock(r) \/ ReadUnderLock(r) \/ Insert(r)
    \/ ConsumeDraft(r) \/ SendLink(r) \/ MarkRun(r) \/ Answer(r) \/ Crash(r)

CancelDraft(c) == AppSees(c) \/ AppConsumes(c) \/ AppLooks(c) \/ ChatCancels(c)

ActOnSchedule(d) == OpenSchedule(d) \/ SetStatusIf(d) \/ SaveCancelled(d) \/ DeleteRecipient(d)

Next ==
    \/ \E r \in Requests : Request(r)
    \/ \E c \in Apps \cup Chats : CancelDraft(c)
    \/ \E d \in Desks : ActOnSchedule(d)
    \/ DraftExpires \/ FallsDue \/ CancelLink \/ ExpireDue

Spec == Init /\ [][Next]_vars

-----------------------------------------------------------------------------
(* Properties. *)

(* A request and its crashed, racing and late replays converge: a key      *)
(* becomes one transfer, and nobody is told of another (MintOnce).         *)
BecameOf(k) == {i \in Requests : KeyOf[i] = k /\ row[i] # "none"}
NamedTo(r) == IF req[r].pc \in Answered THEN req[r].id ELSE Nobody

Promise == INSTANCE MintOnce WITH
    Ids <- Requests,
    minted <- [k \in {KeyOf[i] : i \in Requests} |-> BecameOf(k)],
    named <- [r \in Requests |-> NamedTo(r)]

KeepsPromise == Promise!Spec

(* Mints of one sender on every path together never pass the cap: the      *)
(* totals they decide on cannot go stale before they insert.               *)
CapHolds == Cardinality(Counted) <= Cap

(* A transfer the app was told is cancelled is never minted, however its   *)
(* payment was under way.                                                  *)
CancelHolds ==
    (\E c \in Apps : cancel[c] = "cancelled") => BecameOf("draft") = {}

(* A payment takes the customer's link away only once it stands for a      *)
(* transfer, so that trying again finds it.                                *)
LostDraftIsMinted == draft = "paid" => Exists(claim["draft"])

(* A link is used exactly when its key is bound: a link cancelled or       *)
(* expired first is never paid, one claimed first is never cancelled.      *)
LinkFollowsClaim ==
    /\ link = "used" <=> claim["link"] # Nobody
    /\ link \in {"cancelled", "expired"} => BecameOf("link") = {}

(* The run's mark and a chat's late whole-row save never revive a          *)
(* cancelled schedule.                                                     *)
CancelledStaysCancelled ==
    [][sched.st = "cancelled" => sched'.st = "cancelled"]_vars

(* A schedule that was paused or cancelled after the run listed it mints   *)
(* nothing more, and one past its end date never does.                     *)
StoppedNeverMints ==
    [][\A i \in Crons : row[i] = "none" /\ row'[i] # "none"
          => sched.st = "active" /\ ~sched.over]_vars

(* A day marked as run has its transfer: a failed or crashed mint leaves   *)
(* the day to the catch-up run.                                            *)
RunMeansMinted == sched.ran => Exists(claim["sched"])
=============================================================================
