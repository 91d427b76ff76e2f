# SmartRemit: the money path in TLA+

SmartRemit takes a customer's money over WhatsApp, a pay page, a partner API or
a business invoice, screens it, charges it, tells a payout rail to deliver it
and returns it when that fails.  It runs as short serverless invocations over
one Postgres database.  Nothing is locked between two SQL statements, an
invocation can be killed between any two of them, and every effect on the
outside world goes through a durable outbox that several invocations drain at
once; what Postgres does not hold (drafts, locks, marks) is in Redis, outside
every transaction.  What can go wrong is therefore mostly a matter of *order*, and that is
what these modules are about.

- [The system](#the-system)
- [The modules](#the-modules)
- [The runs](#the-runs)
- [Fairness](#fairness)
- [What is proved](#what-is-proved)
- [Where the code and its comments disagree](#where-the-code-and-its-comments-disagree)
- [What is not modelled](#what-is-not-modelled)
- [Plan](#plan)

Paths below are relative to `src/src/`.

## The system

| Component | State it keeps | Operations | What makes it hard | What makes it correct |
|---|---|---|---|---|
| **payment** — `lib/pay-process.ts`, `pay-rescreen.ts`, `settlement.ts`, `stripe-funded-settle.ts`, `stripe-funding-webhook.ts`, `app/api/pay`, `app/api/funding-webhook`, `confirmTransaction` in `partner-api-service.ts` | one `transfers` row: status, verdict, charge, intent, debit, refund | re-screen, capture, bind an intent, settle or hold, confirm (partner API), resume (sweep), void, release, reject | two taps on one link; a request acts on the row it *read*; a kill between capture, record and settle; provider events in any order; the partner confirms a row whose customer is just paying | nobody is told of money that was neither taken nor vouched for by its partner; nothing unscreened reaches the rail; a live debit is never voided; every charge is settled, held or reported |
| **payout** — the money handlers of `lib/outbox-worker.ts`, `rail-failure.ts`, `sender-cancel.ts`, `receipt-cores.ts`, `dashboard-ops.ts`, `reconcile.ts`, `partner-webhook-replay.ts`, `app/api/payment-webhook` | the row, its rail and refund rows in the outbox, alert keys | instruct, settle on the mock rail, refund, rail callbacks, sender cancel, refund decisions, retry, dismiss, replay, re-instruct | a cancel between a worker's read and its POST; lost answers; callbacks in any order; dead letters revived hours later | a confirmed cancel is final; the first instruction goes out on a live row; ledger and outbox agree about a return; no two instructions in flight |
| **outbox-worker** — `db/repos/outbox-repo.ts`, `drainOnce` in `lib/outbox-worker.ts`, `app/api/worker`, `admin-dashboard/ops` | outbox rows: status, attempts, lease, next attempt | enqueue, claim a batch, run, done, fail, defer, hand back, dead-letter, retry, dismiss | overlapping invocations kept apart by time only; a handler past its deadline goes on as a ghost | a lease is never stolen from a living worker; no row runs beside itself; a row that kills its worker dies at its ceiling; done is final; every row ends |
| **agent-turns** — `lib/whatsapp-inbound.ts`, `agent.ts`, `store.ts`, the `agent.turn` and reply handlers of `lib/outbox-worker.ts` | inbound marks and the turn lock (Redis), turn and reply rows, the stored conversation | queue a message, gate, lock, think, reply, defer, fall back, retry | Meta redelivers; two workers on one phone; a lock that expires; a turn past its deadline goes on; cards go out inline, texts through a row | what was acknowledged has one row or was dropped on purpose; a row is answered or known dead; one turn at a time; no save loses another's; answers in order |
| **draft-mint** — `lib/pay-finalize.ts`, `draft-store.ts`, `transfer-create.ts`, `payment-link-finalize.ts`, `b2b-pay-finalize.ts`, `mcp/prepare.ts` | idempotency keys, drafts (Redis), payment links, the sender's lock | claim a key, mint under the lock, consume the draft, cancel, expire | two taps, a kill after the claim, a cancel during a payment, paths of one sender racing for the cap | a key becomes one transfer; a confirmed cancel mints nothing; the cap holds; a draft is not lost |
| **schedules** — `lib/schedule.ts`, `cron-run.ts`, `schedule-control.ts`, `portal-schedules.ts`, `db/repos/schedule-repo.ts` | a schedule's status and last run | list, claim the day, mint, send the link, mark; pause, resume, cancel | two crons; a pause between the read and the mint; whole-row saves beside column writes | a stopped schedule mints nothing; a cancelled one stays so; a day marked has its transfer |
| **limits-fx** — `lib/send-limits.ts`, `rate.ts`, `fx.ts` | the ledger's totals, rates | check under the sender's lock | a total read too early | limits hold under concurrent sends (in Mint) |
| **compliance-kyc** — `lib/compliance.ts`, `kyc-*.ts`, `aml-sweep.ts`, `sanctions/` | verdicts, KYC cases | screen, decide a case | late provider webhooks | a decided case is not re-opened by an old event |
| **partner-api** — `lib/partner-api-service.ts` | none of its own: keys, transfers | create, confirm, list | a replayed create; a confirm beside a payment | its create is a path of Mint, its confirm an action of Payment; the rest is I/O |
| **partner-reports**, **auth-sessions**, **rewards-referrals**, **pages**, **db-layer** | — | — | mostly I/O over the components above | — |

How they interact.  Payment and payout share the `transfers` row and talk to
each other only through it and through outbox rows written *in the same
transaction* as the status change they follow from (`stage1:<id>`,
`instruct:<id>`, `mocksettle:<id>`, `refund:<id>`).  A deduplication key makes a
second enqueue a silent no-op, which is a protection and, in one place below, a
trap.  Minting ends where Payment begins, at an `awaiting_payment` or `blocked` row;
turns, minting and the outbox meet in the worker, which drains one table for all
of them.  The rail and the funding provider are external: they answer a request and
call back later, at any time and in any order.

`PROJECT.json` lists the hazards of this code one by one, each at its line with
the properties that would catch it, or with the reason why none does.

## The modules

    MintOnce      TransferLifecycle           RowPromise      what is promised
       ^             ^          ^              ^      ^
      Mint ------> Payment --> Payout ---------'    Outbox    AgentTurns
                      \        /     \               /        /
                      Handover        \             /        /
                         |             \           /        /
                       Ledger            OutboxRow --------'  guarded UPDATEs

    ^ is implemented by      --> hands its row over to      others: EXTENDS

**Ledger** is `db/repos/transfer-repo.ts`.  Every write there is one statement
with a WHERE clause; here it is a pair, `MayMarkPaid(t)` and
`WithStatus(t, "paid")`, used together in one step, as Postgres does.  Of some
sixty columns a row keeps the eight some guard reads.

**OutboxRow** is the same for `db/repos/outbox-repo.ts`.

**TransferLifecycle** is the abstract specification: two variables and the five
moves a transfer may make.  It is not a restatement of the guards.  The guards
are spread over a dozen UPDATEs and callers that forget some of them on purpose
(the release claim looks at no refund column, the staff refund flip at no
status); that the sum of them never un-delivers, un-cancels or refunds backwards
is what the refinement says.

**RowPromise** is the abstract specification of the outbox as a handler sees it:
one row, one life from enqueue to done or dead, in one pair of hands at a time.
Two modules implement it.  Outbox does so with nothing but clocks, batches and
leases; Payout does so by construction of its worker loop.  What Payout assumes of
the outbox is therefore what Outbox provides.

**Handover** is the line between Payment and Payout: the rows, with their
effects, that may leave `awaiting_payment` alive (`Handed`: who was charged, crossed
with how the row left), and the writes of the payment side that may still come
afterwards (`Trails`: a capture recorded late, a dispute).  Every pair can happen.
A row that nobody was charged for (`none`) is one a rail's callback moved, or
one the partner settled or held through its API: `confirmTransaction` takes no
money and writes no `fundingRef`, and neither claim asks for one (`rail-failure.ts`
and `sender-cancel.ts` expect such rows).  Payment is shown to
respect Handover (`HandsOver`); Payout's `Init` ranges over all of `HandedRow`,
and the late writes are among its actions.

**Payment**: from the pay page to the rail.

| Code | Action |
|---|---|
| `POST /api/pay`, `refuseUnlessAwaiting` | `Open` |
| `rescreenBeforePay` | `Screen` |
| `captureFunding`: capture, then `setFundingRef` | `Capture`, `RecordCharge` |
| `fundTransfer` (async): create intent, then `bindFundingIntent` | `CreateIntent`, `Bind` |
| `confirmTransaction` (partner API) | `Confirm`, then the settle actions |
| `settleOrHold`, `beginSettlement`, `beginHold` | `BeginSettlement`, `SettlementRefused`, `SettleBlocked`, `BeginHold` |
| `processStripeFundingEvent` | `HandleSucceeded`, `HandleFailed`, `HandleDispute` |
| `settleFundedTransfer` | `FundedRescreen`, then the settle actions, then `EnqueueAlert` |
| `reconcileSweep` | `SweepResume`, `SweepAlerts` |
| staff cancel, expiry | `VoidUnfunded` |
| `releaseHold`, `rejectTransfer` | `Release`, `Reject` |
| payment webhook on an unpaid row | `RailCallback` |
| the platform's kill | `Crash` |

A pay request, a confirm, the sweep and the webhook are processes with a program counter
and a copy of the row as they read it (`proc[p].compliance`, `.fundingState`);
only the guards of Ledger see the row as it is.  A transaction is one action; two
statements outside a transaction are two.  `psp` is what the provider holds, so
that "money was taken" can be compared with what the ledger says.  `vouched` is a
history variable: a staff release, and a claim won by the partner's confirm, move the
row on somebody's word, and the properties say whose.

**Payout**: after the charge.  A worker's run is `Claim`, a read, the call
outside, the write and `Finish`, each a step of its own; `HandBack` and `Crash`
may come instead.  `InstructRead`, `InstructGate`, `InstructPost` and
`InstructAck` are `settlement.instruct`; `MockRead` and `MockSettle` are
`mock.settle`; `RefundRead`, `RefundAsk` and `RefundComplete` are
`funding.refund`.  The sender's, staff's, partner's, sweep's and rail's
operations have an action each, named after the function (`SenderCancel` and
`SenderEscalate` are the two ends of `cancelWithinWindow`, `StaffReject` is
`rejectTransfer`, and so on).  `told` and `reversed` are what the rail and the
funding provider have heard.

Points where Payout condenses the code:

- A worker claims one row at a time, and a processing row changes hands only
  when nobody runs it.  Both this loop and the real one are proved to implement
  RowPromise (`PayoutKeepsRowPromise`, `OutboxKeepsRowPromise`).  The exception
  RowPromise leaves open, a revived row beside what its former run still does,
  is not in Payout.
- The capture that `setFundingRef` records after the row has moved is
  `LateCharge`: the request's own write or the provider's captured notice.
- `Finish` closes the 30-minute cancel window when an *instruction* dies:
  its retries take about a day of backoff, so the window is shut by then.  A mock
  settlement dies within minutes and does not close it.
- `requestRefundFor` reads, waits for a step-up sign-in, and writes under a
  guard on the refund column alone.  Its write is an action that is enabled
  for good once the row was ever paid (`OncePaid`).
- `reverseB2bSettlement` reads, updates and enqueues in one transaction whose
  fresh-key check rolls back; its effect is that of `IssueRefund`.

**Outbox**: the clocks.  `wait[r]` is the time until a claim may take the row
(its backoff, or its lease), `inv[w].left` the time until the platform kills the
invocation, `inv[w].age` how long the current run has lasted; `Tick` moves all of
them together.  `FirstBatch`/`NextBatch` are the loop of the worker route,
`BuryPoison`, `HandBackRest`, `HandBackOne`, `Start` and the outcomes are
`drainOnce`, `Deadline` is `withRowDeadline` giving up (the run goes on as a ghost
until `GhostEnds` or the invocation's end).  `OpsRetry` and `OpsDismiss` are the
two buttons of the ops page; Dismiss may come from an old page.

**AgentTurns**: one customer's WhatsApp conversation, from the webhook to the
answer.

| Code | Action |
|---|---|
| `processInboundWebhook`, `processMessage` | `FastSkip`, `InsertTurn`, `MarkQueued`; `HookFails` (an infrastructure error or a kill: no 200) |
| `recordDropped`, a throttled message: 200 and no row | `HookDrops` |
| `claimBatch`, `drainOnce` on a turn row | `ClaimTurn`, `Return` |
| `agentTurnGate` | `Gate`; its wait bound passes in `BoundPasses` |
| `tryTurnLock`; Redis away | `TryLock`; `RunUnlocked` |
| `TurnBusyError`; past the bound, the fallback line | `DeferUncharged` in `GiveWay`; `Fallback` |
| `runAgentTurn`: read, think, save, card or text | `TryLock` reads the history, `Think` saves it |
| `signal.abandoned`, then the reply row | `CheckAbandoned`, `CommitReply` |
| `finally`, `releaseTurnLock` | `Finish`, `Throw` |
| `withRowDeadline` | `Deadline`; the handler goes on as a ghost |
| `whatsapp.text` rows | `SendReply` |
| the lock's 90 seconds, the mark's expiry, the platform's kill, staff's Retry | `LockExpires`, `MarkExpires`, `Crash`, `OpsRetry` |

The conversation is kept as the set of messages it answers, so that "last writer
wins" can be seen to lose something.  Points where AgentTurns condenses the code:
a row is claimed alone and a processing row only when its owner is dead (Outbox);
row ids are given when the insert commits; `LockRunsOut` is the arithmetic of 90
seconds against an invocation's 60; reading the history and taking the lock are
one step; the compare-and-delete of the lock is one step (in the code a GET and a
DEL: the two can be parted only by an expiry).  That AgentTurns implements
RowPromise is not stated: its `ClaimTurn` claims and buries, and its `SendReply`
claims and finishes, in one step each, which RowPromise keeps apart.

**MintOnce** is the promise every mint path makes: a key becomes at most one
transfer, for good, and a caller is told of that one.  **Mint** is how seven
files keep it.

| Path | Before the claim | Claim | Mint | After |
|---|---|---|---|---|
| draft (`pay-finalize.ts`) | `PeekDraft`, `FindMinted`, `Gates` | `ClaimKey`, `FindExisting`, `RereadDraft` | `RefuseMint`, `TakeLock`, `ReadUnderLock`, `Insert` | `ConsumeDraft` |
| schedule (`cron-run.ts`) | `ListSchedule`, `CurrentSchedule` | `ClaimKey`, `FindExisting` | the same, with `scheduleMintCheck` in `ReadUnderLock` | `SendLink`, `MarkRun` |
| payment link (`payment-link-finalize.ts`) | `ResolveLink`, `ResumeLink`, `Gates` | `ClaimLink` | the same | `Answer` |
| API, bill (`partner-api-service.ts`, `b2b-pay-finalize.ts`) | — | `ClaimKey`, `FindExisting` | the same | `Answer` |

`Crash` may end a request at any step; its transaction rolls back.  The others are
whoever takes the thing away meanwhile: `AppSees`, `AppConsumes`, `AppLooks` (an AI
app's cancel of a transfer it prepared), `ChatCancels` (the agent's cancel of its
own draft), `DraftExpires`; `OpenSchedule` then `SetStatusIf` (staff, portal) or
`SaveCancelled` (the chat's whole-row save), `DeleteRecipient`; `FallsDue`,
`CancelLink`, `ExpireDue`.  The id a request generates is the request itself; the
cap counts transfers; a transfer's later life, and a cancel of a minted row, is
Payment's.

**MCPayment**, **MCPayout**, **MCOutbox**, **MCAgentTurns**, **MCMint** hold what TLC
needs: symmetry sets, and for Payout a view.  **LedgerProofs**, **PaymentProofs**,
**OutboxRowProofs**, **OutboxProofs**, **PayoutProofs**, **AgentTurnsProofs**,
**MintProofs**, **MintStopProofs** hold the theorems.

Definitions whose comment begins with *Mutant* belong to no specification.  Each
is a plausible bug of the definition below it; put in its place, it breaks the
property that `PROJECT.json` pairs it with, in that property's own run.  They
show that the properties speak about the code.

## The runs

| Run | Instance | Shows |
|---|---|---|
| `payment_card` | 3 pay requests, 1 API confirm, card or partner-pulled, http rail | the message follows the charge, the rail only hears of allowed rows, charges are resolved, cancelled charges reported |
| `payment_stripe` | 1 pay request, 1 API confirm, async debit, mock rail | the same under debits that fail, are retried and are disputed; no void of a live debit; the lifecycle; what is handed to Payout |
| `payout_cancel` | 2 workers, every way a row is handed over, dead-letter buttons | a sender's cancel is final; nothing is first instructed after a cancel; the lifecycle |
| `payout_refund` | 1 worker, 1 callback, 1 retry key | ledger, outbox and the world outside agree on return and payout; one live instruction |
| `payout_live` | 1 worker, card, dead-letter buttons, fair | a return that was started ends, or its rows have stopped and staff know |
| `outbox` | 2 rows (one of a terminal kind), 2 invocations, clocks 4 < 5 | leases, runners, charged attempts; every row lives as RowPromise allows |
| `outbox_live` | the same with one attempt and a longer row deadline (3 of 4), fair | every row ends |
| `turns` | 2 messages of one phone, 2 workers, 2 attempts, Redis failing, 1 fault | turns run one at a time, no save drops another's, answers in order |
| `turns_live` | 2 messages posted twice, 1 webhook request at a time, 1 worker, 1 fault, fair | one row for what was acknowledged and not dropped, no mark without a row; every row is answered or dead |
| `mint` | five casts of two or three paths and those who cancel them, 3 acts on the schedule, cap 1 | a key becomes one transfer; cancels and stops hold; the cap holds; drafts and days are not lost |
| `payment_silent_block`, `payout_held_reject` | smallest instances | the two disagreements below |

The passing runs have between some 39,000 (`outbox_live`) and 1.9 million states
(`turns`).

Bounds, and why they are enough:

- *Processes.*  Two requests race for the claim while a third holds a stale
  copy; with a confirm, the sweep, the webhook, staff and the rail that is up to six
  kinds of actor on one row.  On an async debit one pay request is enough: it
  ends at the bind and leaves the settlement to the webhook and the sweep, and
  the confirm plays the other tab that overtakes it.  (The theorems hold for any
  number of both.)  Only two workers can meet on one row: a third would wait for the
  same lease.
- *One transfer.*  No guard of the money path reads another transfer, and the
  outbox keys are per transfer.  Competition of rows for a batch is Outbox's.
- *`Ceiling`* is 56 or 8 attempts in the code.  1 makes every failure deadly, so
  dead letters are reached at once; 2 (the cancel and outbox runs) lets a row fail,
  wait and be claimed again first.
- *`Retries`*: keys `refund:<id>:retry:<ms>` that may be minted; one is enough for
  a failed return to be carried out by a second row.
- *`Casts`* (Mint): who acts in one behaviour.  Two requests of one path meet with
  everyone who can cancel their thing; across paths only the sender's lock and the
  totals are shared, and for these two or three paths with one request each, and a
  cap of one, are a race that somebody must lose.  `MaxActs` 3 is a pause, a
  resume and a late save.
- *`MaxFaults`* (AgentTurns): kills, turns that run without a lock, and staff
  retries.  One of them at any point, beside deadlines and failures, which are
  not counted; `Ceiling` 2 lets a killed turn run again.
- *`MaxPosts`*, *`Early`*: in `turns` both rows exist at the start, in either
  order; in `turns_live` one exists and Meta posts twice, either message.
- *A revived turn is not claimed by the invocation its ghost is in* (AgentTurns):
  such a row would have two handlers under one program counter.  Another
  invocation may claim it.
- *`Watched`*: the alert keys a run records.  No guard reads an alert, so the
  others would only multiply states.
- *Clocks.*  In the code an invocation is killed at 60 s, no row starts after
  30 s, a row's deadline is 40 s, and the lease is 5 minutes.
  What matters is their order, which the instances keep (`RowDeadline` 2 <=
  `MaxDuration` 4 < `Lease` 5), at the tightest value of the last relation; one
  `Backoff` stands for every backoff and deferral.  With `RowDeadline` 2 an
  invocation outlives its abandoned run, so ghosts meet later claims; with 3
  (`outbox_live`) a turn may no longer fit where a money row still starts, so
  single rows are handed back.  The proof is for all values.
- *`Ops`*: the dead-letter buttons are off where a property is known to need it:
  ops' Retry is unscoped, so it can put a revived instruction beside a
  re-instruction (`OneLiveInstruction`) and Dismiss can discard a pending return's
  effect (`PendingRefundHasEffect`).  Both are deliberate powers of staff.
- *`Fundings`*, *`Ways`* (Payout): which of Handover's rows an instance starts
  from.  `payout_cancel` has all of them; `payout_refund` all but those that came
  held, for the reason given below; `payout_live` a card charge settled at once.
- *Nobody is killed over a row already past its ceiling* (Outbox `MayDie`, Payout
  `Crash`): burying it is one short statement, and without the bound attempts
  grow for ever.
- *`View`* (Payout) forgets what no step can read again: the claim evidence of a
  refund row or of any row once the window closed, the attempts of a done or dead
  row (Retry resets them), the lease of a row whose owner is gone.
- *Symmetry* permutes workers, callbacks and pay requests, in runs without
  liveness properties only.

Deadlock is not checked: a transfer that reached its end, with every row done,
really stops.

## Fairness

`Spec` has none; safety is checked without it.  `FairSpec` adds what the cron
gives and nothing else.  `lib/worker-cadence.ts` and `lib/worker-gate.ts` skip
invocations only when nothing is due; a full run comes within minutes of due work
and at :17 and :47 of every hour in any case.

- Payment: the sweep reads (weak), and a pass may be killed but not every pass at
  the same step (strong, on the sweep's own steps).  Nobody is obliged to pay,
  confirm, release, reject or call back.
- Payout: the sweep alerts (weak), a running worker takes its next step (weak);
  refund rows are claimed, started and finished again and again unless each
  attempt is cut short, which they are not every time (strong).
- Outbox: time passes (weak), an invocation tidies up what it may not start
  (weak); some invocation gets its whole budget, and a row that may be started
  again and again is started and ends (strong).  A deferred row is not deferred
  for ever: a turn's wait is bounded and a pause is lifted.
- AgentTurns: a handler that runs goes on, replies are sent, the lock runs out and
  the wait bound passes (weak); a turn that may be claimed again and again is
  claimed (strong: between two claims it is deferred or waits for its lease).

## What is proved

TLC checks an instance; the theorems hold for every value of the constants under
the `ASSUME`s of the modules, which TLC evaluates in each run.

The theorems compose along the modules: Mint implements MintOnce; Payment and
Payout each implement TransferLifecycle, and Payment hands over only rows
that Payout starts from; Payout's rows live by RowPromise, which Outbox keeps.

**PaymentProofs**, for any sets of pay requests and confirms, either provider, either rail:
`TypeOK`, `StageOneAfterCharge`, `RailOnlyWhenAllowed`, `IntentNeverVoided`,
`FundingGateHolds`, that Payment implements TransferLifecycle, and `HandsOver`.

None of the invariants is inductive alone.  `StageOneAfterCharge` speaks of a
key that exists; what makes it true is that a process *on its way* to settle, the
partner's confirms excepted, has already recorded the charge (or found it
recorded), for each of the program counters it can be at (`SettlersAreCharged`),
and that what the ledger says of a charge is backed by the provider.  A confirm may
come to the same claim with nothing charged; when it is the one that wins, `vouched`
says so, and a confirm that loses excuses no one.  `IInv` carries those facts: they are grouped by charge (`ChargeStep`),
intent (`IntentStep`) and settler (`SettlerStep`), each group has a lemma, and
`SafetyStep` puts them together.  `LedgerProofs` has what every module needs of the
guarded updates: that they stay in the type, what `MayAdvance` may start from,
that no update un-records a charge, which columns a handed row is made of.

`HandsOver` compares the whole row with what Payout takes for granted, so its
invariant `HInv` has to know of an awaiting row everything that the claim does not
look at: nothing has been announced, sent or refunded (`Untouched`); who is debited
by a partner carries no charge and no intent, nor is anybody about to add one
(`PartnerPulls`); an intent's row moves on only with the debit decided
(`DebitIsDecided`); and a request that read a verdict other than "cleared", or
goes on to the hold, is backed by a ledger that still says so (`VerdictStands`:
without it a cleared row might be handed over as held).  The second half of the
theorem is about late writers: once the row has left, no request, notice or sweep
of the payment side does more to it than `Trails` says, until its status moves.

**OutboxProofs**, for any rows, batch size, number of invocations and clocks with
`RowDeadline <= MaxDuration < Lease`: `TypeOK`, `LeaseIsHeld`, `OneRunner`,
`RunsAreCharged`, that a done row stays done, and that Outbox implements RowPromise
row by row.

That nobody else claims a held row has to come from time alone.  `IInv` carries
two races: while an invocation holds a row, the row's lease outlasts what is left of
the invocation (`LeaseOutlivesHolder`), and while a ghost may still be running a row,
that row is dead, done or parked for longer than the ghost's invocation lasts
(`GhostsAreParked`).  `Tick` moves both sides of each race by one, which is why
they are kept; `TakeBatch` and `Deadline` establish them because `Lease` is
strictly larger than `MaxDuration`.  `DoneIsUnleased` is what stops a late outcome.
`RunsAreCharged` needs more: a row waiting in a batch has been charged for a run it
has not had (`ChargedRow`), and nobody else holds it (`HeldOnce`), so that what a
hand-back refunds is never a run.  In the refinement the holders of a row are the
invocations that hold it and, unless staff revived it, those it haunts: each outcome
is shown to be written by the row's one holder, and each claim to find none, which
is where the two races are used again.

**MintProofs** and **MintStopProofs**, for any number of requests, cancels and
acts, and any cap: every property of the run `mint`, among them that Mint
implements MintOnce.  `IInv` says that the books agree: a request past its claim
carries an id its key is bound to (`Book`), a row exists only for a bound key, and
whoever is between totals and insert holds the sender's lock.  Without the last part two
requests of one key could both find no row.  MintStopProofs adds one invariant per
promise: the total a lock holder read is still at least the ledger's (`CapInv`);
once an app is told "cancelled" the draft stays gone, no transfer exists and no
payment is past its re-read (`CInv`); a run that reached its insert holds a schedule
that is active and not over (`SInv`); even the copy of the schedule a desk has yet
to save is marked only with a transfer (`RInv`).

**PayoutProofs**, for any number of workers, callbacks and retry keys, any ceiling
and any of Handover's rows: `TypeOK`, `SenderCancelIsFinal`, `FirstToldWhileLive`,
`RefundKeyFollowsLedger`, `LedgerIsTruthful`, and that Payout implements
TransferLifecycle and, for each outbox row, RowPromise.
`PendingRefundHasEffect` is proved for instances without the dismiss button and
without rows that came held, `OneLiveInstruction` for instances without ops' Retry: the two
powers of staff named under the bounds, now visible as the theorems' assumptions.
A row's lease names the one worker that runs it (`Owned`), and what a worker at each
program counter has read still holds (`Desk`, `Errands`).  For the cancel: an
instruction that was sent left a mark in its row while the window was open
(`SentIsMarked`), so a cancel that found only never-claimed rows leaves no row that
can be taken and no worker past its read (`Halted`).  For the return: its row, or the
worker running it, still carries it (`Carries`).  For the truth of the ledger
(`Truth`): a worker about to complete a return has asked for it, one about to record
an acknowledgement and every callback under way was preceded by the instruction, and
a return's key exists only for a decided return, so that a refund that left "none"
for good cannot be asked for and then forgotten (`DecidedStays`).

**AgentTurnsProofs**, for any messages, webhook requests and workers, any ceiling and
any number of faults: `TypeOK`, `InboundExactlyOnce`, `TurnsAlone`, `HistoryKept`,
`RepliesInOrder`.  `InboundExactlyOnce` is what the docstring of
`processInboundWebhook` promises: 200 only for a message that has its row, one row,
or was deliberately dropped; and a mark, which makes every later post a fast skip,
never stands for a drop.  `Locked` says who may hold the lock; `TurnsAlone` follows since a
turn at work holds it or is one that Redis let run bare.  The order of the answers
needs no lock at all: until a message's row has been dead, whoever runs its turn owns
the row (`Attended`), hence a turn that came to its end stays ended (`Settled`); the
gate lets a turn pass only when everything older is settled, and that stays so for its
run, its reply row and its answer (`Cleared`).  `NobodyIsForgotten` is the safe half of
`EveryMessageIsAnswered`: a message that got its row is never left without an answer and without a row
that will still be run.  Whoever ends a turn has first sent a card or queued a reply,
and a reply row is done only when it was sent (`Kept`); a turn that saw itself
abandoned and so sent nothing has, by `Attended`, a dead row that staff see.
No run lists it, since `turns_live` checks the stronger property.

**OutboxRowProofs** and **LedgerProofs** are shared: what the guarded updates of a row
return.  OutboxProofs keeps its own version, over rows without a foreign owner.

Only model-checked: liveness (`PendingRefundIsDecided`, `ChargedRowIsResolved`,
`CancelledChargeIsReported`, `EveryRowSettles`, `EveryMessageIsAnswered`), and the two
refutations below.  Every safety invariant, action property and refinement that a
passing run checks is a theorem.  Liveness and fairness are out of the proof system's reach
and stay so.

## Where the code and its comments disagree

1. **A blocked debit can stay silent** (`payment_silent_block`).
   `settleFundedTransfer` commits the verdict and enqueues its alert in separate
   statements.  After a kill in between, the event is spent and
   `listAwaitingWithFunding` leaves the row out because it "already raised its
   fundblocked alert" (`db/repos/transfer-repo.ts:717`).
2. **Rejecting a hold can start a refund that nothing carries out**
   (`payout_held_reject`).  A held transfer can have an approved and failed return;
   `rejectTransfer` then flips failed to pending and enqueues on the spent key,
   looking at neither result.  `lib/dashboard-ops.ts:417` calls that state one "no
   sweep would heal".  (The refundstuck alert does report it after an hour.)

Four smaller ones were met on the way; no run is kept for them.  A capture in
flight can charge a row that another request's re-screen has blocked
(`lib/reconcile.ts:187` says it should not exist).  A refused paid_out is silent
when the refund request is dismissed between the refusal and the alert's re-read
(`app/api/payment-webhook/[provider]/route.ts:182`).  Dismiss from an old page
marks a revived, claimed row done while it runs
(`admin-dashboard/ops/actions.ts:45`).  The chat's cancel of its own draft does
not look for a payment in flight, unlike an app's (`lib/tools.ts:4724`).

## What is not modelled

- Components listed as such above and in `PROJECT.json`.
- Amounts, currencies and live/test mode: a Stripe success that does not match is
  claimed and alerted, never settled, and is left out.  Sandbox transfers move no
  money and are left out.  Ages are abstracted: a row is old enough whenever the
  sweep looks; only the 30-minute window is kept.
- Staff edits of the payout destination, the stale-review list and the
  stale-lock alert, retention of old outbox rows.
- `settlement.paused` is a nondeterministic deferral.
- In Outbox an invocation that has nothing left is not ended early: it idles
  until its limit, so its ghosts live as long as they possibly can.
- In AgentTurns: consent replies, the opted-out reminder and the throttle's own note
  (rows that are texts, not turns; a message so handled has no turn and is not looked
  at), media and voice notes, a history that cannot
  be saved, and everything the tools of a turn do.  A post carries one message.  A
  dropped message, which has neither row nor answer by design, is modelled
  (`HookDrops`): `EveryMessageIsAnswered` speaks of messages that have a row.
- `ChargedRowIsResolved` counts an async debit whose row a re-screen blocked as
  resolved, as the sweep does; that its alert may be missing is
  `BlockedDebitIsReported`, the first disagreement above.
- In Mint: `ReadUnderLock` does not refuse a scheduled mint for a recipient that was
  deleted meanwhile (`DeleteRecipient` cancels the schedules it finds), so the model
  lets through more than the code; an id that another tenant or environment owns, the legacy mint kept
  for tests, and more than one day of a schedule; a portal send's form steps end in a
  draft, where Mint starts.
- `claimReplies` and the ordering of report rows inside a batch.

## Plan

In order of importance; what exists is marked.

1. Ledger, OutboxRow, TransferLifecycle, Payment, Payout, Outbox — *done*.
2. PaymentProofs, OutboxProofs — *done*.
3. AgentTurns — *done*.
4. MintOnce, Mint with schedules, links and the API, MintProofs, MintStopProofs —
   *done*.
5. `RunsAreCharged` in OutboxProofs — *done*.
6. PayoutProofs: the safety invariants and the refinement — *done*.
7. AgentTurnsProofs: one turn at a time, answers in order — *done*.
8. Composition: Handover between Payment and Payout, RowPromise between Outbox and
   Payout, with their theorems; `LedgerIsTruthful` — *done*.
9. The safe half of the liveness properties: `NobodyIsForgotten` — *done*; the same
   for an outbox row (a live row can be claimed once time passes) and for a charged
   transfer (it is settled, held, refused or the sweep's to resume).
10. The KYC case machine, one-time codes, rewards.
