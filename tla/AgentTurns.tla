----------------------------- MODULE AgentTurns -----------------------------
(***************************************************************************)
(* One customer's WhatsApp conversation: the webhook that queues each      *)
(* message (src/lib/whatsapp-inbound.ts), and the worker's agent.turn      *)
(* handler (src/lib/outbox-worker.ts) with its FIFO gate, its Redis lock   *)
(* and its reply rows.  What the language model says is not modelled: a    *)
(* turn reads the history, thinks, and ends in a text or in a card.        *)
(*                                                                         *)
(* The row guards are OutboxRow's.  Batches and leases are Outbox's: here  *)
(* a row is claimed alone, and a processing row only when its owner is     *)
(* dead, which is what Outbox's LeaseIsHeld says.                          *)
(***************************************************************************)
EXTENDS OutboxRow, Sequences, FiniteSets

CONSTANTS
    Msgs,         \* messages of one phone to one tenant (wamids)
    Early,        \* those whose rows exist at the start
    Hooks,        \* webhook requests in flight
    Workers,
    MaxPosts,     \* bound: how often Meta posts messages
    Ceiling,      \* bound: attempts before a row is dead (8 in the code)
    RedisFails,   \* the lock may be unavailable: the turn runs without it
    StaffRetry,   \* staff may retry dead rows
    MaxFaults     \* bound: kills, turns without a lock, and staff retries

ASSUME AgentTurnsAssumption ==
    /\ NoOwner \notin Workers \cup Msgs
    /\ Early \subseteq Msgs /\ IsFiniteSet(Msgs)
    /\ MaxPosts \in Nat /\ Ceiling \in Nat \ {0}
    /\ RedisFails \in BOOLEAN /\ StaffRetry \in BOOLEAN
    /\ MaxFaults \in Nat

VARIABLES
    hook,     \* what each webhook request is doing, and with which message
    posts,    \* how many requests Meta has made
    acked,    \* messages Meta was answered 200 for
    marked,   \* msgq:<wamid>, the fast skip
    dropped,  \* history: messages answered 200 on purpose without a row
    queue,    \* agent.turn rows in id order, as their messages
    turn,     \* the agent.turn row of a message
    reply,    \* its reply:<id> row
    late,     \* turns created longer ago than the wait bound
    lock,     \* turnlock:<tenant>:<phone>: the turn it was taken for
    now,      \* the row each worker's invocation awaits
    run,      \* the handler of a message in an invocation; a ghost when the
              \* invocation no longer awaits it
    history,  \* the stored conversation, as the messages it answers
    sent,     \* history: what reached the customer, as the message answered
    bare,     \* history: turns that ran without the lock
    fell,     \* history: turns answered by the fallback line past the bound
    died,     \* history: messages whose turn or reply row was ever dead
    faults    \* how many faults there were

inbound == <<hook, posts, acked, marked, dropped, queue>>
past == <<bare, fell, died, faults>>
vars == <<inbound, turn, reply, late, lock, now, run, history, sent, past>>

Nobody == NoOwner
Fault == faults < MaxFaults /\ faults' = faults + 1
Idle == [pc |-> "none", late |-> FALSE, held |-> FALSE, saw |-> {}]

TypeOK ==
    /\ hook \in [Hooks -> [pc : {"idle", "look", "insert", "mark"},
                           msg : Msgs \cup {Nobody}]]
    /\ posts \in 0 .. MaxPosts
    /\ \A msgs \in {acked, marked, dropped} : msgs \subseteq Msgs
    /\ queue \in Seq(Msgs)
    /\ \A rows \in {turn, reply} :
          rows \in [Msgs -> [st : RowState, attempts : Nat, locked : BOOLEAN,
                             lease : Workers \cup {NoOwner}]]
    /\ lock \in Msgs \cup {Nobody}
    /\ now \in [Workers -> Msgs \cup {Nobody}]
    /\ run \in [Workers -> [Msgs ->
           [pc : {"none", "gate", "lock", "fallback", "think", "reply", "commit",
                  "finish"}, late : BOOLEAN, held : BOOLEAN, saw : SUBSET Msgs]]]
    /\ history \subseteq Msgs
    /\ sent \in Seq(Msgs)
    /\ late \subseteq Msgs
    /\ \A past_ \in {bare, fell, died} : past_ \subseteq Msgs
    /\ faults \in 0 .. MaxFaults

Init ==
    /\ hook = [h \in Hooks |-> [pc |-> "idle", msg |-> Nobody]]
    /\ posts = 0 /\ acked = Early /\ marked = {} /\ dropped = {}
    /\ queue \in {q \in [1 .. Cardinality(Early) -> Early] :
                     \A i, j \in DOMAIN q : q[i] = q[j] => i = j}
    /\ turn = [m \in Msgs |-> IF m \in Early THEN Queued ELSE Absent]
    /\ reply = [m \in Msgs |-> Absent]
    /\ late = {}
    /\ lock = Nobody
    /\ now = [w \in Workers |-> Nobody]
    /\ run = [w \in Workers |-> [m \in Msgs |-> Idle]]
    /\ history = {} /\ sent = <<>>
    /\ bare = {} /\ fell = {} /\ died = {} /\ faults = 0

-----------------------------------------------------------------------------
(* The webhook.  Meta posts a message until it is answered 200, and may post *)
(* it again all the same.                                                    *)

worker == <<turn, reply, late, lock, now, run, history, sent, past>>
At(h, pc) == hook[h].pc = pc
HookTo(h, pc) == hook' = [hook EXCEPT ![h].pc = pc]
HookEnds(h) == hook' = [hook EXCEPT ![h] = [pc |-> "idle", msg |-> Nobody]]

Post(h, m) ==
    /\ At(h, "idle")
    /\ posts < MaxPosts
    /\ posts' = posts + 1
    /\ hook' = [hook EXCEPT ![h] = [pc |-> "look", msg |-> m]]
    /\ UNCHANGED <<acked, marked, dropped, queue, worker>>

(* Mutant: the message is marked when it is first seen, as the legacy msg:
   key was. *)
FastSkipMarking(h) ==
    /\ At(h, "look")
    /\ IF hook[h].msg \in marked
       THEN acked' = acked \cup {hook[h].msg} /\ HookEnds(h) /\ UNCHANGED marked
       ELSE HookTo(h, "insert") /\ marked' = marked \cup {hook[h].msg} /\ UNCHANGED acked
    /\ UNCHANGED <<posts, dropped, queue, worker>>

(* The mark means "the row exists"; an unreadable mark means nothing. *)
FastSkip(h) ==
    /\ At(h, "look")
    /\ \/ /\ hook[h].msg \in marked
          /\ acked' = acked \cup {hook[h].msg}
          /\ HookEnds(h)
       \/ /\ hook[h].msg \notin marked \/ RedisFails
          /\ HookTo(h, "insert")
          /\ UNCHANGED acked
    /\ UNCHANGED <<posts, marked, dropped, queue, worker>>

(* No row, and 200 all the same: a failure that no retry can fix is audited
   (recordDropped; an audit that fails is only logged), a throttled message is
   logged.  It is not marked, so if Meta posts it again it is looked at again. *)
HookDrops(h) ==
    /\ At(h, "insert")
    /\ acked' = acked \cup {hook[h].msg}
    /\ dropped' = dropped \cup {hook[h].msg}
    /\ HookEnds(h)
    /\ UNCHANGED <<posts, marked, queue, worker>>

(* The insert, on conflict do nothing.  Ids are given here. *)
InsertTurn(h) ==
    LET m == hook[h].msg IN
    /\ At(h, "insert")
    /\ turn' = [turn EXCEPT ![m] = Enqueue(@)]
    /\ queue' = IF turn[m].st = "absent" THEN Append(queue, m) ELSE queue
    /\ HookTo(h, "mark")
    /\ UNCHANGED <<posts, acked, marked, dropped, reply, late, lock, now, run,
                   history, sent, past>>

(* A mark that cannot be written is only logged. *)
MarkQueued(h) ==
    /\ At(h, "mark")
    /\ marked' \in {marked \cup {hook[h].msg}} \cup (IF RedisFails THEN {marked} ELSE {})
    /\ acked' = acked \cup {hook[h].msg}
    /\ HookEnds(h)
    /\ UNCHANGED <<posts, dropped, queue, worker>>

(* The database is away (isInfraError), or the request dies: no 200. *)
HookFails(h) ==
    /\ ~At(h, "idle")
    /\ HookEnds(h)
    /\ UNCHANGED <<posts, acked, marked, dropped, queue, worker>>

MarkExpires(m) ==
    /\ m \in marked
    /\ marked' = marked \ {m}
    /\ UNCHANGED <<hook, posts, acked, dropped, queue, worker>>

-----------------------------------------------------------------------------
(* The worker: claims and outcomes. *)

Older(m, n) == \E i, j \in DOMAIN queue : i < j /\ queue[i] = m /\ queue[j] = n
Claimable(row) == Waiting(row) \/ (row.st = "processing" /\ row.lease = NoOwner)
Pc(w, m) == run[w][m].pc
To(w, m, pc) == run' = [run EXCEPT ![w][m].pc = pc]
Awaits(w, m) == now[w] = m

(* claimBatch, then Start: a row past its ceiling is buried.
   Bound: a revived turn is not claimed by the invocation its ghost is in. *)
ClaimTurn(w, m) ==
    /\ Claimable(turn[m])
    /\ now[w] = Nobody /\ Pc(w, m) = "none"
    /\ IF Poisoned(Claimed(turn[m], w), Ceiling)
       THEN /\ turn' = [turn EXCEPT ![m] = MarkFailed(Claimed(@, w), Ceiling)]
            /\ died' = died \cup {m}
            /\ UNCHANGED <<now, run>>
       ELSE /\ turn' = [turn EXCEPT ![m] = Claimed(@, w)]
            /\ now' = [now EXCEPT ![w] = m]
            /\ To(w, m, "gate")
            /\ UNCHANGED died
    /\ UNCHANGED <<inbound, reply, late, lock, history, sent, bare, fell, faults>>

(* The handler returns.  Its outcome is recorded only if it is awaited. *)
Return(w, m, row) ==
    /\ run' = [run EXCEPT ![w][m] = Idle]
    /\ IF Awaits(w, m)
       THEN /\ now' = [now EXCEPT ![w] = Nobody]
            /\ turn' = IF Owns(turn[m], w) THEN [turn EXCEPT ![m] = row] ELSE turn
            /\ died' = IF Owns(turn[m], w) /\ row.st = "dead" THEN died \cup {m} ELSE died
       ELSE UNCHANGED <<now, turn, died>>

(* releaseTurnLock, if this run took the lock; the token is the row's id. *)
(* A release that fails is only logged.                                   *)
ReleaseLock(w, m) ==
    \/ lock' = IF run[w][m].held /\ lock = m THEN Nobody ELSE lock
    \/ RedisFails /\ lock' = lock

-----------------------------------------------------------------------------
(* The agent.turn handler. *)

(* Mutant: only older turns hold a turn back, not their unsent replies. *)
OlderWaitingTurns(m) == \E n \in Msgs : Older(n, m) /\ Live(turn[n])
(* agentTurnGate: another turn older than this, or any other turn's reply. *)
OlderWaiting(m) ==
    \/ \E n \in Msgs : Older(n, m) /\ Live(turn[n])
    \/ \E n \in Msgs \ {m} : Live(reply[n])

(* Blocked: deferred uncharged, or answered with the fallback line. *)
GiveWay(w, m, pastBound) ==
    IF pastBound
    THEN To(w, m, "fallback") /\ UNCHANGED <<now, turn, died>>
    ELSE Return(w, m, DeferUncharged(turn[m]))

Gate(w, m) ==
    /\ Pc(w, m) = "gate"
    /\ IF OlderWaiting(m)
       THEN GiveWay(w, m, m \in late)
       ELSE /\ run' = [run EXCEPT ![w][m] = [@ EXCEPT !.pc = "lock", !.late = m \in late]]
            /\ UNCHANGED <<now, turn, died>>
    /\ UNCHANGED <<inbound, reply, late, lock, history, sent, bare, fell, faults>>

Thinking(w, m, held) ==
    run' = [run EXCEPT ![w][m] =
               [@ EXCEPT !.pc = "think", !.held = held, !.saw = history]]
(* Mutant: the lock's token names the worker, not the row. *)
TryLockAsWorker(w, m) ==
    /\ Pc(w, m) = "lock"
    /\ IF lock = Nobody
       THEN lock' = w /\ Thinking(w, m, TRUE) /\ UNCHANGED <<now, turn, died>>
       ELSE GiveWay(w, m, run[w][m].late) /\ UNCHANGED lock
    /\ UNCHANGED <<inbound, reply, late, history, sent, bare, fell, faults>>
(* tryTurnLock, then the turn begins by reading the conversation. *)
TryLock(w, m) ==
    /\ Pc(w, m) = "lock"
    /\ IF lock = Nobody
       THEN /\ lock' = m
            /\ Thinking(w, m, TRUE)
            /\ UNCHANGED <<now, turn, died>>
       ELSE GiveWay(w, m, run[w][m].late) /\ UNCHANGED lock
    /\ UNCHANGED <<inbound, reply, late, history, sent, bare, fell, faults>>

(* Redis is away: fail open. *)
RunUnlocked(w, m) ==
    /\ RedisFails /\ Fault
    /\ Pc(w, m) = "lock"
    /\ Thinking(w, m, FALSE)
    /\ bare' = bare \cup {m}
    /\ UNCHANGED <<inbound, turn, reply, late, lock, now, history, sent, fell,
                   died>>

(* Mutant: a turn that waited too long is dropped in silence. *)
FallbackSilent(w, m) ==
    /\ Pc(w, m) = "fallback"
    /\ fell' = fell \cup {m}
    /\ Return(w, m, MarkDone(turn[m]))
    /\ UNCHANGED <<inbound, reply, late, lock, history, sent, bare, faults>>
Fallback(w, m) ==
    /\ Pc(w, m) = "fallback"
    /\ reply' = [reply EXCEPT ![m] = Enqueue(@)]
    /\ fell' = fell \cup {m}
    /\ Return(w, m, MarkDone(turn[m]))
    /\ UNCHANGED <<inbound, late, lock, history, sent, bare, faults>>

(* The conversation is saved, last writer wins.  A card goes out inline. *)
Think(w, m) ==
    /\ Pc(w, m) = "think"
    /\ history' = run[w][m].saw \cup {m}
    /\ \/ To(w, m, "reply") /\ UNCHANGED sent
       \/ To(w, m, "finish") /\ sent' = Append(sent, m)
    /\ UNCHANGED <<inbound, turn, reply, late, lock, now, past>>

(* signal.abandoned is read, and then the reply row is inserted. *)
CheckAbandoned(w, m) ==
    /\ Pc(w, m) = "reply"
    /\ To(w, m, IF Awaits(w, m) THEN "commit" ELSE "finish")
    /\ UNCHANGED <<inbound, turn, reply, late, lock, now, history, sent, past>>
CommitReply(w, m) ==
    /\ Pc(w, m) = "commit"
    /\ reply' = [reply EXCEPT ![m] = Enqueue(@)]
    /\ To(w, m, "finish")
    /\ UNCHANGED <<inbound, turn, late, lock, now, history, sent, past>>

(* The finally block, then markDone. *)
Finish(w, m) ==
    /\ Pc(w, m) = "finish"
    /\ ReleaseLock(w, m)
    /\ Return(w, m, MarkDone(turn[m]))
    /\ UNCHANGED <<inbound, reply, late, history, sent, bare, fell, faults>>
(* A statement of the handler throws. *)
Throw(w, m) ==
    /\ Pc(w, m) \in {"gate", "fallback", "think", "commit"}
    /\ ReleaseLock(w, m)
    /\ Return(w, m, MarkFailed(turn[m], Ceiling))
    /\ UNCHANGED <<inbound, reply, late, history, sent, bare, fell, faults>>

(* Mutant: giving up on a turn frees its lock. *)
DeadlineUnlocks(w, m) ==
    /\ Awaits(w, m)
    /\ turn' = IF Owns(turn[m], w) THEN [turn EXCEPT ![m] = MarkFailed(@, 0)] ELSE turn
    /\ died' = died \cup {m}
    /\ now' = [now EXCEPT ![w] = Nobody]
    /\ ReleaseLock(w, m)
    /\ UNCHANGED <<inbound, reply, late, run, history, sent, bare, fell, faults>>
(* withRowDeadline: the row is dead at once, its handler goes on. *)
Deadline(w, m) ==
    /\ Awaits(w, m)
    /\ turn' = IF Owns(turn[m], w) THEN [turn EXCEPT ![m] = MarkFailed(@, 0)] ELSE turn
    /\ died' = died \cup {m}
    /\ now' = [now EXCEPT ![w] = Nobody]
    /\ UNCHANGED <<inbound, reply, late, lock, run, history, sent, bare, fell, faults>>

-----------------------------------------------------------------------------
(* Reply rows: one send, whose request times out before the row's deadline. *)

SendReply(m) ==
    /\ Claimable(reply[m])
    /\ LET row == Claimed(reply[m], NoOwner) IN
       \/ /\ ~Poisoned(row, Ceiling)
          /\ sent' = Append(sent, m)
          /\ reply' = [reply EXCEPT ![m] = MarkDone(row)]
          /\ UNCHANGED <<died, faults>>
       \/ /\ Fault                         \* killed before it is marked done
          /\ ~Poisoned(row, Ceiling)
          /\ sent' = Append(sent, m)
          /\ reply' = [reply EXCEPT ![m] = row]
          /\ UNCHANGED died
       \/ /\ reply' = [reply EXCEPT ![m] = MarkFailed(row, Ceiling)]
          /\ died' = IF row.attempts >= Ceiling THEN died \cup {m} ELSE died
          /\ UNCHANGED <<sent, faults>>
    /\ UNCHANGED <<inbound, turn, late, lock, now, run, history, bare, fell>>

-----------------------------------------------------------------------------
(* Time, kills and staff. *)

(* An invocation dies, its ghosts with it; its rows wait for their leases. *)
Crash(w) ==
    /\ Fault
    /\ \E m \in Msgs : Pc(w, m) # "none"
    /\ now' = [now EXCEPT ![w] = Nobody]
    /\ run' = [run EXCEPT ![w] = [m \in Msgs |-> Idle]]
    /\ turn' = [m \in Msgs |-> IF Owns(turn[m], w) THEN [turn[m] EXCEPT !.lease = NoOwner]
                               ELSE turn[m]]
    /\ UNCHANGED <<inbound, reply, late, lock, history, sent, bare, fell, died>>

Working(w, m) == Pc(w, m) \in {"think", "reply", "commit", "finish"}
(* Mutant: a lock that may end before the invocation it protects. *)
LockRunsOutEarly == lock # Nobody
(* 90 s from taking it, against 60 s for the invocation that did. *)
LockRunsOut == lock # Nobody /\ \A w \in Workers : ~Working(w, lock)
LockExpires ==
    /\ LockRunsOut
    /\ lock' = Nobody
    /\ UNCHANGED <<inbound, turn, reply, late, now, run, history, sent, past>>

(* The oldest row passes the bound first. *)
BoundPasses(m) ==
    /\ turn[m].st # "absent" /\ m \notin late
    /\ \A n \in Msgs : Older(n, m) => n \in late
    /\ late' = late \cup {m}
    /\ UNCHANGED <<inbound, turn, reply, lock, now, run, history, sent, past>>

OpsRetry(m) ==
    /\ StaffRetry /\ Fault
    /\ \/ MayRetryDead(turn[m]) /\ turn' = [turn EXCEPT ![m] = RetryDead(@)] /\ UNCHANGED reply
       \/ MayRetryDead(reply[m]) /\ reply' = [reply EXCEPT ![m] = RetryDead(@)] /\ UNCHANGED turn
    /\ UNCHANGED <<inbound, late, lock, now, run, history, sent, bare, fell, died>>

-----------------------------------------------------------------------------
HookStep(h) == FastSkip(h) \/ HookDrops(h) \/ InsertTurn(h) \/ MarkQueued(h)
HandlerStep(w, m) ==
    \/ Gate(w, m) \/ TryLock(w, m) \/ RunUnlocked(w, m) \/ Fallback(w, m)
    \/ Think(w, m) \/ CheckAbandoned(w, m) \/ CommitReply(w, m) \/ Finish(w, m)
    \/ Throw(w, m)

Next ==
    \/ \E h \in Hooks : HookStep(h) \/ HookFails(h) \/ \E m \in Msgs : Post(h, m)
    \/ \E w \in Workers, m \in Msgs :
          ClaimTurn(w, m) \/ HandlerStep(w, m) \/ Deadline(w, m)
    \/ \E m \in Msgs : MarkExpires(m) \/ SendReply(m) \/ BoundPasses(m) \/ OpsRetry(m)
    \/ \E w \in Workers : Crash(w)
    \/ LockExpires

Spec == Init /\ [][Next]_vars

(* The worker runs on a schedule and drains what is due; a handler that is not
   killed goes on, or is given up at its deadline; the lock
   runs out and the wait bound passes. *)
Fairness ==
    /\ \A m \in Msgs : /\ SF_vars(\E w \in Workers : ClaimTurn(w, m))
                       /\ WF_vars(SendReply(m))
                       /\ WF_vars(BoundPasses(m))
    /\ \A w \in Workers : WF_vars(\E m \in Msgs : HandlerStep(w, m))
    /\ WF_vars(LockExpires)
FairSpec == Spec /\ Fairness

-----------------------------------------------------------------------------
(* Properties. *)

Answers == {sent[i] : i \in DOMAIN sent}

(* processInboundWebhook: { ok: true } only "once every message has a durable
   row (inserted or already present) or was deliberately dropped"; the fast
   skip is sound, since a mark, and so the next 200, means the row exists and
   never that the message was dropped; and however often Meta posts a message,
   it is one turn. *)
InboundExactlyOnce ==
    /\ acked \subseteq {queue[i] : i \in DOMAIN queue} \cup dropped
    /\ marked \subseteq {queue[i] : i \in DOMAIN queue}
    /\ \A i, j \in DOMAIN queue : queue[i] = queue[j] => i = j

(* "at most ONE agent.turn runs per (tenant, phone) at a time", ghosts and
   revived turns included, except beside one that Redis let run unlocked. *)
TurnsAlone ==
    \A w, v \in Workers, m, n \in Msgs :
        Working(w, m) /\ Working(v, n) /\ <<w, m>> # <<v, n>>
            => m \in bare \/ n \in bare

(* No turn's save drops what another turn saved. *)
HistoryKept == [][bare' = {} => history \subseteq history']_vars

(* The customer reads answers in the order of the questions.  Only a turn that
   outwaited the bound overtakes, and only a dead one is overtaken. *)
RepliesInOrder ==
    \A i, j \in DOMAIN sent :
        i < j /\ Older(sent[j], sent[i]) => sent[i] \in fell \/ sent[j] \in died

(* The safe half of the next: a message with a row that is neither answered
   nor known to be dead still has a row that will be run, its turn's or its
   reply's, through deferrals, ghosts, kills and lost locks. *)
NobodyIsForgotten ==
    \A m \in Msgs : turn[m].st # "absent" =>
        m \in Answers \cup died \/ Live(turn[m]) \/ Live(reply[m])

(* Every message that got its row, which is every acknowledged one that was not
   dropped, is answered, or its row is dead and staff know: a turn is never
   deferred for ever, and its reply is not lost. *)
EveryMessageIsAnswered ==
    \A m \in Msgs : turn[m].st # "absent" ~> m \in Answers \cup died
=============================================================================
