-------------------------- MODULE AgentTurnsProofs --------------------------
(***************************************************************************)
(* A conversation's turns, for any set of messages, webhook requests and   *)
(* workers, any ceiling, any number of kills, unlocked turns and retries.  *)
(*                                                                         *)
(* TurnsAlone needs to know who may be holding the lock (Locked).          *)
(* RepliesInOrder needs two more facts: until a message's row has been     *)
(* dead, whoever runs its turn owns the row and is awaited (Attended), so  *)
(* a row that came to its end stays there (Settled); and a turn past the   *)
(* gate, a reply row and an answer all had everything older settled        *)
(* (Cleared), or were let past by the bound.                               *)
(***************************************************************************)
EXTENDS AgentTurns, OutboxRowProofs, SequenceTheorems, FiniteSetTheorems

Listed == {queue[i] : i \in DOMAIN queue}

(* Whatever names a message names one whose row was inserted. *)
Shape ==
    /\ \A i, j \in DOMAIN queue : queue[i] = queue[j] => i = j
    /\ acked \subseteq Listed \cup dropped /\ marked \subseteq Listed
    /\ \A m \in Msgs : turn[m].st # "absent" <=> m \in Listed
    /\ \A h \in Hooks : /\ hook[h].pc # "idle" => hook[h].msg \in Msgs
                        /\ hook[h].pc = "mark" => hook[h].msg \in Listed
    /\ \A w \in Workers, m \in Msgs : Pc(w, m) # "none" \/ now[w] = m => m \in Listed
    /\ \A m \in Msgs : reply[m].st # "absent" => m \in Listed
    /\ \A i \in DOMAIN sent : sent[i] \in Listed

Locked ==
    /\ \A w \in Workers, m \in Msgs :
          /\ run[w][m].held => Working(w, m) /\ lock = m
          /\ Working(w, m) /\ m \notin bare => run[w][m].held
          /\ bare = {} /\ Pc(w, m) = "think" => run[w][m].saw = history
    /\ \A w, v \in Workers, m \in Msgs : run[w][m].held /\ run[v][m].held => w = v

Attended ==
    \A m \in Msgs \ died :
        /\ turn[m].st # "dead" /\ reply[m].st # "dead"
        /\ \A w \in Workers : Pc(w, m) # "none" =>
              turn[m].st = "processing" /\ turn[m].lease = w /\ now[w] = m

Settled(m) == m \in died \/ (~Live(turn[m]) /\ ~Live(reply[m]))
Clear(n) == n \in fell \/ \A m \in Msgs : Older(m, n) => Settled(m)
Cleared ==
    /\ \A w \in Workers, n \in Msgs : Pc(w, n) = "lock" \/ Working(w, n) => Clear(n)
    /\ \A n \in Msgs : reply[n].st # "absent" => Clear(n)
    /\ \A i \in DOMAIN sent : Clear(sent[i])

Inv == TypeOK /\ Shape /\ Locked /\ Attended /\ Cleared

RunPc == {"none", "gate", "lock", "fallback", "think", "reply", "commit", "finish"}
Runs == [pc : RunPc, late : BOOLEAN, held : BOOLEAN, saw : SUBSET Msgs]

USE AgentTurnsAssumption

-----------------------------------------------------------------------------
(* The types. *)
LEMMA Types ==
    TypeOK => /\ turn \in [Msgs -> RowOf(Workers)] /\ reply \in [Msgs -> RowOf(Workers)]
              /\ run \in [Workers -> [Msgs -> Runs]]
  BY DEF TypeOK, RowOf, Runs, RunPc

(* The rows of Early are queued in some order. *)
LEMMA TypeInit == Init => TypeOK
<1> SUFFICES ASSUME Init PROVE TypeOK OBVIOUS
<1>1. queue \in Seq(Msgs)
  <2>1. Cardinality(Early) \in Nat BY FS_CardinalityType, FS_Subset
  <2>2. queue \in [1 .. Cardinality(Early) -> Msgs] BY DEF Init
  <2> QED BY <2>1, <2>2, SeqDef
<1>2. Queued \in RowOf(Workers) /\ Absent \in RowOf(Workers)
  BY DEF Queued, Absent, RowOf, RowState
<1>3. turn \in [Msgs -> RowOf(Workers)] /\ reply \in [Msgs -> RowOf(Workers)]
  BY <1>2 DEF Init
<1>4. Idle \in Runs BY DEF Idle, Runs, RunPc
<1>5. run \in [Workers -> [Msgs -> Runs]] BY <1>4 DEF Init
<1>6. hook \in [Hooks -> [pc : {"idle", "look", "insert", "mark"}, msg : Msgs \cup {Nobody}]]
  BY DEF Init
<1>7. sent \in Seq(Msgs) BY DEF Init
<1>8. now \in [Workers -> Msgs \cup {Nobody}] BY DEF Init
<1> QED
  BY <1>1, <1>3, <1>5, <1>6, <1>7, <1>8 DEF Init, TypeOK, RowOf, Runs, RunPc

LEMMA Updated ==
    ASSUME NEW S, NEW T, NEW f \in [S -> T], NEW a \in S, NEW b \in T
    PROVE  [f EXCEPT ![a] = b] \in [S -> T]
  OBVIOUS

(* How a handler returns. *)
LEMMA ReturnTypes ==
    ASSUME TypeOK, NEW w \in Workers, NEW m \in Msgs, NEW row \in RowOf(Workers),
           Return(w, m, row)
    PROVE  /\ run' \in [Workers -> [Msgs -> Runs]]
           /\ turn' \in [Msgs -> RowOf(Workers)]
           /\ now' \in [Workers -> Msgs \cup {Nobody}]
           /\ died' \subseteq Msgs
<1>1. Idle \in Runs BY DEF Idle, Runs, RunPc
<1>2. run' \in [Workers -> [Msgs -> Runs]] BY <1>1, Types DEF Return
<1>3. turn' \in [Msgs -> RowOf(Workers)] BY Types DEF Return
<1>4. now' \in [Workers -> Msgs \cup {Nobody}] BY DEF Return, TypeOK
<1>5. died' \subseteq Msgs BY DEF Return, TypeOK
<1> QED BY <1>2, <1>3, <1>4, <1>5

(* Past the gate, a run keeps whether its turn had waited too long. *)
LEMMA GateTypes ==
    ASSUME NEW r \in Runs, NEW S, NEW x
    PROVE  [r EXCEPT !.pc = "lock", !.late = x \in S] \in Runs
<1> USE DEF Runs, RunPc
<1>1. CASE x \in S
  <2>1. (x \in S) = TRUE BY <1>1
  <2>2. [r EXCEPT !.pc = "lock", !.late = TRUE] \in Runs OBVIOUS
  <2> QED BY <2>1, <2>2
<1>2. CASE x \notin S
  <2>1. (x \in S) = FALSE BY <1>2
  <2>2. [r EXCEPT !.pc = "lock", !.late = FALSE] \in Runs OBVIOUS
  <2> QED BY <2>1, <2>2, Zenon
<1> QED BY <1>1, <1>2

(* A step of a handler within a run. *)
LEMMA RunTypes ==
    ASSUME TypeOK, NEW w \in Workers, NEW m \in Msgs
    PROVE  /\ \A pc \in RunPc : To(w, m, pc) => run' \in [Workers -> [Msgs -> Runs]]
           /\ \A held \in BOOLEAN :
                 Thinking(w, m, held) => run' \in [Workers -> [Msgs -> Runs]]
<1>1. run \in [Workers -> [Msgs -> Runs]] /\ history \subseteq Msgs
  BY Types DEF TypeOK
<1>2. run[w][m] \in Runs BY <1>1
<1>3. ASSUME NEW pc \in RunPc, To(w, m, pc) PROVE run' \in [Workers -> [Msgs -> Runs]]
  <2>1. [run[w][m] EXCEPT !.pc = pc] \in Runs BY <1>2 DEF Runs
  <2> QED BY <1>1, <1>3, <2>1 DEF To
<1>4. ASSUME NEW held \in BOOLEAN, Thinking(w, m, held)
      PROVE run' \in [Workers -> [Msgs -> Runs]]
  <2>1. [run[w][m] EXCEPT !.pc = "think", !.held = held, !.saw = history] \in Runs
    BY <1>1, <1>2 DEF Runs, RunPc
  <2> QED BY <1>1, <1>4, <2>1 DEF Thinking
<1> QED BY <1>3, <1>4

(* The columns of TypeOK, one by one. *)
LEMMA Columns ==
    TypeOK <=> /\ hook \in [Hooks -> [pc : {"idle", "look", "insert", "mark"},
                                      msg : Msgs \cup {Nobody}]]
               /\ posts \in 0 .. MaxPosts
               /\ acked \subseteq Msgs /\ marked \subseteq Msgs /\ dropped \subseteq Msgs
               /\ queue \in Seq(Msgs)
               /\ turn \in [Msgs -> RowOf(Workers)] /\ reply \in [Msgs -> RowOf(Workers)]
               /\ lock \in Msgs \cup {Nobody}
               /\ now \in [Workers -> Msgs \cup {Nobody}]
               /\ run \in [Workers -> [Msgs -> Runs]]
               /\ history \subseteq Msgs /\ sent \in Seq(Msgs) /\ late \subseteq Msgs
               /\ bare \subseteq Msgs /\ fell \subseteq Msgs /\ died \subseteq Msgs
               /\ faults \in 0 .. MaxFaults
  BY DEF TypeOK, RowOf, Runs, RunPc
LEMMA ColumnsNext ==
    ASSUME hook' \in [Hooks -> [pc : {"idle", "look", "insert", "mark"},
                                msg : Msgs \cup {Nobody}]],
           posts' \in 0 .. MaxPosts, acked' \subseteq Msgs, marked' \subseteq Msgs,
           dropped' \subseteq Msgs,
           queue' \in Seq(Msgs), turn' \in [Msgs -> RowOf(Workers)],
           reply' \in [Msgs -> RowOf(Workers)], lock' \in Msgs \cup {Nobody},
           now' \in [Workers -> Msgs \cup {Nobody}], run' \in [Workers -> [Msgs -> Runs]],
           history' \subseteq Msgs, sent' \in Seq(Msgs), late' \subseteq Msgs,
           bare' \subseteq Msgs, fell' \subseteq Msgs, died' \subseteq Msgs,
           faults' \in 0 .. MaxFaults
    PROVE  TypeOK'
  BY DEF TypeOK, RowOf, Runs, RunPc
(* Every step of the webhook keeps the types. *)
LEMMA WebhookTypes ==
    ASSUME TypeOK, Shape, NEW h \in Hooks,
           HookStep(h) \/ HookFails(h) \/ \E m \in Msgs : Post(h, m)
    PROVE  TypeOK'
<1> USE Columns
<1>1. hook[h].pc # "idle" => hook[h].msg \in Msgs BY DEF Shape
<1>2. hook' \in [Hooks -> [pc : {"idle", "look", "insert", "mark"}, msg : Msgs \cup {Nobody}]]
  <2> DEFINE Hook == [pc : {"idle", "look", "insert", "mark"}, msg : Msgs \cup {Nobody}]
  <2>1. \A pc \in {"insert", "mark"} : [hook[h] EXCEPT !.pc = pc] \in Hook OBVIOUS
  <2>2. /\ [pc |-> "idle", msg |-> Nobody] \in Hook
        /\ \A m \in Msgs : [pc |-> "look", msg |-> m] \in Hook
    OBVIOUS
  <2>3. HookTo(h, "insert") \/ HookTo(h, "mark") \/ HookEnds(h) \/ \E m \in Msgs : Post(h, m)
    BY DEF HookStep, FastSkip, InsertTurn, MarkQueued, HookDrops, HookFails
  <2> HIDE DEF Hook
  <2>4. hook \in [Hooks -> Hook] BY DEF Hook
  <2>5. \A x \in Hook : [hook EXCEPT ![h] = x] \in [Hooks -> Hook] BY <2>4, Updated
  <2>6. hook' \in [Hooks -> Hook]
    <3>1. ASSUME NEW m \in Msgs, Post(h, m) PROVE hook' \in [Hooks -> Hook]
      BY <2>2, <2>5, <3>1 DEF Post
    <3>2. CASE HookEnds(h) BY <2>2, <2>5, <3>2 DEF HookEnds
    <3>3. CASE HookTo(h, "insert") \/ HookTo(h, "mark")
      BY <2>1, <2>5, <3>3 DEF HookTo
    <3> QED BY <2>3, <3>1, <3>2, <3>3
  <2> QED BY <2>6 DEF Hook
<1>3. posts' \in 0 .. MaxPosts
  BY DEF HookStep, FastSkip, InsertTurn, MarkQueued, HookDrops, HookFails, Post
<1>4. acked' \subseteq Msgs /\ marked' \subseteq Msgs /\ dropped' \subseteq Msgs
  BY <1>1 DEF HookStep, FastSkip, InsertTurn, MarkQueued, HookDrops, HookFails, Post, At
<1>5. queue' \in Seq(Msgs) /\ turn' \in [Msgs -> RowOf(Workers)]
  <2>1. CASE InsertTurn(h)
    <3>1. hook[h].msg \in Msgs BY <1>1, <2>1 DEF InsertTurn, At
    <3>2. Enqueue(turn[hook[h].msg]) \in RowOf(Workers) BY <3>1, RowTypes
    <3>3. turn' \in [Msgs -> RowOf(Workers)] BY <2>1, <3>1, <3>2 DEF InsertTurn
    <3>4. queue' \in Seq(Msgs) BY <2>1, <3>1, AppendProperties DEF InsertTurn
    <3> QED BY <3>3, <3>4
  <2> QED BY <2>1 DEF HookStep, FastSkip, MarkQueued, HookDrops, HookFails, Post, worker
<1>6. UNCHANGED <<reply, late, lock, now, run, history, sent, past>>
  BY DEF HookStep, FastSkip, InsertTurn, MarkQueued, HookDrops, HookFails, Post, worker
<1>7. /\ reply' \in [Msgs -> RowOf(Workers)] /\ lock' \in Msgs \cup {Nobody}
      /\ now' \in [Workers -> Msgs \cup {Nobody}] /\ run' \in [Workers -> [Msgs -> Runs]]
      /\ history' \subseteq Msgs /\ sent' \in Seq(Msgs) /\ late' \subseteq Msgs
      /\ bare' \subseteq Msgs /\ fell' \subseteq Msgs /\ died' \subseteq Msgs
      /\ faults' \in 0 .. MaxFaults
  BY <1>6 DEF past
<1> QED BY <1>2, <1>3, <1>4, <1>5, <1>7, ColumnsNext

(* Every step of a turn keeps the types. *)
LEMMA HandlerTypes ==
    ASSUME TypeOK, NEW w \in Workers, NEW m \in Msgs,
           ClaimTurn(w, m) \/ HandlerStep(w, m) \/ Deadline(w, m)
    PROVE  TypeOK'
<1> USE Columns
<1>1. /\ turn[m] \in RowOf(Workers) /\ reply[m] \in RowOf(Workers)
      /\ run[w][m] \in Runs
  OBVIOUS
<1>2. Ceiling \in Nat /\ 0 \in Nat OBVIOUS
<1>3. /\ Claimed(turn[m], w) \in RowOf(Workers) /\ MarkDone(turn[m]) \in RowOf(Workers)
      /\ DeferUncharged(turn[m]) \in RowOf(Workers)
  BY <1>1, RowTypes
<1>4. /\ MarkFailed(turn[m], Ceiling) \in RowOf(Workers)
      /\ MarkFailed(turn[m], 0) \in RowOf(Workers)
      /\ MarkFailed(Claimed(turn[m], w), Ceiling) \in RowOf(Workers)
  BY <1>1, <1>2, <1>3, RowTypes
<1>5. Enqueue(reply[m]) \in RowOf(Workers) BY <1>1, RowTypes
<1> USE DEF HandlerStep
<1>6. reply' \in [Msgs -> RowOf(Workers)]
  BY <1>5 DEF ClaimTurn, Deadline, Gate, TryLock, RunUnlocked, Fallback, Think,
              CheckAbandoned, CommitReply, Finish, Throw
<1>7. lock' \in Msgs \cup {Nobody}
  BY DEF ClaimTurn, Deadline, Gate, TryLock, RunUnlocked, Fallback, Think,
         CheckAbandoned, CommitReply, Finish, Throw, ReleaseLock
<1>8. history' \subseteq Msgs /\ sent' \in Seq(Msgs)
  <2>1. run[w][m].saw \subseteq Msgs BY <1>1 DEF Runs
  <2>2. Append(sent, m) \in Seq(Msgs) BY AppendProperties
  <2> QED
    BY <2>1, <2>2
       DEF ClaimTurn, Deadline, Gate, TryLock, RunUnlocked, Fallback, Think,
           CheckAbandoned, CommitReply, Finish, Throw
<1>9. bare' \subseteq Msgs /\ fell' \subseteq Msgs
  BY DEF ClaimTurn, Deadline, Gate, TryLock, RunUnlocked, Fallback, Think,
         CheckAbandoned, CommitReply, Finish, Throw, past
<1>10. faults' \in 0 .. MaxFaults
  <2>1. faults' = faults \/ Fault
    BY DEF ClaimTurn, Deadline, Gate, TryLock, RunUnlocked, Fallback, Think,
           CheckAbandoned, CommitReply, Finish, Throw, past
  <2> QED BY <2>1 DEF Fault
<1>11. UNCHANGED inbound /\ UNCHANGED late
  BY DEF ClaimTurn, Deadline, Gate, TryLock, RunUnlocked, Fallback, Think,
         CheckAbandoned, CommitReply, Finish, Throw
<1>12. /\ run' \in [Workers -> [Msgs -> Runs]] /\ turn' \in [Msgs -> RowOf(Workers)]
       /\ now' \in [Workers -> Msgs \cup {Nobody}] /\ died' \subseteq Msgs
  <2>1. CASE ClaimTurn(w, m)
    <3>1. CASE Poisoned(Claimed(turn[m], w), Ceiling)
      <4>1. [turn EXCEPT ![m] = MarkFailed(Claimed(turn[m], w), Ceiling)]
               \in [Msgs -> RowOf(Workers)]
        BY <1>4, Updated
      <4>2. died \cup {m} \subseteq Msgs OBVIOUS
      <4> QED BY <2>1, <3>1, <4>1, <4>2 DEF ClaimTurn
    <3>2. CASE ~Poisoned(Claimed(turn[m], w), Ceiling)
      <4>1. To(w, m, "gate") BY <2>1, <3>2 DEF ClaimTurn
      <4>2. run' \in [Workers -> [Msgs -> Runs]] BY <4>1, RunTypes DEF RunPc
      <4>3. /\ [turn EXCEPT ![m] = Claimed(turn[m], w)] \in [Msgs -> RowOf(Workers)]
            /\ [now EXCEPT ![w] = m] \in [Workers -> Msgs \cup {Nobody}]
        BY <1>3, Updated
      <4> QED BY <2>1, <3>2, <4>2, <4>3 DEF ClaimTurn
    <3> QED BY <3>1, <3>2
  <2>2. ASSUME NEW pastBound, GiveWay(w, m, pastBound)
        PROVE  /\ run' \in [Workers -> [Msgs -> Runs]]
               /\ turn' \in [Msgs -> RowOf(Workers)]
               /\ now' \in [Workers -> Msgs \cup {Nobody}] /\ died' \subseteq Msgs
    BY <1>3, <2>2, RunTypes, ReturnTypes DEF GiveWay, RunPc
  <2>3. CASE Gate(w, m)
    <3> DEFINE late_ == m \in late
    <3>1. [run[w][m] EXCEPT !.pc = "lock", !.late = late_] \in Runs BY <1>1, GateTypes
    <3>2. CASE OlderWaiting(m) BY <2>2, <2>3, <3>2 DEF Gate
    <3>3. CASE ~OlderWaiting(m)
      <4>1. run' = [run EXCEPT ![w][m] = [run[w][m] EXCEPT !.pc = "lock", !.late = late_]]
        BY <2>3, <3>3 DEF Gate
      <4>2. run' \in [Workers -> [Msgs -> Runs]]
        <5> DEFINE x == [run[w][m] EXCEPT !.pc = "lock", !.late = late_]
        <5>1. x \in Runs BY <3>1
        <5> HIDE DEF x
        <5>2. [run[w] EXCEPT ![m] = x] \in [Msgs -> Runs] BY <5>1, Updated
        <5>3. [run EXCEPT ![w] = [run[w] EXCEPT ![m] = x]] \in [Workers -> [Msgs -> Runs]]
          BY <5>2, Updated
        <5> QED BY <4>1, <5>3 DEF x
      <4> QED BY <2>3, <3>3, <4>2 DEF Gate
    <3> QED BY <3>2, <3>3
  <2>4. CASE TryLock(w, m)
    <3>1. CASE lock = Nobody BY <2>4, <3>1, RunTypes DEF TryLock
    <3>2. CASE lock # Nobody BY <2>2, <2>4, <3>2 DEF TryLock
    <3> QED BY <3>1, <3>2
  <2>5. CASE RunUnlocked(w, m) BY <2>5, RunTypes DEF RunUnlocked
  <2>6. CASE Fallback(w, m) \/ Finish(w, m) \/ Throw(w, m)
    BY <1>3, <1>4, <2>6, ReturnTypes DEF Fallback, Finish, Throw
  <2>7. CASE Think(w, m) \/ CheckAbandoned(w, m) \/ CommitReply(w, m)
    <3>1. run' \in [Workers -> [Msgs -> Runs]]
      BY <2>7, RunTypes DEF Think, CheckAbandoned, CommitReply, RunPc
    <3> QED BY <2>7, <3>1 DEF Think, CheckAbandoned, CommitReply, past
  <2>8. CASE Deadline(w, m)
    <3>1. turn' \in [Msgs -> RowOf(Workers)] BY <1>4, <2>8 DEF Deadline
    <3> QED BY <2>8, <3>1 DEF Deadline
  <2> QED BY <2>1, <2>3, <2>4, <2>5, <2>6, <2>7, <2>8
<1>13. /\ hook' \in [Hooks -> [pc : {"idle", "look", "insert", "mark"},
                               msg : Msgs \cup {Nobody}]]
       /\ posts' \in 0 .. MaxPosts /\ acked' \subseteq Msgs /\ marked' \subseteq Msgs
       /\ dropped' \subseteq Msgs /\ queue' \in Seq(Msgs) /\ late' \subseteq Msgs
  BY <1>11 DEF inbound
<1> QED BY <1>6, <1>7, <1>8, <1>9, <1>10, <1>12, <1>13, ColumnsNext

(* Every step keeps the types. *)
LEMMA TypeStep == TypeOK /\ Shape /\ [Next]_vars => TypeOK'
<1> SUFFICES ASSUME TypeOK, Shape, [Next]_vars PROVE TypeOK' OBVIOUS
<1> USE Columns
<1>1. ASSUME NEW m \in Msgs, MarkExpires(m) \/ BoundPasses(m) PROVE TypeOK'
  BY <1>1, ColumnsNext DEF MarkExpires, BoundPasses, inbound, worker, past
<1>2. ASSUME NEW m \in Msgs, SendReply(m) PROVE TypeOK'
  <2>1. reply[m] \in RowOf(Workers) /\ NoOwner \in Workers \cup {NoOwner} OBVIOUS
  <2>2. Claimed(reply[m], NoOwner) \in RowOf(Workers) BY <2>1, RowTypes
  <2>3. Ceiling \in Nat OBVIOUS
  <2>4. /\ MarkDone(Claimed(reply[m], NoOwner)) \in RowOf(Workers)
        /\ MarkFailed(Claimed(reply[m], NoOwner), Ceiling) \in RowOf(Workers)
    BY <2>2, <2>3, RowTypes
  <2>5. reply' \in [Msgs -> RowOf(Workers)]
    <3>1. /\ [reply EXCEPT ![m] = Claimed(reply[m], NoOwner)] \in [Msgs -> RowOf(Workers)]
          /\ [reply EXCEPT ![m] = MarkDone(Claimed(reply[m], NoOwner))]
                \in [Msgs -> RowOf(Workers)]
          /\ [reply EXCEPT ![m] = MarkFailed(Claimed(reply[m], NoOwner), Ceiling)]
                \in [Msgs -> RowOf(Workers)]
      BY <2>2, <2>4, Updated
    <3>2. \/ reply' = [reply EXCEPT ![m] = Claimed(reply[m], NoOwner)]
          \/ reply' = [reply EXCEPT ![m] = MarkDone(Claimed(reply[m], NoOwner))]
          \/ reply' = [reply EXCEPT ![m] = MarkFailed(Claimed(reply[m], NoOwner), Ceiling)]
      BY <1>2 DEF SendReply
    <3> QED BY <3>1, <3>2
  <2>6. sent' \in Seq(Msgs)
    <3>1. Append(sent, m) \in Seq(Msgs) BY AppendProperties
    <3> QED BY <1>2, <3>1 DEF SendReply
  <2>7. died' \subseteq Msgs /\ faults' \in 0 .. MaxFaults BY <1>2 DEF SendReply, Fault
  <2> QED BY <1>2, <2>5, <2>6, <2>7, ColumnsNext DEF SendReply, inbound
<1>3. ASSUME NEW m \in Msgs, OpsRetry(m) PROVE TypeOK'
  <2>1. RetryDead(turn[m]) \in RowOf(Workers) /\ RetryDead(reply[m]) \in RowOf(Workers)
    <3>1. turn[m] \in RowOf(Workers) /\ reply[m] \in RowOf(Workers) OBVIOUS
    <3> QED BY <3>1, RowTypes
  <2>2. turn' \in [Msgs -> RowOf(Workers)] /\ reply' \in [Msgs -> RowOf(Workers)]
    <3>1. /\ [turn EXCEPT ![m] = RetryDead(turn[m])] \in [Msgs -> RowOf(Workers)]
          /\ [reply EXCEPT ![m] = RetryDead(reply[m])] \in [Msgs -> RowOf(Workers)]
      BY <2>1, Updated
    <3> QED BY <1>3, <3>1 DEF OpsRetry
  <2>3. faults' \in 0 .. MaxFaults BY <1>3 DEF OpsRetry, Fault
  <2> QED BY <1>3, <2>2, <2>3, ColumnsNext DEF OpsRetry, inbound
<1>4. ASSUME NEW w \in Workers, Crash(w) PROVE TypeOK'
  <2>1. Idle \in Runs BY DEF Idle, Runs, RunPc
  <2>2. run' \in [Workers -> [Msgs -> Runs]] BY <1>4, <2>1 DEF Crash
  <2>3. ASSUME NEW x \in RowOf(Workers) PROVE [x EXCEPT !.lease = NoOwner] \in RowOf(Workers)
    BY DEF RowOf
  <2>4. turn' \in [Msgs -> RowOf(Workers)]
    <3>1. \A m \in Msgs : [turn[m] EXCEPT !.lease = NoOwner] \in RowOf(Workers) BY <2>3
    <3> QED BY <1>4, <3>1 DEF Crash
  <2>5. faults' \in 0 .. MaxFaults BY <1>4 DEF Crash, Fault
  <2>6. now' \in [Workers -> Msgs \cup {Nobody}] BY <1>4 DEF Crash
  <2> QED BY <1>4, <2>2, <2>4, <2>5, <2>6, ColumnsNext DEF Crash, inbound
<1>5. CASE LockExpires \/ UNCHANGED vars
  BY <1>5, ColumnsNext DEF LockExpires, vars, inbound, past
<1> QED BY <1>1, <1>2, <1>3, <1>4, <1>5, WebhookTypes, HandlerTypes DEF Next

-----------------------------------------------------------------------------
(* Who changes what. *)

(* A handler's step works on its own run: the handler returns, or goes on. *)
LEMMA HandlerMoves ==
    ASSUME TypeOK, NEW w \in Workers, NEW m \in Msgs, HandlerStep(w, m)
    PROVE  /\ Pc(w, m) # "none"
           /\ \/ \E row \in {MarkDone(turn[m]), DeferUncharged(turn[m]),
                             MarkFailed(turn[m], Ceiling)} : Return(w, m, row)
              \/ /\ UNCHANGED <<turn, now, died>>
                 /\ \E x \in Runs : x.pc # "none" /\ run' = [run EXCEPT ![w][m] = x]
<1>1. run \in [Workers -> [Msgs -> Runs]] /\ run[w][m] \in Runs BY Columns
<1>2. history \subseteq Msgs BY Columns
<1>3. ASSUME NEW pc \in RunPc, pc # "none", To(w, m, pc)
      PROVE \E x \in Runs : x.pc # "none" /\ run' = [run EXCEPT ![w][m] = x]
  <2> DEFINE x == [run[w][m] EXCEPT !.pc = pc]
  <2>1. x \in Runs /\ x.pc = pc BY <1>1 DEF Runs
  <2>2. run' = [run EXCEPT ![w][m] = x] BY <1>1, <1>3 DEF To
  <2> HIDE DEF x
  <2> QED BY <1>3, <2>1, <2>2
<1>4. ASSUME NEW held \in BOOLEAN, Thinking(w, m, held)
      PROVE \E x \in Runs : x.pc # "none" /\ run' = [run EXCEPT ![w][m] = x]
  <2> DEFINE x == [run[w][m] EXCEPT !.pc = "think", !.held = held, !.saw = history]
  <2>1. x \in Runs /\ x.pc = "think" BY <1>1, <1>2 DEF Runs, RunPc
  <2>2. run' = [run EXCEPT ![w][m] = x] BY <1>1, <1>4 DEF Thinking
  <2> HIDE DEF x
  <2> QED BY <2>1, <2>2
<1> DEFINE Goal == \/ \E row \in {MarkDone(turn[m]), DeferUncharged(turn[m]),
                                 MarkFailed(turn[m], Ceiling)} : Return(w, m, row)
                   \/ /\ UNCHANGED <<turn, now, died>>
                      /\ \E x \in Runs : x.pc # "none" /\ run' = [run EXCEPT ![w][m] = x]
<1>5. Pc(w, m) # "none"
  BY DEF HandlerStep, Gate, TryLock, RunUnlocked, Fallback, Think, CheckAbandoned,
         CommitReply, Finish, Throw
<1> SUFFICES Goal BY <1>5
<1>6. ASSUME NEW pastBound, GiveWay(w, m, pastBound) PROVE Goal
  BY <1>3, <1>6 DEF GiveWay, RunPc
<1>7. CASE Gate(w, m)
  <2>1. CASE OlderWaiting(m) BY <1>6, <1>7, <2>1 DEF Gate
  <2>2. CASE ~OlderWaiting(m)
    <3> DEFINE x == [run[w][m] EXCEPT !.pc = "lock", !.late = m \in late]
    <3>1. run' = [run EXCEPT ![w][m] = x] /\ UNCHANGED <<turn, now, died>>
      BY <1>7, <2>2 DEF Gate
    <3>2. x.pc = "lock" BY <1>1 DEF Runs
    <3>3. x \in Runs BY <1>1, GateTypes
    <3> HIDE DEF x
    <3>4. \E y \in Runs : y.pc # "none" /\ run' = [run EXCEPT ![w][m] = y]
      BY <3>1, <3>2, <3>3
    <3> QED BY <3>1, <3>4
  <2> QED BY <2>1, <2>2
<1>8. CASE TryLock(w, m)
  <2>1. CASE lock = Nobody BY <1>4, <1>8, <2>1 DEF TryLock
  <2>2. CASE lock # Nobody BY <1>6, <1>8, <2>2 DEF TryLock
  <2> QED BY <2>1, <2>2
<1>9. CASE RunUnlocked(w, m) BY <1>4, <1>9 DEF RunUnlocked
<1>10. CASE Fallback(w, m) \/ Finish(w, m) \/ Throw(w, m)
  BY <1>10 DEF Fallback, Finish, Throw
<1>11. CASE Think(w, m) \/ CheckAbandoned(w, m) \/ CommitReply(w, m)
  <2>1. UNCHANGED <<turn, now, died>>
    BY <1>11 DEF Think, CheckAbandoned, CommitReply, past
  <2>2. To(w, m, "reply") \/ To(w, m, "finish") \/ To(w, m, "commit")
    BY <1>11 DEF Think, CheckAbandoned, CommitReply
  <2>3. \E x \in Runs : x.pc # "none" /\ run' = [run EXCEPT ![w][m] = x]
    BY <1>3, <2>2 DEF RunPc
  <2> QED BY <2>1, <2>3
<1> QED BY <1>7, <1>8, <1>9, <1>10, <1>11 DEF HandlerStep

(* A run changes by its own steps, its claim, or the end of its invocation. *)
LEMMA RunMoves ==
    ASSUME TypeOK, [Next]_vars, NEW w \in Workers, NEW m \in Msgs
    PROVE  run'[w][m] = run[w][m] \/ ClaimTurn(w, m) \/ HandlerStep(w, m) \/ Crash(w)
<1>1. run \in [Workers -> [Msgs -> Runs]] BY Columns
<1>2. ASSUME NEW v \in Workers, NEW n \in Msgs, <<v, n>> # <<w, m>>,
             ClaimTurn(v, n) \/ HandlerStep(v, n)
      PROVE  run'[w][m] = run[w][m]
  <2>1. run' = run \/ \E x : run' = [run EXCEPT ![v][n] = x]
    BY <1>2, HandlerMoves DEF ClaimTurn, To, Return
  <2> QED BY <1>1, <1>2, <2>1
<1>3. ASSUME NEW v \in Workers, Crash(v), v # w PROVE run'[w][m] = run[w][m]
  BY <1>1, <1>3 DEF Crash
<1>4. ASSUME NEW v \in Workers, NEW n \in Msgs, Deadline(v, n) PROVE run' = run
  BY <1>4 DEF Deadline
<1>5. ASSUME NEW h \in Hooks, HookStep(h) \/ HookFails(h) \/ \E n \in Msgs : Post(h, n)
      PROVE  run' = run
  BY <1>5 DEF HookStep, FastSkip, InsertTurn, MarkQueued, HookDrops, HookFails, Post, worker
<1>6. ASSUME NEW n \in Msgs, MarkExpires(n) \/ SendReply(n) \/ BoundPasses(n) \/ OpsRetry(n)
      PROVE  run' = run
  BY <1>6 DEF MarkExpires, SendReply, BoundPasses, OpsRetry, worker
<1>7. CASE LockExpires \/ UNCHANGED vars BY <1>7 DEF LockExpires, vars
<1> QED BY <1>2, <1>3, <1>4, <1>5, <1>6, <1>7 DEF Next

(* A turn's row changes by its insert, its claim, its run, the end of its
   invocation, or staff's retry. *)
LEMMA TurnMoves ==
    ASSUME TypeOK, [Next]_vars, NEW m \in Msgs
    PROVE  \/ turn'[m] = turn[m]
           \/ \E h \in Hooks : InsertTurn(h) /\ hook[h].msg = m
           \/ \E w \in Workers : \/ ClaimTurn(w, m) \/ HandlerStep(w, m)
                                 \/ Deadline(w, m) \/ Crash(w)
           \/ OpsRetry(m)
<1>1. turn \in [Msgs -> RowOf(Workers)] BY Columns
<1>2. ASSUME NEW w \in Workers, NEW n \in Msgs, n # m,
             ClaimTurn(w, n) \/ HandlerStep(w, n) \/ Deadline(w, n)
      PROVE  turn'[m] = turn[m]
  <2>1. turn' = turn \/ \E x : turn' = [turn EXCEPT ![n] = x]
    BY <1>2, HandlerMoves DEF ClaimTurn, Deadline, Return
  <2> QED BY <1>1, <1>2, <2>1
<1>3. ASSUME NEW h \in Hooks, HookStep(h) \/ HookFails(h) \/ \E n \in Msgs : Post(h, n),
             ~(InsertTurn(h) /\ hook[h].msg = m)
      PROVE  turn'[m] = turn[m]
  BY <1>1, <1>3 DEF HookStep, FastSkip, InsertTurn, MarkQueued, HookDrops, HookFails, Post, worker
<1>4. ASSUME NEW n \in Msgs, n # m, OpsRetry(n) PROVE turn'[m] = turn[m]
  BY <1>1, <1>4 DEF OpsRetry
<1>5. ASSUME NEW n \in Msgs, MarkExpires(n) \/ SendReply(n) \/ BoundPasses(n)
      PROVE  turn' = turn
  BY <1>5 DEF MarkExpires, SendReply, BoundPasses, worker
<1>6. CASE LockExpires \/ UNCHANGED vars BY <1>6 DEF LockExpires, vars
<1> QED BY <1>2, <1>3, <1>4, <1>5, <1>6 DEF Next

(* A reply's row changes by its insert, its sending, or staff's retry. *)
LEMMA ReplyMoves ==
    ASSUME TypeOK, [Next]_vars, NEW m \in Msgs
    PROVE  \/ reply'[m] = reply[m]
           \/ \E w \in Workers : /\ Fallback(w, m) \/ CommitReply(w, m)
                                 /\ HandlerStep(w, m)
           \/ SendReply(m) \/ OpsRetry(m)
<1>1. reply \in [Msgs -> RowOf(Workers)] BY Columns
<1>2. ASSUME NEW w \in Workers, NEW n \in Msgs,
             ClaimTurn(w, n) \/ HandlerStep(w, n) \/ Deadline(w, n),
             ~(n = m /\ (Fallback(w, n) \/ CommitReply(w, n)))
      PROVE  reply'[m] = reply[m]
  BY <1>1, <1>2
     DEF ClaimTurn, HandlerStep, Deadline, Gate, TryLock, RunUnlocked, Fallback, Think,
         CheckAbandoned, CommitReply, Finish, Throw
<1>3. ASSUME NEW h \in Hooks, HookStep(h) \/ HookFails(h) \/ \E n \in Msgs : Post(h, n)
      PROVE  reply' = reply
  BY <1>3 DEF HookStep, FastSkip, InsertTurn, MarkQueued, HookDrops, HookFails, Post, worker
<1>4. ASSUME NEW n \in Msgs, n # m, OpsRetry(n) \/ SendReply(n) PROVE reply'[m] = reply[m]
  BY <1>1, <1>4 DEF OpsRetry, SendReply
<1>5. ASSUME NEW n \in Msgs, MarkExpires(n) \/ BoundPasses(n) PROVE reply' = reply
  BY <1>5 DEF MarkExpires, BoundPasses, worker
<1>6. CASE LockExpires \/ UNCHANGED vars \/ \E w \in Workers : Crash(w)
  BY <1>6 DEF LockExpires, vars, Crash
<1> QED BY <1>2, <1>3, <1>4, <1>5, <1>6 DEF Next, HandlerStep

(* What an invocation awaits changes by a claim, by the return of the handler
   it awaits, at a deadline, or at its end. *)
LEMMA NowMoves ==
    ASSUME TypeOK, [Next]_vars, NEW w \in Workers
    PROVE  \/ now'[w] = now[w]
           \/ \E m \in Msgs : \/ ClaimTurn(w, m) /\ now[w] = Nobody
                              \/ HandlerStep(w, m) /\ now[w] = m
                              \/ Deadline(w, m) /\ now[w] = m
                              \/ Crash(w)
<1>1. now \in [Workers -> Msgs \cup {Nobody}] BY Columns
<1>2. ASSUME NEW v \in Workers, NEW m \in Msgs, HandlerStep(v, m)
      PROVE  now'[w] = now[w] \/ (v = w /\ now[w] = m)
  BY <1>1, <1>2, HandlerMoves DEF Return, Awaits
<1>3. ASSUME NEW v \in Workers, NEW m \in Msgs, ClaimTurn(v, m)
      PROVE  now'[w] = now[w] \/ (v = w /\ now[w] = Nobody)
  BY <1>1, <1>3 DEF ClaimTurn
<1>4. ASSUME NEW v \in Workers, NEW m \in Msgs, Deadline(v, m)
      PROVE  now'[w] = now[w] \/ (v = w /\ now[w] = m)
  BY <1>1, <1>4 DEF Deadline, Awaits
<1>5. ASSUME NEW v \in Workers, Crash(v) PROVE now'[w] = now[w] \/ (v = w /\ Msgs # {})
  BY <1>1, <1>5 DEF Crash
<1>6. ASSUME NEW h \in Hooks, HookStep(h) \/ HookFails(h) \/ \E n \in Msgs : Post(h, n)
      PROVE  now' = now
  BY <1>6 DEF HookStep, FastSkip, InsertTurn, MarkQueued, HookDrops, HookFails, Post, worker
<1>7. ASSUME NEW n \in Msgs, MarkExpires(n) \/ SendReply(n) \/ BoundPasses(n) \/ OpsRetry(n)
      PROVE  now' = now
  BY <1>7 DEF MarkExpires, SendReply, BoundPasses, OpsRetry, worker
<1>8. CASE LockExpires \/ UNCHANGED vars BY <1>8 DEF LockExpires, vars
<1> QED BY <1>2, <1>3, <1>4, <1>5, <1>6, <1>7, <1>8 DEF Next

(* What was dead once, or answered by the fallback line, is remembered. *)
LEMMA PastGrows ==
    ASSUME TypeOK, [Next]_vars
    PROVE  died \subseteq died' /\ fell \subseteq fell'
<1>1. ASSUME NEW w \in Workers, NEW m \in Msgs, ClaimTurn(w, m) \/ Deadline(w, m) \/ Crash(w)
      PROVE  died \subseteq died' /\ fell' = fell
  BY <1>1 DEF ClaimTurn, Deadline, Crash
<1>2. ASSUME NEW w \in Workers, NEW m \in Msgs, HandlerStep(w, m)
      PROVE  died \subseteq died' /\ fell \subseteq fell'
  <2>1. died \subseteq died' BY <1>2, HandlerMoves DEF Return
  <2>2. fell \subseteq fell'
    BY <1>2
       DEF HandlerStep, Gate, TryLock, RunUnlocked, Fallback, Think, CheckAbandoned,
           CommitReply, Finish, Throw, past
  <2> QED BY <2>1, <2>2
<1>3. ASSUME NEW h \in Hooks, HookStep(h) \/ HookFails(h) \/ \E n \in Msgs : Post(h, n)
      PROVE  UNCHANGED <<died, fell>>
  BY <1>3
     DEF HookStep, FastSkip, InsertTurn, MarkQueued, HookDrops, HookFails, Post, worker, past
<1>4. ASSUME NEW n \in Msgs, MarkExpires(n) \/ SendReply(n) \/ BoundPasses(n) \/ OpsRetry(n)
      PROVE  died \subseteq died' /\ fell' = fell
  BY <1>4 DEF MarkExpires, SendReply, BoundPasses, OpsRetry, worker, past
<1>5. CASE LockExpires \/ UNCHANGED vars \/ \E w \in Workers : Crash(w)
  BY <1>5 DEF LockExpires, vars, past, Crash
<1> QED BY <1>1, <1>2, <1>3, <1>4, <1>5 DEF Next

(* The worker leaves what the webhook keeps. *)
LEMMA InboundMoves ==
    ASSUME [Next]_vars
    PROVE  \/ UNCHANGED <<hook, acked, marked, dropped, queue>>
           \/ \E h \in Hooks : HookStep(h) \/ HookFails(h) \/ \E m \in Msgs : Post(h, m)
           \/ \E m \in Msgs : MarkExpires(m)
<1>1. ASSUME NEW w \in Workers, NEW m \in Msgs,
             ClaimTurn(w, m) \/ HandlerStep(w, m) \/ Deadline(w, m) \/ Crash(w)
      PROVE  UNCHANGED inbound
  BY <1>1
     DEF ClaimTurn, HandlerStep, Deadline, Gate, TryLock, RunUnlocked, Fallback, Think,
         CheckAbandoned, CommitReply, Finish, Throw, Crash
<1>2. ASSUME NEW m \in Msgs, SendReply(m) \/ BoundPasses(m) \/ OpsRetry(m)
      PROVE  UNCHANGED inbound
  BY <1>2 DEF SendReply, BoundPasses, OpsRetry
<1>3. CASE LockExpires \/ UNCHANGED vars \/ \E w \in Workers : Crash(w)
  BY <1>3 DEF LockExpires, vars, Crash, inbound
<1> QED BY <1>1, <1>2, <1>3 DEF Next, inbound

(* Answers are appended, by a turn that is thinking or by a reply row. *)
LEMMA SentMoves ==
    ASSUME TypeOK, [Next]_vars
    PROVE  \/ UNCHANGED sent
           \/ \E m \in Msgs : /\ sent' = Append(sent, m)
                              /\ \/ SendReply(m) /\ Claimable(reply[m])
                                 \/ \E w \in Workers : Think(w, m) /\ Pc(w, m) = "think"
<1>1. ASSUME NEW w \in Workers, NEW m \in Msgs,
             ClaimTurn(w, m) \/ HandlerStep(w, m) \/ Deadline(w, m),
             ~(Think(w, m) /\ sent' = Append(sent, m))
      PROVE  UNCHANGED sent
  BY <1>1
     DEF ClaimTurn, HandlerStep, Deadline, Gate, TryLock, RunUnlocked, Fallback, Think,
         CheckAbandoned, CommitReply, Finish, Throw
<1>2. ASSUME NEW h \in Hooks, HookStep(h) \/ HookFails(h) \/ \E m \in Msgs : Post(h, m)
      PROVE  UNCHANGED sent
  BY <1>2 DEF HookStep, FastSkip, InsertTurn, MarkQueued, HookDrops, HookFails, Post, worker
<1>3. ASSUME NEW m \in Msgs, MarkExpires(m) \/ BoundPasses(m) \/ OpsRetry(m)
      PROVE  UNCHANGED sent
  BY <1>3 DEF MarkExpires, BoundPasses, OpsRetry, worker
<1>4. ASSUME NEW m \in Msgs, SendReply(m) PROVE UNCHANGED sent \/ sent' = Append(sent, m)
  BY <1>4 DEF SendReply
<1>5. CASE LockExpires \/ UNCHANGED vars \/ \E w \in Workers : Crash(w)
  BY <1>5 DEF LockExpires, vars, Crash
<1> QED BY <1>1, <1>2, <1>3, <1>4, <1>5 DEF Next, SendReply, Think

-----------------------------------------------------------------------------
(* The queue grows at its end, with a message that had no row. *)
LEMMA QueueStep ==
    ASSUME TypeOK, Shape, [Next]_vars
    PROVE  /\ Listed \subseteq Listed'
           /\ \A m \in Listed' : m \in Listed \/ \E h \in Hooks : InsertTurn(h) /\ hook[h].msg = m
           /\ \A h \in Hooks : InsertTurn(h) => hook[h].msg \in Listed'
           /\ \A i, j \in DOMAIN queue' : queue'[i] = queue'[j] => i = j
           /\ \A m, n \in Msgs : n \in Listed /\ Older(m, n)' => Older(m, n)
<1>1. queue \in Seq(Msgs) BY Columns
<1>2. CASE queue' = queue /\ \A h \in Hooks : InsertTurn(h) => hook[h].msg \in Listed
  BY <1>2 DEF Listed, Older, Shape
<1>3. ASSUME NEW h \in Hooks, InsertTurn(h), turn[hook[h].msg].st = "absent"
      PROVE  /\ queue' = Append(queue, hook[h].msg) /\ hook[h].msg \in Msgs
             /\ hook[h].msg \notin Listed
  BY <1>3 DEF InsertTurn, At, Shape
<1>4. ASSUME NEW m \in Msgs, m \notin Listed, queue' = Append(queue, m)
      PROVE  /\ Listed' = Listed \cup {m}
             /\ \A i, j \in DOMAIN queue' : queue'[i] = queue'[j] => i = j
             /\ \A l, n \in Msgs : n \in Listed /\ Older(l, n)' => Older(l, n)
  <2>1. /\ Len(queue) \in Nat /\ DOMAIN queue = 1 .. Len(queue)
        /\ DOMAIN queue' = 1 .. (Len(queue) + 1)
        /\ queue'[Len(queue) + 1] = m
        /\ \A i \in 1 .. Len(queue) : queue'[i] = queue[i]
    BY <1>1, <1>4, AppendProperties, LenProperties
  <2>2. \A i \in DOMAIN queue' : i \in DOMAIN queue \/ i = Len(queue) + 1 BY <2>1
  <2>3. \A i \in DOMAIN queue : queue[i] # m BY <1>4 DEF Listed
  <2>4. Listed' = Listed \cup {m}
    <3>1. DOMAIN queue \subseteq DOMAIN queue' /\ Len(queue) + 1 \in DOMAIN queue' BY <2>1
    <3> QED BY <2>1, <2>2, <3>1 DEF Listed
  <2>5. \A i, j \in DOMAIN queue' : queue'[i] = queue'[j] => i = j
    BY <2>1, <2>2, <2>3 DEF Shape
  <2>6. ASSUME NEW l \in Msgs, NEW n \in Msgs, n \in Listed, Older(l, n)' PROVE Older(l, n)
    <3>1. PICK i \in DOMAIN queue', j \in DOMAIN queue' :
              i < j /\ queue'[i] = l /\ queue'[j] = n
      BY <2>6 DEF Older
    <3>2. j \in DOMAIN queue BY <1>4, <2>1, <2>2, <2>6, <3>1
    <3>3. i \in DOMAIN queue BY <2>1, <3>1, <3>2
    <3> QED BY <2>1, <3>1, <3>2, <3>3 DEF Older
  <2> QED BY <2>4, <2>5, <2>6
<1>5. ASSUME NEW h \in Hooks, InsertTurn(h), turn[hook[h].msg].st # "absent"
      PROVE  queue' = queue /\ hook[h].msg \in Listed
  BY <1>5 DEF InsertTurn, At, Shape
<1>6. ASSUME ~(\E h \in Hooks : InsertTurn(h)) PROVE queue' = queue
  BY <1>6, InboundMoves
     DEF HookStep, FastSkip, MarkQueued, HookDrops, HookFails, Post, MarkExpires
<1>7. ASSUME NEW h \in Hooks, InsertTurn(h), turn[hook[h].msg].st = "absent",
             NEW g \in Hooks, InsertTurn(g)
      PROVE  hook[g].msg = hook[h].msg
  <2>1. hook[g].msg \in Msgs BY <1>7 DEF InsertTurn, At, Shape
  <2>2. queue' = Append(queue, hook[h].msg) BY <1>3, <1>7
  <2>3. queue' # queue BY <1>1, <1>3, <1>7, <2>2, AppendProperties, LenProperties
  <2>4. queue' = Append(queue, hook[g].msg) BY <1>7, <2>3 DEF InsertTurn
  <2> QED BY <1>1, <1>3, <1>7, <2>1, <2>2, <2>4, AppendProperties, LenProperties
<1>8. CASE \E h \in Hooks : InsertTurn(h) /\ turn[hook[h].msg].st = "absent"
  <2>1. PICK h \in Hooks : InsertTurn(h) /\ turn[hook[h].msg].st = "absent" BY <1>8
  <2>2. queue' = Append(queue, hook[h].msg) /\ hook[h].msg \in Msgs \ Listed BY <1>3, <2>1
  <2>3. \A g \in Hooks : InsertTurn(g) => hook[g].msg = hook[h].msg BY <1>7, <2>1
  <2>4. Listed' = Listed \cup {hook[h].msg} BY <1>4, <2>2
  <2>5. /\ \A i, j \in DOMAIN queue' : queue'[i] = queue'[j] => i = j
        /\ \A l, n \in Msgs : n \in Listed /\ Older(l, n)' => Older(l, n)
    BY <1>4, <2>2
  <2> QED BY <2>1, <2>3, <2>4, <2>5
<1> QED BY <1>2, <1>5, <1>6, <1>8

(* A conversation starts with the rows of Early. *)
LEMMA ShapeInit == Init => Shape
<1> SUFFICES ASSUME Init PROVE Shape OBVIOUS
<1>1. Listed = Early
  <2> DEFINE n == Cardinality(Early)
  <2>1. IsFiniteSet(Early) /\ n \in Nat BY FS_CardinalityType, FS_Subset
  <2>2. /\ queue \in [1 .. n -> Early]
        /\ \A i, j \in DOMAIN queue : queue[i] = queue[j] => i = j
    BY DEF Init
  <2>3. DOMAIN queue = 1 .. n BY <2>2
  <2>4. queue \in Injection(1 .. n, Early)
    BY <2>2, <2>3 DEF Injection, IsInjective
  <2>5. Cardinality(1 .. n) = n BY <2>1, FS_Interval
  <2>6. queue \in Surjection(1 .. n, Early) BY <2>1, <2>4, <2>5, FS_Injection
  <2> QED BY <2>2, <2>3, <2>6 DEF Listed, Surjection
<1>2. \A m \in Msgs : turn[m].st # "absent" <=> m \in Early
  BY DEF Init, Queued, Absent
<1>3. /\ \A i, j \in DOMAIN queue : queue[i] = queue[j] => i = j
      /\ acked = Early /\ marked = {} /\ dropped = {} /\ \A h \in Hooks : hook[h].pc = "idle"
      /\ \A w \in Workers, m \in Msgs : Pc(w, m) = "none" /\ now[w] = Nobody
      /\ \A m \in Msgs : reply[m].st = "absent" /\ m # Nobody
      /\ DOMAIN sent = {}
  BY DEF Init, Absent, Pc, Idle, Nobody
<1> QED BY <1>1, <1>2, <1>3 DEF Shape

(* No step names a message that has no row. *)
LEMMA ShapeStep == TypeOK /\ Shape /\ [Next]_vars => Shape'
<1> SUFFICES ASSUME TypeOK, Shape, [Next]_vars PROVE Shape' OBVIOUS
<1>1. /\ turn \in [Msgs -> RowOf(Workers)] /\ reply \in [Msgs -> RowOf(Workers)]
      /\ run \in [Workers -> [Msgs -> Runs]] /\ now \in [Workers -> Msgs \cup {Nobody}]
      /\ \A h \in Hooks : hook[h] \in [pc : {"idle", "look", "insert", "mark"},
                                       msg : Msgs \cup {Nobody}]
  BY Columns
<1>0. /\ \A m \in Msgs : turn[m].st # "absent" => m \in Listed
      /\ \A m \in Msgs : reply[m].st # "absent" => m \in Listed
      /\ \A w \in Workers, m \in Msgs : Pc(w, m) # "none" => m \in Listed
      /\ \A i \in DOMAIN sent : sent[i] \in Listed
  BY DEF Shape
<1>2. acked' \subseteq Listed' \cup dropped' /\ marked' \subseteq Listed'
  <2> DEFINE Backed == /\ acked' \subseteq Listed \cup dropped'
                       /\ marked' \subseteq Listed
  <2>1. ASSUME NEW h \in Hooks, HookStep(h) \/ HookFails(h) \/ \E m \in Msgs : Post(h, m)
        PROVE  Backed
    <3>1. CASE FastSkip(h) BY <3>1 DEF FastSkip, Shape
    <3>2. CASE HookDrops(h) BY <3>2 DEF HookDrops, Shape
    <3>3. CASE MarkQueued(h) BY <3>3 DEF MarkQueued, At, Shape
    <3>4. CASE InsertTurn(h) \/ HookFails(h) \/ \E m \in Msgs : Post(h, m)
      BY <3>4 DEF InsertTurn, HookFails, Post, Shape
    <3> QED BY <2>1, <3>1, <3>2, <3>3, <3>4 DEF HookStep
  <2>2. Backed
    BY <2>1, InboundMoves DEF MarkExpires, Shape
  <2> QED BY <2>2, QueueStep
<1>3. ASSUME NEW m \in Msgs PROVE turn'[m].st # "absent" <=> m \in Listed'
  <2>1. turn[m] \in RowOf(Workers) BY <1>1
  <2>2. ASSUME NEW h \in Hooks, InsertTurn(h), hook[h].msg = m
        PROVE  turn'[m].st # "absent" /\ m \in Listed'
    <3>1. Enqueue(turn[m]).st # "absent" BY DEF Enqueue, Queued, Absent
    <3>2. turn'[m] = Enqueue(turn[m]) BY <1>1, <2>2 DEF InsertTurn
    <3> QED BY <2>2, <3>1, <3>2, QueueStep
  <2>3. ASSUME NEW w \in Workers, ClaimTurn(w, m)
        PROVE  turn[m].st # "absent" /\ turn'[m].st # "absent"
    <3>1. turn[m].st # "absent" BY <2>3 DEF ClaimTurn, Claimable, Waiting
    <3>2. Claimed(turn[m], w) \in RowOf(Workers) BY <2>1, RowTypes
    <3>3. Claimed(turn[m], w).st # "absent" BY DEF Claimed
    <3>4. Ceiling \in Nat OBVIOUS
    <3>5. MarkFailed(Claimed(turn[m], w), Ceiling).st # "absent" BY <3>2, <3>4, RowColumns
    <3> QED BY <1>1, <2>3, <3>1, <3>3, <3>5 DEF ClaimTurn
  <2>4. ASSUME NEW w \in Workers, HandlerStep(w, m)
        PROVE  turn[m].st # "absent" /\ turn'[m].st # "absent"
    <3>1. turn[m].st # "absent" BY <2>4, HandlerMoves DEF Shape
    <3>2. Ceiling \in Nat OBVIOUS
    <3>3. /\ MarkDone(turn[m]).st # "absent" /\ DeferUncharged(turn[m]).st # "absent"
          /\ MarkFailed(turn[m], Ceiling).st # "absent"
      BY <2>1, <3>2, RowColumns
    <3> QED BY <1>1, <2>4, <3>1, <3>3, HandlerMoves DEF Return
  <2>5. ASSUME NEW w \in Workers, Deadline(w, m)
        PROVE  turn[m].st # "absent" /\ turn'[m].st # "absent"
    <3>1. turn[m].st # "absent" BY <2>5 DEF Deadline, Awaits, Shape
    <3>2. MarkFailed(turn[m], 0).st # "absent" BY <2>1, RowColumns
    <3> QED BY <1>1, <2>5, <3>1, <3>2 DEF Deadline
  <2>6. ASSUME NEW w \in Workers, Crash(w) PROVE turn'[m].st = turn[m].st
    BY <1>1, <2>1, <2>6 DEF Crash, RowOf
  <2>7. CASE OpsRetry(m)
    <3>1. RetryDead(turn[m]).st = "pending" BY <2>1, RowColumns
    <3> QED BY <1>1, <2>7, <3>1, QueueStep DEF OpsRetry, MayRetryDead, Shape
  <2>8. CASE \E h \in Hooks : InsertTurn(h) /\ hook[h].msg = m BY <2>2, <2>8
  <2>9. CASE ~(\E h \in Hooks : InsertTurn(h) /\ hook[h].msg = m)
    <3>1. m \in Listed' <=> m \in Listed BY <2>9, QueueStep
    <3>2. turn'[m].st # "absent" <=> turn[m].st # "absent"
      <4>1. CASE OpsRetry(m) BY <2>7, <3>1, <4>1 DEF Shape
      <4>2. CASE turn'[m] = turn[m] BY <4>2
      <4> QED BY <2>3, <2>4, <2>5, <2>6, <2>9, <4>1, <4>2, TurnMoves
    <3> QED BY <3>1, <3>2 DEF Shape
  <2> QED BY <2>8, <2>9
<1>4. ASSUME NEW h \in Hooks
      PROVE  /\ hook'[h].pc # "idle" => hook'[h].msg \in Msgs
             /\ hook'[h].pc = "mark" => hook'[h].msg \in Listed'
  <2>1. hook \in [Hooks -> [pc : {"idle", "look", "insert", "mark"},
                            msg : Msgs \cup {Nobody}]]
    BY Columns
  <2>2. /\ hook[h].pc # "idle" => hook[h].msg \in Msgs
        /\ hook[h].pc = "mark" => hook[h].msg \in Listed
    BY DEF Shape
  <2>3. CASE hook'[h] = hook[h] BY <2>2, <2>3, QueueStep
  <2>4. ASSUME NEW g \in Hooks, g # h,
               HookStep(g) \/ HookFails(g) \/ \E m \in Msgs : Post(g, m)
        PROVE  hook'[h] = hook[h]
    BY <2>1, <2>4
       DEF HookStep, FastSkip, InsertTurn, MarkQueued, HookDrops, HookFails, Post, HookTo, HookEnds
  <2>5. CASE FastSkip(h) \/ HookDrops(h) \/ MarkQueued(h) \/ HookFails(h)
    <3>1. hook'[h].pc \in {"idle", "insert"} /\ (hook'[h].pc = "insert" => FastSkip(h))
      BY <2>1, <2>5 DEF FastSkip, MarkQueued, HookDrops, HookFails, HookTo, HookEnds
    <3>2. hook'[h].pc = "insert" => hook'[h].msg = hook[h].msg /\ hook[h].pc = "look"
      BY <2>1, <3>1 DEF FastSkip, HookTo, HookEnds, At
    <3> QED BY <2>2, <3>1, <3>2
  <2>6. CASE InsertTurn(h)
    <3>1. hook'[h].msg = hook[h].msg BY <2>1, <2>6 DEF InsertTurn, HookTo
    <3>2. hook[h].pc = "insert" BY <2>6 DEF InsertTurn, At
    <3> QED BY <2>2, <2>6, <3>1, <3>2, QueueStep
  <2>7. ASSUME NEW m \in Msgs, Post(h, m)
        PROVE  hook'[h].pc = "look" /\ hook'[h].msg \in Msgs
    BY <2>1, <2>7 DEF Post
  <2>8. ASSUME NEW m \in Msgs, MarkExpires(m) PROVE hook' = hook BY <2>8 DEF MarkExpires
  <2> QED BY <2>3, <2>4, <2>5, <2>6, <2>7, <2>8, InboundMoves DEF HookStep
<1>5. ASSUME NEW w \in Workers, NEW m \in Msgs, run'[w][m].pc # "none" \/ now'[w] = m
      PROVE  m \in Listed'
  <2>1. CASE ClaimTurn(w, m)
    <3>1. turn[m].st # "absent" BY <2>1 DEF ClaimTurn, Claimable, Waiting
    <3> QED BY <3>1, QueueStep DEF Shape
  <2>2. CASE ~ClaimTurn(w, m) /\ run'[w][m].pc # "none"
    <3>1. CASE HandlerStep(w, m) BY <3>1, HandlerMoves, QueueStep DEF Shape
    <3>2. ~Crash(w) BY <1>1, <2>2 DEF Crash, Idle
    <3> QED BY <2>2, <3>1, <3>2, RunMoves, QueueStep DEF Shape, Pc
  <2>3. CASE ~ClaimTurn(w, m) /\ now'[w] = m
    <3>1. now[w] = m
      <4>1. m # Nobody BY DEF Nobody
      <4>2. now'[w] \in {now[w], Nobody}
        <5>1. ASSUME NEW n \in Msgs, ClaimTurn(w, n) PROVE now'[w] \in {now[w], n}
          BY <1>1, <5>1 DEF ClaimTurn
        <5>2. ASSUME NEW n \in Msgs, HandlerStep(w, n) \/ Deadline(w, n) \/ Crash(w)
              PROVE  now'[w] \in {now[w], Nobody}
          BY <1>1, <5>2, HandlerMoves DEF Deadline, Crash, Return
        <5> QED BY <2>3, <5>1, <5>2, NowMoves
      <4> QED BY <2>3, <4>1, <4>2
    <3> QED BY <3>1, QueueStep DEF Shape
  <2> QED BY <1>5, <2>1, <2>2, <2>3
<1>6. ASSUME NEW m \in Msgs, reply'[m].st # "absent" PROVE m \in Listed'
  <2>1. ASSUME NEW w \in Workers, HandlerStep(w, m) PROVE m \in Listed
    BY <2>1, HandlerMoves DEF Shape
  <2>2. CASE SendReply(m) BY <1>0, <2>2, QueueStep DEF SendReply, Claimable, Waiting
  <2>3. CASE OpsRetry(m)
    <3>1. turn[m].st # "absent" \/ reply[m].st # "absent"
      BY <2>3 DEF OpsRetry, MayRetryDead
    <3> QED BY <1>0, <3>1, QueueStep
  <2>4. CASE reply'[m] = reply[m] BY <1>0, <1>6, <2>4, QueueStep
  <2> QED BY <2>1, <2>2, <2>3, <2>4, ReplyMoves, QueueStep
<1>7. ASSUME NEW i \in DOMAIN sent' PROVE sent'[i] \in Listed'
  <2>1. sent \in Seq(Msgs) BY Columns
  <2>2. ASSUME NEW m \in Msgs, m \in Listed, sent' = Append(sent, m)
        PROVE  sent'[i] \in Listed
    <3>1. (i \in DOMAIN sent /\ sent'[i] = sent[i]) \/ sent'[i] = m
      BY <2>1, <2>2, AppendProperties, LenProperties
    <3> QED BY <2>2, <3>1 DEF Shape
  <2>3. \A m \in Msgs : Claimable(reply[m]) => m \in Listed
    BY <1>0 DEF Claimable, Waiting
  <2>4. \A w \in Workers, m \in Msgs : Pc(w, m) = "think" => m \in Listed BY <1>0
  <2>5. CASE UNCHANGED sent BY <1>0, <2>5, QueueStep
  <2> QED BY <2>2, <2>3, <2>4, <2>5, SentMoves, QueueStep
<1>8. \A i, j \in DOMAIN queue' : queue'[i] = queue'[j] => i = j BY QueueStep
<1> QED BY <1>2, <1>3, <1>4, <1>5, <1>6, <1>7, <1>8 DEF Shape, Pc

-----------------------------------------------------------------------------
(* The lock. *)

(* What the step of a handler does to its run, the lock and the history. *)
Leaves(w, m) ==
    /\ run'[w][m].pc \in {"none", "lock", "fallback"} /\ ~run'[w][m].held
    /\ lock' = lock \/ (run[w][m].held /\ lock = m)
    /\ UNCHANGED <<bare, history>>
Takes(w, m) ==
    /\ lock = Nobody /\ lock' = m /\ UNCHANGED <<bare, history>>
    /\ run'[w][m].pc = "think" /\ run'[w][m].held /\ run'[w][m].saw = history
RunsBare(w, m) ==
    /\ bare' = bare \cup {m} /\ UNCHANGED <<lock, history>>
    /\ run'[w][m].pc = "think" /\ ~run'[w][m].held
Works(w, m) ==
    /\ Working(w, m) /\ run'[w][m].held = run[w][m].held
    /\ run'[w][m].pc \in {"reply", "commit", "finish"}
    /\ UNCHANGED <<bare, lock>>
    /\ Pc(w, m) = "think" \/ UNCHANGED history

LEMMA HoldMoves ==
    ASSUME TypeOK, Locked, NEW w \in Workers, NEW m \in Msgs, HandlerStep(w, m)
    PROVE  Leaves(w, m) \/ Takes(w, m) \/ RunsBare(w, m) \/ Works(w, m)
<1>1. run \in [Workers -> [Msgs -> Runs]] /\ run[w][m] \in Runs BY Columns
<1>2. run[w][m].held => Working(w, m) BY DEF Locked
<1>3. ASSUME NEW pc, To(w, m, pc) PROVE run'[w][m] = [run[w][m] EXCEPT !.pc = pc]
  BY <1>1, <1>3 DEF To
<1>4. ASSUME NEW pc, To(w, m, pc)
      PROVE  run'[w][m].pc = pc /\ run'[w][m].held = run[w][m].held
  <2>1. run'[w][m] = [run[w][m] EXCEPT !.pc = pc] BY <1>3, <1>4
  <2> QED BY <1>1, <2>1 DEF Runs
<1>5. ASSUME NEW row, Return(w, m, row) PROVE run'[w][m].pc = "none" /\ ~run'[w][m].held
  BY <1>1, <1>5 DEF Return, Idle
<1>7. ASSUME NEW held \in BOOLEAN, Thinking(w, m, held)
      PROVE  run'[w][m].pc = "think" /\ run'[w][m].held = held /\ run'[w][m].saw = history
  <2>1. run'[w][m] = [run[w][m] EXCEPT !.pc = "think", !.held = held, !.saw = history]
    BY <1>1, <1>7 DEF Thinking
  <2> QED BY <1>1, <2>1 DEF Runs
<1>8. CASE Gate(w, m)
  <2>1. ~run[w][m].held BY <1>2, <1>8 DEF Gate, Working
  <2>2. UNCHANGED <<bare, history, lock>> BY <1>8 DEF Gate
  <2>3. CASE OlderWaiting(m)
    <3>1. GiveWay(w, m, m \in late) BY <1>8, <2>3 DEF Gate
    <3>2. run'[w][m].pc \in {"none", "fallback"} /\ ~run'[w][m].held
      BY <2>1, <3>1, <1>4, <1>5 DEF GiveWay
    <3> QED BY <2>2, <3>2 DEF Leaves
  <2>4. CASE ~OlderWaiting(m)
    <3> DEFINE x == [run[w][m] EXCEPT !.pc = "lock", !.late = m \in late]
    <3>1. x.pc = "lock" /\ x.held = run[w][m].held BY <1>1 DEF Runs
    <3>2. run' = [run EXCEPT ![w][m] = x] BY <1>8, <2>4 DEF Gate
    <3> HIDE DEF x
    <3>3. run'[w][m] = x BY <1>1, <3>2
    <3> QED BY <2>1, <2>2, <3>1, <3>3 DEF Leaves
  <2> QED BY <2>3, <2>4
<1>9. CASE TryLock(w, m)
  <2>1. CASE lock = Nobody
    <3>1. Thinking(w, m, TRUE) /\ lock' = m /\ UNCHANGED <<bare, history>>
      BY <1>9, <2>1 DEF TryLock
    <3> QED BY <1>7, <2>1, <3>1 DEF Takes
  <2>2. CASE lock # Nobody
    <3>1. GiveWay(w, m, run[w][m].late) /\ UNCHANGED <<lock, bare, history>>
      BY <1>9, <2>2 DEF TryLock
    <3>2. ~run[w][m].held BY <1>2, <1>9 DEF TryLock, Working
    <3>3. run'[w][m].pc \in {"none", "fallback"} /\ ~run'[w][m].held
      BY <3>1, <3>2, <1>4, <1>5 DEF GiveWay
    <3> QED BY <3>1, <3>3 DEF Leaves
  <2> QED BY <2>1, <2>2
<1>10. CASE RunUnlocked(w, m)
  <2>1. Thinking(w, m, FALSE) /\ bare' = bare \cup {m} /\ UNCHANGED <<lock, history>>
    BY <1>10 DEF RunUnlocked
  <2> QED BY <1>7, <2>1 DEF RunsBare
<1>11. CASE Fallback(w, m) \/ Finish(w, m) \/ Throw(w, m)
  <2>1. run'[w][m].pc = "none" /\ ~run'[w][m].held
    BY <1>5, <1>11 DEF Fallback, Finish, Throw
  <2>2. lock' = lock \/ (run[w][m].held /\ lock = m)
    BY <1>11 DEF Fallback, Finish, Throw, ReleaseLock
  <2>3. UNCHANGED <<bare, history>> BY <1>11 DEF Fallback, Finish, Throw
  <2> QED BY <2>1, <2>2, <2>3 DEF Leaves
<1>12. CASE Think(w, m) \/ CheckAbandoned(w, m) \/ CommitReply(w, m)
  <2>1. To(w, m, "reply") \/ To(w, m, "finish") \/ To(w, m, "commit")
    BY <1>12 DEF Think, CheckAbandoned, CommitReply
  <2>2. UNCHANGED <<bare, lock>> /\ Working(w, m)
    BY <1>12 DEF Think, CheckAbandoned, CommitReply, past, Working
  <2>3. Pc(w, m) = "think" \/ UNCHANGED history
    BY <1>12 DEF Think, CheckAbandoned, CommitReply
  <2> QED BY <1>4, <2>1, <2>2, <2>3 DEF Works
<1> QED BY <1>8, <1>9, <1>10, <1>11, <1>12 DEF HandlerStep

(* Nothing but a handler's step and time touches the lock. *)
LEMMA LockMoves ==
    ASSUME TypeOK, [Next]_vars
    PROVE  \/ UNCHANGED <<lock, bare, history>>
           \/ \E w \in Workers, m \in Msgs : HandlerStep(w, m)
           \/ LockExpires
<1>1. ASSUME NEW w \in Workers, NEW m \in Msgs, ClaimTurn(w, m) \/ Deadline(w, m)
      PROVE  UNCHANGED <<lock, bare, history>>
  BY <1>1 DEF ClaimTurn, Deadline
<1>2. ASSUME NEW h \in Hooks, HookStep(h) \/ HookFails(h) \/ \E n \in Msgs : Post(h, n)
      PROVE  UNCHANGED <<lock, bare, history>>
  BY <1>2
     DEF HookStep, FastSkip, InsertTurn, MarkQueued, HookDrops, HookFails, Post, worker, past
<1>3. ASSUME NEW n \in Msgs, MarkExpires(n) \/ SendReply(n) \/ BoundPasses(n) \/ OpsRetry(n)
      PROVE  UNCHANGED <<lock, bare, history>>
  BY <1>3 DEF MarkExpires, SendReply, BoundPasses, OpsRetry, worker, past
<1>4. ASSUME NEW w \in Workers, Crash(w) PROVE UNCHANGED <<lock, bare, history>>
  BY <1>4 DEF Crash
<1>5. CASE UNCHANGED vars BY <1>5 DEF vars, past
<1> QED BY <1>1, <1>2, <1>3, <1>4, <1>5 DEF Next

(* The step of a run leaves the others alone, or is its end or its start. *)
LEMMA OtherRuns ==
    ASSUME TypeOK, Locked, [Next]_vars, NEW w \in Workers, NEW m \in Msgs
    PROVE  \/ run'[w][m] = run[w][m]
           \/ HandlerStep(w, m)
           \/ run'[w][m].pc \in {"none", "gate"} /\ ~run'[w][m].held
<1>1. run \in [Workers -> [Msgs -> Runs]] /\ run[w][m] \in Runs BY Columns
<1>2. CASE ClaimTurn(w, m)
  <2>1. ~run[w][m].held BY <1>2 DEF ClaimTurn, Locked, Working
  <2>2. run' = run \/ To(w, m, "gate") BY <1>2 DEF ClaimTurn
  <2>3. ASSUME To(w, m, "gate") PROVE run'[w][m] = [run[w][m] EXCEPT !.pc = "gate"]
    BY <1>1, <2>3 DEF To
  <2> QED BY <1>1, <2>1, <2>2, <2>3 DEF Runs
<1>3. CASE Crash(w) BY <1>1, <1>3 DEF Crash, Idle
<1> QED BY <1>2, <1>3, RunMoves

(* No step takes a held lock, or leaves a holder outside its turn. *)
LEMMA LockedStep == TypeOK /\ Locked /\ [Next]_vars => Locked'
<1> SUFFICES ASSUME TypeOK, Locked, [Next]_vars PROVE Locked' OBVIOUS
<1>1. \A w \in Workers, m \in Msgs :
          /\ run[w][m].held => Working(w, m) /\ lock = m /\ lock # Nobody
          /\ Working(w, m) /\ m \notin bare => run[w][m].held
          /\ bare = {} /\ Pc(w, m) = "think" => run[w][m].saw = history
  BY DEF Locked, Nobody
<1>2. \A w, v \in Workers, m, n \in Msgs :
          run[w][m].held /\ run[v][n].held => w = v /\ m = n
  BY <1>1 DEF Locked
<1>3. bare \subseteq bare'
  BY LockMoves, HoldMoves DEF Leaves, Takes, RunsBare, Works, LockExpires, past
<1>4. ASSUME NEW w \in Workers, NEW m \in Msgs, run[w][m].held, run'[w][m].held
      PROVE  lock' = lock
  <2>1. ASSUME NEW v \in Workers, NEW n \in Msgs, HandlerStep(v, n) PROVE lock' = lock
    <3>1. CASE Leaves(v, n) BY <1>1, <1>2, <1>4, <3>1 DEF Leaves
    <3>2. ~Takes(v, n) BY <1>1, <1>4 DEF Takes
    <3> QED BY <2>1, <3>1, <3>2, HoldMoves DEF RunsBare, Works
  <2>2. ~LockExpires BY <1>1, <1>4 DEF LockExpires, LockRunsOut
  <2> QED BY <2>1, <2>2, LockMoves
<1>5. ASSUME NEW w \in Workers, NEW m \in Msgs, ~run[w][m].held, run'[w][m].held
      PROVE  Takes(w, m)
  <2>1. HandlerStep(w, m) BY <1>5, OtherRuns
  <2> QED BY <1>5, <2>1, HoldMoves DEF Leaves, RunsBare, Works
<1>6. ASSUME NEW w \in Workers, NEW m \in Msgs, run'[w][m].held
      PROVE  run'[w][m].pc \in {"think", "reply", "commit", "finish"} /\ lock' = m
  <2>1. CASE run[w][m].held
    <3>1. lock' = m BY <1>1, <1>4, <1>6, <2>1
    <3>2. CASE run'[w][m] = run[w][m] BY <1>1, <2>1, <3>1, <3>2 DEF Working, Pc
    <3>3. CASE HandlerStep(w, m)
      BY <1>6, <3>1, <3>3, HoldMoves DEF Leaves, Takes, RunsBare, Works
    <3> QED BY <1>6, <3>2, <3>3, OtherRuns
  <2>2. CASE ~run[w][m].held BY <1>5, <1>6, <2>2 DEF Takes
  <2> QED BY <2>1, <2>2
<1>7. ASSUME NEW w \in Workers, NEW m \in Msgs, m \notin bare',
             run'[w][m].pc \in {"think", "reply", "commit", "finish"}
      PROVE  run'[w][m].held
  <2>1. CASE run'[w][m] = run[w][m] BY <1>1, <1>3, <1>7, <2>1 DEF Working, Pc
  <2>2. CASE HandlerStep(w, m)
    <3>1. ~Leaves(w, m) /\ ~RunsBare(w, m) BY <1>7 DEF Leaves, RunsBare
    <3>2. Works(w, m) => run[w][m].held BY <1>1, <1>3, <1>7 DEF Works
    <3> QED BY <2>2, <3>1, <3>2, HoldMoves DEF Takes, Works
  <2> QED BY <1>7, <2>1, <2>2, OtherRuns
<1>8. ASSUME NEW w \in Workers, NEW m \in Msgs, bare' = {}, run'[w][m].pc = "think"
      PROVE  run'[w][m].saw = history'
  <2>1. CASE HandlerStep(w, m)
    BY <1>8, <2>1, HoldMoves DEF Leaves, Takes, RunsBare, Works
  <2>2. CASE run'[w][m] = run[w][m] /\ ~HandlerStep(w, m)
    <3>1. bare = {} /\ Pc(w, m) = "think" BY <1>3, <1>8, <2>2 DEF Pc
    <3>2. run[w][m].saw = history /\ run[w][m].held BY <1>1, <3>1 DEF Working
    <3>3. ASSUME NEW v \in Workers, NEW n \in Msgs, HandlerStep(v, n)
          PROVE  history' = history
      <4>1. ~(Works(v, n) /\ Pc(v, n) = "think")
        <5>1. <<v, n>> # <<w, m>> BY <2>2, <3>3
        <5>2. ~run[v][n].held BY <1>2, <3>2, <5>1
        <5> QED BY <1>1, <3>1, <5>2 DEF Works
      <4> QED BY <3>3, <4>1, HoldMoves DEF Leaves, Takes, RunsBare, Works
    <3>4. history' = history BY <3>3, LockMoves DEF LockExpires
    <3> QED BY <2>2, <3>2, <3>4
  <2> QED BY <1>8, <2>1, <2>2, OtherRuns
<1>9. ASSUME NEW w \in Workers, NEW v \in Workers, NEW m \in Msgs,
             run'[w][m].held, run'[v][m].held
      PROVE  w = v
  <2>1. CASE run[w][m].held /\ run[v][m].held BY <1>2, <2>1
  <2>2. CASE ~run[w][m].held /\ run[v][m].held
    BY <1>1, <1>5, <1>9, <2>2 DEF Takes
  <2>3. CASE run[w][m].held /\ ~run[v][m].held
    BY <1>1, <1>5, <1>9, <2>3 DEF Takes
  <2>4. CASE ~run[w][m].held /\ ~run[v][m].held
    <3>1. HandlerStep(w, m) /\ HandlerStep(v, m) BY <1>9, <2>4, OtherRuns
    <3>2. ASSUME w # v PROVE FALSE
      <4>1. run'[v][m] = run[v][m]
        <5>1. run \in [Workers -> [Msgs -> Runs]] BY Columns
        <5>2. run' = run \/ \E x : run' = [run EXCEPT ![w][m] = x]
          BY <3>1, HandlerMoves DEF Return
        <5> QED BY <3>2, <5>1, <5>2
      <4> QED BY <1>9, <2>4, <4>1
    <3> QED BY <3>2
  <2> QED BY <2>1, <2>2, <2>3, <2>4
<1> QED BY <1>6, <1>7, <1>8, <1>9 DEF Locked, Working, Pc

-----------------------------------------------------------------------------
(* Rows and who runs them. *)

(* What a row that was never dead goes through. *)
LEMMA TurnGoes ==
    ASSUME TypeOK, Attended, [Next]_vars, NEW m \in Msgs \ died'
    PROVE  \/ turn'[m] = turn[m]
           \/ turn[m].st = "absent" /\ turn'[m].st = "pending"
           \/ /\ Claimable(turn[m]) /\ turn'[m].st = "processing"
              /\ \E w \in Workers : turn'[m].lease = w /\ now'[w] = m /\ ClaimTurn(w, m)
           \/ \E w \in Workers : /\ HandlerStep(w, m) /\ run'[w][m].pc = "none"
                                 /\ turn'[m].st # "dead"
           \/ \E w \in Workers : Crash(w) /\ turn'[m].st = turn[m].st /\ turn[m].lease = w
<1>1. m \in Msgs /\ m \notin died BY PastGrows
<1>2. /\ turn \in [Msgs -> RowOf(Workers)] /\ turn[m] \in RowOf(Workers)
      /\ run \in [Workers -> [Msgs -> Runs]] /\ now \in [Workers -> Msgs \cup {Nobody}]
  BY <1>1, Columns
<1>3. ASSUME NEW h \in Hooks, InsertTurn(h), hook[h].msg = m
      PROVE turn'[m] = turn[m] \/ (turn[m].st = "absent" /\ turn'[m].st = "pending")
  BY <1>1, <1>2, <1>3 DEF InsertTurn, Enqueue, Queued, Absent
<1>4. ASSUME NEW w \in Workers, ClaimTurn(w, m)
      PROVE  /\ Claimable(turn[m]) /\ turn'[m].st = "processing"
             /\ turn'[m].lease = w /\ now'[w] = m
  <2>1. ~Poisoned(Claimed(turn[m], w), Ceiling) BY <1>4 DEF ClaimTurn
  <2>2. turn'[m] = Claimed(turn[m], w) /\ now'[w] = m /\ Claimable(turn[m])
    BY <1>1, <1>2, <1>4, <2>1 DEF ClaimTurn
  <2> QED BY <2>2 DEF Claimed
<1>5. ASSUME NEW w \in Workers, HandlerStep(w, m), turn'[m] # turn[m]
      PROVE  run'[w][m].pc = "none" /\ turn'[m].st # "dead"
  <2>1. PICK row : Return(w, m, row) BY <1>5, HandlerMoves
  <2>2. run'[w][m].pc = "none" BY <1>1, <1>2, <2>1 DEF Return, Idle
  <2>3. turn'[m] = row /\ Owns(turn[m], w) /\ Awaits(w, m)
    BY <1>1, <1>2, <1>5, <2>1 DEF Return
  <2>4. row.st # "dead" BY <2>1, <2>3 DEF Return
  <2> QED BY <2>2, <2>3, <2>4
<1>6. ASSUME NEW w \in Workers PROVE ~Deadline(w, m) BY DEF Deadline
<1>7. ASSUME NEW w \in Workers, Crash(w), turn'[m] # turn[m]
      PROVE  turn'[m].st = turn[m].st /\ turn[m].lease = w
  BY <1>1, <1>2, <1>7 DEF Crash, Owns, RowOf
<1>8. ~OpsRetry(m) BY <1>1 DEF OpsRetry, MayRetryDead, Attended
<1> QED BY <1>1, <1>3, <1>4, <1>5, <1>6, <1>7, <1>8, TurnMoves

LEMMA ReplyGoes ==
    ASSUME TypeOK, Attended, [Next]_vars, NEW m \in Msgs \ died'
    PROVE  /\ reply'[m].st # "dead"
           /\ \/ reply'[m] = reply[m]
              \/ \E w \in Workers : HandlerStep(w, m)
              \/ Claimable(reply[m])
<1>1. m \in Msgs /\ m \notin died /\ reply[m].st # "dead" BY PastGrows DEF Attended
<1>2. reply \in [Msgs -> RowOf(Workers)] /\ reply[m] \in RowOf(Workers) BY <1>1, Columns
<1>3. ~OpsRetry(m) BY <1>1 DEF OpsRetry, MayRetryDead, Attended
<1>4. ASSUME NEW w \in Workers, Fallback(w, m) \/ CommitReply(w, m)
      PROVE  reply'[m].st # "dead"
  <2>1. reply'[m] = Enqueue(reply[m]) BY <1>1, <1>2, <1>4 DEF Fallback, CommitReply
  <2> QED BY <1>1, <2>1 DEF Enqueue, Queued, Absent
<1>5. CASE SendReply(m)
  <2> DEFINE row == Claimed(reply[m], NoOwner)
  <2>1. NoOwner \in Workers \cup {NoOwner} OBVIOUS
  <2>2. row \in RowOf(Workers) /\ row.st = "processing" BY <1>2, <2>1, RowTypes DEF Claimed
  <2>3. MarkDone(row).st = "done" BY <2>2, RowColumns
  <2>4. MarkFailed(row, Ceiling).st = IF row.attempts >= Ceiling THEN "dead" ELSE "failed"
    BY <2>2 DEF MarkFailed, RowOf
  <2>5. \/ row.attempts >= Ceiling /\ reply'[m] = MarkFailed(row, Ceiling) => m \in died'
        \/ reply'[m] \in {row, MarkDone(row)}
    BY <1>1, <1>2, <1>5 DEF SendReply
  <2>6. reply'[m] \in {row, MarkDone(row), MarkFailed(row, Ceiling)}
    BY <1>1, <1>2, <1>5 DEF SendReply
  <2>7. Claimable(reply[m]) BY <1>5 DEF SendReply
  <2> HIDE DEF row
  <2> QED BY <2>2, <2>3, <2>4, <2>5, <2>6, <2>7
<1> QED BY <1>1, <1>3, <1>4, <1>5, ReplyMoves

(* Until its row has been dead, a turn is run by the owner of its row. *)
LEMMA AttendedStep == TypeOK /\ Attended /\ [Next]_vars => Attended'
<1> SUFFICES ASSUME TypeOK, Attended, [Next]_vars, NEW m \in Msgs \ died'
             PROVE  /\ turn'[m].st # "dead" /\ reply'[m].st # "dead"
                    /\ \A w \in Workers : run'[w][m].pc # "none" =>
                          /\ turn'[m].st = "processing" /\ turn'[m].lease = w
                          /\ now'[w] = m
  BY DEF Attended, Pc
<1>1. m \in Msgs /\ m \notin died BY PastGrows
<1>2. /\ turn[m].st # "dead"
      /\ \A w \in Workers : Pc(w, m) # "none" =>
            turn[m].st = "processing" /\ turn[m].lease = w /\ now[w] = m
  BY <1>1 DEF Attended
<1>3. run \in [Workers -> [Msgs -> Runs]] BY Columns
<1>4. turn'[m].st # "dead" BY <1>2, TurnGoes
<1>5. ASSUME NEW w \in Workers, run'[w][m].pc # "none"
      PROVE  turn'[m].st = "processing" /\ turn'[m].lease = w /\ now'[w] = m
  <2>1. ~Crash(w) BY <1>1, <1>3, <1>5 DEF Crash, Idle
  <2>2. CASE ClaimTurn(w, m)
    <3>1. ~Poisoned(Claimed(turn[m], w), Ceiling) BY <2>2 DEF ClaimTurn
    <3>2. turn'[m] = Claimed(turn[m], w) /\ now'[w] = m
      BY <1>1, <2>2, <3>1, Columns DEF ClaimTurn
    <3> QED BY <3>2 DEF Claimed
  <2>3. CASE ~ClaimTurn(w, m)
    <3>1. Pc(w, m) # "none"
      BY <1>1, <1>5, <2>1, <2>3, RunMoves, HandlerMoves DEF Pc
    <3>2. turn[m].st = "processing" /\ turn[m].lease = w /\ now[w] = m BY <1>2, <3>1
    <3>3. w # NoOwner /\ m # Nobody BY DEF Nobody
    <3>4. \A v \in Workers : HandlerStep(v, m) => v = w
      BY <1>1, <1>2, <3>2, HandlerMoves
    <3>5. turn'[m] = turn[m]
      BY <1>5, <2>1, <3>2, <3>3, <3>4, TurnGoes DEF Claimable, Waiting
    <3>6. now'[w] = now[w]
      <4>1. \A n \in Msgs : ~Deadline(w, n) \/ now[w] # n BY <3>2 DEF Deadline
      <4>2. ASSUME HandlerStep(w, m) PROVE UNCHANGED now
        BY <1>1, <1>3, <1>5, <4>2, HandlerMoves DEF Return, Idle
      <4> QED BY <2>1, <3>2, <3>3, <4>1, <4>2, NowMoves
    <3> QED BY <3>2, <3>5, <3>6
  <2> QED BY <2>2, <2>3
<1> QED BY <1>4, <1>5, ReplyGoes

-----------------------------------------------------------------------------
(* The order of the answers. *)

(* A turn that came to its end stays there, unless it was dead. *)
LEMMA SettledStays ==
    ASSUME TypeOK, Shape, Attended, [Next]_vars, NEW m \in Msgs, m \in Listed, Settled(m)
    PROVE  Settled(m)'
<1> SUFFICES ASSUME m \notin died' PROVE ~Live(turn'[m]) /\ ~Live(reply'[m])
  BY DEF Settled
<1>1. m \notin died BY PastGrows
<1>2. /\ ~Live(turn[m]) /\ ~Live(reply[m])
      /\ turn[m].st # "absent"
  BY <1>1 DEF Settled, Shape
<1>3. \A w \in Workers : ~HandlerStep(w, m)
  <2>1. \A w \in Workers : Pc(w, m) = "none" BY <1>1, <1>2 DEF Attended, Live
  <2> QED BY <2>1, HandlerMoves
<1>4. ~Claimable(turn[m]) /\ ~Claimable(reply[m])
  BY <1>2 DEF Claimable, Waiting, Live
<1>5. ~Live(turn'[m]) BY <1>2, <1>3, <1>4, TurnGoes DEF Live
<1>6. ~Live(reply'[m]) BY <1>2, <1>3, <1>4, ReplyGoes
<1> QED BY <1>5, <1>6

(* What a turn had before it stays settled. *)
LEMMA ClearStays ==
    ASSUME TypeOK, Shape, Attended, [Next]_vars, NEW n \in Msgs, n \in Listed, Clear(n)
    PROVE  Clear(n)'
<1> SUFFICES ASSUME n \notin fell', NEW m \in Msgs, Older(m, n)' PROVE Settled(m)'
  BY DEF Clear
<1>1. n \notin fell BY PastGrows
<1>2. Older(m, n) BY QueueStep
<1>3. Settled(m) /\ m \in Listed BY <1>1, <1>2 DEF Clear, Older, Listed
<1> QED BY <1>3, SettledStays

(* The gate lets a turn pass when everything before it is settled. *)
LEMMA GateClears ==
    ASSUME TypeOK, Shape, NEW n \in Msgs, ~OlderWaiting(n)
    PROVE  Clear(n)
<1> SUFFICES ASSUME NEW m \in Msgs, Older(m, n) PROVE ~Live(turn[m]) /\ ~Live(reply[m])
  BY DEF Clear, Settled
<1>1. PICK i \in DOMAIN queue, j \in DOMAIN queue : i < j /\ queue[i] = m /\ queue[j] = n
  BY DEF Older
<1>2. m # n
  <2>1. queue[i] = queue[j] => i = j BY <1>1 DEF Shape
  <2>2. DOMAIN queue = 1 .. Len(queue) BY Columns, LenProperties
  <2>3. ~(i < i) BY <2>2
  <2> QED BY <1>1, <2>1, <2>3
<1> QED BY <1>2 DEF OlderWaiting

LEMMA ClearedStep == TypeOK /\ Shape /\ Attended /\ Cleared /\ [Next]_vars => Cleared'
<1> SUFFICES ASSUME TypeOK, Shape, Attended, Cleared, [Next]_vars PROVE Cleared' OBVIOUS
<1>1. /\ run \in [Workers -> [Msgs -> Runs]] /\ sent \in Seq(Msgs)
      /\ reply \in [Msgs -> RowOf(Workers)]
  BY Columns
<1>2. /\ \A w \in Workers, n \in Msgs : Pc(w, n) # "none" => n \in Listed
      /\ \A n \in Msgs : reply[n].st # "absent" => n \in Listed
      /\ \A i \in DOMAIN sent : sent[i] \in Listed
  BY DEF Shape
<1>3. ASSUME NEW w \in Workers, NEW n \in Msgs,
             run'[w][n].pc \in {"lock", "think", "reply", "commit", "finish"}
      PROVE  Clear(n)'
  <2>1. n \in Listed /\ Clear(n)
    <3>1. CASE run'[w][n] = run[w][n]
      BY <1>2, <1>3, <3>1 DEF Cleared, Working, Pc
    <3>2. ~ClaimTurn(w, n)
      <4>1. ASSUME ClaimTurn(w, n) PROVE run'[w][n].pc \in {"none", "gate"}
        BY <1>1, <4>1 DEF ClaimTurn, To, Pc, Runs
      <4> QED BY <1>3, <4>1
    <3>3. ~Crash(w) BY <1>1, <1>3 DEF Crash, Idle
    <3>4. CASE HandlerStep(w, n)
      <4>1. n \in Listed BY <1>2, <3>4, HandlerMoves
      <4>2. ASSUME NEW row, Return(w, n, row) PROVE FALSE
        BY <1>1, <1>3, <4>2 DEF Return, Idle
      <4>3. ASSUME NEW pastBound PROVE ~GiveWay(w, n, pastBound)
        <5>1. ASSUME To(w, n, "fallback") PROVE run'[w][n].pc = "fallback"
          BY <1>1, <5>1 DEF To, Runs
        <5> QED BY <1>3, <4>2, <5>1 DEF GiveWay
      <4>4. CASE Gate(w, n) BY <4>1, <4>3, <4>4, GateClears DEF Gate
      <4>5. ~Fallback(w, n) BY <4>2 DEF Fallback
      <4>6. Gate(w, n) \/ Pc(w, n) = "lock" \/ Working(w, n)
        BY <3>4, <4>2, <4>5
           DEF HandlerStep, TryLock, RunUnlocked, Think, CheckAbandoned, CommitReply,
               Finish, Throw, Working
      <4> QED BY <4>1, <4>4, <4>6 DEF Cleared
    <3> QED BY <3>1, <3>2, <3>3, <3>4, RunMoves
  <2> QED BY <2>1, ClearStays
<1>4. ASSUME NEW n \in Msgs, reply'[n].st # "absent" PROVE Clear(n)'
  <2>1. CASE reply[n].st # "absent" BY <1>2, <2>1, ClearStays DEF Cleared
  <2>2. CASE reply[n].st = "absent"
    <3>1. ~SendReply(n) BY <2>2 DEF SendReply, Claimable, Waiting
    <3>2. OpsRetry(n) => reply'[n] = reply[n]
      BY <1>1, <2>2 DEF OpsRetry, MayRetryDead
    <3>3. ASSUME NEW w \in Workers, Fallback(w, n) PROVE n \in fell'
      BY <3>3 DEF Fallback
    <3>4. ASSUME NEW w \in Workers, CommitReply(w, n) PROVE n \in Listed /\ Clear(n)
      BY <1>2, <3>4 DEF CommitReply, Cleared, Working
    <3>5. n \in fell' => Clear(n)' BY DEF Clear
    <3> QED BY <1>4, <2>2, <3>1, <3>2, <3>3, <3>4, <3>5, ClearStays, ReplyMoves
  <2> QED BY <2>1, <2>2
<1>5. ASSUME NEW n \in Msgs, NEW i \in DOMAIN sent', sent'[i] = n PROVE Clear(n)'
  <2>1. \A m \in Msgs : Claimable(reply[m]) => m \in Listed /\ Clear(m)
    BY <1>2 DEF Claimable, Waiting, Cleared
  <2>2. \A w \in Workers, m \in Msgs : Pc(w, m) = "think" => m \in Listed /\ Clear(m)
    BY <1>2 DEF Cleared, Working
  <2>3. n \in Listed /\ Clear(n)
    <3>1. CASE UNCHANGED sent BY <1>2, <1>5, <3>1 DEF Cleared
    <3>2. ASSUME NEW m \in Msgs, m \in Listed, Clear(m), sent' = Append(sent, m)
          PROVE  n \in Listed /\ Clear(n)
      <4>1. (i \in DOMAIN sent /\ sent[i] = n) \/ n = m
        BY <1>1, <1>5, <3>2, AppendProperties, LenProperties
      <4> QED BY <1>2, <3>2, <4>1 DEF Cleared
    <3> QED BY <2>1, <2>2, <3>1, <3>2, SentMoves
  <2> QED BY <2>3, ClearStays
<1>6. \A i \in DOMAIN sent' : sent'[i] \in Msgs
  <2>1. sent' \in Seq(Msgs)
    <3>1. \A m \in Msgs : Append(sent, m) \in Seq(Msgs) BY <1>1, AppendProperties
    <3> QED BY <1>1, <3>1, SentMoves
  <2> QED BY <2>1, ElementOfSeq, LenProperties
<1>7. \A i \in DOMAIN sent' : Clear(sent[i])'
  <2> SUFFICES ASSUME NEW i \in DOMAIN sent' PROVE Clear(sent[i])' OBVIOUS
  <2>1. PICK n \in Msgs : sent'[i] = n BY <1>6
  <2>2. Clear(n)' BY <1>5, <2>1
  <2> QED BY <2>1, <2>2 DEF Clear, Older
<1> QED BY <1>3, <1>4, <1>7 DEF Cleared, Working, Pc

(* No answer goes out before one that was still to come. *)
LEMMA OrderStep ==
    TypeOK /\ Shape /\ Attended /\ Cleared /\ RepliesInOrder /\ [Next]_vars => RepliesInOrder'
<1> SUFFICES ASSUME TypeOK, Shape, Attended, Cleared, RepliesInOrder, [Next]_vars,
                    NEW i \in DOMAIN sent', NEW j \in DOMAIN sent', i < j,
                    Older(sent[j], sent[i])'
             PROVE  sent'[i] \in fell' \/ sent'[j] \in died'
  BY DEF RepliesInOrder
<1>1. /\ sent \in Seq(Msgs) /\ \A k \in DOMAIN sent : sent[k] \in Msgs /\ sent[k] \in Listed
  BY Columns, ElementOfSeq, LenProperties DEF Shape
<1>2. ASSUME NEW m \in Msgs, NEW n \in Msgs, n \in Listed, sent'[j] = m, sent'[i] = n
      PROVE  Older(m, n)
  <2>1. Older(m, n)' BY <1>2 DEF Older
  <2> QED BY <1>2, <2>1, QueueStep
<1>3. CASE UNCHANGED sent
  <2>1. Older(sent[j], sent[i]) BY <1>1, <1>2, <1>3
  <2>2. sent[i] \in fell \/ sent[j] \in died BY <1>3, <2>1 DEF RepliesInOrder
  <2> QED BY <1>3, <2>2, PastGrows
<1>4. ASSUME NEW m \in Msgs, sent' = Append(sent, m), m \in died \/ ~Settled(m)
      PROVE  sent'[i] \in fell' \/ sent'[j] \in died'
  <2>1. /\ DOMAIN sent = 1 .. Len(sent) /\ DOMAIN sent' = 1 .. (Len(sent) + 1)
        /\ Len(sent) \in Nat /\ sent'[Len(sent) + 1] = m
        /\ \A k \in 1 .. Len(sent) : sent'[k] = sent[k]
    BY <1>1, <1>4, AppendProperties, LenProperties
  <2>2. i \in DOMAIN sent /\ sent'[i] = sent[i] BY <2>1
  <2>3. CASE j \in DOMAIN sent
    <3>1. sent'[j] = sent[j] BY <2>1, <2>3
    <3>2. Older(sent[j], sent[i]) BY <1>1, <1>2, <2>2, <2>3, <3>1
    <3>3. sent[i] \in fell \/ sent[j] \in died BY <2>2, <2>3, <3>2 DEF RepliesInOrder
    <3> QED BY <2>2, <3>1, <3>3, PastGrows
  <2>4. CASE j \notin DOMAIN sent
    <3>1. sent'[j] = m BY <2>1, <2>4
    <3>2. Older(m, sent[i]) BY <1>1, <1>2, <2>2, <3>1
    <3>3. sent[i] \in fell \/ Settled(m) BY <2>2, <3>2 DEF Cleared, Clear
    <3> QED BY <1>4, <2>2, <3>1, <3>3, PastGrows
  <2> QED BY <2>3, <2>4
<1>5. ASSUME NEW m \in Msgs, Claimable(reply[m]) PROVE ~Settled(m) \/ m \in died
  BY <1>5 DEF Claimable, Waiting, Settled, Live
<1>6. ASSUME NEW w \in Workers, NEW m \in Msgs, Pc(w, m) = "think"
      PROVE  ~Settled(m) \/ m \in died
  BY <1>6 DEF Attended, Settled, Live
<1> QED BY <1>3, <1>4, <1>5, <1>6, SentMoves

-----------------------------------------------------------------------------
(* Every behaviour stays inside the invariant. *)
THEOREM AgentTurnsInvariant == Spec => []Inv
<1>1. Init => Inv
  <2> SUFFICES ASSUME Init PROVE Inv OBVIOUS
  <2>1. Locked BY DEF Init, Locked, Idle, Working, Pc
  <2>2. Attended BY DEF Init, Attended, Idle, Pc, Queued, Absent
  <2>3. Cleared BY DEF Init, Cleared, Idle, Pc, Working, Absent
  <2> QED BY <2>1, <2>2, <2>3, TypeInit, ShapeInit DEF Inv
<1>2. Inv /\ [Next]_vars => Inv'
  BY TypeStep, ShapeStep, LockedStep, AttendedStep, ClearedStep DEF Inv
<1> QED BY <1>1, <1>2, PTL DEF Spec

THEOREM TurnTypes == Spec => []TypeOK
<1>1. Inv => TypeOK BY DEF Inv
<1> QED BY <1>1, AgentTurnsInvariant, PTL

(* However often Meta posts a message, and whatever fails in between, what was
   acknowledged has one turn or was dropped on purpose, and what was dropped is
   not taken for queued when it comes again. *)
THEOREM InboundIsExactlyOnce == Spec => []InboundExactlyOnce
<1>1. Inv => InboundExactlyOnce BY DEF Inv, Shape, InboundExactlyOnce, Listed
<1> QED BY <1>1, AgentTurnsInvariant, PTL

(* Ghosts and revived turns included, no two turns run at once unless Redis
   let one run without the lock. *)
THEOREM OneTurnAtATime == Spec => []TurnsAlone
<1>1. Inv => TurnsAlone
  <2> SUFFICES ASSUME Inv, NEW w \in Workers, NEW v \in Workers, NEW m \in Msgs,
                      NEW n \in Msgs, Working(w, m), Working(v, n), m \notin bare,
                      n \notin bare
               PROVE  w = v /\ m = n
    BY DEF TurnsAlone
  <2>1. run[w][m].held /\ run[v][n].held BY DEF Inv, Locked
  <2>2. m = n BY <2>1 DEF Inv, Locked
  <2> QED BY <2>1, <2>2 DEF Inv, Locked
<1> QED BY <1>1, AgentTurnsInvariant, PTL

(* A save drops nothing that another turn saved, until a turn runs unlocked. *)
THEOREM SavesKeepHistory == Spec => HistoryKept
<1>1. Inv /\ [Next]_vars => [bare' = {} => history \subseteq history']_vars
  <2> SUFFICES ASSUME Inv, [Next]_vars, bare' = {}, history' # history
               PROVE  history \subseteq history'
    OBVIOUS
  <2>1. TypeOK /\ Locked BY DEF Inv
  <2>2. PICK w \in Workers, m \in Msgs : HandlerStep(w, m)
    BY <2>1, LockMoves DEF LockExpires
  <2>3. Works(w, m) /\ Pc(w, m) = "think"
    BY <2>1, <2>2, HoldMoves DEF Leaves, Takes, RunsBare, Works
  <2>4. run[w][m].saw = history BY <2>1, <2>3 DEF Locked, Works
  <2>5. Think(w, m)
    BY <2>2, <2>3
       DEF HandlerStep, Gate, TryLock, RunUnlocked, Fallback, CheckAbandoned,
           CommitReply, Finish, Throw
  <2> QED BY <2>4, <2>5 DEF Think
<1> QED BY <1>1, AgentTurnsInvariant, PTL DEF Spec, HistoryKept

(* The customer reads the answers in the order of the questions, except past
   the wait bound and past a dead row. *)
THEOREM RepliesAreInOrder == Spec => []RepliesInOrder
<1>1. Init => RepliesInOrder BY DEF Init, RepliesInOrder
<1>2. Inv /\ RepliesInOrder /\ [Next]_vars => RepliesInOrder' BY OrderStep DEF Inv
<1> QED BY <1>1, <1>2, AgentTurnsInvariant, PTL DEF Spec
-----------------------------------------------------------------------------
(* No message is forgotten.  Until its row has been dead, a turn that is done, or
   about to be, left its answer or a reply row, and a reply row that is done
   was sent. *)
Kept ==
    \A m \in Msgs \ died :
        /\ turn[m].st = "done" => m \in Answers \/ Live(reply[m])
        /\ reply[m].st = "done" => m \in Answers
        /\ \A w \in Workers : Pc(w, m) = "finish" => m \in Answers \/ reply[m].st # "absent"

(* What was sent stays sent. *)
LEMMA AnswersGrow ==
    ASSUME TypeOK, [Next]_vars
    PROVE  /\ Answers \subseteq Answers'
           /\ \A m \in Msgs : sent' = Append(sent, m) => m \in Answers'
<1>1. sent \in Seq(Msgs) BY Columns
<1>2. ASSUME NEW m \in Msgs, sent' = Append(sent, m)
      PROVE  Answers \subseteq Answers' /\ m \in Answers'
  <2>1. /\ DOMAIN sent = 1 .. Len(sent) /\ DOMAIN sent' = 1 .. (Len(sent) + 1)
        /\ Len(sent) \in Nat /\ sent'[Len(sent) + 1] = m
        /\ \A k \in 1 .. Len(sent) : sent'[k] = sent[k]
    BY <1>1, <1>2, AppendProperties, LenProperties
  <2>2. Len(sent) + 1 \in DOMAIN sent' /\ DOMAIN sent \subseteq DOMAIN sent' BY <2>1
  <2> QED BY <2>1, <2>2 DEF Answers
<1>3. UNCHANGED sent => Answers' = Answers BY DEF Answers
<1> QED BY <1>2, <1>3, SentMoves

(* A reply row, once there, stays, and is done only when it was sent. *)
LEMMA RepliesAreSent ==
    ASSUME TypeOK, Shape, Attended, Kept, [Next]_vars, NEW m \in Msgs \ died'
    PROVE  /\ reply'[m].st = "done" => m \in Answers'
           /\ reply[m].st # "absent" => reply'[m].st # "absent"
           /\ reply'[m].st # "absent" => m \in Answers' \/ Live(reply'[m])
<1>1. m \in Msgs /\ m \notin died BY PastGrows
<1>2. reply \in [Msgs -> RowOf(Workers)] /\ reply[m] \in RowOf(Workers) BY <1>1, Columns
<1>3. /\ reply'[m].st = "done" => m \in Answers'
      /\ reply[m].st # "absent" => reply'[m].st # "absent"
  <2>1. CASE reply'[m] = reply[m] BY <1>1, <2>1, AnswersGrow DEF Kept
  <2>2. ASSUME NEW w \in Workers, Fallback(w, m) \/ CommitReply(w, m)
        PROVE  reply'[m] = reply[m] \/ reply'[m].st = "pending"
    <3>1. reply'[m] = Enqueue(reply[m]) BY <1>1, <1>2, <2>2 DEF Fallback, CommitReply
    <3> QED BY <3>1 DEF Enqueue, Queued, Absent
  <2>3. CASE SendReply(m)
    <3> DEFINE row == Claimed(reply[m], NoOwner)
    <3>1. NoOwner \in Workers \cup {NoOwner} OBVIOUS
    <3>2. row \in RowOf(Workers) /\ row.st = "processing"
      BY <1>2, <3>1, RowTypes DEF Claimed
    <3>3. MarkFailed(row, Ceiling).st \in {"failed", "dead"} BY <3>2, RowColumns
    <3>4. MarkDone(row).st = "done" BY <3>2, RowColumns
    <3>5. \/ reply'[m] \in {row, MarkFailed(row, Ceiling)}
          \/ reply'[m] = MarkDone(row) /\ sent' = Append(sent, m)
      BY <1>1, <1>2, <2>3 DEF SendReply
    <3> HIDE DEF row
    <3> QED BY <1>1, <3>2, <3>3, <3>4, <3>5, AnswersGrow
  <2>4. ~OpsRetry(m) \/ reply'[m] = reply[m]
    BY <1>1, <1>2 DEF OpsRetry, MayRetryDead, Attended
  <2> QED BY <1>1, <2>1, <2>2, <2>3, <2>4, ReplyMoves
<1>4. reply'[m].st # "dead" BY ReplyGoes
<1>5. reply'[m] \in RowOf(Workers)
  <2>1. TypeOK' BY TypeStep
  <2> QED BY <1>1, <2>1 DEF TypeOK, RowOf
<1> QED BY <1>3, <1>4, <1>5 DEF Live, RowOf, RowState

(* Every step keeps the promise. *)
LEMMA KeptStep == TypeOK /\ Shape /\ Attended /\ Kept /\ [Next]_vars => Kept'
<1> SUFFICES ASSUME TypeOK, Shape, Attended, Kept, [Next]_vars, NEW m \in Msgs \ died'
             PROVE  /\ turn'[m].st = "done" => m \in Answers' \/ Live(reply'[m])
                    /\ reply'[m].st = "done" => m \in Answers'
                    /\ \A w \in Workers : run'[w][m].pc = "finish" =>
                          m \in Answers' \/ reply'[m].st # "absent"
  BY DEF Kept, Pc
<1>1. m \in Msgs /\ m \notin died BY PastGrows
<1>2. /\ turn \in [Msgs -> RowOf(Workers)] /\ turn[m] \in RowOf(Workers)
      /\ run \in [Workers -> [Msgs -> Runs]] /\ reply \in [Msgs -> RowOf(Workers)]
  BY <1>1, Columns
<1>3. ASSUME NEW w \in Workers, run'[w][m].pc = "finish"
      PROVE  m \in Answers' \/ reply'[m].st # "absent"
  <2>1. CASE run'[w][m] = run[w][m]
    BY <1>1, <1>3, <2>1, AnswersGrow, RepliesAreSent DEF Kept, Pc
  <2>2. ~ClaimTurn(w, m)
    <3>1. ASSUME ClaimTurn(w, m) PROVE run'[w][m].pc \in {"none", "gate"}
      BY <1>1, <1>2, <3>1 DEF ClaimTurn, To, Pc, Runs
    <3> QED BY <1>3, <3>1
  <2>3. ~Crash(w) BY <1>1, <1>2, <1>3 DEF Crash, Idle
  <2>4. CASE HandlerStep(w, m)
    <3>1. ASSUME NEW row, Return(w, m, row) PROVE FALSE
      BY <1>1, <1>2, <1>3, <3>1 DEF Return, Idle
    <3>2. ASSUME NEW pc, pc # "finish", To(w, m, pc) PROVE FALSE
      BY <1>1, <1>2, <1>3, <3>2 DEF To, Runs
    <3>3. ASSUME NEW held, Thinking(w, m, held) PROVE FALSE
      BY <1>1, <1>2, <1>3, <3>3 DEF Thinking, Runs
    <3>4. ~Gate(w, m)
      <4>1. ASSUME Gate(w, m), ~OlderWaiting(m) PROVE FALSE
        <5>1. run'[w][m] = [run[w][m] EXCEPT !.pc = "lock", !.late = m \in late]
          BY <1>1, <1>2, <4>1 DEF Gate
        <5>2. run'[w][m].pc = "lock" BY <1>1, <1>2, <5>1 DEF Runs
        <5> QED BY <1>3, <5>2
      <4> QED BY <3>1, <3>2, <4>1 DEF Gate, GiveWay
    <3>5. ~TryLock(w, m) /\ ~RunUnlocked(w, m)
      BY <3>1, <3>2, <3>3 DEF TryLock, RunUnlocked, GiveWay
    <3>6. ~Fallback(w, m) /\ ~Finish(w, m) /\ ~Throw(w, m)
      BY <3>1 DEF Fallback, Finish, Throw
    <3>7. CASE Think(w, m) BY <1>1, <3>2, <3>7, AnswersGrow DEF Think
    <3>8. ~CheckAbandoned(w, m)
      BY <1>1, <3>2 DEF CheckAbandoned, Attended, Awaits
    <3>9. CASE CommitReply(w, m)
      <4>1. reply'[m] = Enqueue(reply[m]) BY <1>1, <1>2, <3>9 DEF CommitReply
      <4> QED BY <4>1 DEF Enqueue, Queued, Absent
    <3> QED BY <2>4, <3>4, <3>5, <3>6, <3>7, <3>8, <3>9 DEF HandlerStep
  <2> QED BY <1>1, <2>1, <2>2, <2>3, <2>4, RunMoves
<1>4. ASSUME turn'[m].st = "done" PROVE m \in Answers' \/ Live(reply'[m])
  <2>1. CASE turn[m].st = "done"
    <3>1. m \in Answers \/ reply[m].st # "absent" BY <1>1, <2>1 DEF Kept, Live
    <3> QED BY <3>1, AnswersGrow, RepliesAreSent
  <2>2. CASE turn[m].st # "done"
    <3>1. PICK w \in Workers : HandlerStep(w, m) BY <1>4, <2>2, TurnGoes
    <3>2. PICK row \in {MarkDone(turn[m]), DeferUncharged(turn[m]),
                        MarkFailed(turn[m], Ceiling)} : Return(w, m, row)
      BY <1>1, <1>4, <2>2, <3>1, HandlerMoves
    <3>3. ASSUME NEW x, Return(w, m, x) PROVE x.st = "done"
      BY <1>1, <1>2, <1>4, <2>2, <3>3 DEF Return
    <3>4. /\ DeferUncharged(turn[m]).st = "pending"
          /\ MarkFailed(turn[m], Ceiling).st \in {"failed", "dead"}
      BY <1>2, RowColumns
    <3>5. ~Throw(w, m) BY <3>3, <3>4 DEF Throw
    <3>6. ASSUME NEW pastBound PROVE ~GiveWay(w, m, pastBound)
      BY <1>1, <1>2, <1>4, <2>2, <3>3, <3>4 DEF GiveWay
    <3>7. Fallback(w, m) \/ Finish(w, m)
      BY <1>1, <1>4, <2>2, <3>1, <3>5, <3>6
         DEF HandlerStep, Gate, TryLock, RunUnlocked, Think, CheckAbandoned, CommitReply,
             past
    <3>8. CASE Fallback(w, m)
      <4>1. reply'[m] = Enqueue(reply[m]) BY <1>1, <1>2, <3>8 DEF Fallback
      <4>2. reply'[m].st # "absent" BY <4>1 DEF Enqueue, Queued, Absent
      <4> QED BY <4>2, RepliesAreSent
    <3>9. CASE Finish(w, m)
      <4>1. m \in Answers \/ reply[m].st # "absent" BY <1>1, <3>9 DEF Finish, Kept
      <4> QED BY <4>1, AnswersGrow, RepliesAreSent
    <3> QED BY <3>7, <3>8, <3>9
  <2> QED BY <2>1, <2>2
<1> QED BY <1>3, <1>4, RepliesAreSent

(* Whatever got a row is answered, known dead, or still going to be run:
   what the liveness of the answers rests on. *)
THEOREM NobodyIsLeft == Spec => []NobodyIsForgotten
<1>1. Init => Kept BY DEF Init, Kept, Pc, Idle, Queued, Absent
<1>2. Inv /\ Kept => NobodyIsForgotten
  <2> SUFFICES ASSUME Inv, Kept, NEW m \in Msgs, turn[m].st # "absent",
                      m \notin died, m \notin Answers
               PROVE  Live(turn[m]) \/ Live(reply[m])
    BY DEF NobodyIsForgotten
  <2>1. turn[m] \in RowOf(Workers) BY Columns DEF Inv
  <2>2. turn[m].st # "dead"
    BY DEF Inv, Attended
  <2> QED BY <2>1, <2>2 DEF Kept, Live, RowOf, RowState
<1>3. Inv /\ Kept /\ [Next]_vars => Kept' BY KeptStep DEF Inv
<1> QED BY <1>1, <1>2, <1>3, AgentTurnsInvariant, PTL DEF Spec
=============================================================================
