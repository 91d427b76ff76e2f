-------------------------- MODULE OutboxRowProofs --------------------------
(* Facts about the outbox's statements, cited by the proofs of the modules
   that use them. *)
EXTENDS OutboxRow, TLAPS

RowOf(Owners) == [st : RowState, attempts : Nat, locked : BOOLEAN,
                  lease : Owners \cup {NoOwner}]

(* Every statement returns a row of the table. *)
LEMMA RowTypes ==
    ASSUME NEW Owners, NEW x \in RowOf(Owners)
    PROVE  /\ Queued \in RowOf(Owners) /\ Absent \in RowOf(Owners)
           /\ Enqueue(x) \in RowOf(Owners) /\ MarkDone(x) \in RowOf(Owners)
           /\ \A w \in Owners \cup {NoOwner} : Claimed(x, w) \in RowOf(Owners)
           /\ \A n \in Nat : MarkFailed(x, n) \in RowOf(Owners)
           /\ ReleaseUnstarted(x) \in RowOf(Owners)
           /\ DeferUncharged(x) \in RowOf(Owners) /\ RetryDead(x) \in RowOf(Owners)
<1> USE DEF RowOf, RowState
<1>1. Queued \in RowOf(Owners) /\ Absent \in RowOf(Owners) BY DEF Queued, Absent
<1>2. Enqueue(x) \in RowOf(Owners) BY <1>1 DEF Enqueue
<1>3. \A w \in Owners \cup {NoOwner} : Claimed(x, w) \in RowOf(Owners) BY DEF Claimed
<1>4. MarkDone(x) \in RowOf(Owners) BY DEF MarkDone
<1>5. ASSUME NEW n \in Nat PROVE MarkFailed(x, n) \in RowOf(Owners)
  <2>1. CASE x.attempts >= n BY <2>1 DEF MarkFailed
  <2>2. CASE ~(x.attempts >= n) BY <2>2 DEF MarkFailed
  <2> QED BY <2>1, <2>2
<1>6. Refunded(x) \in RowOf(Owners)
  <2>1. CASE x.attempts = 0 BY <2>1 DEF Refunded
  <2>2. CASE x.attempts # 0
    <3>1. x.attempts - 1 \in Nat BY <2>2
    <3> QED BY <2>2, <3>1 DEF Refunded
  <2> QED BY <2>1, <2>2
<1>7. ReleaseUnstarted(x) \in RowOf(Owners) BY <1>6 DEF ReleaseUnstarted
<1>8. DeferUncharged(x) \in RowOf(Owners) BY <1>6 DEF DeferUncharged
<1>9. RetryDead(x) \in RowOf(Owners) BY DEF RetryDead
<1> QED BY <1>1, <1>2, <1>3, <1>4, <1>5, <1>7, <1>8, <1>9

(* What a statement does to the columns the proofs read. *)
LEMMA RowColumns ==
    ASSUME NEW Owners, NEW x \in RowOf(Owners)
    PROVE  /\ Queued.st = "pending" /\ Queued.attempts = 0
           /\ \A w : /\ Claimed(x, w).st = "processing" /\ Claimed(x, w).lease = w
                     /\ Claimed(x, w).attempts = x.attempts + 1
           /\ MarkDone(x).st = "done" /\ MarkDone(x).attempts = x.attempts
           /\ \A n \in Nat : /\ MarkFailed(x, n).st \in {"failed", "dead"}
                             /\ MarkFailed(x, n).attempts = x.attempts
           /\ RetryDead(x).st = "pending"
           /\ \A y \in {ReleaseUnstarted(x), DeferUncharged(x)} :
                 /\ y.st = "pending"
                 /\ y.attempts = IF x.attempts = 0 THEN 0 ELSE x.attempts - 1
<1> USE DEF RowOf
<1>1. Queued.st = "pending" /\ Queued.attempts = 0 BY DEF Queued, Absent
<1>2. \A w : /\ Claimed(x, w).st = "processing" /\ Claimed(x, w).lease = w
             /\ Claimed(x, w).attempts = x.attempts + 1
  BY DEF Claimed
<1>3. MarkDone(x).st = "done" /\ MarkDone(x).attempts = x.attempts BY DEF MarkDone
<1>4. \A n \in Nat : /\ MarkFailed(x, n).st \in {"failed", "dead"}
                     /\ MarkFailed(x, n).attempts = x.attempts
  BY DEF MarkFailed
<1>5. RetryDead(x).st = "pending" BY DEF RetryDead
<1>6. /\ Refunded(x).st = "pending"
      /\ Refunded(x).attempts = IF x.attempts = 0 THEN 0 ELSE x.attempts - 1
  BY DEF Refunded
<1>7. DeferUncharged(x).st = "pending" /\ DeferUncharged(x).attempts = Refunded(x).attempts
  BY DEF DeferUncharged, Refunded
<1> QED BY <1>1, <1>2, <1>3, <1>4, <1>5, <1>6, <1>7 DEF ReleaseUnstarted
=============================================================================
