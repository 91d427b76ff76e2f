------------------------------ MODULE MintOnce ------------------------------
(***************************************************************************)
(* What every mint path promises the ledger: a key (a draft, a schedule's  *)
(* day, a payment link, an API key) becomes at most one transfer, for good,*)
(* and a caller is told of a transfer only when its key has become it.     *)
(***************************************************************************)
CONSTANTS
    Ids, Nobody,
    KeyOf     \* the key each id is for

VARIABLES
    minted,   \* the transfers a key has become
    named     \* the transfer each caller was told of

Keys == {KeyOf[i] : i \in Ids}

Init ==
    /\ minted = [k \in Keys |-> {}]
    /\ named = [r \in Ids |-> Nobody]

Become(i) ==
    /\ minted[KeyOf[i]] = {}
    /\ minted' = [minted EXCEPT ![KeyOf[i]] = {i}]
    /\ UNCHANGED named

Tell(r) ==
    /\ named[r] = Nobody
    /\ \E i \in minted[KeyOf[r]] : named' = [named EXCEPT ![r] = i]
    /\ UNCHANGED minted

Next == \E r \in Ids : Become(r) \/ Tell(r)

Spec == Init /\ [][Next]_<<minted, named>>
=============================================================================
