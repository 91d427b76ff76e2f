CONSTANTS
    Payers = {p1, p2}
    Crons = {c1, c2}
    Linkers = {l1, l2}
    Callers = {a1, a2}
    Apps = {x1, x2}
    Chats = {h1}
    Desks = {d1, d2}
    Casts = {{p1, p2, x1, x2, h1}, {c1, c2, d1, d2}, {l1, l2, a1}, {a1, a2, p1}, {p1, c1, l1}}
    MaxActs = 3
    Cap = 1
    Nobody = Nobody
SPECIFICATION Spec
INVARIANTS TypeOK CapHolds CancelHolds LostDraftIsMinted LinkFollowsClaim RunMeansMinted
PROPERTIES KeepsPromise CancelledStaysCancelled StoppedNeverMints
CHECK_DEADLOCK FALSE
